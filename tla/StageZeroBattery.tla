-------------------------- MODULE StageZeroBattery --------------------------
(***************************************************************************)
(* run_full_battery (crypto_stage0_checks.py) for one pair: account and    *)
(* pair checks, then one GTC limit probe and one stop-limit probe.  Each   *)
(* probe is a real paper order that is placed, seen to rest, cancelled,    *)
(* confirmed cancelled and audited for what it may have bought; the broker *)
(* moves between any two of these calls.  An exception is an outcome of    *)
(* every call, and a call that raises may have reached the broker.         *)
(***************************************************************************)
EXTENDS AlpacaOrders

CONSTANTS
    ProbeQty,  \* the quantity of a probe order
    MaxHeld    \* bound on the position in the pair

ASSUME BatteryAssumption == ProbeQty \in Nat \ {0} /\ MaxHeld \in Nat

VARIABLES
    held,    \* the account's position in the pair
    battery, \* the run of the battery
    probe    \* per transactional step, its order at the broker

bvars == <<held, battery, probe>>

Probes == {"gtc_order_acceptance", "stop_limit_acceptance"}

Checks == {"crypto_account_status", "pair_snapshot"} \union Probes

StepStatus == {"none", "PASS", "FAIL", "SKIP", "ERROR"}

\* seen: the status a probe was last seen in; at: where its lifecycle stands.
Battery == [at: {"idle", "account", "snapshot", "place", "accept", "cancel", "wait",
                 "state", "position", "done"},
            step: Probes, seen: OrderStatuses, dry: BOOLEAN,
            steps: [Checks -> StepStatus]]

FreshBattery == [at |-> "idle", step |-> "gtc_order_acceptance", seen |-> "none",
                 dry |-> FALSE, steps |-> [c \in Checks |-> "none"]]

NoProbe == [status |-> "none", filled |-> 0]

\* The order of the probe in progress.
Now == probe[battery.step]

\* all_passed: every required step; buying power and data parity are not required.
AllPassed == \A c \in Checks : battery.steps[c] = "PASS"

-----------------------------------------------------------------------------
(* The runner.                                                             *)

\* A step ends: its result is filed and the next one begins, or the report is made.
Conclude(result) ==
    battery' = [battery EXCEPT
                  !.steps[battery.step] = result,
                  !.seen = "none",
                  !.step = "stop_limit_acceptance",
                  !.at = IF battery.step = "stop_limit_acceptance" THEN "done" ELSE "place"]

\* On a paper broker only.
BatteryBegins ==
    /\ battery.at = "idle"
    /\ \E dry \in BOOLEAN :
          battery' = [FreshBattery EXCEPT !.at = "account", !.dry = dry]
    /\ UNCHANGED <<held, probe>>

\* The account is not active or crypto is off: filed, and the battery goes on.  An account
\* that cannot be read, or is not a paper one, ends it.
AccountChecked ==
    /\ battery.at = "account"
    /\ \E result \in {"PASS", "FAIL", "ERROR"} :
          battery' = [battery EXCEPT !.steps["crypto_account_status"] = result,
                                     !.at = IF result = "ERROR" THEN "done" ELSE "snapshot"]
    /\ UNCHANGED <<held, probe>>

\* The pair's grid is read; a dry run skips both probes.
SnapshotChecked ==
    /\ battery.at = "snapshot"
    /\ \E result \in {"PASS", "FAIL"} :
          LET steps == [battery.steps EXCEPT !["pair_snapshot"] = result] IN
             battery' =
               IF battery.dry
               THEN [battery EXCEPT !.at = "done",
                                    !.steps = [c \in Checks |-> IF c \in Probes THEN "SKIP"
                                                                ELSE steps[c]]]
               ELSE [battery EXCEPT !.at = "place", !.steps = steps]
    /\ UNCHANGED <<held, probe>>

-----------------------------------------------------------------------------
(* _place_probe_and_confirm_cleanup.                                       *)

\* The broker books the probe and answers with its status; it may have filled by then.
ProbePlaced ==
    /\ battery.at = "place"
    /\ \E order \in SubmitAnswers(ProbeQty) :
          /\ held + order.filled <= MaxHeld /\ held' = held + order.filled
          /\ probe' = [probe EXCEPT ![battery.step] = order]
          /\ battery' = [battery EXCEPT !.at = "accept", !.seen = order.status]

\* The grid, a fresh quote or the order cannot be had; a reply may have been lost.
ProbeRaises ==
    /\ battery.at = "place"
    /\ probe' \in {probe, [probe EXCEPT ![battery.step].status = "pending_new"]}
    /\ Conclude("FAIL")
    /\ UNCHANGED held

\* A pending probe is polled.
ProbePolled ==
    /\ battery.at = "accept" /\ battery.seen \in {"pending_new", "pending_cancel"}
    /\ battery' = [battery EXCEPT !.seen = Now.status]
    /\ UNCHANGED <<held, probe>>

\* It rests: on to its cancel.
ProbeRests ==
    /\ battery.at = "accept" /\ IsRestingOrderStatus(battery.seen)
    /\ battery' = [battery EXCEPT !.at = "cancel"]
    /\ UNCHANGED <<held, probe>>

\* It filled, was refused, or is still pending when the polls end or one raises: a failure,
\* and nothing is cancelled.
ProbeRejected ==
    /\ battery.at = "accept" /\ ~IsRestingOrderStatus(battery.seen)
    /\ Conclude("FAIL")
    /\ UNCHANGED <<held, probe>>

\* cancel_order, whether it raises or not; the request may not have arrived if it did.
ProbeCancelled ==
    /\ battery.at = "cancel"
    /\ probe' \in {probe, [probe EXCEPT ![battery.step].status = AfterCancelRequest(@)]}
    /\ battery' = [battery EXCEPT !.at = "wait"]
    /\ UNCHANGED held

\* Faulty: a cancel request that did not raise is taken for a cancelled order.
CancelAssumed(status) == status # "new"

CancelSeen(status) == CancelConfirmed(status)

ProbeCancelConfirmed ==
    /\ battery.at = "wait" /\ CancelSeen(Now.status)
    /\ battery' = [battery EXCEPT !.at = "state"]
    /\ UNCHANGED <<held, probe>>

\* Another end, or the timeout.
ProbeCancelUnconfirmed ==
    /\ battery.at = "wait"
    /\ Conclude("FAIL")
    /\ UNCHANGED <<held, probe>>

\* _check_residual_exposure, first call: the order's fills.
ProbeStateClean ==
    /\ battery.at = "state" /\ Now.filled = 0
    /\ battery' = [battery EXCEPT !.at = "position"]
    /\ UNCHANGED <<held, probe>>

\* The order filled, or could not be read.
ProbeStateFails ==
    /\ battery.at = "state"
    /\ Conclude("FAIL")
    /\ UNCHANGED <<held, probe>>

\* Second call: the position; then the fields the broker confirmed.
ProbePasses ==
    /\ battery.at = "position" /\ held = 0
    /\ Conclude("PASS")
    /\ UNCHANGED <<held, probe>>

\* A position, a failed lookup, or a field that is not what was asked for.
ProbePositionFails ==
    /\ battery.at = "position"
    /\ Conclude("FAIL")
    /\ UNCHANGED <<held, probe>>

-----------------------------------------------------------------------------
(* The broker.                                                             *)

ProbeMoves(k) ==
    /\ \E status \in BrokerMoves(probe[k].status) :
          probe' = [probe EXCEPT ![k].status = status]
    /\ UNCHANGED <<held, battery>>

\* A probe buys one unit.
ProbeFills(k) ==
    /\ probe[k].status \in LiveStatuses \ {"pending_new"} /\ held < MaxHeld
    /\ held' = held + 1
    /\ probe' = [probe EXCEPT
                   ![k].filled = @ + 1,
                   ![k].status = IF probe[k].filled + 1 = ProbeQty THEN "filled"
                                 ELSE IF @ = "pending_cancel" THEN @
                                 ELSE "partially_filled"]
    /\ UNCHANGED battery

BatteryInit ==
    /\ held = 0
    /\ battery = FreshBattery
    /\ probe = [k \in Probes |-> NoProbe]

BatteryStep ==
    \/ AccountChecked \/ SnapshotChecked
    \/ ProbePlaced \/ ProbeRaises \/ ProbePolled \/ ProbeRests \/ ProbeRejected
    \/ ProbeCancelled \/ ProbeCancelConfirmed \/ ProbeCancelUnconfirmed
    \/ ProbeStateClean \/ ProbeStateFails \/ ProbePasses \/ ProbePositionFails

ProbeBrokerStep == \E k \in Probes : ProbeMoves(k) \/ ProbeFills(k)

-----------------------------------------------------------------------------
BatteryTypeOK ==
    /\ held \in 0..MaxHeld
    /\ battery \in Battery
    /\ probe \in [Probes -> [status: OrderStatuses, filled: 0..ProbeQty]]

\* A probe that passed left nothing in the account: its order is gone for good and bought
\* nothing, whatever the broker did between the calls (docstrings of
\* _place_probe_and_confirm_cleanup and _check_residual_exposure).
PassedProbeLeftNothing ==
    \A k \in Probes :
        battery.steps[k] = "PASS" => probe[k] = [status |-> "canceled", filled |-> 0]
=============================================================================
