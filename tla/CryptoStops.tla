----------------------------- MODULE CryptoStops -----------------------------
(***************************************************************************)
(* Protective stops of one crypto pair (alpaca_broker.py).                 *)
(*                                                                         *)
(* A caller places and replaces GTC stop-limits; every broker call of      *)
(* place_crypto_stop_limit and replace_crypto_stop_limit is a step, and    *)
(* the broker, other traders and the coverage audit move between them.     *)
(* The audit reads positions and open orders in two calls and publishes    *)
(* what it makes of the pair.                                              *)
(*                                                                         *)
(* The caller is the one the docstrings ask for: it makes one call at a    *)
(* time, places a stop only when an audit that began after its last call   *)
(* found none at all, and replaces only a stop it knows from such an audit *)
(* or from the call that placed it.  It trades a pair whose battery has    *)
(* passed.                                                                 *)
(***************************************************************************)
EXTENDS StageZeroBattery, FiniteSets

CONSTANTS
    MaxOrders,   \* bound on the stops sent
    Increment,   \* min_trade_increment
    MinOrder,    \* min_order_size
    MaxFailures  \* bound on the failed audits

ASSUME StopsAssumption ==
    /\ MaxOrders \in Nat /\ MaxFailures \in Nat
    /\ Increment \in Nat \ {0} /\ MinOrder \in Nat \ {0}

VARIABLES
    stop,     \* per id, the stop at the broker
    caller,   \* the caller and its call in progress
    verdict,  \* what the last call told it
    auditor,  \* the audit in progress
    report    \* the last coverage report

tvars == <<stop, caller, verdict, auditor, report>>

vars == <<bvars, tvars>>

Ids == 1..MaxOrders

\* read: the position its placement was checked against.
NoStop == [status |-> "none", qty |-> 0, filled |-> 0, read |-> 0]

LiveStops == {s \in Ids : stop[s].status \in LiveStatuses}

Unused == {s \in Ids : stop[s].status = "none"}

\* The id a new stop gets.
NextId == CHOOSE s \in Unused : TRUE

Verdicts == {"none", "placed", "raised", "replaced", "cancel_unconfirmed",
             "unprotected_after_cancel"}

Kinds == {"none", "empty", "covered", "duplicate", "spec_lookup_failed", "partial",
          "non_resting_ignored", "uncovered"}

\* known: the stop the caller may replace, 0 if it knows none.
IdleCaller == [at |-> "idle", old |-> 0, qty |-> 0, read |-> 0, known |-> 0]

\* clean: no call was in progress since the audit began.
IdleAuditor == [at |-> "idle", read |-> 0, clean |-> FALSE, failures |-> 0]

\* fresh: no call has begun since the audit began.
NoReport == [kind |-> "none", fresh |-> FALSE, id |-> 0]

Trading == battery.at = "done" /\ AllPassed

-----------------------------------------------------------------------------
(* place_crypto_stop_limit and replace_crypto_stop_limit.                  *)

\* A call spoils the audit that overlaps it and the report that precedes it.
CallBegins ==
    /\ auditor' = [auditor EXCEPT !.clean = FALSE]
    /\ report' = [report EXCEPT !.fresh = FALSE]
    /\ verdict' = "none"

CallEnds(told, known) ==
    /\ verdict' = told
    /\ caller' = [IdleCaller EXCEPT !.known = known]

StartPlace(qty) ==
    /\ Trading /\ caller.at = "idle" /\ Unused # {}
    /\ report.fresh /\ report.kind = "uncovered"
    /\ caller' = [IdleCaller EXCEPT !.at = "read", !.qty = qty]
    /\ CallBegins
    /\ UNCHANGED <<held, battery, probe, stop>>

StartReplace(qty) ==
    /\ Trading /\ caller.at = "idle" /\ Unused # {}
    /\ caller.known # 0
    /\ caller' = [IdleCaller EXCEPT !.at = "cancel", !.qty = qty, !.old = caller.known]
    /\ CallBegins
    /\ UNCHANGED <<held, battery, probe, stop>>

\* cancel_order: the broker has the request, not yet the end.
CancelOld ==
    /\ caller.at = "cancel"
    /\ stop' = [stop EXCEPT ![caller.old].status = AfterCancelRequest(@)]
    /\ caller' = [caller EXCEPT !.at = "wait"]
    /\ UNCHANGED <<held, battery, probe, verdict, auditor, report>>

\* It raises, out of the whole call; the request may have arrived.
CancelOldRaises ==
    /\ caller.at = "cancel"
    /\ stop' \in {stop, [stop EXCEPT ![caller.old].status = AfterCancelRequest(@)]}
    /\ CallEnds("raised", 0)
    /\ UNCHANGED <<held, battery, probe, auditor, report>>

\* Faulty: the wait's timeout is taken for a confirmation.
ConfirmedByTimeout(status) == status \notin TerminalNonCancelStatuses

OldIsGone(status) == CancelConfirmed(status)

OldCancelConfirmed ==
    /\ caller.at = "wait" /\ OldIsGone(stop[caller.old].status)
    /\ caller' = [caller EXCEPT !.at = "read"]
    /\ UNCHANGED <<held, battery, probe, stop, verdict, auditor, report>>

\* Another end, or the timeout: the replacement is not sent.
OldCancelUnconfirmed ==
    /\ caller.at = "wait"
    /\ CallEnds("cancel_unconfirmed", 0)
    /\ UNCHANGED <<held, battery, probe, stop, auditor, report>>

\* What a failed placement is to the caller of each of the two functions.
Failure == IF caller.old = 0 THEN "raised" ELSE "unprotected_after_cancel"

\* Faulty: the requested quantity is not held against the position.
AnyQuantity(qty, position) == Snap(qty, Increment) >= MinOrder

\* crypto_no_short_violation, the grid and the minimum size.
Placeable(qty, position) == qty <= position /\ Snap(qty, Increment) >= MinOrder

\* get_position.
ReadsHeld ==
    /\ caller.at = "read" /\ Placeable(caller.qty, held)
    /\ caller' = [caller EXCEPT !.at = "submit", !.read = held]
    /\ UNCHANGED <<held, battery, probe, stop, verdict, auditor, report>>

\* The account, the prices, the quantity or the grid does not pass, or cannot be read.
PlacementRefused ==
    /\ caller.at = "read"
    /\ CallEnds(Failure, 0)
    /\ UNCHANGED <<held, battery, probe, stop, auditor, report>>

SubmitQty == Snap(caller.qty, Increment)

Sent(order) ==
    stop' = [stop EXCEPT ![NextId] = [status |-> order.status, filled |-> order.filled,
                                      read |-> caller.read, qty |-> SubmitQty]]

\* The answer carries the order: a replacement counts only if it already rests.
SubmitAnswered ==
    /\ caller.at = "submit"
    /\ \E order \in SubmitAnswers(SubmitQty) :
          /\ order.filled <= held /\ held' = held - order.filled
          /\ Sent(order)
          /\ IF caller.old = 0 THEN CallEnds("placed", NextId)
             ELSE IF IsRestingOrderStatus(order.status) THEN CallEnds("replaced", NextId)
             ELSE CallEnds("unprotected_after_cancel", 0)
    /\ UNCHANGED <<battery, probe, auditor, report>>

\* The submit raises; the order may have been booked.
SubmitRaises ==
    /\ caller.at = "submit"
    /\ stop' = stop \/ Sent([status |-> "pending_new", filled |-> 0])
    /\ CallEnds(Failure, 0)
    /\ UNCHANGED <<held, battery, probe, auditor, report>>

-----------------------------------------------------------------------------
(* _observe_crypto_stop_coverage and publish_stop_coverage_report.         *)

\* _is_qualifying_protective_stop; the open order listing has live orders only.
Qualifying == {s \in Ids : IsRestingOrderStatus(stop[s].status)}

\* Faulty: a position without any stop is no violation.
CoveredIfUnprotected(position) ==
    IF Qualifying = {} THEN {"covered"} ELSE {"spec_lookup_failed", "covered"}

\* What the audit may make of a position, the grid's lookup included.
Findings(position) ==
    IF Qualifying = {}
    THEN IF LiveStops = {} THEN {"uncovered"} ELSE {"non_resting_ignored"}
    ELSE IF Cardinality(Qualifying) > 1 THEN {"duplicate"}
    ELSE {"spec_lookup_failed",
          IF \A s \in Qualifying : stop[s].qty >= position - Increment
          THEN "covered" ELSE "partial"}

\* The report is published; a caller that trusts it knows the one stop it found.
Publish(kind, id) ==
    /\ report' = [kind |-> kind, fresh |-> auditor.clean, id |-> id]
    /\ auditor' = [IdleAuditor EXCEPT !.failures = auditor.failures]
    /\ caller' = IF auditor.clean THEN [caller EXCEPT !.known = id] ELSE caller

\* get_all_positions; without a position there is nothing to audit.
ReadsPositions ==
    /\ Trading /\ auditor.at = "idle"
    /\ auditor' = [auditor EXCEPT !.at = "orders", !.read = held,
                                  !.clean = caller.at = "idle"]
    /\ UNCHANGED <<held, battery, probe, stop, caller, verdict, report>>

ReportsEmpty ==
    /\ auditor.at = "orders" /\ auditor.read = 0
    /\ report' = [kind |-> "empty", fresh |-> auditor.clean, id |-> 0]
    /\ auditor' = [IdleAuditor EXCEPT !.failures = auditor.failures]
    /\ UNCHANGED <<held, battery, probe, stop, caller, verdict>>

\* get_open_orders_detailed and the verdict.
ReadsOrders ==
    /\ auditor.at = "orders" /\ auditor.read > 0
    /\ \E kind \in Findings(auditor.read) :
          Publish(kind, IF Cardinality(Qualifying) = 1
                        THEN CHOOSE s \in Qualifying : TRUE ELSE 0)
    /\ UNCHANGED <<held, battery, probe, stop, verdict>>

\* A read or the publication raises.
AuditFails ==
    /\ auditor.at = "orders" /\ auditor.failures < MaxFailures
    /\ auditor' = [IdleAuditor EXCEPT !.failures = auditor.failures + 1]
    /\ UNCHANGED <<held, battery, probe, stop, caller, verdict, report>>

AuditStep == ReadsPositions \/ ReportsEmpty \/ ReadsOrders \/ AuditFails

-----------------------------------------------------------------------------
(* The broker and the other traders.                                       *)

StopMoves(s) ==
    /\ \E status \in BrokerMoves(stop[s].status) : stop' = [stop EXCEPT ![s].status = status]
    /\ UNCHANGED <<held, battery, probe, caller, verdict, auditor, report>>

\* A triggered stop sells one unit; one whose cancel is pending may still do so.
StopFills(s) ==
    /\ stop[s].status \in LiveStatuses \ {"pending_new"} /\ held > 0
    /\ held' = held - 1
    /\ stop' = [stop EXCEPT
                  ![s].filled = @ + 1,
                  ![s].status = IF stop[s].filled + 1 = stop[s].qty THEN "filled"
                                ELSE IF @ = "pending_cancel" THEN @
                                ELSE "partially_filled"]
    /\ UNCHANGED <<battery, probe, caller, verdict, auditor, report>>

OthersBuy ==
    /\ Trading /\ held < MaxHeld
    /\ held' = held + 1
    /\ UNCHANGED <<battery, probe, stop, caller, verdict, auditor, report>>

OthersSell ==
    /\ Trading /\ held > 0
    /\ held' = held - 1
    /\ UNCHANGED <<battery, probe, stop, caller, verdict, auditor, report>>

Init ==
    /\ BatteryInit
    /\ stop = [s \in Ids |-> NoStop]
    /\ caller = IdleCaller
    /\ verdict = "none"
    /\ auditor = IdleAuditor
    /\ report = NoReport

CallStep ==
    \/ \E qty \in 1..MaxHeld : StartPlace(qty) \/ StartReplace(qty)
    \/ CancelOld \/ CancelOldRaises \/ OldCancelConfirmed \/ OldCancelUnconfirmed
    \/ ReadsHeld \/ PlacementRefused \/ SubmitAnswered \/ SubmitRaises

MarketStep ==
    \/ \E s \in Ids : StopMoves(s) \/ StopFills(s)
    \/ OthersBuy \/ OthersSell

Next ==
    \/ (BatteryBegins \/ BatteryStep \/ ProbeBrokerStep) /\ UNCHANGED tvars
    \/ CallStep \/ AuditStep \/ MarketStep

Spec == Init /\ [][Next]_vars

\* The orchestrator audits on a schedule; nothing makes the caller act on a report.
StopsSpec == Spec /\ WF_vars(AuditStep)

-----------------------------------------------------------------------------
(* Properties.                                                             *)

StopsTypeOK ==
    /\ BatteryTypeOK
    /\ stop \in [Ids -> [status: OrderStatuses, qty: 0..MaxHeld, filled: 0..MaxHeld,
                         read: 0..MaxHeld]]
    /\ caller \in [at: {"idle", "cancel", "wait", "read", "submit"}, old: {0} \union Ids,
                   qty: 0..MaxHeld, read: 0..MaxHeld, known: {0} \union Ids]
    /\ verdict \in Verdicts
    /\ auditor \in [at: {"idle", "orders"}, read: 0..MaxHeld, clean: BOOLEAN,
                    failures: 0..MaxFailures]
    /\ report \in [kind: Kinds, fresh: BOOLEAN, id: {0} \union Ids]

Claim == IF verdict = "replaced" THEN "protected"
         ELSE IF verdict \in {"cancel_unconfirmed", "unprotected_after_cancel"}
         THEN "unprotected" ELSE "none"

Slot == INSTANCE StopSlot WITH live <- LiveStops, claim <- Claim

\* The functions keep the promise of StopSlot: never two stops of one pair that could both
\* fire, and "protected" only with a stop just put in place, although cancels are
\* asynchronous, replies get lost and stops fill during their own cancel (docstring of
\* replace_crypto_stop_limit, "never ... two overlapping resting stops").
RefinesStopSlot == Slot!Spec

\* A stop for more than the position, which would sell short when it triggers, stands only
\* after somebody sold since its placement read the position: never because of what was
\* asked for, of the grid, or of fills the old stop had before the read (place's E11 check
\* between the confirmed cancel and the submit).
OversizedOnlyAfterExit ==
    \A s \in LiveStops : stop[s].qty > held => held < stop[s].read

\* A position that stays without any stop does not stay reported as covered or as no
\* position: the audit gets to say so, whatever call ended how (the second layer
\* replace_crypto_stop_limit relies on).
NakedPositionIsReported ==
    held > 0 /\ LiveStops = {} /\ Trading ~>
        \/ held = 0 \/ LiveStops # {}
        \/ report.kind \notin {"none", "empty", "covered"}
=============================================================================
