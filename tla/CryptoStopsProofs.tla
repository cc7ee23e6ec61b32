-------------------------- MODULE CryptoStopsProofs -------------------------
(***************************************************************************)
(* A stage-0 probe that passed left nothing behind, and the two functions  *)
(* that place and replace a crypto stop implement StopSlot, for every      *)
(* size, grid and number of stops.  What the second proof needs is what    *)
(* the caller may conclude: from a clean audit, from the call that placed  *)
(* its stop, and from a confirmed cancel.                                  *)
(***************************************************************************)
EXTENDS CryptoStops, FiniteSetTheorems, TLAPS

ProbeOrder == [status: OrderStatuses, filled: 0..ProbeQty]

\* The probes come one after the other, each with an order of its own, and one that is past
\* its cancel is gone.
BatteryInv ==
    /\ BatteryTypeOK
    /\ PassedProbeLeftNothing
    /\ \A k \in Probes : probe[k].status \in LiveStatuses => probe[k].filled < ProbeQty
    /\ battery.at \in {"state", "position"} => Now.status = "canceled"
    /\ battery.at = "position" => Now.filled = 0
    /\ battery.at \in {"idle", "account", "snapshot"} => battery.step = "gtc_order_acceptance"
    /\ battery.at \in {"idle", "account", "snapshot", "place"} => Now = NoProbe
    /\ battery.at # "done" =>
          /\ battery.steps[battery.step] # "PASS"
          /\ battery.step = "gtc_order_acceptance" =>
                /\ probe["stop_limit_acceptance"] = NoProbe
                /\ battery.steps["stop_limit_acceptance"] # "PASS"

StopOrder == [status: OrderStatuses, qty: 0..MaxHeld, filled: 0..MaxHeld, read: 0..MaxHeld]

\* There is at most one stop the broker may execute, and none was sent for more than was read.
OrdersInv ==
    /\ \A s \in Ids : /\ stop[s].qty <= stop[s].read
                      /\ stop[s].status \in LiveStatuses => stop[s].filled < stop[s].qty
    /\ \A s, t \in LiveStops : s = t

\* What the caller may rely on at each point of a call: the stop it replaces is the only one,
\* and after the confirmed cancel there is none.
CallerInv ==
    /\ caller.at # "idle" => Unused # {}
    /\ caller.at \in {"cancel", "wait"} => caller.old # 0 /\ LiveStops \subseteq {caller.old}
    /\ caller.at \in {"read", "submit"} => LiveStops = {}
    /\ caller.at = "submit" => /\ caller.qty <= caller.read
                               /\ Snap(caller.qty, Increment) >= MinOrder
    /\ caller.at = "idle" /\ caller.known # 0 => LiveStops \subseteq {caller.known}

\* What a report may be trusted for: no call overlapped its audit or began after it.
AuditInv ==
    /\ auditor.clean => caller.at = "idle"
    /\ report.fresh => /\ caller.at = "idle"
                       /\ report.kind = "uncovered" => LiveStops = {}

StopsInv == BatteryInv /\ StopsTypeOK /\ OrdersInv /\ CallerInv /\ AuditInv

-----------------------------------------------------------------------------
(* The battery.                                                            *)

LEMMA ProbeFacts ==
  /\ Probes = {"gtc_order_acceptance", "stop_limit_acceptance"} /\ Probes \subseteq Checks
  /\ NoProbe \in ProbeOrder /\ NoProbe.status \notin LiveStatuses /\ NoProbe.filled = 0
  /\ LiveStatuses \subseteq OrderStatuses /\ "canceled" \notin LiveStatuses
  /\ {"canceled", "filled", "rejected", "none"} \subseteq OrderStatuses
BY BatteryAssumption DEF Probes, Checks, NoProbe, ProbeOrder, LiveStatuses, OrderStatuses

LEMMA BatteryInitInv == BatteryInit => BatteryInv
<1> SUFFICES ASSUME BatteryInit PROVE BatteryInv
  OBVIOUS
<1>1. FreshBattery \in Battery /\ FreshBattery.at = "idle"
      /\ FreshBattery.step = "gtc_order_acceptance"
      /\ \A c \in Checks : FreshBattery.steps[c] = "none"
  BY DEF FreshBattery, Battery, Probes, OrderStatuses, StepStatus
<1>2. probe \in [Probes -> ProbeOrder] /\ \A k \in Probes : probe[k] = NoProbe
  BY ProbeFacts DEF BatteryInit
<1>3. BatteryTypeOK
  BY <1>1, <1>2, BatteryAssumption DEF BatteryInit, BatteryTypeOK, ProbeOrder
<1> QED BY <1>1, <1>2, <1>3, ProbeFacts
        DEF BatteryInit, BatteryInv, PassedProbeLeftNothing, Now

\* What the invariant says of the parts.
LEMMA BatteryParts ==
  ASSUME BatteryInv
  PROVE  /\ battery \in Battery /\ battery.step \in Probes
         /\ battery.steps \in [Checks -> StepStatus]
         /\ probe \in [Probes -> ProbeOrder] /\ Now \in ProbeOrder /\ held \in 0..MaxHeld
BY DEF BatteryInv, BatteryTypeOK, Battery, ProbeOrder, Now

\* A probe ends.  It is filed as passed only if its order is gone and bought nothing.
LEMMA ConcludeStep ==
  ASSUME BatteryInv, NEW result \in StepStatus, Conclude(result), battery.at # "done",
         battery.at \notin {"idle", "account", "snapshot"},
         result = "PASS" => probe = probe' /\ Now = [status |-> "canceled", filled |-> 0],
         probe' \in [Probes -> ProbeOrder],
         probe'[battery.step].status \in LiveStatuses =>
             probe'[battery.step].filled < ProbeQty,
         \A k \in Probes : k # battery.step => probe'[k] = probe[k],
         UNCHANGED held
  PROVE  BatteryInv'
<1> DEFINE gtc == "gtc_order_acceptance"
           slp == "stop_limit_acceptance"
           steps == [battery.steps EXCEPT ![battery.step] = result]
           to == IF battery.step = slp THEN "done" ELSE "place"
<1>1. battery' = [battery EXCEPT !.steps = steps, !.seen = "none", !.step = slp, !.at = to]
  BY DEF Conclude
<1>2. steps \in [Checks -> StepStatus] /\ steps[battery.step] = result
      /\ \A k \in Probes : k # battery.step => steps[k] = battery.steps[k]
  BY BatteryParts, ProbeFacts
<1> HIDE DEF steps
<1>3. battery' \in Battery /\ battery'.steps = steps /\ battery'.step = slp
      /\ battery'.at = to
  BY <1>1, <1>2, BatteryParts DEF Battery, Probes, OrderStatuses
<1>4. BatteryTypeOK'
  BY <1>3 DEF BatteryInv, BatteryTypeOK, ProbeOrder
<1>5. PassedProbeLeftNothing'
  <2> SUFFICES ASSUME NEW k \in Probes, steps[k] = "PASS"
               PROVE  probe'[k] = [status |-> "canceled", filled |-> 0]
    BY <1>3 DEF PassedProbeLeftNothing
  <2>1. CASE k = battery.step
    BY <1>2, <2>1 DEF Now
  <2>2. CASE k # battery.step
    BY <1>2, <2>2 DEF BatteryInv, PassedProbeLeftNothing
  <2> QED BY <2>1, <2>2
<1>6. \A k \in Probes : probe'[k].status \in LiveStatuses => probe'[k].filled < ProbeQty
  BY DEF BatteryInv
<1>7. to = "place" => battery.step = gtc /\ probe'[slp] = NoProbe
                      /\ steps[slp] # "PASS"
  BY <1>2, BatteryParts, ProbeFacts DEF BatteryInv
<1> QED BY <1>3, <1>4, <1>5, <1>6, <1>7 DEF BatteryInv, Now

\* A probe goes on to its next call.
LEMMA ProbeGoesOn ==
  ASSUME BatteryInv, NEW to \in {"accept", "cancel", "wait", "state", "position"},
         NEW seen \in OrderStatuses,
         battery' = [battery EXCEPT !.at = to, !.seen = seen],
         battery.at \notin {"idle", "account", "snapshot", "done"},
         probe' \in [Probes -> ProbeOrder], held' \in 0..MaxHeld,
         \A k \in Probes : k # battery.step => probe'[k] = probe[k],
         probe'[battery.step].status \in LiveStatuses =>
             probe'[battery.step].filled < ProbeQty,
         to \in {"state", "position"} => probe' = probe /\ Now.status = "canceled",
         to = "position" => Now.filled = 0
  PROVE  BatteryInv'
<1>1. battery' \in Battery /\ battery'.steps = battery.steps /\ battery'.at = to
      /\ battery'.step = battery.step
  BY BatteryParts DEF Battery
<1>2. BatteryTypeOK'
  BY <1>1 DEF BatteryInv, BatteryTypeOK, ProbeOrder
<1>3. PassedProbeLeftNothing'
  <2>1. \A k \in Probes : battery.steps[k] = "PASS" => k # battery.step
    BY DEF BatteryInv
  <2> QED BY <1>1, <2>1 DEF BatteryInv, PassedProbeLeftNothing
<1>4. battery.step = "gtc_order_acceptance" => probe'["stop_limit_acceptance"] = NoProbe
  BY ProbeFacts DEF BatteryInv
<1> QED BY <1>1, <1>2, <1>3, <1>4 DEF BatteryInv, Now

\* A probe's order at the broker, with another status.
LEMMA StatusOfProbe ==
  ASSUME BatteryInv, NEW k \in Probes, NEW status \in OrderStatuses,
         status \in LiveStatuses => probe[k].status \in LiveStatuses
                                    \/ probe[k] = NoProbe,
         probe' = [probe EXCEPT ![k].status = status]
  PROVE  /\ probe' \in [Probes -> ProbeOrder]
         /\ \A j \in Probes : j # k => probe'[j] = probe[j]
         /\ probe'[k].status = status /\ probe'[k].filled = probe[k].filled
         /\ status \in LiveStatuses => probe'[k].filled < ProbeQty
<1> DEFINE x == [probe[k] EXCEPT !.status = status]
<1>1. probe[k] \in ProbeOrder /\ probe \in [Probes -> ProbeOrder]
  BY BatteryParts
<1>2. x \in ProbeOrder /\ x.status = status /\ x.filled = probe[k].filled
  BY <1>1 DEF ProbeOrder
<1>3. probe' = [probe EXCEPT ![k] = x]
  BY <1>1
<1>4. status \in LiveStatuses => probe[k].filled < ProbeQty
  BY BatteryAssumption DEF BatteryInv, NoProbe
<1> HIDE DEF x
<1> QED BY <1>1, <1>2, <1>3, <1>4

LEMMA RequestFacts ==
  ASSUME NEW status \in OrderStatuses
  PROVE  /\ AfterCancelRequest(status) \in OrderStatuses
         /\ AfterCancelRequest(status) \in LiveStatuses <=> status \in LiveStatuses
         /\ BrokerMoves(status) \subseteq OrderStatuses
         /\ \A to \in BrokerMoves(status) : status \in LiveStatuses
BY DEF AfterCancelRequest, LiveStatuses, OrderStatuses, BrokerMoves

\* An order that is answered as live has something left to fill.
LEMMA AnswerFacts ==
  ASSUME NEW qty \in Nat \ {0}, NEW order \in SubmitAnswers(qty)
  PROVE  /\ order = [status |-> order.status, filled |-> order.filled]
         /\ order.status \in OrderStatuses \ {"none", "canceled"}
         /\ order.filled \in 0..qty
         /\ order.status \in LiveStatuses => order.filled < qty
BY DEF SubmitAnswers, OrderStatuses, LiveStatuses

LEMMA CheckSteps ==
  ASSUME BatteryInv, BatteryBegins \/ AccountChecked \/ SnapshotChecked
  PROVE  BatteryInv'
<1> DEFINE gtc == "gtc_order_acceptance"
           slp == "stop_limit_acceptance"
<1>1. UNCHANGED <<held, probe>> /\ battery.at \in {"idle", "account", "snapshot"}
      /\ battery.step = gtc /\ probe[gtc] = NoProbe /\ probe[slp] = NoProbe
  BY DEF BatteryBegins, AccountChecked, SnapshotChecked, BatteryInv, Now
<1>2. \E to \in {"account", "snapshot", "place", "done"} :
        /\ battery' \in Battery /\ battery'.at = to /\ battery'.step = gtc
        /\ \A k \in Probes : battery'.steps[k] # "PASS"
  <2>1. CASE BatteryBegins
    <3>1. PICK dry \in BOOLEAN :
            battery' = [FreshBattery EXCEPT !.at = "account", !.dry = dry]
      BY <2>1 DEF BatteryBegins
    <3>2. FreshBattery \in Battery /\ FreshBattery.step = gtc
          /\ \A c \in Checks : FreshBattery.steps[c] = "none"
      BY DEF FreshBattery, Battery, Probes, OrderStatuses, StepStatus
    <3> QED BY <3>1, <3>2, ProbeFacts DEF Battery
  <2>2. CASE AccountChecked
    <3>1. PICK result \in {"PASS", "FAIL", "ERROR"} :
            battery' = [battery EXCEPT !.steps["crypto_account_status"] = result,
                          !.at = IF result = "ERROR" THEN "done" ELSE "snapshot"]
      BY <2>2 DEF AccountChecked
    <3> DEFINE steps == [battery.steps EXCEPT !["crypto_account_status"] = result]
               to == IF result = "ERROR" THEN "done" ELSE "snapshot"
    <3>2. steps \in [Checks -> StepStatus]
          /\ \A k \in Probes : steps[k] = battery.steps[k]
      BY BatteryParts DEF StepStatus, Checks, Probes
    <3>3. battery' = [battery EXCEPT !.steps = steps, !.at = to]
      BY <3>1, BatteryParts DEF Battery
    <3> HIDE DEF steps
    <3>4. battery' \in Battery /\ battery'.at = to /\ battery'.step = battery.step
          /\ battery'.steps = steps
      BY <3>2, <3>3, BatteryParts DEF Battery
    <3> QED BY <1>1, <2>2, <3>2, <3>4, ProbeFacts DEF BatteryInv, AccountChecked
  <2>3. CASE SnapshotChecked
    <3>1. PICK result \in {"PASS", "FAIL"} :
            battery' =
               IF battery.dry
               THEN [battery EXCEPT !.at = "done",
                       !.steps = [c \in Checks |-> IF c \in Probes THEN "SKIP"
                                    ELSE [battery.steps EXCEPT !["pair_snapshot"] = result][c]]]
               ELSE [battery EXCEPT !.at = "place",
                       !.steps = [battery.steps EXCEPT !["pair_snapshot"] = result]]
      BY <2>3 DEF SnapshotChecked
    <3> DEFINE read == [battery.steps EXCEPT !["pair_snapshot"] = result]
               skipped == [c \in Checks |-> IF c \in Probes THEN "SKIP" ELSE read[c]]
    <3>2. read \in [Checks -> StepStatus] /\ \A k \in Probes : read[k] = battery.steps[k]
      BY BatteryParts DEF StepStatus, Checks, Probes
    <3>3. battery' = [battery EXCEPT !.at = "done", !.steps = skipped]
          \/ battery' = [battery EXCEPT !.at = "place", !.steps = read]
      BY <3>1
    <3> HIDE DEF read
    <3>4. skipped \in [Checks -> StepStatus] /\ \A k \in Probes : skipped[k] = "SKIP"
      BY <3>2, ProbeFacts DEF StepStatus
    <3> HIDE DEF skipped
    <3>5. CASE battery' = [battery EXCEPT !.at = "done", !.steps = skipped]
      <4>1. battery' \in Battery /\ battery'.at = "done" /\ battery'.step = battery.step
            /\ battery'.steps = skipped
        BY <3>4, <3>5, BatteryParts DEF Battery
      <4> QED BY <1>1, <3>4, <4>1
    <3>6. CASE battery' = [battery EXCEPT !.at = "place", !.steps = read]
      <4>1. battery' \in Battery /\ battery'.at = "place" /\ battery'.step = battery.step
            /\ battery'.steps = read
        BY <3>2, <3>6, BatteryParts DEF Battery
      <4> QED BY <1>1, <2>3, <3>2, <4>1, ProbeFacts DEF BatteryInv, SnapshotChecked
    <3> QED BY <3>3, <3>5, <3>6
  <2> QED BY <2>1, <2>2, <2>3
<1>3. BatteryTypeOK'
  BY <1>1, <1>2 DEF BatteryInv, BatteryTypeOK
<1> QED BY <1>1, <1>2, <1>3, ProbeFacts DEF BatteryInv, PassedProbeLeftNothing, Now

\* A probe is placed, polled, seen to rest, cancelled, and seen to be gone.
LEMMA ProbeAdvances ==
  ASSUME BatteryInv,
         \/ ProbePlaced \/ ProbePolled \/ ProbeRests \/ ProbeCancelled
         \/ ProbeCancelConfirmed \/ ProbeStateClean
  PROVE  BatteryInv'
<1>1. CASE ProbePlaced
  <2>1. PICK order \in SubmitAnswers(ProbeQty) :
          /\ held + order.filled <= MaxHeld /\ held' = held + order.filled
          /\ probe' = [probe EXCEPT ![battery.step] = order]
          /\ battery' = [battery EXCEPT !.at = "accept", !.seen = order.status]
    BY <1>1 DEF ProbePlaced
  <2>2. battery.at = "place" /\ battery.step \in Probes /\ held \in 0..MaxHeld
        /\ probe \in [Probes -> ProbeOrder]
    BY <1>1, BatteryParts DEF ProbePlaced
  <2>3. /\ order \in ProbeOrder /\ order.status \in OrderStatuses /\ order.filled \in Nat
        /\ order.status \in LiveStatuses => order.filled < ProbeQty
    BY BatteryAssumption, AnswerFacts DEF ProbeOrder
  <2>4. /\ probe' \in [Probes -> ProbeOrder] /\ probe'[battery.step] = order
        /\ \A j \in Probes : j # battery.step => probe'[j] = probe[j]
    BY <2>1, <2>2, <2>3
  <2>5. held' \in 0..MaxHeld
    BY <2>1, <2>2, <2>3, BatteryAssumption
  <2> QED BY <2>1, <2>2, <2>3, <2>4, <2>5, ProbeGoesOn
<1>2. CASE ProbeCancelled
  <2>1. /\ probe' \in {probe, [probe EXCEPT ![battery.step].status =
                                 AfterCancelRequest(probe[battery.step].status)]}
        /\ battery.at = "cancel" /\ UNCHANGED held /\ battery.step \in Probes
        /\ probe[battery.step].status \in OrderStatuses
    BY <1>2, BatteryParts DEF ProbeCancelled, ProbeOrder, Now
  <2>2. battery' = [battery EXCEPT !.at = "wait", !.seen = battery.seen]
        /\ battery.seen \in OrderStatuses
    BY <1>2, BatteryParts DEF ProbeCancelled, Battery
  <2>3. CASE probe' = probe
    <3>1. probe' \in [Probes -> ProbeOrder]
          /\ (probe'[battery.step].status \in LiveStatuses =>
                probe'[battery.step].filled < ProbeQty)
      BY <2>1, <2>3, BatteryParts DEF BatteryInv
    <3> QED BY <2>1, <2>2, <2>3, <3>1, BatteryParts, ProbeGoesOn
  <2>4. CASE probe' = [probe EXCEPT ![battery.step].status =
                         AfterCancelRequest(probe[battery.step].status)]
    <3>1. PICK status \in OrderStatuses :
            /\ probe' = [probe EXCEPT ![battery.step].status = status]
            /\ status \in LiveStatuses => probe[battery.step].status \in LiveStatuses
      BY <2>1, <2>4, RequestFacts
    <3>2. PICK k \in Probes : k = battery.step
      BY BatteryParts
    <3> DEFINE x == [probe[k] EXCEPT !.status = status]
    <3>3. probe[k] \in ProbeOrder
      BY BatteryParts
    <3>4. x \in ProbeOrder /\ x.status = status /\ x.filled = probe[k].filled
      BY <3>3 DEF ProbeOrder
    <3>5. probe' = [probe EXCEPT ![k] = x]
      BY <3>1, <3>2, BatteryParts
    <3>6. status \in LiveStatuses => probe[k].filled < ProbeQty
      BY <3>1, <3>2 DEF BatteryInv
    <3> HIDE DEF x
    <3>7. /\ probe' \in [Probes -> ProbeOrder]
          /\ \A j \in Probes : j # k => probe'[j] = probe[j]
          /\ probe'[k].status \in LiveStatuses => probe'[k].filled < ProbeQty
      BY <3>4, <3>5, <3>6, BatteryParts
    <3> QED BY <2>1, <2>2, <3>2, <3>7, BatteryParts, ProbeGoesOn
  <2> QED BY <2>1, <2>3, <2>4
<1>3. CASE ProbePolled \/ ProbeRests \/ ProbeCancelConfirmed \/ ProbeStateClean
  <2>1. PICK to \in {"accept", "cancel", "wait", "state", "position"}, seen \in OrderStatuses :
          /\ battery' = [battery EXCEPT !.at = to, !.seen = seen]
          /\ to \in {"state", "position"} => Now.status = "canceled"
          /\ to = "position" => Now.filled = 0
    <3>1. CASE ProbePolled
      <4>1. Now.status \in OrderStatuses
            /\ battery' = [battery EXCEPT !.at = "accept", !.seen = Now.status]
        BY <3>1, BatteryParts DEF ProbePolled, Battery, ProbeOrder
      <4> QED BY <4>1
    <3>2. battery.seen \in OrderStatuses
      BY BatteryParts DEF Battery
    <3>3. CASE ProbeRests
      <4>1. battery' = [battery EXCEPT !.at = "cancel", !.seen = battery.seen]
        BY <3>3, BatteryParts DEF ProbeRests, Battery
      <4> QED BY <3>2, <4>1
    <3>4. CASE ProbeCancelConfirmed
      <4>1. battery' = [battery EXCEPT !.at = "state", !.seen = battery.seen]
            /\ Now.status = "canceled"
        BY <3>4, BatteryParts DEF ProbeCancelConfirmed, CancelSeen, CancelConfirmed, Battery
      <4> QED BY <3>2, <4>1
    <3>5. CASE ProbeStateClean
      <4>1. battery' = [battery EXCEPT !.at = "position", !.seen = battery.seen]
            /\ Now.status = "canceled" /\ Now.filled = 0
        BY <3>5, BatteryParts DEF ProbeStateClean, Battery, BatteryInv
      <4> QED BY <3>2, <4>1
    <3> QED BY <1>3, <3>1, <3>3, <3>4, <3>5
  <2>2. UNCHANGED <<held, probe>> /\ battery.at \in {"accept", "wait", "state"}
    BY <1>3 DEF ProbePolled, ProbeRests, ProbeCancelConfirmed, ProbeStateClean
  <2>3. probe' \in [Probes -> ProbeOrder]
        /\ (probe'[battery.step].status \in LiveStatuses =>
              probe'[battery.step].filled < ProbeQty)
    BY <2>2, BatteryParts DEF BatteryInv
  <2> QED BY <2>1, <2>2, <2>3, BatteryParts, ProbeGoesOn
<1> QED BY <1>1, <1>2, <1>3

LEMMA ProbeEnds ==
  ASSUME BatteryInv,
         \/ ProbeRaises \/ ProbeRejected \/ ProbeCancelUnconfirmed \/ ProbeStateFails
         \/ ProbePasses \/ ProbePositionFails
  PROVE  BatteryInv'
<1>1. probe \in [Probes -> ProbeOrder] /\ {"PASS", "FAIL"} \subseteq StepStatus
      /\ battery.step \in Probes
      /\ (probe[battery.step].status \in LiveStatuses => probe[battery.step].filled < ProbeQty)
  BY BatteryParts DEF StepStatus, BatteryInv
<1>2. CASE ProbeRaises
  <2>1. battery.at = "place" /\ Conclude("FAIL") /\ UNCHANGED held
        /\ probe[battery.step] = NoProbe
    BY <1>2 DEF ProbeRaises, BatteryInv, Now
  <2>2. CASE probe' = probe
    BY <1>1, <2>1, <2>2, ConcludeStep
  <2>3. CASE probe' = [probe EXCEPT ![battery.step].status = "pending_new"]
    <3>1. "pending_new" \in OrderStatuses
      BY DEF OrderStatuses
    <3>2. /\ probe' \in [Probes -> ProbeOrder]
          /\ \A j \in Probes : j # battery.step => probe'[j] = probe[j]
          /\ (probe'[battery.step].status \in LiveStatuses =>
                probe'[battery.step].filled < ProbeQty)
      BY <1>1, <2>1, <2>3, <3>1, StatusOfProbe
    <3> QED BY <1>1, <2>1, <3>2, ConcludeStep
  <2> QED BY <1>2, <2>2, <2>3 DEF ProbeRaises
<1>3. CASE ProbePasses
  <2>1. Now \in ProbeOrder /\ Now.status = "canceled" /\ Now.filled = 0
    BY <1>3, BatteryParts DEF ProbePasses, BatteryInv
  <2>2. Now = [status |-> "canceled", filled |-> 0]
    BY <2>1 DEF ProbeOrder
  <2> QED BY <1>1, <1>3, <2>2, ConcludeStep DEF ProbePasses
<1>4. CASE ProbeRejected \/ ProbeCancelUnconfirmed \/ ProbeStateFails \/ ProbePositionFails
  <2>1. Conclude("FAIL") /\ UNCHANGED <<held, probe>>
        /\ battery.at \in {"accept", "wait", "state", "position"}
    BY <1>4 DEF ProbeRejected, ProbeCancelUnconfirmed, ProbeStateFails, ProbePositionFails
  <2> QED BY <1>1, <2>1, ConcludeStep
<1> QED BY <1>2, <1>3, <1>4

\* The broker moves a probe's order: one that is gone or was never sent does not move.
LEMMA BrokerMovesProbe ==
  ASSUME BatteryInv, NEW k \in Probes, NEW x \in ProbeOrder,
         probe' = [probe EXCEPT ![k] = x], probe[k].status \in LiveStatuses,
         x.status \in LiveStatuses => x.filled < ProbeQty,
         UNCHANGED battery, held' \in 0..MaxHeld
  PROVE  BatteryInv'
<1>1. probe' \in [Probes -> ProbeOrder] /\ probe'[k] = x
      /\ \A j \in Probes : j # k => probe'[j] = probe[j]
  BY BatteryParts
<1>2. BatteryTypeOK'
  BY <1>1 DEF BatteryInv, BatteryTypeOK, ProbeOrder
<1>3. probe[k].status # "canceled" /\ probe[k] # NoProbe
  BY ProbeFacts
<1>4. PassedProbeLeftNothing'
  BY <1>1, <1>3 DEF BatteryInv, PassedProbeLeftNothing
<1>5. battery.step \in Probes /\ "stop_limit_acceptance" \in Probes
  BY BatteryParts, ProbeFacts
<1> QED BY <1>1, <1>2, <1>3, <1>4, <1>5 DEF BatteryInv, Now

LEMMA ProbeBrokerStepInv == ASSUME BatteryInv, ProbeBrokerStep PROVE BatteryInv'
<1>1. ASSUME NEW k \in Probes, ProbeMoves(k) PROVE BatteryInv'
  <2>1. PICK status \in BrokerMoves(probe[k].status) :
          probe' = [probe EXCEPT ![k].status = status]
    BY <1>1 DEF ProbeMoves
  <2>2. probe[k].status \in LiveStatuses /\ status \in OrderStatuses
        /\ probe[k] \in ProbeOrder /\ probe[k].filled < ProbeQty
    BY <2>1, BatteryParts, RequestFacts DEF ProbeOrder, BatteryInv
  <2> DEFINE x == [probe[k] EXCEPT !.status = status]
  <2>3. x \in ProbeOrder /\ x.filled < ProbeQty /\ probe' = [probe EXCEPT ![k] = x]
    BY <2>1, <2>2, BatteryParts DEF ProbeOrder
  <2>4. UNCHANGED battery /\ held' \in 0..MaxHeld
    BY <1>1, BatteryParts DEF ProbeMoves
  <2> HIDE DEF x
  <2> QED BY <2>2, <2>3, <2>4, BrokerMovesProbe
<1>2. ASSUME NEW k \in Probes, ProbeFills(k) PROVE BatteryInv'
  <2> DEFINE filled == probe[k].filled + 1
             status == IF filled = ProbeQty THEN "filled"
                       ELSE IF probe[k].status = "pending_cancel" THEN probe[k].status
                       ELSE "partially_filled"
             x == [probe[k] EXCEPT !.filled = filled, !.status = status]
  <2>1. /\ probe[k].status \in LiveStatuses /\ probe[k] \in ProbeOrder
        /\ held' = held + 1 /\ held < MaxHeld /\ UNCHANGED battery
        /\ probe' = [probe EXCEPT ![k] = x]
    BY <1>2, BatteryParts DEF ProbeFills
  <2>2. probe[k].filled \in Nat /\ probe[k].filled < ProbeQty /\ held' \in 0..MaxHeld
    BY <2>1, BatteryParts, BatteryAssumption DEF ProbeOrder, BatteryInv
  <2>3. filled \in 0..ProbeQty /\ status \in OrderStatuses
        /\ (status \in LiveStatuses => filled < ProbeQty)
    BY <2>2, BatteryAssumption DEF OrderStatuses, LiveStatuses
  <2> HIDE DEF filled, status
  <2>4. x \in ProbeOrder /\ x.filled = filled /\ x.status = status
    BY <2>1, <2>3 DEF ProbeOrder
  <2> HIDE DEF x
  <2> QED BY <2>1, <2>2, <2>3, <2>4, BrokerMovesProbe
<1> QED BY <1>1, <1>2 DEF ProbeBrokerStep

LEMMA BatteryStepInv ==
  ASSUME BatteryInv, BatteryBegins \/ BatteryStep \/ ProbeBrokerStep
  PROVE  BatteryInv'
BY CheckSteps, ProbeAdvances, ProbeEnds, ProbeBrokerStepInv DEF BatteryStep

LEMMA BatteryStays ==
  ASSUME BatteryInv, UNCHANGED <<battery, probe>>, held' \in 0..MaxHeld
  PROVE  BatteryInv'
BY DEF BatteryInv, BatteryTypeOK, PassedProbeLeftNothing, Now

-----------------------------------------------------------------------------
(* The stops.                                                              *)

Caller == [at: {"idle", "cancel", "wait", "read", "submit"}, old: {0} \union Ids,
           qty: 0..MaxHeld, read: 0..MaxHeld, known: {0} \union Ids]

Auditor == [at: {"idle", "orders"}, read: 0..MaxHeld, clean: BOOLEAN,
            failures: 0..MaxFailures]

Report == [kind: Kinds, fresh: BOOLEAN, id: {0} \union Ids]

LEMMA StopParts ==
  ASSUME StopsInv
  PROVE  /\ stop \in [Ids -> StopOrder] /\ caller \in Caller /\ verdict \in Verdicts
         /\ auditor \in Auditor /\ report \in Report /\ held \in 0..MaxHeld
BY DEF StopsInv, StopsTypeOK, BatteryTypeOK, StopOrder, Caller, Auditor, Report

\* The battery is over, or not begun by this step.
LEMMA TypesFollow ==
  ASSUME StopsInv, UNCHANGED <<battery, probe>>, held' \in 0..MaxHeld,
         stop' \in [Ids -> StopOrder], caller' \in Caller, verdict' \in Verdicts,
         auditor' \in Auditor, report' \in Report
  PROVE  BatteryInv' /\ StopsTypeOK'
<1>1. BatteryInv'
  BY BatteryStays DEF StopsInv
<1>2. BatteryTypeOK'
  BY <1>1 DEF BatteryInv
<1> QED BY <1>1, <1>2 DEF StopsTypeOK, StopOrder, Caller, Auditor, Report

\* A step as StopSlot sees it.
SlotStep ==
    \/ LiveStops' = LiveStops /\ (Claim' = Claim \/ Claim' # "protected")
    \/ LiveStops' = {} /\ Claim' = Claim
    \/ LiveStops = {} /\ \E s \in Ids : LiveStops' = {s}

LEMMA SlotStepRefines == SlotStep => [Slot!Next]_(Slot!svars)
<1>1. Claim' \in {"none", "protected", "unprotected"}
  BY DEF Claim
<1> QED BY <1>1 DEF SlotStep, Slot!Next, Slot!Leave, Slot!Say, Slot!Put, Slot!Claims, Slot!svars

LEMMA StartFacts ==
  /\ NoStop \in StopOrder /\ NoStop.qty = NoStop.read
  /\ NoStop.status \notin LiveStatuses /\ NoStop.status = "none"
  /\ IdleCaller \in Caller /\ IdleCaller.at = "idle" /\ IdleCaller.known = 0
  /\ NoReport \in Report /\ NoReport.kind = "none"
  /\ IdleAuditor \in Auditor /\ IdleAuditor.at = "idle"
BY StopsAssumption, BatteryAssumption
   DEF NoStop, StopOrder, LiveStatuses, OrderStatuses, IdleCaller, Caller, NoReport, Report,
       Kinds, IdleAuditor, Auditor

LEMMA StopsInitInv == Init => StopsInv /\ LiveStops = {} /\ Claim = "none"
<1> SUFFICES ASSUME Init PROVE StopsInv /\ LiveStops = {} /\ Claim = "none"
  OBVIOUS
<1>1. BatteryInv /\ BatteryTypeOK
  BY BatteryInitInv DEF Init, BatteryInv
<1>2. stop \in [Ids -> StopOrder] /\ \A s \in Ids : stop[s] = NoStop
  BY StartFacts DEF Init
<1>3. LiveStops = {} /\ Claim = "none" /\ "none" \in Verdicts
  BY <1>2, StartFacts DEF LiveStops, Init, Claim, Verdicts
<1>4. StopsTypeOK
  BY <1>1, <1>2, <1>3, StartFacts
     DEF StopsTypeOK, Init, StopOrder, Caller, Auditor, Report
<1>5. OrdersInv
  BY <1>2, <1>3, StartFacts, BatteryAssumption DEF OrdersInv, StopOrder
<1>6. CallerInv /\ AuditInv
  BY <1>3, StartFacts DEF CallerInv, AuditInv, Init
<1> QED BY <1>1, <1>3, <1>4, <1>5, <1>6 DEF StopsInv

\* A live stop moves, fills or gets a cancel request; one that is not live stays as it is.
LEMMA StopShrinks ==
  ASSUME StopsInv, NEW s \in Ids, NEW x \in StopOrder, stop' = [stop EXCEPT ![s] = x],
         stop[s].status \in LiveStatuses \/ x = stop[s], x.status # "none" \/ x = stop[s],
         x.qty = stop[s].qty, x.read = stop[s].read,
         x.status \in LiveStatuses => x.filled < x.qty
  PROVE  /\ stop' \in [Ids -> StopOrder] /\ OrdersInv' /\ Unused' = Unused
         /\ LiveStops' = LiveStops \/ LiveStops' = {}
         /\ (x.status \in LiveStatuses <=> stop[s].status \in LiveStatuses)
               => LiveStops' = LiveStops
<1>1. stop \in [Ids -> StopOrder] /\ "none" \notin LiveStatuses
  BY StopParts DEF LiveStatuses
<1>2. stop' \in [Ids -> StopOrder] /\ stop'[s] = x /\ \A t \in Ids : t # s => stop'[t] = stop[t]
  BY <1>1
<1>3. LiveStops' \subseteq LiveStops /\ \A t \in LiveStops : t # s => t \in LiveStops'
  BY <1>2 DEF LiveStops
<1>4. \A t, u \in LiveStops : t = u
  BY DEF StopsInv, OrdersInv
<1>5. LiveStops' = LiveStops \/ LiveStops' = {}
  BY <1>3, <1>4
<1>6. Unused' = Unused
  BY <1>1, <1>2 DEF Unused
<1>7. \A t \in Ids : /\ stop'[t].qty <= stop'[t].read
                     /\ stop'[t].status \in LiveStatuses => stop'[t].filled < stop'[t].qty
  BY <1>2 DEF StopsInv, OrdersInv
<1>8. OrdersInv'
  BY <1>3, <1>4, <1>7 DEF OrdersInv
<1>9. (x.status \in LiveStatuses <=> stop[s].status \in LiveStatuses)
        => LiveStops' = LiveStops
  BY <1>2 DEF LiveStops
<1> QED BY <1>2, <1>5, <1>6, <1>8, <1>9

\* A step of the market changes only the stops and the position.
LEMMA MarketStays ==
  ASSUME StopsInv, stop' \in [Ids -> StopOrder], OrdersInv', Unused' = Unused,
         LiveStops' = LiveStops \/ LiveStops' = {}, held' \in 0..MaxHeld,
         UNCHANGED <<battery, probe, caller, verdict, auditor, report>>
  PROVE  StopsInv' /\ SlotStep
<1>1. BatteryInv' /\ StopsTypeOK'
  BY StopParts, TypesFollow
<1>2. CallerInv'
  BY DEF StopsInv, CallerInv
<1>3. AuditInv'
  BY DEF StopsInv, AuditInv
<1>4. SlotStep
  BY DEF SlotStep, Claim
<1> QED BY <1>1, <1>2, <1>3, <1>4 DEF StopsInv

LEMMA MarketStepInv == ASSUME StopsInv, MarketStep PROVE StopsInv' /\ SlotStep
<1>1. ASSUME NEW s \in Ids, StopMoves(s) PROVE StopsInv' /\ SlotStep
  <2>1. PICK status \in BrokerMoves(stop[s].status) :
          stop' = [stop EXCEPT ![s].status = status]
    BY <1>1 DEF StopMoves
  <2>2. stop[s] \in StopOrder /\ stop \in [Ids -> StopOrder]
    BY StopParts
  <2>3. stop[s].status \in LiveStatuses /\ status \in OrderStatuses /\ status # "none"
        /\ stop[s].filled < stop[s].qty
    BY <2>1, <2>2 DEF StopOrder, BrokerMoves, LiveStatuses, StopsInv, OrdersInv
  <2> DEFINE x == [stop[s] EXCEPT !.status = status]
  <2>4. /\ x \in StopOrder /\ x.status = status /\ x.qty = stop[s].qty
        /\ x.read = stop[s].read /\ x.filled = stop[s].filled
        /\ stop' = [stop EXCEPT ![s] = x]
    BY <2>1, <2>2, <2>3 DEF StopOrder
  <2>5. UNCHANGED <<battery, probe, caller, verdict, auditor, report>> /\ held' \in 0..MaxHeld
    BY <1>1, StopParts DEF StopMoves
  <2> HIDE DEF x
  <2>6. /\ stop' \in [Ids -> StopOrder] /\ OrdersInv' /\ Unused' = Unused
        /\ LiveStops' = LiveStops \/ LiveStops' = {}
    BY <2>3, <2>4, StopShrinks
  <2> QED BY <2>5, <2>6, MarketStays
<1>2. ASSUME NEW s \in Ids, StopFills(s) PROVE StopsInv' /\ SlotStep
  <2> DEFINE filled == stop[s].filled + 1
             status == IF filled = stop[s].qty THEN "filled"
                       ELSE IF stop[s].status = "pending_cancel" THEN stop[s].status
                       ELSE "partially_filled"
             x == [stop[s] EXCEPT !.filled = filled, !.status = status]
  <2>1. /\ stop[s].status \in LiveStatuses /\ stop[s] \in StopOrder
        /\ held' = held - 1 /\ held > 0
        /\ UNCHANGED <<battery, probe, caller, verdict, auditor, report>>
        /\ stop' = [stop EXCEPT ![s] = x]
    BY <1>2, StopParts DEF StopFills
  <2>2. /\ stop[s].filled \in Nat /\ stop[s].qty \in 0..MaxHeld
        /\ stop[s].filled < stop[s].qty /\ held' \in 0..MaxHeld
    BY <2>1, StopParts, BatteryAssumption DEF StopOrder, StopsInv, OrdersInv
  <2>3. filled \in 0..MaxHeld /\ status \in OrderStatuses /\ status # "none"
        /\ (status \in LiveStatuses => filled < stop[s].qty)
    BY <2>2, BatteryAssumption DEF OrderStatuses, LiveStatuses
  <2> HIDE DEF filled, status
  <2>4. x \in StopOrder /\ x.filled = filled /\ x.status = status /\ x.qty = stop[s].qty
        /\ x.read = stop[s].read
    BY <2>1, <2>3 DEF StopOrder
  <2> HIDE DEF x
  <2>5. /\ stop' \in [Ids -> StopOrder] /\ OrdersInv' /\ Unused' = Unused
        /\ LiveStops' = LiveStops \/ LiveStops' = {}
    BY <2>1, <2>3, <2>4, StopShrinks
  <2> QED BY <2>1, <2>2, <2>5, MarketStays
<1>3. CASE OthersBuy \/ OthersSell
  <2>1. UNCHANGED <<battery, probe, stop, caller, verdict, auditor, report>>
        /\ held' \in 0..MaxHeld
    BY <1>3, StopParts, BatteryAssumption DEF OthersBuy, OthersSell
  <2>2. OrdersInv' /\ Unused' = Unused /\ LiveStops' = LiveStops
    BY <2>1 DEF StopsInv, OrdersInv, Unused, LiveStops
  <2> QED BY <2>1, <2>2, StopParts, MarketStays
<1> QED BY <1>1, <1>2, <1>3 DEF MarketStep

\* A step of the audit changes its own state, the report, and what the caller knows.
LEMMA AuditStepInv == ASSUME StopsInv, AuditStep PROVE StopsInv' /\ SlotStep
<1>1. /\ UNCHANGED <<held, battery, probe, stop, verdict>>
      /\ LiveStops' = LiveStops /\ Unused' = Unused /\ SlotStep /\ OrdersInv'
  BY DEF AuditStep, ReadsPositions, ReportsEmpty, ReadsOrders, AuditFails, LiveStops, Unused,
         SlotStep, Claim, StopsInv, OrdersInv
<1>2. IdleAuditor \in Auditor /\ auditor \in Auditor /\ report \in Report /\ caller \in Caller
  BY StopParts, StartFacts
<1> DEFINE after == [IdleAuditor EXCEPT !.failures = auditor.failures]
           off == FALSE
<1>3. off \in BOOLEAN
  OBVIOUS
<1>4. CASE ReadsPositions
  <2> DEFINE clean == caller.at = "idle"
  <2>1. clean \in BOOLEAN /\ (clean => caller.at = "idle")
    OBVIOUS
  <2>2. auditor' = [auditor EXCEPT !.at = "orders", !.read = held, !.clean = clean]
        /\ UNCHANGED <<caller, report>>
    BY <1>4 DEF ReadsPositions
  <2> HIDE DEF clean
  <2>3. auditor' \in Auditor /\ auditor'.clean = clean
    BY <1>2, <2>1, <2>2, StopParts DEF Auditor
  <2>4. BatteryInv' /\ StopsTypeOK'
    BY <1>1, <2>2, <2>3, StopParts, TypesFollow
  <2>5. CallerInv' /\ AuditInv'
    BY <1>1, <2>1, <2>2, <2>3 DEF StopsInv, CallerInv, AuditInv
  <2> QED BY <1>1, <2>4, <2>5 DEF StopsInv
<1>5. CASE AuditFails
  <2>1. auditor' = [IdleAuditor EXCEPT !.failures = auditor.failures + 1]
        /\ auditor.failures < MaxFailures /\ UNCHANGED <<caller, report>>
    BY <1>5 DEF AuditFails
  <2>2. IdleAuditor = [at |-> "idle", read |-> 0, clean |-> off, failures |-> 0]
        /\ 0 \in 0..MaxHeld
    BY BatteryAssumption DEF IdleAuditor
  <2> HIDE DEF off
  <2>3. auditor' \in Auditor /\ auditor'.clean = off
    BY <1>2, <1>3, <2>1, <2>2, StopsAssumption DEF Auditor
  <2>4. BatteryInv' /\ StopsTypeOK'
    BY <1>1, <2>1, <2>3, StopParts, TypesFollow
  <2>5. ~off
    BY DEF off
  <2>6. CallerInv' /\ AuditInv'
    BY <1>1, <2>1, <2>3, <2>5 DEF StopsInv, CallerInv, AuditInv
  <2> QED BY <1>1, <2>4, <2>6 DEF StopsInv
<1>6. CASE ReportsEmpty \/ ReadsOrders
  <2>1. PICK kind \in Kinds, id \in {0} \union Ids :
          /\ report' = [kind |-> kind, fresh |-> auditor.clean, id |-> id]
          /\ kind = "uncovered" => LiveStops = {}
          /\ id # 0 => LiveStops \subseteq {id}
          /\ caller' = caller \/ (auditor.clean /\ caller' = [caller EXCEPT !.known = id])
          /\ auditor' = after
    <3>1. CASE ReportsEmpty
      <4>1. "empty" \in Kinds
        BY DEF Kinds
      <4> QED BY <3>1, <4>1 DEF ReportsEmpty
    <3>2. CASE ReadsOrders
      <4> DEFINE id == IF Cardinality(Qualifying) = 1 THEN CHOOSE s \in Qualifying : TRUE ELSE 0
      <4>1. PICK kind \in Findings(auditor.read) : Publish(kind, id)
        BY <3>2 DEF ReadsOrders
      <4>2. kind \in Kinds /\ (kind = "uncovered" => LiveStops = {})
        BY DEF Findings, Kinds
      <4>3. id # 0 => id \in Qualifying
        BY FS_EmptySet
      <4>4. Qualifying \subseteq LiveStops /\ LiveStops \subseteq Ids
        BY DEF Qualifying, LiveStops, IsRestingOrderStatus, LiveStatuses
      <4>5. id # 0 => id \in Ids /\ LiveStops \subseteq {id}
        BY <4>3, <4>4 DEF StopsInv, OrdersInv
      <4> HIDE DEF id
      <4> QED BY <4>1, <4>2, <4>5 DEF Publish
    <3> QED BY <1>6, <3>1, <3>2
  <2>2. auditor.clean \in BOOLEAN /\ auditor.failures \in 0..MaxFailures
    BY <1>2 DEF Auditor
  <2>3. IdleAuditor = [at |-> "idle", read |-> 0, clean |-> off, failures |-> 0]
        /\ 0 \in 0..MaxHeld
    BY BatteryAssumption DEF IdleAuditor
  <2> HIDE DEF off
  <2>4. after \in Auditor /\ after.clean = off
    BY <1>3, <2>2, <2>3 DEF Auditor
  <2> HIDE DEF after
  <2>5. report' \in Report /\ report'.fresh = auditor.clean /\ report'.kind = kind
    BY <2>1, <2>2 DEF Report
  <2>6. caller' \in Caller /\ caller'.at = caller.at /\ caller'.old = caller.old
        /\ caller'.qty = caller.qty /\ caller'.read = caller.read
        /\ (caller'.known = caller.known \/ caller'.known = id)
    BY <1>2, <2>1 DEF Caller
  <2>7. BatteryInv' /\ StopsTypeOK'
    BY <1>1, <2>1, <2>4, <2>5, <2>6, StopParts, TypesFollow
  <2>8. CallerInv'
    BY <1>1, <2>1, <2>6 DEF StopsInv, CallerInv
  <2>9. ~off
    BY DEF off
  <2>10. AuditInv'
    BY <1>1, <2>1, <2>4, <2>5, <2>6, <2>9 DEF StopsInv, AuditInv
  <2> QED BY <1>1, <2>7, <2>8, <2>10 DEF StopsInv
<1> QED BY <1>4, <1>5, <1>6 DEF AuditStep

\* A call begins: what the audits found before no longer counts.
LEMMA CallBeginsFacts ==
  ASSUME StopsInv, CallBegins
  PROVE  /\ auditor' \in Auditor /\ ~auditor'.clean
         /\ report' \in Report /\ ~report'.fresh /\ verdict' \in Verdicts
         /\ Claim' = "none"
<1> DEFINE off == FALSE
<1>1. off \in BOOLEAN /\ auditor \in Auditor /\ report \in Report
      /\ auditor' = [auditor EXCEPT !.clean = off] /\ report' = [report EXCEPT !.fresh = off]
      /\ verdict' \in Verdicts /\ Claim' = "none"
  BY StopParts DEF CallBegins, Verdicts, Claim
<1> HIDE DEF off
<1>2. auditor' \in Auditor /\ auditor'.clean = off /\ report' \in Report /\ report'.fresh = off
  BY <1>1 DEF Auditor, Report
<1>3. ~off
  BY DEF off
<1> QED BY <1>1, <1>2, <1>3

\* A call goes on, or ends, without a change at the broker that frees or takes the slot.
LEMMA CallerMoves ==
  ASSUME StopsInv, UNCHANGED <<held, battery, probe>>, stop' \in [Ids -> StopOrder],
         OrdersInv', Unused' = Unused, LiveStops' = LiveStops,
         caller' \in Caller, verdict' \in Verdicts, Claim' # "protected" \/ Claim' = Claim,
         auditor' \in Auditor, report' \in Report, CallerInv', ~auditor'.clean, ~report'.fresh
  PROVE  StopsInv' /\ SlotStep
<1>1. BatteryInv' /\ StopsTypeOK'
  BY StopParts, TypesFollow
<1>2. AuditInv' /\ SlotStep
  BY DEF AuditInv, SlotStep
<1> QED BY <1>1, <1>2 DEF StopsInv

\* While a call is in progress, no audit is clean and no report fresh.
LEMMA InCall ==
  ASSUME StopsInv, caller.at # "idle", UNCHANGED <<auditor, report>>
  PROVE  auditor' \in Auditor /\ report' \in Report /\ ~auditor'.clean /\ ~report'.fresh
BY StopParts DEF StopsInv, AuditInv

LEMMA UnchangedStops ==
  ASSUME StopsInv, UNCHANGED stop
  PROVE  /\ stop' \in [Ids -> StopOrder] /\ OrdersInv' /\ Unused' = Unused
         /\ LiveStops' = LiveStops
BY StopParts DEF StopsInv, OrdersInv, Unused, LiveStops

\* A call ends.
LEMMA CallEndsFacts ==
  ASSUME NEW told \in Verdicts, NEW known \in {0} \union Ids, CallEnds(told, known)
  PROVE  /\ verdict' \in Verdicts /\ verdict' = told
         /\ caller' \in Caller /\ caller'.at = "idle" /\ caller'.known = known
<1>1. caller' = [IdleCaller EXCEPT !.known = known] /\ IdleCaller \in Caller
      /\ IdleCaller.at = "idle"
  BY StartFacts DEF CallEnds
<1> QED BY <1>1 DEF CallEnds, Caller

LEMMA CallStartsInv ==
  ASSUME StopsInv, NEW qty \in 1..MaxHeld, StartPlace(qty) \/ StartReplace(qty)
  PROVE  StopsInv' /\ SlotStep
<1>1. /\ UNCHANGED <<held, battery, probe, stop>> /\ CallBegins
      /\ Unused # {} /\ caller.at = "idle"
  BY DEF StartPlace, StartReplace
<1>2. /\ stop' \in [Ids -> StopOrder] /\ OrdersInv' /\ Unused' = Unused
      /\ LiveStops' = LiveStops
  BY <1>1, UnchangedStops
<1>3. IdleCaller \in Caller /\ caller \in Caller /\ qty \in 0..MaxHeld
  BY StartFacts, StopParts, BatteryAssumption
<1>4. caller' \in Caller /\ CallerInv'
  <2>1. CASE StartPlace(qty)
    <3>1. caller' = [IdleCaller EXCEPT !.at = "read", !.qty = qty]
          /\ report.fresh /\ report.kind = "uncovered"
      BY <2>1 DEF StartPlace
    <3>2. caller' \in Caller /\ caller'.at = "read"
      BY <1>3, <3>1 DEF Caller
    <3>3. LiveStops = {}
      BY <3>1 DEF StopsInv, AuditInv
    <3> QED BY <1>1, <1>2, <3>2, <3>3 DEF CallerInv
  <2>2. CASE StartReplace(qty)
    <3>1. caller' = [IdleCaller EXCEPT !.at = "cancel", !.qty = qty, !.old = caller.known]
          /\ caller.known # 0
      BY <2>2 DEF StartReplace
    <3>2. caller' \in Caller /\ caller'.at = "cancel" /\ caller'.old = caller.known
      BY <1>3, <3>1 DEF Caller
    <3>3. LiveStops \subseteq {caller.known}
      BY <1>1, <3>1 DEF StopsInv, CallerInv
    <3> QED BY <1>1, <1>2, <3>1, <3>2, <3>3 DEF CallerInv
  <2> QED BY <2>1, <2>2
<1> QED BY <1>1, <1>2, <1>4, CallBeginsFacts, CallerMoves

\* A cancel request: the old stop is as live as before.
LEMMA CancelRequestFacts ==
  ASSUME StopsInv, NEW s \in Ids,
         stop' = [stop EXCEPT ![s].status = AfterCancelRequest(stop[s].status)]
  PROVE  /\ stop' \in [Ids -> StopOrder] /\ OrdersInv' /\ Unused' = Unused
         /\ LiveStops' = LiveStops
<1>1. stop[s] \in StopOrder /\ stop \in [Ids -> StopOrder]
  BY StopParts
<1> DEFINE status == AfterCancelRequest(stop[s].status)
           x == [stop[s] EXCEPT !.status = status]
<1>2. /\ status \in OrderStatuses
      /\ status \in LiveStatuses <=> stop[s].status \in LiveStatuses
      /\ stop[s].status \in LiveStatuses \/ status = stop[s].status
      /\ stop[s].status \in LiveStatuses => status # "none"
  BY <1>1 DEF AfterCancelRequest, LiveStatuses, OrderStatuses, StopOrder
<1> HIDE DEF status
<1>3. /\ x \in StopOrder /\ x.status = status /\ x.qty = stop[s].qty
      /\ x.read = stop[s].read /\ x.filled = stop[s].filled
      /\ status = stop[s].status => x = stop[s]
  BY <1>1, <1>2 DEF StopOrder
<1>4. stop' = [stop EXCEPT ![s] = x]
  BY <1>1 DEF status
<1>5. stop[s].status \in LiveStatuses => stop[s].filled < stop[s].qty
  BY DEF StopsInv, OrdersInv
<1> HIDE DEF x
<1> QED BY <1>2, <1>3, <1>4, <1>5, StopShrinks

LEMMA CancelsInv ==
  ASSUME StopsInv, CancelOld \/ CancelOldRaises
  PROVE  StopsInv' /\ SlotStep
<1>1. /\ UNCHANGED <<held, battery, probe, auditor, report>> /\ caller.at = "cancel"
      /\ caller.old \in Ids /\ caller \in Caller
      /\ LiveStops \subseteq {caller.old} /\ Unused # {}
  BY StopParts DEF CancelOld, CancelOldRaises, StopsInv, CallerInv, Caller
<1>2. PICK s \in Ids : s = caller.old
  BY <1>1
<1>3. /\ stop' \in [Ids -> StopOrder] /\ OrdersInv' /\ Unused' = Unused
      /\ LiveStops' = LiveStops
  <2>1. stop' = stop \/ stop' = [stop EXCEPT ![s].status = AfterCancelRequest(stop[s].status)]
    BY <1>2, StopParts DEF CancelOld, CancelOldRaises
  <2> QED BY <2>1, CancelRequestFacts, UnchangedStops
<1>4. /\ caller' \in Caller /\ CallerInv' /\ verdict' \in Verdicts
      /\ Claim' # "protected" \/ Claim' = Claim
  <2>1. CASE CancelOld
    <3>1. caller' = [caller EXCEPT !.at = "wait"] /\ verdict' = verdict
      BY <2>1 DEF CancelOld
    <3>2. caller' \in Caller /\ caller'.at = "wait" /\ caller'.old = caller.old
      BY <1>1, <3>1 DEF Caller
    <3>3. CallerInv'
      BY <1>1, <1>3, <3>2, StopsAssumption DEF CallerInv, Ids
    <3> QED BY <3>1, <3>2, <3>3, StopParts DEF Claim
  <2>2. CASE CancelOldRaises
    <3>1. CallEnds("raised", 0) /\ "raised" \in Verdicts
      BY <2>2 DEF CancelOldRaises, Verdicts
    <3> QED BY <3>1, CallEndsFacts DEF Claim, CallerInv
  <2> QED BY <2>1, <2>2
<1>5. auditor' \in Auditor /\ report' \in Report /\ ~auditor'.clean /\ ~report'.fresh
  BY <1>1, InCall
<1> QED BY <1>1, <1>3, <1>4, <1>5, CallerMoves

\* The wait for the cancel and the reads before the submit touch no order.
LEMMA WaitsInv ==
  ASSUME StopsInv,
         OldCancelConfirmed \/ OldCancelUnconfirmed \/ ReadsHeld \/ PlacementRefused
  PROVE  StopsInv' /\ SlotStep
<1>1. /\ UNCHANGED <<held, battery, probe, stop, auditor, report>>
      /\ caller.at \in {"wait", "read"} /\ caller \in Caller /\ Unused # {}
  BY StopParts
     DEF OldCancelConfirmed, OldCancelUnconfirmed, ReadsHeld, PlacementRefused, StopsInv,
         CallerInv
<1>2. /\ stop' \in [Ids -> StopOrder] /\ OrdersInv' /\ Unused' = Unused
      /\ LiveStops' = LiveStops
  BY <1>1, UnchangedStops
<1>3. /\ caller' \in Caller /\ CallerInv' /\ verdict' \in Verdicts
      /\ Claim' # "protected" \/ Claim' = Claim
  <2>1. CASE OldCancelConfirmed
    <3>1. caller' = [caller EXCEPT !.at = "read"] /\ verdict' = verdict
          /\ stop[caller.old].status = "canceled" /\ LiveStops \subseteq {caller.old}
      BY <2>1 DEF OldCancelConfirmed, OldIsGone, CancelConfirmed, StopsInv, CallerInv
    <3>2. caller' \in Caller /\ caller'.at = "read"
      BY <1>1, <3>1 DEF Caller
    <3>3. LiveStops = {}
      BY <3>1 DEF LiveStops, LiveStatuses
    <3> QED BY <1>1, <1>2, <3>1, <3>2, <3>3, StopParts DEF CallerInv, Claim
  <2>2. CASE ReadsHeld
    <3>1. caller' = [caller EXCEPT !.at = "submit", !.read = held] /\ verdict' = verdict
          /\ caller.qty <= held /\ Snap(caller.qty, Increment) >= MinOrder /\ LiveStops = {}
      BY <2>2 DEF ReadsHeld, Placeable, StopsInv, CallerInv
    <3>2. caller' \in Caller /\ caller'.at = "submit" /\ caller'.qty = caller.qty
          /\ caller'.read = held
      BY <1>1, <3>1, StopParts DEF Caller
    <3> QED BY <1>1, <1>2, <3>1, <3>2, StopParts DEF CallerInv, Claim
  <2>3. CASE OldCancelUnconfirmed \/ PlacementRefused
    <3>1. PICK told \in {"cancel_unconfirmed", "raised", "unprotected_after_cancel"} :
            CallEnds(told, 0)
      BY <2>3 DEF OldCancelUnconfirmed, PlacementRefused, Failure
    <3>2. told \in Verdicts
      BY DEF Verdicts
    <3>3. caller' \in Caller /\ caller'.at = "idle" /\ caller'.known = 0
          /\ verdict' = told
      BY <3>1, <3>2, CallEndsFacts
    <3> QED BY <3>2, <3>3 DEF Claim, CallerInv
  <2> QED BY <2>1, <2>2, <2>3
<1>4. auditor' \in Auditor /\ report' \in Report /\ ~auditor'.clean /\ ~report'.fresh
  BY <1>1, InCall
<1> QED BY <1>1, <1>2, <1>3, <1>4, CallerMoves

LEMMA SnapFacts ==
  ASSUME NEW qty \in Nat, NEW inc \in Nat \ {0}
  PROVE  Snap(qty, inc) \in Nat /\ Snap(qty, inc) <= qty
<1>1. qty \div inc \in Int /\ qty \div inc >= 0
  OBVIOUS
<1>2. (qty \div inc) * inc <= qty
  BY Z3
<1>3. \A a, b \in Nat : a * b \in Nat
  OBVIOUS
<1> QED BY <1>1, <1>2, <1>3 DEF Snap

LEMMA SubmitQtyFacts ==
  ASSUME StopsInv, caller.at = "submit"
  PROVE  /\ SubmitQty \in Nat \ {0} /\ SubmitQty \in 0..MaxHeld /\ SubmitQty <= caller.read
         /\ caller.read \in 0..MaxHeld
<1>1. /\ caller \in Caller /\ caller.qty <= caller.read
      /\ Snap(caller.qty, Increment) >= MinOrder
  BY StopParts DEF StopsInv, CallerInv
<1>2. caller.qty \in 0..MaxHeld /\ caller.read \in 0..MaxHeld /\ caller.qty \in Nat
  BY <1>1 DEF Caller
<1>3. SubmitQty \in Nat /\ SubmitQty <= caller.qty
  BY <1>2, SnapFacts, StopsAssumption DEF SubmitQty
<1> QED BY <1>1, <1>2, <1>3, StopsAssumption, BatteryAssumption DEF SubmitQty

\* A stop enters the empty slot; one that was refused or has filled does not stay there.
LEMMA StopEnters ==
  ASSUME StopsInv, caller.at = "submit", NEW order \in SubmitAnswers(SubmitQty),
         Sent(order)
  PROVE  /\ stop' \in [Ids -> StopOrder] /\ OrdersInv' /\ NextId \in Ids /\ LiveStops = {}
         /\ LiveStops' = IF order.status \in LiveStatuses THEN {NextId} ELSE {}
<1>1. /\ LiveStops = {} /\ NextId \in Ids /\ stop \in [Ids -> StopOrder]
  BY StopParts DEF StopsInv, CallerInv, NextId, Unused
<1>2. PICK s \in Ids : s = NextId
  BY <1>1
<1> DEFINE x == [status |-> order.status, filled |-> order.filled, read |-> caller.read,
                 qty |-> SubmitQty]
<1>3. /\ order.status \in OrderStatuses /\ order.filled \in 0..SubmitQty
      /\ order.status \in LiveStatuses => order.filled < SubmitQty
  BY SubmitQtyFacts, AnswerFacts
<1>4. /\ SubmitQty \in 0..MaxHeld /\ SubmitQty <= caller.read /\ caller.read \in 0..MaxHeld
      /\ order.filled \in 0..MaxHeld
  BY <1>3, SubmitQtyFacts, BatteryAssumption
<1>5. stop' = [stop EXCEPT ![s] = x]
  BY <1>2 DEF Sent
<1>6. /\ x \in StopOrder /\ x.status = order.status /\ x.qty = SubmitQty
      /\ x.read = caller.read /\ x.filled = order.filled
  BY <1>3, <1>4 DEF StopOrder
<1> HIDE DEF x
<1>7. stop' \in [Ids -> StopOrder] /\ stop'[s] = x /\ \A t \in Ids : t # s => stop'[t] = stop[t]
  BY <1>1, <1>5, <1>6
<1>8. \A t \in Ids : t # s => stop'[t].status \notin LiveStatuses
  BY <1>1, <1>7 DEF LiveStops
<1>9. LiveStops' = IF order.status \in LiveStatuses THEN {s} ELSE {}
  BY <1>6, <1>7, <1>8 DEF LiveStops
<1>10. \A t \in Ids : /\ stop'[t].qty <= stop'[t].read
                      /\ stop'[t].status \in LiveStatuses => stop'[t].filled < stop'[t].qty
  BY <1>3, <1>4, <1>6, <1>7, <1>8 DEF StopsInv, OrdersInv
<1>11. OrdersInv'
  BY <1>9, <1>10 DEF OrdersInv
<1> QED BY <1>1, <1>2, <1>7, <1>9, <1>11

LEMMA SubmitsInv ==
  ASSUME StopsInv, SubmitAnswered \/ SubmitRaises
  PROVE  StopsInv' /\ SlotStep
<1>1. UNCHANGED <<battery, probe, auditor, report>> /\ caller.at = "submit"
      /\ LiveStops = {}
  BY DEF SubmitAnswered, SubmitRaises, StopsInv, CallerInv
<1>2. auditor' \in Auditor /\ report' \in Report /\ ~auditor'.clean /\ ~report'.fresh
  BY <1>1, InCall
<1>3. held' \in 0..MaxHeld
  <2>1. CASE SubmitAnswered
    <3>1. PICK order \in SubmitAnswers(SubmitQty) :
            order.filled <= held /\ held' = held - order.filled
      BY <2>1 DEF SubmitAnswered
    <3>2. order.filled \in 0..SubmitQty /\ SubmitQty \in Nat
      BY <1>1, SubmitQtyFacts, AnswerFacts
    <3> QED BY <3>1, <3>2, StopParts, BatteryAssumption
  <2>2. CASE SubmitRaises
    BY <2>2, StopParts DEF SubmitRaises
  <2> QED BY <2>1, <2>2
<1>4. PICK told \in Verdicts, known \in {0} \union Ids :
        /\ CallEnds(told, known) /\ stop' \in [Ids -> StopOrder] /\ OrdersInv'
        /\ known # 0 => LiveStops' \subseteq {known}
        /\ LiveStops' = {} => told # "replaced"
        /\ LiveStops' = {} \/ \E s \in Ids : LiveStops' = {s}
  <2>1. CASE SubmitAnswered
    <3>1. PICK order \in SubmitAnswers(SubmitQty) :
            /\ Sent(order)
            /\ IF caller.old = 0 THEN CallEnds("placed", NextId)
               ELSE IF IsRestingOrderStatus(order.status) THEN CallEnds("replaced", NextId)
               ELSE CallEnds("unprotected_after_cancel", 0)
      BY <2>1 DEF SubmitAnswered
    <3>2. /\ stop' \in [Ids -> StopOrder] /\ OrdersInv' /\ NextId \in Ids
          /\ LiveStops' = IF order.status \in LiveStatuses THEN {NextId} ELSE {}
      BY <1>1, <3>1, StopEnters
    <3>3. {"placed", "replaced", "unprotected_after_cancel"} \subseteq Verdicts
      BY DEF Verdicts
    <3>4. CASE caller.old = 0
      BY <3>1, <3>2, <3>3, <3>4
    <3>5. CASE caller.old # 0 /\ IsRestingOrderStatus(order.status)
      <4>1. order.status \in LiveStatuses /\ CallEnds("replaced", NextId)
        BY <3>1, <3>5 DEF IsRestingOrderStatus, LiveStatuses
      <4> QED BY <3>2, <3>3, <4>1
    <3>6. CASE caller.old # 0 /\ ~IsRestingOrderStatus(order.status)
      BY <3>1, <3>2, <3>3, <3>6
    <3> QED BY <3>4, <3>5, <3>6
  <2>2. CASE SubmitRaises
    <3>1. PICK told \in {"raised", "unprotected_after_cancel"} : CallEnds(told, 0)
      BY <2>2 DEF SubmitRaises, Failure
    <3>2. told \in Verdicts /\ told # "replaced"
      BY DEF Verdicts
    <3>3. CASE stop' = stop
      BY <1>1, <3>1, <3>2, <3>3, UnchangedStops
    <3> DEFINE pending == [status |-> "pending_new", filled |-> 0]
    <3>4. CASE Sent(pending)
      <4>1. pending \in SubmitAnswers(SubmitQty) /\ pending.status \in LiveStatuses
        BY DEF SubmitAnswers, LiveStatuses
      <4>2. /\ stop' \in [Ids -> StopOrder] /\ OrdersInv' /\ NextId \in Ids
            /\ LiveStops' = {NextId}
        BY <1>1, <3>4, <4>1, StopEnters
      <4> QED BY <3>1, <3>2, <4>2
    <3> QED BY <2>2, <3>3, <3>4 DEF SubmitRaises
  <2> QED BY <2>1, <2>2
<1>5. verdict' = told /\ caller' \in Caller /\ caller'.at = "idle" /\ caller'.known = known
  BY <1>4, CallEndsFacts
<1>6. BatteryInv' /\ StopsTypeOK'
  BY <1>1, <1>2, <1>3, <1>4, <1>5, TypesFollow
<1>7. CallerInv' /\ AuditInv'
  BY <1>2, <1>4, <1>5 DEF CallerInv, AuditInv
<1>8. SlotStep
  BY <1>1, <1>4, <1>5 DEF SlotStep, Claim
<1> QED BY <1>4, <1>6, <1>7, <1>8 DEF StopsInv

\* A step of the battery, or a stutter, leaves the stops alone.
LEMMA BatteryAloneInv ==
  ASSUME StopsInv,
         \/ (BatteryBegins \/ BatteryStep \/ ProbeBrokerStep) /\ UNCHANGED tvars
         \/ UNCHANGED vars
  PROVE  StopsInv' /\ SlotStep
<1>1. BatteryInv'
  BY BatteryStepInv, BatteryStays, StopParts DEF StopsInv, vars, bvars
<1>2. UNCHANGED <<stop, caller, verdict, auditor, report>>
  BY DEF vars, tvars
<1>3. BatteryTypeOK'
  BY <1>1 DEF BatteryInv
<1>4. StopsTypeOK' /\ OrdersInv' /\ CallerInv' /\ AuditInv'
  BY <1>2, <1>3 DEF StopsInv, StopsTypeOK, OrdersInv, CallerInv, AuditInv, LiveStops, Unused
<1>5. SlotStep
  BY <1>2 DEF SlotStep, LiveStops, Claim
<1> QED BY <1>1, <1>4, <1>5 DEF StopsInv

LEMMA StopsStep == StopsInv /\ [Next]_vars => StopsInv' /\ SlotStep
<1> SUFFICES ASSUME StopsInv, [Next]_vars PROVE StopsInv' /\ SlotStep
  OBVIOUS
<1>1. CASE CallStep
  BY <1>1, CallStartsInv, CancelsInv, WaitsInv, SubmitsInv DEF CallStep
<1>2. CASE AuditStep
  BY <1>2, AuditStepInv
<1>3. CASE MarketStep
  BY <1>3, MarketStepInv
<1>4. CASE \/ (BatteryBegins \/ BatteryStep \/ ProbeBrokerStep) /\ UNCHANGED tvars
           \/ UNCHANGED vars
  BY <1>4, BatteryAloneInv
<1> QED BY <1>1, <1>2, <1>3, <1>4 DEF Next

-----------------------------------------------------------------------------
\* The inductive invariant holds for every size, grid and number of stops: in particular the
\* state stays one the code can be in, and two stops of the pair never stand together.
THEOREM StopsInvariant == StopsSpec => []StopsInv
<1>1. Init => StopsInv
  BY StopsInitInv
<1>2. StopsInv /\ [Next]_vars => StopsInv'
  BY StopsStep
<1> QED BY <1>1, <1>2, PTL DEF StopsSpec, Spec

\* The variables stay in their types, whatever calls, audits and fills interleave.
THEOREM StopsTypes == StopsSpec => []StopsTypeOK
<1>1. StopsInv => StopsTypeOK
  BY DEF StopsInv
<1> QED BY <1>1, StopsInvariant, PTL

\* A probe the battery filed as passed is cancelled and bought nothing, for any probe size
\* and any move of the broker between the calls (_place_probe_and_confirm_cleanup).
THEOREM StopsProbesLeaveNothing == StopsSpec => []PassedProbeLeftNothing
<1>1. StopsInv => PassedProbeLeftNothing
  BY DEF StopsInv, BatteryInv
<1> QED BY <1>1, StopsInvariant, PTL

\* A stop larger than the position is a stop whose position was sold after its placement
\* had read it (place_crypto_stop_limit's check between the reads and the submit).
THEOREM StopsOversizedOnlyAfterExit == StopsSpec => []OversizedOnlyAfterExit
<1>1. StopsInv => OversizedOnlyAfterExit
  <2> SUFFICES ASSUME StopsInv, NEW s \in LiveStops, stop[s].qty > held
               PROVE  held < stop[s].read
    BY DEF OversizedOnlyAfterExit
  <2>1. s \in Ids /\ stop[s] \in StopOrder /\ stop[s].qty <= stop[s].read
        /\ held \in 0..MaxHeld
    BY StopParts DEF LiveStops, StopsInv, OrdersInv
  <2> QED BY <2>1, BatteryAssumption DEF StopOrder
<1> QED BY <1>1, StopsInvariant, PTL

\* place_crypto_stop_limit and replace_crypto_stop_limit implement StopSlot: their initial
\* states map to an empty slot, and each of their steps, of the audit's and of the broker's
\* puts a stop into an empty slot, empties it, speaks, or shows nothing.
THEOREM StopsImplementSlot == StopsSpec => RefinesStopSlot
<1>1. Init => Slot!Init
  BY StopsInitInv DEF Slot!Init
<1>2. StopsInv /\ [Next]_vars => [Slot!Next]_(Slot!svars)
  BY StopsStep, SlotStepRefines
<1> QED BY <1>1, <1>2, StopsInvariant, PTL DEF StopsSpec, Spec, RefinesStopSlot, Slot!Spec
=============================================================================
