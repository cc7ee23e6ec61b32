----------------------------- MODULE PreopenGate -----------------------------
(***************************************************************************)
(* The pre-open cancel gate (preopen_cancel_gate.py) with its alerts.      *)
(*                                                                         *)
(* A run measures the overnight futures move, lists the open orders, and   *)
(* cancels the queued market orders the gap hurts, one call after another; *)
(* then it appends their rows to the cancel ledger and posts its alert.    *)
(* Other traders queue and withdraw orders meanwhile, the market opens,    *)
(* two runs may overlap and a run may die at any point.                    *)
(*                                                                         *)
(* A futures feed is reduced to what compute_overnight_severity reads of   *)
(* it: the price of the latest bar and its age, the price of the bar at    *)
(* the prior close (0: no such bar or an invalid one), the overnight       *)
(* deviation in the same unit and the number of sessions it comes from.    *)
(***************************************************************************)
EXTENDS OperatorAlerts

CONSTANTS
    Orders,      \* order ids; one that nobody has sent yet is absent
    Buys,        \* the orders whose side is buy; the others sell
    Gated,       \* market orders of listed stocks; neither limit nor crypto orders
    Feeds,       \* what the futures feed may show when a run begins
    Threshold,   \* --severity-threshold-sigma
    MaxStale,    \* max_stale_minutes
    ListLimit,   \* limit of the order listing
    CancelCooldown, DegradedCooldown,
    MaxRuns      \* bound on the runs of the gate

ASSUME GateAssumption ==
    /\ Buys \subseteq Orders /\ Gated \subseteq Orders
    /\ Feeds \subseteq [latest: Nat, age: Nat, prior: Nat, sigma: Nat, n_obs: Nat]
    /\ Threshold \in Int
    /\ MaxStale \in Nat /\ ListLimit \in Nat /\ MaxRuns \in Nat
    /\ CancelCooldown \in 0..MaxCooldown /\ DegradedCooldown \in 0..MaxCooldown
    /\ {"PREOPEN_CANCEL", "PREOPEN_CANCEL_PARTIAL", "PREOPEN_CANCEL_FAILED",
        "PREOPEN_GATE_DEGRADED"} \subseteq Taxonomies
    /\ [cancelled: SUBSET Orders, failed: SUBSET Orders] \subseteq Keys

VARIABLES
    order,   \* per order, its status at the broker
    gate,    \* per process, its run of the gate
    ledger,  \* the order ids of preopen_cancel_ledger.jsonl
    orphans, \* history: cancels whose reply was lost, or whose run died before its append
    opened,  \* the market has opened
    runs     \* the runs begun

gvars == <<order, gate, ledger, orphans, opened, runs>>

vars == <<avars, gvars>>

OrderStatus == {"absent", "queued", "pending_cancel", "canceled", "filled"}

Gaps == {"up", "down", "none"}

NoRun == [at |-> "idle", gap |-> "none", dry |-> FALSE, both |-> FALSE,
          seen |-> {}, todo |-> {}, cancelled |-> {}, failed |-> {}]

GateAt == {"idle", "list", "cancel", "report", "degraded", "posting"}

OpenOrders == {o \in Orders : order[o] \in {"queued", "pending_cancel"}}

-----------------------------------------------------------------------------
(* The severity of the overnight move.                                     *)

\* The feed is stale, has no bar at the prior close, or too few sessions for a sigma.
Unavailable(f) == f.age > MaxStale \/ f.prior = 0 \/ f.n_obs < 10

\* The move counts as none when the deviation is degenerate.
Move(f) == IF f.sigma = 0 THEN 0 ELSE f.latest - f.prior

\* A threshold that is not positive makes every night severe.
Severe(f) ==
    \/ Threshold <= 0
    \/ /\ f.sigma > 0
       /\ Move(f) >= Threshold * f.sigma \/ -Move(f) >= Threshold * f.sigma

Gap(f) == IF Move(f) > 0 THEN "up" ELSE IF Move(f) < 0 THEN "down" ELSE "none"

\* Faulty: the sides are swapped, buys are cancelled when the gap makes them cheaper.
AdverseSwapped(o, gap) ==
    \/ gap = "down" /\ o \in Buys
    \/ gap = "up" /\ o \notin Buys

\* A buy is hurt by a gap up, a sell by a gap down.
IsAdverseFill(o, gap) ==
    \/ gap = "up" /\ o \in Buys
    \/ gap = "down" /\ o \notin Buys

\* The orders a run goes on to cancel, of those it was shown.
ToCancel(run, shown) ==
    {o \in shown \cap Gated : run.both \/ IsAdverseFill(o, run.gap)}

-----------------------------------------------------------------------------
(* One run.                                                                *)

Unposted == UNCHANGED avars

\* A run starts from nothing it remembers: no data, a calm night, or a severe move.
GateBegins(p) ==
    /\ gate[p].at = "idle"
    /\ runs < MaxRuns
    /\ \E f \in Feeds, dry, both \in BOOLEAN :
          gate' = [gate EXCEPT ![p] =
                     IF Unavailable(f) THEN [NoRun EXCEPT !.at = "degraded"]
                     ELSE IF Severe(f)
                     THEN [NoRun EXCEPT !.at = "list", !.gap = Gap(f),
                                        !.dry = dry, !.both = both]
                     ELSE NoRun]
    /\ runs' = runs + 1
    /\ Unposted /\ UNCHANGED <<order, ledger, orphans, opened>>

\* client.get_orders: all open orders of every kind, as many as the limit allows.
GateLists(p) ==
    /\ gate[p].at = "list"
    /\ \E shown \in SUBSET OpenOrders :
          /\ Cardinality(shown) <= ListLimit
          /\ Cardinality(shown) < ListLimit => shown = OpenOrders
          /\ LET todo == ToCancel(gate[p], shown) IN
                gate' = [gate EXCEPT ![p].seen = shown,
                                     ![p].todo = IF gate[p].dry THEN {} ELSE todo,
                                     ![p].at = "cancel"]
    /\ Unposted /\ UNCHANGED <<order, ledger, orphans, opened, runs>>

\* One order of the loop is done: it is counted as cancelled, or as failed.
Counted(p, o, field) ==
    gate' = [gate EXCEPT
               ![p].todo = @ \ {o},
               ![p].cancelled = IF field = "cancelled" THEN @ \union {o} ELSE @,
               ![p].failed = IF field = "failed" THEN @ \union {o} ELSE @]

\* cancel_order_by_id is accepted: the broker has the request, not yet the end.
CancelAccepted(p, o) ==
    /\ gate[p].at = "cancel" /\ o \in gate[p].todo
    /\ order[o] \in {"queued", "pending_cancel"}
    /\ order' = [order EXCEPT ![o] = "pending_cancel"]
    /\ Counted(p, o, "cancelled")
    /\ Unposted /\ UNCHANGED <<ledger, orphans, opened, runs>>

\* The call raises: the order is beyond cancelling or the call never arrived.
CancelRaises(p, o) ==
    /\ gate[p].at = "cancel" /\ o \in gate[p].todo
    /\ Counted(p, o, "failed")
    /\ Unposted /\ UNCHANGED <<order, ledger, orphans, opened, runs>>

\* The call raises although the broker took the request.
CancelReplyLost(p, o) ==
    /\ gate[p].at = "cancel" /\ o \in gate[p].todo
    /\ order[o] = "queued"
    /\ order' = [order EXCEPT ![o] = "pending_cancel"]
    /\ orphans' = orphans \union {o}
    /\ Counted(p, o, "failed")
    /\ Unposted /\ UNCHANGED <<ledger, opened, runs>>

\* Faulty: the ledger gets rows only from a run in which no cancel failed.
RowsOfCleanRuns(run) == IF run.failed = {} THEN run.cancelled ELSE {}

\* The rows a run appends: one per accepted cancel.
LedgerRows(run) == run.cancelled

\* After the loop: the ledger first, then the alert; a run that cancelled nothing and
\* failed at nothing has neither.
LedgerAppended(p) ==
    /\ gate[p].at = "cancel" /\ gate[p].todo = {}
    /\ ledger' = ledger \union LedgerRows(gate[p])
    /\ gate' = [gate EXCEPT ![p] = IF gate[p].cancelled \union gate[p].failed = {}
                                   THEN NoRun ELSE [gate[p] EXCEPT !.at = "report"]]
    /\ Unposted /\ UNCHANGED <<order, orphans, opened, runs>>

\* _post_cancel_alert: the key names the day and the orders.
CancelAlert(run) ==
    [taxonomy |-> IF run.cancelled = {} THEN "PREOPEN_CANCEL_FAILED"
                  ELSE IF run.failed = {} THEN "PREOPEN_CANCEL"
                  ELSE "PREOPEN_CANCEL_PARTIAL",
     key |-> [cancelled |-> run.cancelled, failed |-> run.failed],
     cooldown |-> CancelCooldown]

\* _post_data_unavailable_alert: the key names the day alone.
DegradedAlert ==
    [taxonomy |-> "PREOPEN_GATE_DEGRADED",
     key |-> [cancelled |-> {}, failed |-> {}],
     cooldown |-> DegradedCooldown]

GateAlerts(p) ==
    /\ gate[p].at \in {"report", "degraded"}
    /\ BeginPost(p, IF gate[p].at = "report" THEN CancelAlert(gate[p]) ELSE DegradedAlert)
    /\ gate' = [gate EXCEPT ![p] = [NoRun EXCEPT !.at = "posting"]]
    /\ UNCHANGED <<alert_file, sent, clock, order, ledger, orphans, opened, runs>>

\* The alert's post goes its way and the run ends with it.
GatePosts(p) ==
    /\ gate[p].at = "posting" /\ InPost(p)
    /\ PostStep(p)
    /\ gate' = IF post'[p] = NoPost THEN [gate EXCEPT ![p] = NoRun] ELSE gate
    /\ UNCHANGED <<order, ledger, orphans, opened, runs>>

\* The listing, the ledger's write or the process fails: nothing more of this run, and
\* no alert says so.
GateDies(p) ==
    /\ gate[p].at # "idle"
    /\ gate' = [gate EXCEPT ![p] = NoRun]
    /\ orphans' = orphans \union
                    (IF gate[p].at = "cancel" THEN gate[p].cancelled ELSE {})
    /\ IF InPost(p) THEN PostDies(p) ELSE Unposted
    /\ UNCHANGED <<order, ledger, opened, runs>>

-----------------------------------------------------------------------------
(* The broker, the other traders and the clock.                            *)

\* A trader queues an order.
Queue(o) ==
    /\ order[o] = "absent" /\ ~opened
    /\ order' = [order EXCEPT ![o] = "queued"]
    /\ Unposted /\ UNCHANGED <<gate, ledger, orphans, opened, runs>>

\* A requested cancel takes effect.
CancelTakesEffect(o) ==
    /\ order[o] = "pending_cancel"
    /\ order' = [order EXCEPT ![o] = "canceled"]
    /\ Unposted /\ UNCHANGED <<gate, ledger, orphans, opened, runs>>

\* At the open everything queued fills, a requested cancel that came too late included.
MarketOpens ==
    /\ ~opened
    /\ opened' = TRUE
    /\ \E late \in SUBSET {o \in Orders : order[o] = "pending_cancel"} :
          order' = [o \in Orders |-> IF order[o] = "queued" \/ o \in late
                                     THEN "filled" ELSE order[o]]
    /\ Unposted /\ UNCHANGED <<gate, ledger, orphans, runs>>

Init ==
    /\ AlertsInit
    /\ order \in [Orders -> {"absent", "queued"}]
    /\ gate = [p \in Posters |-> NoRun]
    /\ ledger = {}
    /\ orphans = {}
    /\ opened = FALSE
    /\ runs = 0

GateStep(p) ==
    \/ GateBegins(p) \/ GateLists(p)
    \/ \E o \in Orders : CancelAccepted(p, o) \/ CancelRaises(p, o) \/ CancelReplyLost(p, o)
    \/ LedgerAppended(p) \/ GateAlerts(p) \/ GatePosts(p) \/ GateDies(p)

Next ==
    \/ \E p \in Posters : GateStep(p)
    \/ \E o \in Orders : Queue(o) \/ CancelTakesEffect(o)
    \/ MarketOpens
    \/ ClockTicks /\ UNCHANGED gvars

GateSpec == Init /\ [][Next]_vars

-----------------------------------------------------------------------------
(* Properties.                                                             *)

GateTypeOK ==
    /\ AlertsTypeOK
    /\ order \in [Orders -> OrderStatus]
    /\ gate \in [Posters -> [at: GateAt, gap: Gaps, dry: BOOLEAN, both: BOOLEAN,
                             seen: SUBSET Orders, todo: SUBSET Orders,
                             cancelled: SUBSET Orders, failed: SUBSET Orders]]
    /\ ledger \subseteq Orders
    /\ orphans \subseteq Orders
    /\ opened \in BOOLEAN
    /\ runs \in 0..MaxRuns

\* The orders a gap of this direction makes dearer to buy or cheaper to sell.
Hurt(gap) == IF gap = "up" THEN Buys ELSE IF gap = "down" THEN Orders \ Buys ELSE {}

\* When a run that saw a severe move has gone through its list, no order of the hurt side
\* that it was shown still waits for the open unless the run reports that it failed to
\* cancel it; and it has asked to cancel no order the gap helps (the 2026-06-23 incident
\* that _is_adverse_fill describes).
GateStopsTheHurtSide ==
    \A p \in Posters :
        /\ gate[p].at \in {"cancel", "report"} /\ gate[p].todo = {} /\ ~gate[p].dry =>
              \A o \in gate[p].seen \cap Gated \cap Hurt(gate[p].gap) :
                  order[o] # "queued" \/ o \in gate[p].failed
        /\ ~gate[p].both => gate[p].cancelled \subseteq Gated \cap Hurt(gate[p].gap)

\* Every order a gate asked the broker to cancel is named in the cancel ledger, or the run
\* that cancelled it has yet to append, or its reply was lost or its run died: a failed
\* cancel of another order, a second run or the open takes no row away
\* (_append_preopen_cancel_ledger runs before the alert).
LedgerNamesEveryCancel ==
    \A o \in Orders :
        order[o] \in {"pending_cancel", "canceled"} =>
            \/ o \in ledger \union orphans
            \/ \E p \in Posters : gate[p].at = "cancel" /\ o \in gate[p].cancelled
=============================================================================
