--------------------------- MODULE OrderStateBook ---------------------------
(***************************************************************************)
(* The order book of one (account, trading_day) session: class             *)
(* OrderStateBook of order_state_machine.py with its parents, their child  *)
(* orders and their counters, driven by a caller that may invoke any       *)
(* method with any argument at any time.  A method that raises before it   *)
(* changes anything is an action that is not enabled.                      *)
(*                                                                         *)
(* Quantities are whole lots (the code's floats and its tolerance 1e-9     *)
(* never decide a case whole lots do not decide); prices are left to the   *)
(* modules about cash.                                                     *)
(***************************************************************************)
EXTENDS SetSums

CONSTANTS
    Intents,        \* parent_intent_ids: one per decision
    Buys,           \* the BUY decisions; the others are SELL (exits)
    Symbol,         \* the symbol each decision is about
    MaxQty,         \* bound on target and child quantities
    MaxAttempts,    \* bound on the submissions of one parent
    MaxPendingAge,  \* MAX_PENDING_AGE_SECONDS, in ticks
    MaxTime         \* bound on the clock

ASSUME BookAssumption ==
    /\ Buys \subseteq Intents
    /\ MaxQty \in Nat \ {0}
    /\ MaxAttempts \in Nat \ {0}
    /\ MaxPendingAge \in Nat
    /\ MaxTime \in Nat

VARIABLES
    target,           \* target_qty of a registered parent, 0 for NONE
    children,         \* children[i][n]: attempt n of parent i
    cum,              \* cum_canceled, cum_rejected and cum_expired
    entries_halted,
    needs_reconcile,  \* _needs_reconcile: set by a restore
    now

vars == <<target, children, cum, entries_halted, needs_reconcile, now>>

Attempts == 1..MaxAttempts
Qty == 1..MaxQty

OpenStates == {"SUBMITTED", "ACCEPTED", "PARTIALLY_FILLED", "STALE_PENDING"}

\* The terminal states that return an unfilled remainder, each with a counter.
Counted == {"CANCELED", "REJECTED", "EXPIRED"}

TerminalStates == Counted \cup {"FILLED"}

Child == [state: OpenStates \cup TerminalStates \cup {"UNUSED"},
          requested_qty: 0..MaxQty, filled_qty: 0..MaxQty,
          submitted_at: 0..MaxTime]

\* An attempt number not yet used.
NoChild == [state |-> "UNUSED", requested_qty |-> 0, filled_qty |-> 0,
            submitted_at |-> 0]

IsOpen(c) == c.state \in OpenStates

Unfilled(c) == c.requested_qty - c.filled_qty

\* What a child still has working at the broker.
Working(c) == IF IsOpen(c) THEN Unfilled(c) ELSE 0

-----------------------------------------------------------------------------
(* The accounting of a parent, computed from its children as the code does. *)

FilledBy(cs) == SumOver([n \in Attempts |-> cs[n].filled_qty], Attempts)

OpenBy(cs) == SumOver([n \in Attempts |-> Working(cs[n])], Attempts)

RequestedBy(cs) == SumOver([n \in Attempts |-> cs[n].requested_qty], Attempts)

cum_filled(i) == FilledBy(children[i])

open_qty(i) == OpenBy(children[i])

\* Faulty: the fills already made are forgotten.
RemainingIgnoringFills(i) == target[i] - open_qty(i)

remaining_unsubmitted(i) == target[i] - cum_filled(i) - open_qty(i)

gross_submitted_qty(i) ==
    cum_filled(i) + open_qty(i) + cum[i]["CANCELED"] + cum[i]["REJECTED"]
        + cum[i]["EXPIRED"]

OpenAttempts(i) == {n \in Attempts : IsOpen(children[i][n])}

UsedAttempts(i) == {n \in Attempts : children[i][n].state # "UNUSED"}

Registered(i) == target[i] > 0

\* A parent with fills or an open child.
HasEffect(i) == cum_filled(i) + open_qty(i) > 0

\* n is max(attempt_n) + 1: the number of the next submission of i.
IsNextAttempt(i, n) ==
    /\ \A m \in UsedAttempts(i) : m < n
    /\ n = 1 \/ n - 1 \in UsedAttempts(i)

\* The parent's lifecycle state, derived from its children.
LifecycleState(i) ==
    CASE ~Registered(i) -> "NONE"
      [] Registered(i) /\ UsedAttempts(i) = {} -> "INTENDED"
      [] UsedAttempts(i) # {} /\ cum_filled(i) >= target[i] -> "FILLED"
      [] OTHER ->
           IF OpenAttempts(i) # {}
           THEN LET c == children[i][CHOOSE n \in OpenAttempts(i) : TRUE]
                IN  CASE c.state = "STALE_PENDING" -> "STALE_PENDING"
                      [] c.state # "STALE_PENDING" /\ cum_filled(i) > 0
                           -> "PARTIALLY_FILLED"
                      [] OTHER -> IF c.state = "ACCEPTED" THEN "ACCEPTED"
                                                          ELSE "SUBMITTED"
           ELSE LET last == CHOOSE n \in UsedAttempts(i) :
                              \A m \in UsedAttempts(i) : m <= n
                IN  IF children[i][last].state = "REJECTED" THEN "REJECTED"
                                                            ELSE "CANCELED"

-----------------------------------------------------------------------------
(* What a method does to one child. *)

\* on_fill: a full fill is terminal; a partial one keeps STALE_PENDING.
WithFill(c, q) ==
    [c EXCEPT !.filled_qty = @ + q,
              !.state = CASE c.filled_qty + q = c.requested_qty -> "FILLED"
                          [] c.filled_qty + q # c.requested_qty
                             /\ c.state = "STALE_PENDING" -> "STALE_PENDING"
                          [] OTHER -> "PARTIALLY_FILLED"]

\* _close_open_child, on the child and on its parent's counters.
Closed(c, terminal) == [c EXCEPT !.state = terminal]

\* Faulty: the whole request is counted.
CountRequested(counters, c, terminal) ==
    [counters EXCEPT ![terminal] = @ + c.requested_qty]

CountRemainder(counters, c, terminal) ==
    [counters EXCEPT ![terminal] = @ + Unfilled(c)]

\* Faulty: only an order without fills becomes overdue.
OverdueIfUntouched(c, t) ==
    c.state \in {"SUBMITTED", "ACCEPTED"} /\ t - c.submitted_at > MaxPendingAge

\* mark_stale, on one child.
IsOverdue(c, t) ==
    IsOpen(c) /\ c.state # "STALE_PENDING" /\ t - c.submitted_at > MaxPendingAge

\* Faulty: the reported total is booked as if it were new.
TerminalBooksTotal(c, terminal, filled) ==
    LET f == IF filled > c.filled_qty THEN WithFill(c, filled) ELSE c
    IN  IF f.state = "FILLED" \/ terminal = "FILLED" THEN f ELSE Closed(f, terminal)

\* The state apply_terminal_status ends in, and what it counts as unfilled,
\* for an open child c whose broker reports `terminal' with `filled' shares.
\* A short "filled" raises after the fills were booked: c stays open.
AfterTerminal(c, terminal, filled) ==
    LET f == IF filled > c.filled_qty THEN WithFill(c, filled - c.filled_qty) ELSE c
    IN  IF f.state = "FILLED" \/ terminal = "FILLED" THEN f ELSE Closed(f, terminal)

AcceptsTerminal(c, filled) ==
    IsOpen(c) /\ c.filled_qty <= filled /\ filled <= c.requested_qty

-----------------------------------------------------------------------------
Init ==
    /\ target = [i \in Intents |-> 0]
    /\ children = [i \in Intents |-> [n \in Attempts |-> NoChild]]
    /\ cum = [i \in Intents |-> [k \in Counted |-> 0]]
    /\ entries_halted = FALSE
    /\ needs_reconcile = FALSE
    /\ now = 0

RegisterIntent(i, qty) ==
    /\ ~Registered(i)
    /\ i \in Buys =>
         \A j \in Buys : Symbol[j] = Symbol[i] => ~HasEffect(j)
    /\ target' = [target EXCEPT ![i] = qty]
    /\ UNCHANGED <<children, cum, entries_halted, needs_reconcile, now>>

\* Faulty: an open child does not stop the next submission.
SubmitBesideOpenChild(i, qty, gate_admitted) ==
    /\ Registered(i)
    /\ ~needs_reconcile
    /\ i \in Buys => ~entries_halted /\ gate_admitted
    /\ qty <= remaining_unsubmitted(i)
    /\ \E n \in Attempts :
         /\ IsNextAttempt(i, n)
         /\ children' = [children EXCEPT ![i][n] =
                           [state |-> "SUBMITTED", requested_qty |-> qty,
                            filled_qty |-> 0, submitted_at |-> now]]
    /\ UNCHANGED <<target, cum, entries_halted, needs_reconcile, now>>

SubmitChild(i, qty, gate_admitted) ==
    /\ Registered(i)
    /\ ~needs_reconcile
    /\ i \in Buys => ~entries_halted /\ gate_admitted
    /\ OpenAttempts(i) = {}
    /\ cum_filled(i) < target[i]
    /\ cum_filled(i) + open_qty(i) <= target[i]
    /\ qty <= remaining_unsubmitted(i)
    /\ \E n \in Attempts :
         /\ IsNextAttempt(i, n)
         /\ children' = [children EXCEPT ![i][n] =
                           [state |-> "SUBMITTED", requested_qty |-> qty,
                            filled_qty |-> 0, submitted_at |-> now]]
    /\ UNCHANGED <<target, cum, entries_halted, needs_reconcile, now>>

\* Faulty: a late ack takes a child back to ACCEPTED.
AckAlways(i, n) ==
    /\ IsOpen(children[i][n])
    /\ children' = [children EXCEPT ![i][n].state = "ACCEPTED"]
    /\ UNCHANGED <<target, cum, entries_halted, needs_reconcile, now>>

OnBrokerAck(i, n) ==
    /\ children[i][n].state = "SUBMITTED"
    /\ children' = [children EXCEPT ![i][n].state = "ACCEPTED"]
    /\ UNCHANGED <<target, cum, entries_halted, needs_reconcile, now>>

\* Faulty: a fill is not bounded by the request, or reaches a closed child.
FillUnbounded(i, n, qty) ==
    /\ IsOpen(children[i][n])
    /\ children' = [children EXCEPT ![i][n] = WithFill(@, qty)]
    /\ UNCHANGED <<target, cum, entries_halted, needs_reconcile, now>>

FillAfterClose(i, n, qty) ==
    /\ children[i][n].state # "UNUSED"
    /\ children[i][n].filled_qty + qty <= children[i][n].requested_qty
    /\ children' = [children EXCEPT ![i][n] = WithFill(@, qty)]
    /\ UNCHANGED <<target, cum, entries_halted, needs_reconcile, now>>

OnFill(i, n, qty) ==
    /\ IsOpen(children[i][n])
    /\ children[i][n].filled_qty + qty <= children[i][n].requested_qty
    /\ children' = [children EXCEPT ![i][n] = WithFill(@, qty)]
    /\ UNCHANGED <<target, cum, entries_halted, needs_reconcile, now>>

CloseOpenChild(i, n, terminal) ==
    /\ IsOpen(children[i][n])
    /\ cum' = [cum EXCEPT ![i] = CountRemainder(@, children[i][n], terminal)]
    /\ children' = [children EXCEPT ![i][n] = Closed(@, terminal)]
    /\ UNCHANGED <<target, entries_halted, needs_reconcile, now>>

OnCancel(i, n) == CloseOpenChild(i, n, "CANCELED")

OnReject(i, n) == CloseOpenChild(i, n, "REJECTED")

OnExpire(i, n) == CloseOpenChild(i, n, "EXPIRED")

ApplyTerminalStatus(i, n, terminal, filled) ==
    LET c == children[i][n]
        d == AfterTerminal(c, terminal, filled)
    IN  /\ AcceptsTerminal(c, filled)
        /\ children' = [children EXCEPT ![i][n] = d]
        /\ cum' = IF d.state \in Counted
                  THEN [cum EXCEPT ![i] = CountRemainder(@, d, d.state)]
                  ELSE cum
        /\ UNCHANGED <<target, entries_halted, needs_reconcile, now>>

MarkStale ==
    /\ children' = [i \in Intents |-> [n \in Attempts |->
                      IF IsOverdue(children[i][n], now)
                      THEN [children[i][n] EXCEPT !.state = "STALE_PENDING"]
                      ELSE children[i][n]]]
    /\ UNCHANGED <<target, cum, entries_halted, needs_reconcile, now>>

HaltEntries ==
    /\ entries_halted' = TRUE
    /\ UNCHANGED <<target, children, cum, needs_reconcile, now>>

\* from_snapshot of a to_snapshot taken now: all but the fence survives.
Restore ==
    /\ needs_reconcile' = TRUE
    /\ UNCHANGED <<target, children, cum, entries_halted, now>>

\* What the book expects open_orders() to show, 0 where nothing is working.
BookOpen == [i \in Intents |-> [n \in Attempts |-> Working(children[i][n])]]

\* The broker's view agrees with the book or is off in one entry: an order the
\* book does not know, one the broker lost, or one with another quantity.
BrokerViews ==
    {BookOpen} \cup {[BookOpen EXCEPT ![i][n] = q] :
                       i \in Intents, n \in Attempts, q \in 0..MaxQty}

\* Faulty: a clean reconcile lifts the halt.
ReconcileLiftsHalt(broker_open) ==
    /\ needs_reconcile' = FALSE
    /\ entries_halted' = (broker_open # BookOpen)
    /\ UNCHANGED <<target, children, cum, now>>

Reconcile(broker_open) ==
    /\ needs_reconcile' = FALSE
    /\ entries_halted' = (entries_halted \/ broker_open # BookOpen)
    /\ UNCHANGED <<target, children, cum, now>>

Tick ==
    /\ now < MaxTime
    /\ now' = now + 1
    /\ UNCHANGED <<target, children, cum, entries_halted, needs_reconcile>>

Next ==
    \/ \E i \in Intents, qty \in Qty : RegisterIntent(i, qty)
    \/ \E i \in Intents, qty \in Qty, gate \in BOOLEAN : SubmitChild(i, qty, gate)
    \/ \E i \in Intents, n \in Attempts : OnBrokerAck(i, n)
    \/ \E i \in Intents, n \in Attempts, qty \in Qty : OnFill(i, n, qty)
    \/ \E i \in Intents, n \in Attempts : OnCancel(i, n)
    \/ \E i \in Intents, n \in Attempts : OnReject(i, n)
    \/ \E i \in Intents, n \in Attempts : OnExpire(i, n)
    \/ \E i \in Intents, n \in Attempts, terminal \in TerminalStates,
          filled \in 0..MaxQty : ApplyTerminalStatus(i, n, terminal, filled)
    \/ MarkStale
    \/ HaltEntries
    \/ Restore
    \/ \E broker_open \in BrokerViews : Reconcile(broker_open)
    \/ Tick

Spec == Init /\ [][Next]_vars

-----------------------------------------------------------------------------
(* Properties. *)

\* Every variable has the shape the code keeps.
TypeOK ==
    /\ target \in [Intents -> 0..MaxQty]
    /\ children \in [Intents -> [Attempts -> Child]]
    /\ cum \in [Intents -> [Counted -> Nat]]
    /\ entries_halted \in BOOLEAN
    /\ needs_reconcile \in BOOLEAN
    /\ now \in 0..MaxTime

\* Filled and working shares of a parent never exceed its target, however
\* partial fills, closes that carry fills, re-emissions and restores mix
\* (the hard assertion of _assert_invariants).
EconomicInvariant ==
    \A i \in Intents : cum_filled(i) + open_qty(i) <= target[i]

\* An attempt never fills beyond what it requested; while it works something is
\* left of it, when it is FILLED nothing is, and an unused number holds nothing.
ChildrenWellFormed ==
    \A i \in Intents, n \in Attempts :
        LET c == children[i][n]
        IN  /\ c.filled_qty <= c.requested_qty
            /\ IsOpen(c) => c.filled_qty < c.requested_qty
            /\ c.state = "FILLED" => c.filled_qty = c.requested_qty
            /\ c.state = "UNUSED" => c = NoChild

\* A parent never has two child orders working at once (submit_child's rule,
\* which open_child and the parent's derived state silently rely on).
AtMostOneOpenChild ==
    \A i \in Intents : \A m, n \in OpenAttempts(i) : m = n

\* Nothing submitted is lost or counted twice: fills, open quantity and the
\* three counters add up to the requested quantities of all attempts.
GrossAccountsForEverySubmission ==
    \A i \in Intents : gross_submitted_qty(i) = RequestedBy(children[i])

\* The audit total never goes down (the assertion on _gross_high_water).
GrossMonotone ==
    [][\A i \in Intents : gross_submitted_qty(i)' >= gross_submitted_qty(i)]_vars

\* A closed attempt is history: no later fill, cancel, status row, watchdog
\* pass, re-emission or restore touches it.
ClosedChildIsFinal ==
    [][\A i \in Intents, n \in Attempts :
         children[i][n].state \in TerminalStates => children'[i][n] = children[i][n]]_vars

\* Behind a fence - any parent of a book restored and not yet reconciled, a BUY
\* parent once entries halted - filled plus working shares never grow, and a
\* halt survives everything, a restore and a clean reconcile included.
FencedExposureNeverGrows ==
    [][/\ entries_halted => entries_halted'
       /\ \A i \in Intents :
            needs_reconcile \/ (entries_halted /\ i \in Buys)
              => (cum_filled(i) + open_qty(i))' <= cum_filled(i) + open_qty(i)]_vars

\* The lifecycle diagram of the module's docstring, with the re-emission of a
\* canceled or rejected remainder and the broker's right to reject late.
Successors ==
    [NONE |-> {"INTENDED"},
     INTENDED |-> {"SUBMITTED"},
     SUBMITTED |-> {"ACCEPTED", "PARTIALLY_FILLED", "FILLED", "REJECTED",
                    "CANCELED", "STALE_PENDING"},
     ACCEPTED |-> {"PARTIALLY_FILLED", "FILLED", "REJECTED", "CANCELED",
                   "STALE_PENDING"},
     PARTIALLY_FILLED |-> {"FILLED", "REJECTED", "CANCELED", "STALE_PENDING"},
     STALE_PENDING |-> {"FILLED", "REJECTED", "CANCELED"},
     REJECTED |-> {"SUBMITTED", "PARTIALLY_FILLED"},
     CANCELED |-> {"SUBMITTED", "PARTIALLY_FILLED"},
     FILLED |-> {}]

\* A parent moves only along the diagram; FILLED is the end of it.
LifecycleFollowsDiagram ==
    [][\A i \in Intents :
         LifecycleState(i)' # LifecycleState(i)
           => LifecycleState(i)' \in Successors[LifecycleState(i)]]_vars

\* "At most one filled position per name per session": no symbol has two BUY
\* parents with fills or working shares.
OnePositionPerName ==
    \A i, j \in Buys :
        i # j /\ Symbol[i] = Symbol[j] => ~(HasEffect(i) /\ HasEffect(j))
=============================================================================
