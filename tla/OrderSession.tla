---------------------------- MODULE OrderSession ----------------------------
(***************************************************************************)
(* The drivers of order_state_machine.py at work: submit_remainder,        *)
(* run_stale_watchdog, resolve_day_expiry and reconcile_on_restart, each   *)
(* broken at its calls of the BrokerPort, beside a broker that fills and   *)
(* closes orders on its own and a process that may die at any moment.      *)
(*                                                                         *)
(* One thread calls the drivers.  The process restarts from the snapshot   *)
(* taken when no driver was running: a caller can persist the book only    *)
(* before or after a driver call.  Quantities, prices and the cash ledger  *)
(* are treated as in OrderStateBook.                                       *)
(***************************************************************************)
EXTENDS OrderStateBook

CONSTANTS
    Crypto,      \* the decisions about crypto pairs: no close, no DAY expiry
    Faults,      \* the faults this environment has, a subset of FaultKinds
    MaxFaults    \* bound on crashes and faults in a session

FaultKinds ==
    {"lost_reply",           \* submit_order raises though the broker took it
     "slow_cancel",          \* cancel_order returns while the cancel is pending
     "unreachable",          \* a cancel or a status read raises
     "crash_after_accept"}   \* the process dies between accept and return

ASSUME SessionAssumption ==
    /\ Crypto \subseteq Intents
    /\ Faults \subseteq FaultKinds
    /\ MaxFaults \in Nat

VARIABLES
    orders,   \* orders[i][n]: the broker's record of client order id (i, n)
    driver,   \* the driver call in progress, and the book it started from
    faults    \* crashes and faults so far

svars == <<vars, orders, driver, faults>>

book == <<target, children, cum, entries_halted, needs_reconcile, now>>

Order == [status: {"absent", "live", "pending_cancel"} \cup TerminalStates,
          qty: 0..MaxQty, filled: 0..MaxQty]

NoOrder == [status |-> "absent", qty |-> 0, filled |-> 0]

IsLive(o) == o.status \in {"live", "pending_cancel"}

Left(o) == IF IsLive(o) THEN o.qty - o.filled ELSE 0

\* The broker's side of a parent: what filled and what still works there.
BrokerFilled(i) == SumOver([n \in Attempts |-> orders[i][n].filled], Attempts)

BrokerWorking(i) == SumOver([n \in Attempts |-> Left(orders[i][n])], Attempts)

\* BrokerPort.open_orders(): 0 where nothing is live.
open_orders == [i \in Intents |-> [n \in Attempts |-> Left(orders[i][n])]]

Ids == Intents \X Attempts

Idle == [op |-> "idle"]

Ready == driver = Idle

\* What to_snapshot stores.
Snapshot == [target |-> target, children |-> children, cum |-> cum,
             entries_halted |-> entries_halted]

\* A driver in progress: its place, the ids it has still to visit, the open
\* orders it read, and the last snapshot.
Running(op, todo, view) ==
    [op |-> op, todo |-> todo, view |-> view, saved |-> Snapshot]

NoView == <<>>

Visited(id) == [driver EXCEPT !.todo = @ \ {id}]

CanFail(kind) == kind \in Faults /\ faults < MaxFaults

OpenIds == {id \in Ids : IsOpen(children[id[1]][id[2]])}

OrderOf(id) == orders[id[1]][id[2]]

SetOrder(i, n, o) == orders' = [orders EXCEPT ![i][n] = o]

-----------------------------------------------------------------------------
SessionInit ==
    /\ Init
    /\ orders = [i \in Intents |-> [n \in Attempts |-> NoOrder]]
    /\ driver = Idle
    /\ faults = 0

Decide(i, qty) ==
    /\ Ready
    /\ RegisterIntent(i, qty)
    /\ UNCHANGED <<orders, driver, faults>>

-----------------------------------------------------------------------------
(* submit_remainder.                                                       *)

\* The A2 envelope refuses an entry with a Tier-1 reason: the session halts.
EnvelopeBlocks(i) ==
    /\ Ready
    /\ i \in Buys /\ Registered(i) /\ remaining_unsubmitted(i) > 0
    /\ HaltEntries
    /\ UNCHANGED <<orders, driver, faults>>

BeginSubmit(i, gate_admitted) ==
    /\ Ready
    /\ SubmitChild(i, remaining_unsubmitted(i), gate_admitted)
    /\ \E n \in Attempts :
         /\ IsNextAttempt(i, n)
         /\ driver' = Running("submit_order", {<<i, n>>}, NoView)
    /\ UNCHANGED <<orders, faults>>

\* The broker takes the order: a client order id it has seen is refused.
PortAccepts(i, n) ==
    /\ driver.op = "submit_order" /\ <<i, n>> \in driver.todo
    /\ orders[i][n] = NoOrder
    /\ SetOrder(i, n, [status |-> "live", qty |-> children[i][n].requested_qty,
                       filled |-> 0])
    /\ \/ driver' = [driver EXCEPT !.op = "accepted"] /\ UNCHANGED faults
       \/ /\ CanFail("lost_reply")
          /\ driver' = [driver EXCEPT !.op = "raised"]
          /\ faults' = faults + 1
    /\ UNCHANGED book

PortRefuses ==
    /\ driver.op = "submit_order"
    /\ driver' = [driver EXCEPT !.op = "raised"]
    /\ UNCHANGED <<book, orders, faults>>

SubmitReturns ==
    /\ driver.op = "accepted"
    /\ driver' = Idle
    /\ UNCHANGED <<book, orders, faults>>

SubmitRaises(i, n) ==
    /\ driver.op = "raised" /\ <<i, n>> \in driver.todo
    /\ OnReject(i, n)
    /\ driver' = Idle
    /\ UNCHANGED <<orders, faults>>

-----------------------------------------------------------------------------
(* run_stale_watchdog.                                                     *)

BeginWatchdog ==
    /\ Ready
    /\ MarkStale
    /\ driver' = Running("watchdog",
                   {id \in Ids : IsOverdue(children[id[1]][id[2]], now)}, NoView)
    /\ UNCHANGED <<orders, faults>>

\* Faulty: the fills of the cancel's outcome are not booked.
WatchdogDropsFills(i, n) ==
    LET o == orders[i][n]
    IN  /\ driver.op = "watchdog" /\ <<i, n>> \in driver.todo
        /\ o.status # "absent"
        /\ \/ ~IsLive(o) /\ UNCHANGED orders
           \/ IsLive(o) /\ SetOrder(i, n, [o EXCEPT !.status = "CANCELED"])
        /\ OnCancel(i, n)
        /\ driver' = Visited(<<i, n>>)
        /\ UNCHANGED faults

\* cancel_order, then the fill delta and on_cancel: the outcome's status is not
\* looked at.  The order may have closed before the cancel reached it.
WatchdogCancels(i, n) ==
    LET o == orders[i][n]
    IN  /\ driver.op = "watchdog" /\ <<i, n>> \in driver.todo
        /\ o.status # "absent"
        /\ \/ ~IsLive(o) /\ UNCHANGED <<orders, faults>>
           \/ IsLive(o) /\ SetOrder(i, n, [o EXCEPT !.status = "CANCELED"])
                        /\ UNCHANGED faults
           \/ /\ IsLive(o) /\ CanFail("slow_cancel")
              /\ SetOrder(i, n, [o EXCEPT !.status = "pending_cancel"])
              /\ faults' = faults + 1
        /\ ApplyTerminalStatus(i, n, "CANCELED", o.filled)
        /\ driver' = Visited(<<i, n>>)

-----------------------------------------------------------------------------
(* resolve_day_expiry.                                                     *)

BeginDayExpiry ==
    /\ Ready
    /\ driver' = Running("day_expiry", {id \in OpenIds : id[1] \notin Crypto}, NoView)
    /\ UNCHANGED <<book, orders, faults>>

\* Faulty: the close expires every order, or only an EXPIRED one is resolved.
DayExpiryAssumesClosed(i, n) ==
    LET o == orders[i][n]
    IN  /\ driver.op = "day_expiry" /\ <<i, n>> \in driver.todo
        /\ o.status # "absent"
        /\ ApplyTerminalStatus(i, n, IF IsLive(o) THEN "EXPIRED" ELSE o.status, o.filled)
        /\ driver' = Visited(<<i, n>>)
        /\ UNCHANGED <<orders, faults>>

DayExpiryOnlyExpired(i, n) ==
    LET o == orders[i][n]
    IN  /\ driver.op = "day_expiry" /\ <<i, n>> \in driver.todo
        /\ o.status # "absent"
        /\ \/ o.status # "EXPIRED" /\ UNCHANGED book
           \/ o.status = "EXPIRED" /\ ApplyTerminalStatus(i, n, "EXPIRED", o.filled)
        /\ driver' = Visited(<<i, n>>)
        /\ UNCHANGED <<orders, faults>>

\* A status that is not terminal leaves the child open.
DayExpiryVisits(i, n) ==
    LET o == orders[i][n]
    IN  /\ driver.op = "day_expiry" /\ <<i, n>> \in driver.todo
        /\ o.status # "absent"
        /\ \/ IsLive(o) /\ UNCHANGED book
           \/ o.status \in TerminalStates
              /\ ApplyTerminalStatus(i, n, o.status, o.filled)
        /\ driver' = Visited(<<i, n>>)
        /\ UNCHANGED <<orders, faults>>

-----------------------------------------------------------------------------
(* reconcile_on_restart, without a cash ledger.                            *)

BeginReconcile ==
    /\ Ready
    /\ driver' = Running("reconcile",
                   {id \in OpenIds : Left(OrderOf(id)) = 0}, open_orders)
    /\ UNCHANGED <<book, orders, faults>>

\* Faulty: a close that raced a fill is booked without the fill.
ReconcileDropsFills(i, n) ==
    /\ driver.op = "reconcile" /\ <<i, n>> \in driver.todo
    /\ orders[i][n].status \in TerminalStates
    /\ OnCancel(i, n)
    /\ driver' = Visited(<<i, n>>)
    /\ UNCHANGED <<orders, faults>>

\* A child no longer listed: its terminal status, or its fills alone when the
\* status is "filled" or not terminal.
ReconcileVisits(i, n) ==
    LET o == orders[i][n]
    IN  /\ driver.op = "reconcile" /\ <<i, n>> \in driver.todo
        /\ o.status # "absent"
        /\ \/ o.status \in Counted /\ ApplyTerminalStatus(i, n, o.status, o.filled)
           \/ /\ o.status \notin Counted
              /\ IF o.filled > children[i][n].filled_qty
                 THEN OnFill(i, n, o.filled - children[i][n].filled_qty)
                 ELSE UNCHANGED book
        /\ driver' = Visited(<<i, n>>)
        /\ UNCHANGED <<orders, faults>>

-----------------------------------------------------------------------------
(* The end of a driver.                                                    *)

DriverReturns ==
    /\ driver.op \in {"watchdog", "day_expiry", "reconcile"}
    /\ driver.todo = {}
    /\ IF driver.op = "reconcile" THEN Reconcile(driver.view) ELSE UNCHANGED book
    /\ driver' = Idle
    /\ UNCHANGED <<orders, faults>>

\* A cancel or a status read raises: the broker is unreachable, or it knows no
\* order of that id.  The driver ends where it stands.
DriverRaises ==
    /\ driver.op \in {"watchdog", "day_expiry", "reconcile"}
    /\ \/ /\ driver.todo # {} /\ CanFail("unreachable")
          /\ faults' = faults + 1
       \/ /\ \E id \in driver.todo : OrderOf(id).status = "absent"
          /\ UNCHANGED faults
    /\ driver' = Idle
    /\ UNCHANGED <<book, orders>>

-----------------------------------------------------------------------------
(* Between the drivers the caller feeds acks and fills to the book.        *)

ObserveAck(i, n) ==
    /\ Ready /\ orders[i][n].status # "absent"
    /\ OnBrokerAck(i, n)
    /\ UNCHANGED <<orders, driver, faults>>

ObserveFill(i, n) ==
    /\ Ready /\ orders[i][n].filled > children[i][n].filled_qty
    /\ OnFill(i, n, orders[i][n].filled - children[i][n].filled_qty)
    /\ UNCHANGED <<orders, driver, faults>>

-----------------------------------------------------------------------------
(* The world.                                                              *)

BrokerFills(i, n, qty) ==
    LET o == orders[i][n]
    IN  /\ IsLive(o) /\ qty <= Left(o)
        /\ SetOrder(i, n, [o EXCEPT !.filled = @ + qty,
                             !.status = IF qty = Left(o) THEN "FILLED" ELSE @])
        /\ UNCHANGED <<book, driver, faults>>

\* A cancel takes effect, the DAY order expires, the broker rejects it late.
BrokerCloses(i, n, status) ==
    /\ IsLive(orders[i][n])
    /\ SetOrder(i, n, [orders[i][n] EXCEPT !.status = status])
    /\ UNCHANGED <<book, driver, faults>>

\* The process dies and restarts from its last snapshot.
Crash ==
    /\ faults < MaxFaults
    /\ driver.op = "accepted" => "crash_after_accept" \in Faults
    /\ LET s == IF Ready THEN Snapshot ELSE driver.saved
       IN  /\ target' = s.target
           /\ children' = s.children
           /\ cum' = s.cum
           /\ entries_halted' = s.entries_halted
    /\ needs_reconcile' = TRUE
    /\ driver' = Idle
    /\ faults' = faults + 1
    /\ UNCHANGED <<orders, now>>

TimePasses ==
    /\ Tick
    /\ UNCHANGED <<orders, driver, faults>>

DriverStep ==
    \/ \E i \in Intents, n \in Attempts :
         \/ PortAccepts(i, n)
         \/ SubmitRaises(i, n)
         \/ WatchdogCancels(i, n)
         \/ DayExpiryVisits(i, n)
         \/ ReconcileVisits(i, n)
    \/ PortRefuses
    \/ SubmitReturns
    \/ DriverReturns
    \/ DriverRaises

SessionNext ==
    \/ \E i \in Intents, qty \in Qty : Decide(i, qty)
    \/ \E i \in Intents : EnvelopeBlocks(i)
    \/ \E i \in Intents, gate \in BOOLEAN : BeginSubmit(i, gate)
    \/ BeginWatchdog
    \/ BeginDayExpiry
    \/ BeginReconcile
    \/ DriverStep
    \/ \E i \in Intents, n \in Attempts : ObserveAck(i, n)
    \/ \E i \in Intents, n \in Attempts : ObserveFill(i, n)
    \/ \E i \in Intents, n \in Attempts, qty \in Qty : BrokerFills(i, n, qty)
    \/ \E i \in Intents, n \in Attempts, status \in Counted : BrokerCloses(i, n, status)
    \/ Crash
    \/ TimePasses

SessionSpec == SessionInit /\ [][SessionNext]_svars

\* A driver that was called goes on to its end; the watchdog's timer and the
\* end-of-session sweep get their turn again and again.
FairSessionSpec ==
    /\ SessionSpec
    /\ WF_svars(DriverStep)
    /\ SF_svars(BeginWatchdog)
    /\ SF_svars(BeginDayExpiry)

-----------------------------------------------------------------------------
(* Properties. *)

\* The session's own variables have the shape the code and the broker keep.
SessionTypeOK ==
    /\ TypeOK
    /\ orders \in [Intents -> [Attempts -> Order]]
    /\ driver.op \in {"idle", "submit_order", "accepted", "raised", "watchdog",
                       "day_expiry", "reconcile"}
    /\ faults \in 0..MaxFaults

\* "Retries can never make total filled exceed target_qty" (the module's
\* docstring), said of what the broker holds and not of what the book believes.
NeverOverfilled ==
    \A i \in Intents : BrokerFilled(i) + BrokerWorking(i) <= target[i]

\* The book is behind the broker, never ahead: every fill it holds is one the
\* broker made under that client order id, whatever fails.
BookedFillsAreReal ==
    \A i \in Intents, n \in Attempts :
        children[i][n].filled_qty <= orders[i][n].filled

\* What the book closed is closed at the broker with the same fills, and every
\* live order is one the book holds open.
ClosedMeansClosed ==
    \A i \in Intents, n \in Attempts :
        LET c == children[i][n]
            o == orders[i][n]
        IN  /\ IsLive(o) => IsOpen(c)
            /\ c.state \in TerminalStates => c.filled_qty = o.filled

\* A child is emitted only when the broker works no other order of its parent
\* and the book knows every fill of it, restarts and races included.
EmitsOnlyWhenBrokerIsQuiet ==
    [][\A i \in Intents :
         UsedAttempts(i)' \ UsedAttempts(i) # {} /\ Ready
           => BrokerWorking(i) = 0 /\ BrokerFilled(i) = cum_filled(i)]_svars

\* Marked overdue by a pass of the watchdog that raised before it came to the order.
Stranded(i, n) == Ready /\ children[i][n].state = "STALE_PENDING"

\* The watchdog resolves every overdue order ("a decision tick must never
\* inherit an already-overdue order"), but for those a cancel that raised left
\* marked: every later pass skips them.
OverdueIsResolved ==
    \A i \in Intents, n \in Attempts :
        (IsOpen(children[i][n]) /\ now - children[i][n].submitted_at > MaxPendingAge)
          ~> ~IsOpen(children[i][n]) \/ Stranded(i, n)

\* What the broker has closed for an equity parent the book comes to close
\* too: no child is carried past the close as if it still rested.
BrokerCloseIsLearned ==
    \A i \in Intents \ Crypto, n \in Attempts :
        orders[i][n].status \in TerminalStates /\ IsOpen(children[i][n])
          ~> ~IsOpen(children[i][n])
=============================================================================
