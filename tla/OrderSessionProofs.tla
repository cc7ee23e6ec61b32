------------------------- MODULE OrderSessionProofs -------------------------
(***************************************************************************)
(* The session's drivers against the broker, proved for every set of       *)
(* decisions, every bound on quantities, attempts, time and faults.  The   *)
(* book's own invariant (OrderStateBookProofs) is kept by every driver,    *)
(* because a driver changes the book by the book's methods only; what is   *)
(* new is how the book, and the snapshot a crash brings back, stand to the *)
(* broker's orders.                                                        *)
(***************************************************************************)
EXTENDS OrderSession, OrderStateBookProofs

\* IInv of any book, not only of the one in memory.
GoodBook(t, cs, counters) ==
    /\ t \in [Intents -> 0..MaxQty]
    /\ cs \in [Intents -> [Attempts -> Child]]
    /\ counters \in [Intents -> [Counted -> Nat]]
    /\ \A i \in Intents : GoodParent(t[i], cs[i], counters[i])

\* A book that holds no fill the broker's orders do not have.
Behind(cs, os) ==
    \A i \in Intents, n \in Attempts : cs[i][n].filled_qty <= os[i][n].filled

DriverOps ==
    {"submit_order", "accepted", "raised", "watchdog", "day_expiry", "reconcile"}

IsRunning(d) ==
    /\ d = [op |-> d.op, todo |-> d.todo, view |-> d.view, saved |-> d.saved]
    /\ d.op \in DriverOps

\* A snapshot a restart may come back with.
GoodSnapshot(s, os) ==
    /\ GoodBook(s.target, s.children, s.cum)
    /\ s.entries_halted \in BOOLEAN
    /\ Behind(s.children, os)

DriverInv ==
    \/ driver = Idle
    \/ IsRunning(driver) /\ GoodSnapshot(driver.saved, orders)

OrdersInv ==
    /\ orders \in [Intents -> [Attempts -> Order]]
    /\ \A i \in Intents, n \in Attempts : orders[i][n].filled <= orders[i][n].qty

\* What holds whatever fails.
SessionInv ==
    /\ IInv
    /\ OrdersInv
    /\ Behind(children, orders)
    /\ DriverInv
    /\ faults \in 0..MaxFaults

-----------------------------------------------------------------------------
\* The book's invariant, said of the variables it is about.
LEMMA GoodBookIsIInv ==
  IInv <=> /\ GoodBook(target, children, cum)
           /\ entries_halted \in BOOLEAN
           /\ needs_reconcile \in BOOLEAN
           /\ now \in 0..MaxTime
BY DEF IInv, GoodBook

\* The numbers of an attempt and of the broker's order for it.
LEMMA SessionNumbers ==
  ASSUME SessionInv, NEW i \in Intents, NEW n \in Attempts
  PROVE  /\ GoodChild(children[i][n])
         /\ children[i][n].filled_qty \in Nat /\ children[i][n].requested_qty \in Nat
         /\ children[i][n].requested_qty \in 0..MaxQty
         /\ orders[i][n] \in Order
         /\ orders[i][n].filled \in Nat /\ orders[i][n].qty \in Nat
         /\ orders[i][n].filled \in 0..MaxQty
         /\ orders[i][n].filled <= orders[i][n].qty
         /\ children[i][n].filled_qty <= orders[i][n].filled
<1>1. GoodChild(children[i][n])
  BY IInvChild DEF SessionInv
<1>2. children[i][n].requested_qty \in 0..MaxQty
  BY <1>1 DEF GoodChild, Child
<1>3. orders[i][n] \in Order /\ orders[i][n].filled <= orders[i][n].qty
  BY DEF SessionInv, OrdersInv
<1>4. orders[i][n].filled \in 0..MaxQty /\ orders[i][n].qty \in 0..MaxQty
  BY <1>3 DEF Order
<1> QED BY <1>1, <1>2, <1>3, <1>4, GoodChildQuantities, BookAssumption
        DEF SessionInv, Behind

\* A driver that goes on, visits an id or ends keeps the snapshot it started from.
LEMMA DriverStays ==
  ASSUME SessionInv,
         \A i \in Intents, n \in Attempts : orders'[i][n].filled >= orders[i][n].filled,
         OrdersInv',
         \/ driver' = driver
         \/ driver' = Idle
         \/ driver # Idle /\ \E op \in DriverOps : driver' = [driver EXCEPT !.op = op]
         \/ driver # Idle /\ \E id : driver' = Visited(id)
  PROVE  /\ DriverInv'
         /\ driver' = Idle \/ (driver # Idle /\ driver'.saved = driver.saved)
<1>1. CASE driver' = Idle
  BY <1>1 DEF DriverInv
<1>2. CASE driver' # Idle
  <2>1. driver # Idle /\ IsRunning(driver) /\ GoodSnapshot(driver.saved, orders)
    BY <1>2 DEF SessionInv, DriverInv
  <2>2. IsRunning(driver') /\ driver'.saved = driver.saved
    <3>1. CASE driver' = driver
      BY <2>1, <3>1
    <3>2. ASSUME NEW op \in DriverOps, driver' = [driver EXCEPT !.op = op]
          PROVE  IsRunning(driver') /\ driver'.saved = driver.saved
      <4>1. driver' = [op |-> op, todo |-> driver.todo, view |-> driver.view,
                       saved |-> driver.saved]
        BY <2>1, <3>2 DEF IsRunning
      <4> QED BY <4>1 DEF IsRunning
    <3>3. ASSUME NEW id, driver' = Visited(id)
          PROVE  IsRunning(driver') /\ driver'.saved = driver.saved
      <4>1. driver' = [op |-> driver.op, todo |-> driver.todo \ {id},
                       view |-> driver.view, saved |-> driver.saved]
        BY <2>1, <3>3 DEF IsRunning, Visited
      <4> QED BY <2>1, <4>1 DEF IsRunning
    <3> QED BY <1>2, <3>1, <3>2, <3>3
  <2>3. Behind(driver.saved.children, orders')
    <3> SUFFICES ASSUME NEW i \in Intents, NEW n \in Attempts
                 PROVE  driver.saved.children[i][n].filled_qty <= orders'[i][n].filled
      BY DEF Behind
    <3> DEFINE c == driver.saved.children[i][n]
    <3>1. GoodChild(c) /\ c.filled_qty <= orders[i][n].filled
      BY <2>1 DEF GoodSnapshot, GoodBook, GoodParent, Behind
    <3>2. c.filled_qty \in Nat
      BY <3>1, GoodChildQuantities
    <3>3. orders[i][n].filled \in Nat
      BY SessionNumbers
    <3>4. orders'[i][n].filled \in Nat
      BY BookAssumption DEF OrdersInv, Order
    <3> HIDE DEF c
    <3>5. c.filled_qty <= orders'[i][n].filled
      BY <3>1, <3>2, <3>3, <3>4
    <3> QED BY <3>5 DEF c
  <2> QED BY <2>1, <2>2, <2>3 DEF DriverInv, GoodSnapshot
<1> QED BY <1>1, <1>2

\* A driver that begins remembers the book as it is.
LEMMA DriverBegins ==
  ASSUME SessionInv, UNCHANGED orders, NEW op \in DriverOps, NEW todo, NEW view,
         driver' = Running(op, todo, view)
  PROVE  /\ DriverInv' /\ driver' # Idle
         /\ driver'.op = op /\ driver'.todo = todo /\ driver'.saved = Snapshot
<1>1. driver'.op = op /\ driver'.todo = todo /\ driver'.view = view /\ driver'.saved = Snapshot
  BY DEF Running
<1>2. IsRunning(driver')
  BY <1>1 DEF Running, IsRunning
<1>3. GoodSnapshot(Snapshot, orders)
  BY GoodBookIsIInv DEF SessionInv, Snapshot, GoodSnapshot
<1>4. driver' # Idle
  BY <1>1 DEF Idle, DriverOps
<1> QED BY <1>1, <1>2, <1>3, <1>4 DEF DriverInv

-----------------------------------------------------------------------------
\* One attempt and the order for it move; the others stay.
LEMMA OnePairMoves ==
  ASSUME SessionInv, NEW i \in Intents, NEW n \in Attempts, NEW d, NEW o \in Order,
         children' = [children EXCEPT ![i][n] = d],
         orders' = [orders EXCEPT ![i][n] = o],
         d.filled_qty <= o.filled, o.filled <= o.qty, orders[i][n].filled <= o.filled
  PROVE  /\ OrdersInv' /\ Behind(children, orders)'
         /\ \A j \in Intents, m \in Attempts : orders'[j][m].filled >= orders[j][m].filled
<1>0. /\ orders \in [Intents -> [Attempts -> Order]]
      /\ children \in [Intents -> [Attempts -> Child]]
  BY DEF SessionInv, OrdersInv, IInv
<1>1. \A j \in Intents, m \in Attempts :
        /\ orders'[j][m] = IF j = i /\ m = n THEN o ELSE orders[j][m]
        /\ children'[j][m] = IF j = i /\ m = n THEN d ELSE children[j][m]
  BY <1>0
<1>2. orders' \in [Intents -> [Attempts -> Order]]
  BY <1>0
<1>3. ASSUME NEW j \in Intents, NEW m \in Attempts
      PROVE  /\ orders'[j][m].filled <= orders'[j][m].qty
             /\ children'[j][m].filled_qty <= orders'[j][m].filled
             /\ orders'[j][m].filled >= orders[j][m].filled
  <2>1. CASE j = i /\ m = n
    <3>1. orders'[j][m] = o /\ children'[j][m] = d
      BY <1>1, <2>1
    <3>2. o.filled \in Nat /\ orders[i][n].filled \in Nat
      BY SessionNumbers, BookAssumption DEF Order
    <3> QED BY <2>1, <3>1, <3>2
  <2>2. CASE ~(j = i /\ m = n)
    <3>1. orders'[j][m] = orders[j][m] /\ children'[j][m] = children[j][m]
      BY <1>1, <2>2
    <3> QED BY <3>1, SessionNumbers
  <2> QED BY <2>1, <2>2
<1> QED BY <1>2, <1>3 DEF OrdersInv, Behind

\* Only the order moves.
LEMMA OneOrderMoves ==
  ASSUME SessionInv, NEW i \in Intents, NEW n \in Attempts, NEW o \in Order,
         UNCHANGED children, orders' = [orders EXCEPT ![i][n] = o],
         o.filled <= o.qty, orders[i][n].filled <= o.filled
  PROVE  /\ OrdersInv' /\ Behind(children, orders)'
         /\ \A j \in Intents, m \in Attempts : orders'[j][m].filled >= orders[j][m].filled
<1>1. children' = [children EXCEPT ![i][n] = children[i][n]]
  BY DEF SessionInv, IInv
<1>2. children[i][n].filled_qty <= o.filled
  BY SessionNumbers, BookAssumption DEF Order
<1> QED BY <1>1, <1>2, OnePairMoves

\* Only the attempt moves.
LEMMA OneChildMoves ==
  ASSUME SessionInv, NEW i \in Intents, NEW n \in Attempts, NEW d,
         children' = [children EXCEPT ![i][n] = d], UNCHANGED orders,
         d.filled_qty <= orders[i][n].filled
  PROVE  /\ OrdersInv' /\ Behind(children, orders)'
         /\ \A j \in Intents, m \in Attempts : orders'[j][m].filled >= orders[j][m].filled
<1>1. orders' = [orders EXCEPT ![i][n] = orders[i][n]]
  BY DEF SessionInv, OrdersInv
<1>2. orders[i][n] \in Order /\ orders[i][n].filled <= orders[i][n].qty
      /\ orders[i][n].filled <= orders[i][n].filled
  BY SessionNumbers
<1> QED BY <1>1, <1>2, OnePairMoves

\* Neither moves.
LEMMA NothingMoves ==
  ASSUME SessionInv, UNCHANGED <<children, orders>>
  PROVE  /\ OrdersInv' /\ Behind(children, orders)'
         /\ \A j \in Intents, m \in Attempts : orders'[j][m].filled >= orders[j][m].filled
BY SessionNumbers DEF SessionInv, OrdersInv, Behind

-----------------------------------------------------------------------------
(* What the book's methods make of an attempt.                             *)

\* A fill of the shares the broker made since.
LEMMA FillBooks ==
  ASSUME SessionInv, NEW i \in Intents, NEW n \in Attempts,
         orders[i][n].filled > children[i][n].filled_qty,
         OnFill(i, n, orders[i][n].filled - children[i][n].filled_qty)
  PROVE  /\ IInv' /\ IsOpen(children[i][n])
         /\ \E d : /\ children' = [children EXCEPT ![i][n] = d]
                   /\ GoodChild(d) /\ d.state # "UNUSED"
                   /\ d.filled_qty = orders[i][n].filled
                   /\ d.requested_qty = children[i][n].requested_qty
                   /\ d.state = "FILLED" \/ IsOpen(d)
<1> DEFINE c == children[i][n]
           q == orders[i][n].filled - c.filled_qty
           d == WithFill(c, q)
<1>1. /\ GoodChild(c) /\ IsOpen(c) /\ q \in Nat \ {0}
      /\ c.filled_qty + q <= c.requested_qty
      /\ c.filled_qty + q = orders[i][n].filled
  BY SessionNumbers DEF OnFill
<1>2. q \in Qty
  BY <1>1, SessionNumbers, BookAssumption DEF Qty
<1>3. children' = [children EXCEPT ![i][n] = d]
  BY DEF OnFill, SessionInv, IInv
<1>4. /\ GoodChild(d) /\ d.state # "UNUSED" /\ d.filled_qty = c.filled_qty + q
      /\ d.requested_qty = c.requested_qty
  BY <1>1, WithFillIsGood
<1>5. OnFill(i, n, q)
  OBVIOUS
<1>8. d.state = "FILLED" \/ IsOpen(d)
  BY <1>1 DEF WithFill, GoodChild, Child, IsOpen, OpenStates
<1> HIDE DEF d
<1>6. d.filled_qty = orders[i][n].filled
  BY <1>1, <1>4
<1>7. IInv'
  <2> HIDE DEF q
  <2> QED BY <1>2, <1>5, OnFillPreserves DEF SessionInv
<1> QED BY <1>1, <1>3, <1>4, <1>6, <1>7, <1>8

\* The outcome of an order the broker reports on.
LEMMA TerminalBooks ==
  ASSUME SessionInv, NEW i \in Intents, NEW n \in Attempts, NEW terminal \in TerminalStates,
         ApplyTerminalStatus(i, n, terminal, orders[i][n].filled)
  PROVE  /\ IInv' /\ IsOpen(children[i][n])
         /\ \E d : /\ children' = [children EXCEPT ![i][n] = d]
                   /\ GoodChild(d) /\ d.state # "UNUSED"
                   /\ d.filled_qty = orders[i][n].filled
                   /\ d.requested_qty = children[i][n].requested_qty
<1> DEFINE c == children[i][n]
           d == AfterTerminal(c, terminal, orders[i][n].filled)
<1>1. /\ GoodChild(c) /\ AcceptsTerminal(c, orders[i][n].filled)
      /\ orders[i][n].filled \in 0..MaxQty
  BY SessionNumbers DEF ApplyTerminalStatus
<1>2. children' = [children EXCEPT ![i][n] = d]
  BY DEF ApplyTerminalStatus, SessionInv, IInv
<1>3. /\ GoodChild(d) /\ d.filled_qty = orders[i][n].filled
      /\ d.requested_qty = c.requested_qty
  BY <1>1, AfterTerminalIsGood
<1>4. IInv'
  BY <1>1, ApplyTerminalStatusPreserves DEF SessionInv
<1> HIDE DEF d
<1>5. IsOpen(c) /\ c.requested_qty > 0
  BY <1>1, SessionNumbers DEF AcceptsTerminal, GoodChild
<1>6. d.state # "UNUSED"
  BY <1>3, <1>5 DEF GoodChild, NoChild
<1> QED BY <1>2, <1>3, <1>4, <1>5, <1>6

\* A submission asks for a possible quantity: all that remains of the target.
LEMMA RemainingIsQty ==
  ASSUME IInv, NEW i \in Intents, NEW gate \in BOOLEAN,
         SubmitChild(i, remaining_unsubmitted(i), gate)
  PROVE  remaining_unsubmitted(i) \in Qty
<1>1. \A n \in Attempts : ~IsOpen(children[i][n])
  BY DEF SubmitChild, OpenAttempts
<1>2. open_qty(i) = 0
  <2> DEFINE f == [n \in Attempts |-> Working(children[i][n])]
  <2>1. \A n \in Attempts : f[n] = 0
    BY <1>1 DEF Working
  <2>2. open_qty(i) = SumOver(f, Attempts)
    BY DEF open_qty, OpenBy
  <2> HIDE DEF f
  <2> QED BY <2>1, <2>2, AttemptsFinite, SumZero
<1>3. cum_filled(i) < target[i] /\ cum_filled(i) \in Nat /\ target[i] \in 0..MaxQty
  BY IInvParent DEF SubmitChild, GoodParent
<1> QED BY <1>2, <1>3, BookAssumption DEF remaining_unsubmitted, Qty

\* A submission makes one fresh attempt, of no fills.
LEMMA SubmitMakesChild ==
  ASSUME IInv, NEW i \in Intents, NEW gate \in BOOLEAN,
         SubmitChild(i, remaining_unsubmitted(i), gate)
  PROVE  /\ IInv'
         /\ \A m \in Attempts : ~IsOpen(children[i][m])
         /\ \A n \in Attempts : IsNextAttempt(i, n) =>
              /\ children[i][n].state = "UNUSED"
              /\ \E d : /\ children' = [children EXCEPT ![i][n] = d]
                        /\ d.state = "SUBMITTED" /\ d.filled_qty = 0
<1>1. IInv'
  BY RemainingIsQty, SubmitChildPreserves
<1>2. \A m \in Attempts : ~IsOpen(children[i][m])
  BY DEF SubmitChild, OpenAttempts
<1>3. PICK k \in Attempts :
         /\ IsNextAttempt(i, k)
         /\ children' = [children EXCEPT ![i][k] =
                           [state |-> "SUBMITTED", requested_qty |-> remaining_unsubmitted(i),
                            filled_qty |-> 0, submitted_at |-> now]]
  BY DEF SubmitChild
<1>4. ASSUME NEW n \in Attempts, IsNextAttempt(i, n)
      PROVE  n = k /\ children[i][n].state = "UNUSED"
  <2>1. n \in Nat /\ k \in Nat /\ n >= 1 /\ k >= 1
    BY BookAssumption DEF Attempts
  <2>2. \A m \in UsedAttempts(i) : m < n /\ m < k /\ m \in Nat
    BY <1>3, <1>4 DEF IsNextAttempt, UsedAttempts, Attempts
  <2>3. n = 1 \/ n - 1 \in UsedAttempts(i)
    BY <1>4 DEF IsNextAttempt
  <2>4. k = 1 \/ k - 1 \in UsedAttempts(i)
    BY <1>3 DEF IsNextAttempt
  <2>5. n <= k
    BY <2>1, <2>2, <2>3
  <2>6. k <= n
    BY <2>1, <2>2, <2>4
  <2>7. n \notin UsedAttempts(i)
    BY <2>1, <2>2
  <2> QED BY <2>1, <2>5, <2>6, <2>7 DEF UsedAttempts
<1> DEFINE d == [state |-> "SUBMITTED", requested_qty |-> remaining_unsubmitted(i),
                 filled_qty |-> 0, submitted_at |-> now]
<1>5. d.state = "SUBMITTED" /\ d.filled_qty = 0
  OBVIOUS
<1> HIDE DEF d
<1>6. ASSUME NEW n \in Attempts, IsNextAttempt(i, n)
      PROVE  children' = [children EXCEPT ![i][n] = d]
  BY <1>3, <1>4, <1>6 DEF d
<1> QED BY <1>1, <1>2, <1>4, <1>5, <1>6

-----------------------------------------------------------------------------
(* The steps of the session, whatever fails.                               *)

\* A step is safe when it keeps the book good and behind the broker, whose
\* fills only grow, and does not invent a snapshot.
LEMMA SafeStep ==
  ASSUME SessionInv, IInv', OrdersInv', Behind(children, orders)',
         \A i \in Intents, n \in Attempts : orders'[i][n].filled >= orders[i][n].filled,
         faults' \in 0..MaxFaults,
         \/ driver' = driver
         \/ driver' = Idle
         \/ driver # Idle /\ \E op \in DriverOps : driver' = [driver EXCEPT !.op = op]
         \/ driver # Idle /\ \E id : driver' = Visited(id)
  PROVE  SessionInv'
<1>1. DriverInv'
  BY DriverStays
<1> QED BY <1>1 DEF SessionInv

\* A decision registers a parent and leaves the broker alone.
LEMMA DecidePreserves ==
  ASSUME SessionInv, NEW i \in Intents, NEW qty \in Qty, Decide(i, qty)
  PROVE  SessionInv'
<1>1. IInv'
  BY RegisterIntentPreserves DEF Decide, SessionInv
<1>2. UNCHANGED <<children, orders, driver, faults>>
  BY DEF Decide, RegisterIntent
<1>3. faults' \in 0..MaxFaults
  BY <1>2 DEF SessionInv
<1> QED BY <1>1, <1>2, <1>3, NothingMoves, SafeStep

\* The flags and the clock stand apart from the accounting.
LEMMA EnvelopeBlocksPreserves ==
  ASSUME SessionInv, NEW i \in Intents, EnvelopeBlocks(i)
  PROVE  SessionInv'
<1>1. IInv'
  BY DEF EnvelopeBlocks, HaltEntries, SessionInv, IInv
<1>2. UNCHANGED <<children, orders, driver, faults>>
  BY DEF EnvelopeBlocks, HaltEntries
<1>3. faults' \in 0..MaxFaults
  BY <1>2 DEF SessionInv
<1> QED BY <1>1, <1>2, <1>3, NothingMoves, SafeStep

\* The clock stands apart from the accounting too.
LEMMA TimePassesPreserves ==
  ASSUME SessionInv, TimePasses
  PROVE  SessionInv'
<1>1. IInv'
  BY BookAssumption DEF TimePasses, Tick, SessionInv, IInv
<1>2. UNCHANGED <<children, orders, driver, faults>>
  BY DEF TimePasses, Tick
<1>3. faults' \in 0..MaxFaults
  BY <1>2 DEF SessionInv
<1> QED BY <1>1, <1>2, <1>3, NothingMoves, SafeStep

\* A fresh attempt has no fills to be ahead with.
LEMMA BeginSubmitPreserves ==
  ASSUME SessionInv, NEW i \in Intents, NEW gate \in BOOLEAN, BeginSubmit(i, gate)
  PROVE  SessionInv'
<1>1. SubmitChild(i, remaining_unsubmitted(i), gate) /\ UNCHANGED <<orders, faults>>
  BY DEF BeginSubmit
<1>2. PICK n \in Attempts :
         IsNextAttempt(i, n) /\ driver' = Running("submit_order", {<<i, n>>}, NoView)
  BY DEF BeginSubmit
<1>3. IInv
  BY DEF SessionInv
<1>4. IInv' /\ \E d : children' = [children EXCEPT ![i][n] = d] /\ d.filled_qty = 0
  BY <1>1, <1>2, <1>3, SubmitMakesChild
<1>5. OrdersInv' /\ Behind(children, orders)'
  <2>1. PICK d : children' = [children EXCEPT ![i][n] = d] /\ d.filled_qty = 0
    BY <1>4
  <2>2. d.filled_qty <= orders[i][n].filled
    BY <2>1, SessionNumbers
  <2> QED BY <2>1, <2>2, <1>1, OneChildMoves
<1>6. DriverInv'
  BY <1>1, <1>2, DriverBegins DEF DriverOps
<1> QED BY <1>1, <1>4, <1>5, <1>6 DEF SessionInv

\* The broker's new order is for what the child requests.
LEMMA PortAcceptsPreserves ==
  ASSUME SessionInv, NEW i \in Intents, NEW n \in Attempts, PortAccepts(i, n)
  PROVE  SessionInv'
<1> DEFINE o == [status |-> "live", qty |-> children[i][n].requested_qty, filled |-> 0]
<1>1. o \in Order /\ o.filled <= o.qty /\ orders[i][n].filled <= o.filled
  BY SessionNumbers, BookAssumption DEF PortAccepts, Order, NoOrder
<1>2. orders' = [orders EXCEPT ![i][n] = o] /\ UNCHANGED book
  BY DEF PortAccepts, SetOrder
<1>3. IInv'
  BY <1>2 DEF SessionInv, IInv, book
<1>4. /\ driver # Idle
      /\ \E op \in DriverOps : driver' = [driver EXCEPT !.op = op]
  BY DEF PortAccepts, Idle, DriverOps
<1>5. faults' \in 0..MaxFaults
  BY SessionAssumption DEF PortAccepts, CanFail, SessionInv
<1> HIDE DEF o
<1>6. UNCHANGED children
  BY <1>2 DEF book
<1> QED BY <1>1, <1>2, <1>3, <1>4, <1>5, <1>6, OneOrderMoves, SafeStep

\* The ends of a call that touch neither the book nor the broker.
LEMMA CallEndsPreserves ==
  ASSUME SessionInv, PortRefuses \/ SubmitReturns \/ DriverRaises
  PROVE  SessionInv'
<1>1. UNCHANGED <<book, orders>>
  BY DEF PortRefuses, SubmitReturns, DriverRaises
<1>2. IInv'
  BY <1>1 DEF SessionInv, IInv, book
<1>3. \/ driver' = Idle
      \/ driver # Idle /\ \E op \in DriverOps : driver' = [driver EXCEPT !.op = op]
  BY DEF PortRefuses, SubmitReturns, DriverRaises, DriverOps, Idle
<1>4. faults' \in 0..MaxFaults
  BY SessionAssumption
     DEF PortRefuses, SubmitReturns, DriverRaises, CanFail, SessionInv
<1>5. UNCHANGED <<children, orders>>
  BY <1>1 DEF book
<1> QED BY <1>2, <1>3, <1>4, <1>5, NothingMoves, SafeStep

\* A rejection keeps the child's fills.
LEMMA SubmitRaisesPreserves ==
  ASSUME SessionInv, NEW i \in Intents, NEW n \in Attempts, SubmitRaises(i, n)
  PROVE  SessionInv'
<1>1. CloseOpenChild(i, n, "REJECTED") /\ driver' = Idle /\ UNCHANGED <<orders, faults>>
  BY DEF SubmitRaises, OnReject
<1>2. IInv'
  BY <1>1, CloseOpenChildPreserves DEF SessionInv, Counted
<1> DEFINE d == Closed(children[i][n], "REJECTED")
<1>3. children' = [children EXCEPT ![i][n] = d]
  BY <1>1 DEF CloseOpenChild, SessionInv, IInv
<1>4. d.filled_qty <= orders[i][n].filled
  BY SessionNumbers DEF Closed, GoodChild, Child
<1> HIDE DEF d
<1>5. faults' \in 0..MaxFaults
  BY <1>1 DEF SessionInv
<1> QED BY <1>1, <1>2, <1>3, <1>4, <1>5, OneChildMoves, SafeStep

\* Marking a child stale changes its state alone.
LEMMA StaleKeepsFills ==
  ASSUME SessionInv, MarkStale, NEW i \in Intents, NEW n \in Attempts
  PROVE  /\ children'[i][n].filled_qty = children[i][n].filled_qty
         /\ children'[i][n].requested_qty = children[i][n].requested_qty
         /\ \/ children'[i][n] = children[i][n]
            \/ IsOpen(children[i][n]) /\ children'[i][n].state = "STALE_PENDING"
<1>1. children[i][n] \in Child
  BY DEF SessionInv, IInv
<1>2. children'[i][n] = IF IsOverdue(children[i][n], now)
                        THEN [children[i][n] EXCEPT !.state = "STALE_PENDING"]
                        ELSE children[i][n]
  BY DEF MarkStale
<1> QED BY <1>1, <1>2 DEF Child, IsOverdue

\* The watchdog begins by marking what is overdue.
LEMMA BeginWatchdogPreserves ==
  ASSUME SessionInv, BeginWatchdog
  PROVE  SessionInv'
<1>1. MarkStale /\ UNCHANGED <<orders, faults>>
  BY DEF BeginWatchdog
<1>2. IInv'
  BY <1>1, MarkStalePreserves DEF SessionInv
<1>3. OrdersInv'
  BY <1>1 DEF SessionInv, OrdersInv
<1>4. Behind(children, orders)'
  BY <1>1, StaleKeepsFills DEF SessionInv, Behind
<1>5. DriverInv'
  BY <1>1, DriverBegins DEF BeginWatchdog, DriverOps
<1> QED BY <1>1, <1>2, <1>3, <1>4, <1>5 DEF SessionInv

\* The other two drivers begin by reading.
LEMMA BeginReadingPreserves ==
  ASSUME SessionInv, BeginDayExpiry \/ BeginReconcile
  PROVE  SessionInv'
<1>1. UNCHANGED <<book, orders, faults>>
  BY DEF BeginDayExpiry, BeginReconcile
<1>2. IInv'
  BY <1>1 DEF SessionInv, IInv, book
<1>3. OrdersInv' /\ Behind(children, orders)'
  BY <1>1, NothingMoves DEF book
<1>4. DriverInv'
  BY <1>1, DriverBegins DEF BeginDayExpiry, BeginReconcile, DriverOps
<1> QED BY <1>1, <1>2, <1>3, <1>4 DEF SessionInv

\* What the watchdog leaves of a live order, or of one already closed.
LEMMA CancelLeavesFills ==
  ASSUME SessionInv, NEW i \in Intents, NEW n \in Attempts, WatchdogCancels(i, n)
  PROVE  \E o \in Order :
           /\ orders' = [orders EXCEPT ![i][n] = o]
           /\ o.filled = orders[i][n].filled /\ o.qty = orders[i][n].qty
           /\ faults' \in 0..MaxFaults
           /\ \/ ~IsLive(orders[i][n]) /\ o = orders[i][n]
              \/ IsLive(orders[i][n]) /\ o.status = "CANCELED"
              \/ "slow_cancel" \in Faults
<1> DEFINE p == orders[i][n]
<1>1. p \in Order /\ p.filled \in 0..MaxQty /\ p.qty \in 0..MaxQty
  BY SessionNumbers DEF Order
<1>2. ASSUME NEW st \in {"CANCELED", "pending_cancel"}
      PROVE  /\ [p EXCEPT !.status = st] \in Order
             /\ [p EXCEPT !.status = st].filled = p.filled
             /\ [p EXCEPT !.status = st].qty = p.qty
             /\ [p EXCEPT !.status = st].status = st
  BY <1>1 DEF Order, TerminalStates, Counted
<1>3. orders = [orders EXCEPT ![i][n] = p]
  BY DEF SessionInv, OrdersInv
<1>4. faults \in 0..MaxFaults
  BY DEF SessionInv
<1>5. CASE ~IsLive(p) /\ UNCHANGED <<orders, faults>>
  BY <1>1, <1>3, <1>4, <1>5
<1>6. CASE IsLive(p) /\ UNCHANGED faults
           /\ orders' = [orders EXCEPT ![i][n] = [p EXCEPT !.status = "CANCELED"]]
  <2>1. faults' \in 0..MaxFaults
    BY <1>4, <1>6
  <2> QED BY <1>2, <1>6, <2>1
<1>7. CASE /\ CanFail("slow_cancel") /\ faults' = faults + 1
           /\ orders' = [orders EXCEPT ![i][n] = [p EXCEPT !.status = "pending_cancel"]]
  <2>1. faults' \in 0..MaxFaults /\ "slow_cancel" \in Faults
    BY <1>4, <1>7, SessionAssumption DEF CanFail
  <2> QED BY <1>2, <1>7, <2>1
<1> QED BY <1>5, <1>6, <1>7 DEF WatchdogCancels, SetOrder

\* The order closes, or begins to, and its fills are booked.
LEMMA WatchdogCancelsPreserves ==
  ASSUME SessionInv, NEW i \in Intents, NEW n \in Attempts, WatchdogCancels(i, n)
  PROVE  SessionInv'
<1>1. /\ ApplyTerminalStatus(i, n, "CANCELED", orders[i][n].filled)
      /\ driver # Idle /\ driver' = Visited(<<i, n>>)
  BY DEF WatchdogCancels, Idle
<1>2. PICK o \in Order :
         /\ orders' = [orders EXCEPT ![i][n] = o]
         /\ o.filled = orders[i][n].filled /\ o.qty = orders[i][n].qty
         /\ faults' \in 0..MaxFaults
  BY CancelLeavesFills
<1>3. IInv' /\ \E d : /\ children' = [children EXCEPT ![i][n] = d]
                      /\ d.filled_qty = orders[i][n].filled
  BY <1>1, TerminalBooks DEF TerminalStates, Counted
<1>4. PICK d : children' = [children EXCEPT ![i][n] = d]
               /\ d.filled_qty = orders[i][n].filled
  BY <1>3
<1>5. d.filled_qty <= o.filled /\ o.filled <= o.qty /\ orders[i][n].filled <= o.filled
  BY <1>2, <1>4, SessionNumbers
<1> QED BY <1>1, <1>2, <1>3, <1>4, <1>5, OnePairMoves, SafeStep

\* The fills or the outcome the broker reports go to the book.
LEMMA BookingPreserves ==
  ASSUME SessionInv, NEW i \in Intents, NEW n \in Attempts,
         \/ \E terminal \in TerminalStates :
              ApplyTerminalStatus(i, n, terminal, orders[i][n].filled)
         \/ /\ orders[i][n].filled > children[i][n].filled_qty
            /\ OnFill(i, n, orders[i][n].filled - children[i][n].filled_qty)
         \/ UNCHANGED book,
         UNCHANGED <<orders, faults>>,
         \/ driver' = driver
         \/ driver # Idle /\ \E id : driver' = Visited(id)
  PROVE  SessionInv'
<1>1. faults' \in 0..MaxFaults
  BY DEF SessionInv
<1>2. CASE UNCHANGED book
  <2>1. IInv' /\ UNCHANGED children
    BY <1>2 DEF SessionInv, IInv, book
  <2> QED BY <1>1, <2>1, NothingMoves, SafeStep
<1>3. CASE ~UNCHANGED book
  <2>1. IInv' /\ \E d : /\ children' = [children EXCEPT ![i][n] = d]
                        /\ d.filled_qty = orders[i][n].filled
    BY <1>3, TerminalBooks, FillBooks
  <2>2. PICK d : children' = [children EXCEPT ![i][n] = d]
                 /\ d.filled_qty = orders[i][n].filled
    BY <2>1
  <2>3. d.filled_qty <= orders[i][n].filled
    BY <2>2, SessionNumbers
  <2> QED BY <1>1, <2>1, <2>2, <2>3, OneChildMoves, SafeStep
<1> QED BY <1>2, <1>3

\* A status row or a fill that is read is booked.
LEMMA VisitsPreserve ==
  ASSUME SessionInv, NEW i \in Intents, NEW n \in Attempts,
         DayExpiryVisits(i, n) \/ ReconcileVisits(i, n) \/ ObserveFill(i, n)
  PROVE  SessionInv'
<1>1. \/ \E terminal \in TerminalStates :
           ApplyTerminalStatus(i, n, terminal, orders[i][n].filled)
      \/ /\ orders[i][n].filled > children[i][n].filled_qty
         /\ OnFill(i, n, orders[i][n].filled - children[i][n].filled_qty)
      \/ UNCHANGED book
  BY DEF DayExpiryVisits, ReconcileVisits, ObserveFill, TerminalStates
<1>2. /\ UNCHANGED <<orders, faults>>
      /\ \/ driver' = driver
         \/ driver # Idle /\ \E id : driver' = Visited(id)
  BY DEF DayExpiryVisits, ReconcileVisits, ObserveFill, Idle
<1> QED BY <1>1, <1>2, BookingPreserves

\* A reconcile ends by comparing, and writes the flags alone.
LEMMA DriverReturnsPreserves ==
  ASSUME SessionInv, DriverReturns
  PROVE  SessionInv'
<1>1. UNCHANGED <<children, orders, faults>> /\ driver' = Idle
  BY DEF DriverReturns, Reconcile, book
<1>2. IInv'
  BY DEF DriverReturns, Reconcile, book, SessionInv, IInv
<1>3. faults' \in 0..MaxFaults
  BY <1>1 DEF SessionInv
<1> QED BY <1>1, <1>2, <1>3, NothingMoves, SafeStep

\* An ack changes the state of a child alone.
LEMMA ObserveAckPreserves ==
  ASSUME SessionInv, NEW i \in Intents, NEW n \in Attempts, ObserveAck(i, n)
  PROVE  SessionInv'
<1>1. OnBrokerAck(i, n) /\ UNCHANGED <<orders, driver, faults>>
  BY DEF ObserveAck
<1>2. IInv'
  BY <1>1, OnBrokerAckPreserves DEF SessionInv
<1> DEFINE d == [children[i][n] EXCEPT !.state = "ACCEPTED"]
<1>3. children' = [children EXCEPT ![i][n] = d]
  BY <1>1 DEF OnBrokerAck, SessionInv, IInv
<1>4. d.filled_qty <= orders[i][n].filled
  BY SessionNumbers DEF GoodChild, Child
<1> HIDE DEF d
<1>5. faults' \in 0..MaxFaults
  BY <1>1 DEF SessionInv
<1> QED BY <1>1, <1>2, <1>3, <1>4, <1>5, OneChildMoves, SafeStep

\* The broker's order fills or closes behind the book's back.
LEMMA BrokerMoves ==
  ASSUME SessionInv, NEW i \in Intents, NEW n \in Attempts,
         \/ \E qty \in Qty : BrokerFills(i, n, qty)
         \/ \E status \in Counted : BrokerCloses(i, n, status)
  PROVE  /\ UNCHANGED <<book, driver, faults>>
         /\ IsLive(orders[i][n])
         /\ \E o \in Order :
              /\ orders' = [orders EXCEPT ![i][n] = o]
              /\ o.filled <= o.qty /\ orders[i][n].filled <= o.filled
              /\ o.qty = orders[i][n].qty /\ o.status # "absent"
              /\ IsLive(o) => o.filled < o.qty \/ o.filled = orders[i][n].filled
<1> DEFINE p == orders[i][n]
<1>1. /\ p \in Order /\ p.filled \in Nat /\ p.qty \in 0..MaxQty /\ p.qty \in Nat
      /\ p.filled <= p.qty
  BY SessionNumbers DEF Order
<1>2. ASSUME NEW qty \in Qty, BrokerFills(i, n, qty)
      PROVE  /\ UNCHANGED <<book, driver, faults>>
             /\ IsLive(p)
             /\ \E o \in Order :
                  /\ orders' = [orders EXCEPT ![i][n] = o]
                  /\ o.filled <= o.qty /\ p.filled <= o.filled
                  /\ o.qty = p.qty /\ o.status # "absent"
                  /\ IsLive(o) => o.filled < o.qty \/ o.filled = p.filled
    <2> DEFINE st == IF qty = Left(p) THEN "FILLED" ELSE p.status
               o == [p EXCEPT !.filled = @ + qty, !.status = st]
    <2>1. IsLive(p) /\ qty <= Left(p) /\ UNCHANGED <<book, driver, faults>>
      BY <1>2 DEF BrokerFills
    <2>2. orders' = [orders EXCEPT ![i][n] = o]
      BY <1>2 DEF BrokerFills, SetOrder
    <2>3. Left(p) = p.qty - p.filled /\ qty \in Nat
      BY <2>1 DEF Left, Qty
    <2>4. p.filled + qty <= p.qty /\ p.filled + qty \in 0..MaxQty
      BY <1>1, <2>1, <2>3, BookAssumption
    <2>5. st \in {"live", "pending_cancel", "FILLED"}
      BY <2>1 DEF IsLive
    <2>6. o.filled = p.filled + qty /\ o.qty = p.qty /\ o.status = st
      BY <1>1 DEF Order
    <2>7. o \in Order
      BY <1>1, <2>4, <2>5 DEF Order, TerminalStates
    <2>8. st \in {"live", "pending_cancel"} => o.filled < o.qty
      BY <1>1, <2>3, <2>4, <2>6
    <2>9. IsLive(o) => o.filled < o.qty \/ o.filled = p.filled
      BY <2>6, <2>8 DEF IsLive
    <2> HIDE DEF st, o
    <2>10. o.filled <= o.qty /\ p.filled <= o.filled /\ o.status # "absent"
      BY <1>1, <2>3, <2>4, <2>5, <2>6
    <2> QED BY <2>1, <2>2, <2>6, <2>7, <2>9, <2>10
<1>3. ASSUME NEW status \in Counted, BrokerCloses(i, n, status)
      PROVE  /\ UNCHANGED <<book, driver, faults>>
             /\ IsLive(p)
             /\ \E o \in Order :
                  /\ orders' = [orders EXCEPT ![i][n] = o]
                  /\ o.filled <= o.qty /\ p.filled <= o.filled
                  /\ o.qty = p.qty /\ o.status # "absent"
                  /\ IsLive(o) => o.filled < o.qty \/ o.filled = p.filled
    <2> DEFINE o == [p EXCEPT !.status = status]
    <2>1. IsLive(p) /\ UNCHANGED <<book, driver, faults>>
          /\ orders' = [orders EXCEPT ![i][n] = o]
      BY <1>3 DEF BrokerCloses, SetOrder
    <2>2. o.filled = p.filled /\ o.qty = p.qty /\ o.status = status /\ o \in Order
      BY <1>1 DEF Order, TerminalStates
    <2> HIDE DEF o
    <2>3. o.filled <= o.qty /\ p.filled <= o.filled /\ o.status # "absent"
      BY <1>1, <2>2 DEF Counted
    <2> QED BY <2>1, <2>2, <2>3
<1> QED BY <1>2, <1>3

\* The broker gets ahead of the book, which may happen at any time.
LEMMA BrokerMovesPreserve ==
  ASSUME SessionInv, NEW i \in Intents, NEW n \in Attempts,
         \/ \E qty \in Qty : BrokerFills(i, n, qty)
         \/ \E status \in Counted : BrokerCloses(i, n, status)
  PROVE  SessionInv'
<1>1. UNCHANGED <<book, driver, faults>>
  BY BrokerMoves
<1>2. IInv' /\ UNCHANGED children /\ faults' \in 0..MaxFaults
  BY <1>1 DEF SessionInv, IInv, book
<1>3. PICK o \in Order : /\ orders' = [orders EXCEPT ![i][n] = o]
                         /\ o.filled <= o.qty /\ orders[i][n].filled <= o.filled
  BY BrokerMoves
<1> QED BY <1>1, <1>2, <1>3, OneOrderMoves, SafeStep

\* A restart comes back with a book that was good when it was stored, and the
\* broker has lost no fill since.
LEMMA CrashPreserves ==
  ASSUME SessionInv, Crash
  PROVE  SessionInv'
<1> DEFINE s == IF Ready THEN Snapshot ELSE driver.saved
<1>1. GoodSnapshot(s, orders)
  <2>1. GoodSnapshot(Snapshot, orders)
    BY GoodBookIsIInv DEF SessionInv, Snapshot, GoodSnapshot
  <2>2. ~Ready => GoodSnapshot(driver.saved, orders)
    BY DEF SessionInv, DriverInv, Ready
  <2> QED BY <2>1, <2>2
<1>2. /\ target' = s.target /\ children' = s.children /\ cum' = s.cum
      /\ entries_halted' = s.entries_halted /\ needs_reconcile' = TRUE
      /\ driver' = Idle /\ faults' = faults + 1 /\ faults < MaxFaults
      /\ UNCHANGED <<orders, now>>
  BY DEF Crash
<1> HIDE DEF s
<1>3. GoodBook(target', children', cum') /\ entries_halted' \in BOOLEAN
      /\ Behind(children', orders')
  BY <1>1, <1>2 DEF GoodSnapshot
<1>4. now' \in 0..MaxTime
  BY <1>2 DEF SessionInv, IInv
<1>5. IInv'
  BY <1>2, <1>3, <1>4 DEF IInv, GoodBook
<1>6. OrdersInv'
  BY <1>2 DEF SessionInv, OrdersInv
<1>7. faults' \in 0..MaxFaults
  BY <1>2, SessionAssumption DEF SessionInv
<1>8. DriverInv'
  BY <1>2 DEF DriverInv
<1>9. Behind(children, orders)'
  BY <1>3 DEF Behind
<1> QED BY <1>5, <1>6, <1>7, <1>8, <1>9 DEF SessionInv

\* A fresh session is safe.
LEMMA SessionInitSafe == SessionInit => SessionInv
<1> SUFFICES ASSUME SessionInit PROVE SessionInv
  OBVIOUS
<1>1. IInv
  BY InitIInv DEF SessionInit
<1>2. \A i \in Intents, n \in Attempts :
        /\ orders[i][n] = NoOrder /\ NoOrder \in Order /\ NoOrder.filled <= NoOrder.qty
        /\ children[i][n].filled_qty <= orders[i][n].filled
  BY BookAssumption DEF SessionInit, Init, NoOrder, NoChild, Order
<1>3. orders \in [Intents -> [Attempts -> Order]]
  BY <1>2 DEF SessionInit
<1>4. driver = Idle /\ faults \in 0..MaxFaults
  BY SessionAssumption DEF SessionInit
<1> QED BY <1>1, <1>2, <1>3, <1>4 DEF SessionInv, OrdersInv, Behind, DriverInv

\* Every step of the session is safe, the faults and the crash included.
LEMMA SessionNextPreserves == SessionInv /\ [SessionNext]_svars => SessionInv'
<1> SUFFICES ASSUME SessionInv, [SessionNext]_svars PROVE SessionInv'
  OBVIOUS
<1>1. ASSUME NEW i \in Intents, NEW qty \in Qty, Decide(i, qty) PROVE SessionInv'
  BY <1>1, DecidePreserves
<1>2. ASSUME NEW i \in Intents, EnvelopeBlocks(i) PROVE SessionInv'
  BY <1>2, EnvelopeBlocksPreserves
<1>3. ASSUME NEW i \in Intents, NEW gate \in BOOLEAN, BeginSubmit(i, gate)
      PROVE  SessionInv'
  BY <1>3, BeginSubmitPreserves
<1>4. CASE BeginWatchdog
  BY <1>4, BeginWatchdogPreserves
<1>5. CASE BeginDayExpiry \/ BeginReconcile
  BY <1>5, BeginReadingPreserves
<1>6. CASE DriverStep
  <2>1. ASSUME NEW i \in Intents, NEW n \in Attempts,
               \/ PortAccepts(i, n)
               \/ SubmitRaises(i, n)
               \/ WatchdogCancels(i, n)
               \/ DayExpiryVisits(i, n)
               \/ ReconcileVisits(i, n)
        PROVE  SessionInv'
    BY <2>1, PortAcceptsPreserves, SubmitRaisesPreserves, WatchdogCancelsPreserves,
       VisitsPreserve
  <2>2. CASE PortRefuses \/ SubmitReturns \/ DriverRaises
    BY <2>2, CallEndsPreserves
  <2>3. CASE DriverReturns
    BY <2>3, DriverReturnsPreserves
  <2> QED BY <1>6, <2>1, <2>2, <2>3 DEF DriverStep
<1>7. ASSUME NEW i \in Intents, NEW n \in Attempts, ObserveAck(i, n) PROVE SessionInv'
  BY <1>7, ObserveAckPreserves
<1>8. ASSUME NEW i \in Intents, NEW n \in Attempts, ObserveFill(i, n) PROVE SessionInv'
  BY <1>8, VisitsPreserve
<1>9. ASSUME NEW i \in Intents, NEW n \in Attempts, NEW qty \in Qty,
             BrokerFills(i, n, qty)
      PROVE  SessionInv'
  BY <1>9, BrokerMovesPreserve
<1>10. ASSUME NEW i \in Intents, NEW n \in Attempts, NEW status \in Counted,
              BrokerCloses(i, n, status)
       PROVE  SessionInv'
  BY <1>10, BrokerMovesPreserve
<1>11. CASE Crash
  BY <1>11, CrashPreserves
<1>12. CASE TimePasses
  BY <1>12, TimePassesPreserves
<1>13. CASE UNCHANGED svars
  BY <1>13 DEF svars, vars, SessionInv, IInv, OrdersInv, Behind, DriverInv, GoodSnapshot
<1> QED BY <1>1, <1>2, <1>3, <1>4, <1>5, <1>6, <1>7, <1>8, <1>9, <1>10, <1>11,
           <1>12, <1>13 DEF SessionNext

\* Every reachable session is safe, whatever the environment's faults.
THEOREM SessionInvariant == SessionSpec => []SessionInv
BY SessionInitSafe, SessionNextPreserves, PTL DEF SessionSpec

\* The invariant gives the types.
LEMMA SessionInvImpliesTypeOK == SessionInv => SessionTypeOK
<1> SUFFICES ASSUME SessionInv PROVE SessionTypeOK
  OBVIOUS
<1>1. TypeOK
  BY IInvImpliesTypeOK DEF SessionInv
<1>2. driver.op \in {"idle", "submit_order", "accepted", "raised", "watchdog",
                     "day_expiry", "reconcile"}
  BY DEF SessionInv, DriverInv, IsRunning, DriverOps, Idle
<1> QED BY <1>1, <1>2 DEF SessionInv, OrdersInv, SessionTypeOK

\* The invariant puts the book behind the broker.
LEMMA SessionInvImpliesBehind == SessionInv => BookedFillsAreReal
BY DEF SessionInv, Behind, BookedFillsAreReal

\* Every variable of the session has its shape in every reachable state.
THEOREM SessionTypeCorrect == SessionSpec => []SessionTypeOK
BY SessionInvariant, SessionInvImpliesTypeOK, PTL

\* The book never holds a fill the broker did not make under that client order
\* id, whatever replies are lost, cancels are slow and processes die: a restart
\* can forget a fill but no driver, snapshot or restart can make one up.
THEOREM SessionBooksRealFills == SessionSpec => []BookedFillsAreReal
BY SessionInvariant, SessionInvImpliesBehind, PTL

-----------------------------------------------------------------------------
(* Without the faults that separate the book from the broker: no reply of  *)
(* submit_order is lost, no cancel lags behind its reply and the process   *)
(* does not die between the broker's accept and the caller's next          *)
(* snapshot.  It may die anywhere else, and calls may fail.                *)

HarmlessFaults == {"unreachable"}

\* An attempt of the book and the broker's order for it tell the same story.
Corr(c, o) ==
    /\ IsLive(o) => IsOpen(c) /\ o.filled < o.qty
    /\ c.state \in TerminalStates => c.filled_qty = o.filled
    /\ c.state = "UNUSED" => o = NoOrder
    /\ o.status # "absent" => o.qty = c.requested_qty
    /\ o.status = "absent" => o = NoOrder

CorrBook(cs, os) == \A i \in Intents, n \in Attempts : Corr(cs[i][n], os[i][n])

\* The snapshot corresponds too, except between the broker's accept and the
\* return of the call; an order about to be placed or rejected is not there.
CorrDriver(d, cs, os) ==
    d # Idle =>
      /\ d.op # "accepted" => CorrBook(d.saved.children, os)
      /\ d.op \in {"submit_order", "raised"} =>
           \A i \in Intents, n \in Attempts : <<i, n>> \in d.todo =>
             os[i][n] = NoOrder /\ cs[i][n].state = "SUBMITTED"

CorrInv == CorrBook(children, orders) /\ CorrDriver(driver, children, orders)

\* One attempt and the order for it move together.
LEMMA CorrPairMoves ==
  ASSUME NEW cs \in [Intents -> [Attempts -> Child]],
         NEW os \in [Intents -> [Attempts -> Order]], CorrBook(cs, os),
         NEW i \in Intents, NEW n \in Attempts, NEW d, NEW o, Corr(d, o)
  PROVE  CorrBook([cs EXCEPT ![i][n] = d], [os EXCEPT ![i][n] = o])
<1> DEFINE ds == [cs EXCEPT ![i][n] = d]
           ps == [os EXCEPT ![i][n] = o]
<1>1. ASSUME NEW j \in Intents, NEW m \in Attempts
      PROVE  Corr(ds[j][m], ps[j][m])
  <2>1. CASE j = i /\ m = n
    <3>1. ds[j][m] = d /\ ps[j][m] = o
      BY <2>1
    <3> QED BY <3>1
  <2>2. CASE ~(j = i /\ m = n)
    <3>1. ds[j][m] = cs[j][m] /\ ps[j][m] = os[j][m]
      BY <2>2
    <3> HIDE DEF ds, ps
    <3> QED BY <3>1 DEF CorrBook
  <2> QED BY <2>1, <2>2
<1> HIDE DEF ds, ps
<1>2. CorrBook(ds, ps)
  BY <1>1 DEF CorrBook
<1> QED BY <1>2 DEF ds, ps

\* The attempt alone moves.
LEMMA CorrChildMoves ==
  ASSUME NEW cs \in [Intents -> [Attempts -> Child]],
         NEW os \in [Intents -> [Attempts -> Order]], CorrBook(cs, os),
         NEW i \in Intents, NEW n \in Attempts, NEW d, Corr(d, os[i][n])
  PROVE  CorrBook([cs EXCEPT ![i][n] = d], os)
<1>1. os = [os EXCEPT ![i][n] = os[i][n]]
  OBVIOUS
<1>2. CorrBook([cs EXCEPT ![i][n] = d], [os EXCEPT ![i][n] = os[i][n]])
  BY CorrPairMoves
<1> QED BY <1>1, <1>2

\* The order alone moves, to one the attempt corresponds to as well.
LEMMA CorrOrderMoves ==
  ASSUME NEW cs, NEW os \in [Intents -> [Attempts -> Order]], CorrBook(cs, os),
         NEW i \in Intents, NEW n \in Attempts, NEW o, Corr(cs[i][n], o)
  PROVE  CorrBook(cs, [os EXCEPT ![i][n] = o])
<1> DEFINE ps == [os EXCEPT ![i][n] = o]
<1>1. ASSUME NEW j \in Intents, NEW m \in Attempts
      PROVE  Corr(cs[j][m], ps[j][m])
  <2>1. CASE j = i /\ m = n
    <3>1. ps[j][m] = o
      BY <2>1
    <3> HIDE DEF ps
    <3> QED BY <2>1, <3>1
  <2>2. CASE ~(j = i /\ m = n)
    <3>1. ps[j][m] = os[j][m]
      BY <2>2
    <3> HIDE DEF ps
    <3> QED BY <3>1 DEF CorrBook
  <2> QED BY <2>1, <2>2
<1> HIDE DEF ps
<1>2. CorrBook(cs, ps)
  BY <1>1 DEF CorrBook
<1> QED BY <1>2 DEF ps

\* What a live order becomes at the broker still corresponds to an attempt
\* that corresponded to the live order.
LEMMA LiveOrderMoves ==
  ASSUME NEW c, NEW p, NEW o, Corr(c, p), IsLive(p),
         o.qty = p.qty, o.status # "absent",
         IsLive(o) => o.filled < o.qty \/ o.filled = p.filled
  PROVE  Corr(c, o)
<1>1. IsOpen(c) /\ p.filled < p.qty /\ p.qty = c.requested_qty
  BY DEF Corr, IsLive
<1>2. c.state \notin TerminalStates /\ c.state # "UNUSED"
  BY <1>1, OpenIsNotTerminal DEF IsOpen, OpenStates
<1> QED BY <1>1, <1>2 DEF Corr

\* The two tables the correspondence is about are functions.
LEMMA CorrTypes ==
  SessionInv => /\ children \in [Intents -> [Attempts -> Child]]
                /\ orders \in [Intents -> [Attempts -> Order]]
BY DEF SessionInv, IInv, OrdersInv

\* A step that leaves the attempts and the orders alone.
LEMMA StillCorr ==
  ASSUME CorrInv, UNCHANGED <<children, orders>>,
         \/ driver' = driver
         \/ driver' = Idle
         \/ driver.op = "submit_order" /\ driver' = [driver EXCEPT !.op = "raised"]
            /\ IsRunning(driver)
  PROVE  CorrInv'
<1>1. CASE driver' = driver
  BY <1>1 DEF CorrInv
<1>2. CASE driver' = Idle
  BY <1>2 DEF CorrInv, CorrDriver
<1>3. CASE /\ driver.op = "submit_order" /\ driver' = [driver EXCEPT !.op = "raised"]
           /\ IsRunning(driver)
  <2>1. driver # Idle /\ driver'.todo = driver.todo /\ driver'.saved = driver.saved
    BY <1>3 DEF IsRunning, Idle
  <2>2. CorrDriver(driver', children, orders)
    BY <1>3, <2>1 DEF CorrInv, CorrDriver
  <2> QED BY <2>2 DEF CorrInv
<1> QED BY <1>1, <1>2, <1>3

\* The steps that touch neither an attempt nor an order.
LEMMA QuietStepsCorr ==
  ASSUME SessionInv, CorrInv,
         \/ \E i \in Intents, qty \in Qty : Decide(i, qty)
         \/ \E i \in Intents : EnvelopeBlocks(i)
         \/ PortRefuses \/ SubmitReturns \/ DriverRaises \/ DriverReturns
         \/ TimePasses
         \/ UNCHANGED svars
  PROVE  CorrInv'
<1>1. UNCHANGED <<children, orders>>
  BY DEF Decide, RegisterIntent, EnvelopeBlocks, HaltEntries, PortRefuses,
         SubmitReturns, DriverRaises, DriverReturns, Reconcile, TimePasses, Tick,
         book, svars, vars
<1>2. CASE PortRefuses
  <2>1. driver.op = "submit_order" /\ driver' = [driver EXCEPT !.op = "raised"]
    BY <1>2 DEF PortRefuses
  <2>2. IsRunning(driver)
    BY <2>1 DEF SessionInv, DriverInv, Idle
  <2> QED BY <1>1, <2>1, <2>2, StillCorr
<1>3. CASE ~PortRefuses
  <2>1. driver' = driver \/ driver' = Idle
    BY <1>3 DEF Decide, EnvelopeBlocks, SubmitReturns, DriverRaises, DriverReturns,
                TimePasses, svars
  <2> QED BY <1>1, <2>1, StillCorr
<1> QED BY <1>2, <1>3

\* A driver that begins stores a book that corresponds.
LEMMA BeginsCorr ==
  ASSUME SessionInv, CorrInv, BeginWatchdog \/ BeginDayExpiry \/ BeginReconcile
  PROVE  CorrInv'
<1>1. UNCHANGED orders
  BY DEF BeginWatchdog, BeginDayExpiry, BeginReconcile
<1>2. PICK op \in {"watchdog", "day_expiry", "reconcile"} :
         \E todo, view : driver' = Running(op, todo, view)
  BY DEF BeginWatchdog, BeginDayExpiry, BeginReconcile
<1>3. driver'.op = op /\ driver'.saved.children = children
  BY <1>2 DEF Running, Snapshot
<1>4. CorrDriver(driver', children', orders')
  BY <1>1, <1>3 DEF CorrInv, CorrDriver
<1>5. CorrBook(children', orders')
  <2>1. CASE UNCHANGED children
    BY <1>1, <2>1 DEF CorrInv
  <2>2. CASE MarkStale
    <3> SUFFICES ASSUME NEW i \in Intents, NEW n \in Attempts
                 PROVE  Corr(children'[i][n], orders'[i][n])
      BY DEF CorrBook
    <3>1. Corr(children[i][n], orders[i][n])
      BY DEF CorrInv, CorrBook
    <3>2. /\ children'[i][n].requested_qty = children[i][n].requested_qty
          /\ \/ children'[i][n] = children[i][n]
             \/ IsOpen(children[i][n]) /\ children'[i][n].state = "STALE_PENDING"
      BY <2>2, StaleKeepsFills
    <3>3. CASE children'[i][n] = children[i][n]
      BY <1>1, <3>1, <3>3
    <3>4. CASE IsOpen(children[i][n]) /\ children'[i][n].state = "STALE_PENDING"
      <4>1. IsOpen(children'[i][n])
        BY <3>4 DEF IsOpen, OpenStates
      <4>2. children'[i][n].state \notin TerminalStates /\ children'[i][n].state # "UNUSED"
        BY <3>4 DEF TerminalStates, Counted
      <4> QED BY <1>1, <3>1, <3>2, <4>1, <4>2 DEF Corr
    <3> QED BY <3>2, <3>3, <3>4
  <2> QED BY <2>1, <2>2 DEF BeginWatchdog, BeginDayExpiry, BeginReconcile, book
<1> QED BY <1>4, <1>5 DEF CorrInv

\* A fresh attempt has no order yet, and its number was never sent.
LEMMA BeginSubmitCorr ==
  ASSUME SessionInv, CorrInv, NEW i \in Intents, NEW gate \in BOOLEAN,
         BeginSubmit(i, gate)
  PROVE  CorrInv'
<1>1. SubmitChild(i, remaining_unsubmitted(i), gate) /\ UNCHANGED orders /\ IInv
  BY DEF BeginSubmit, SessionInv
<1>2. PICK n \in Attempts :
         IsNextAttempt(i, n) /\ driver' = Running("submit_order", {<<i, n>>}, NoView)
  BY DEF BeginSubmit
<1>3. /\ children[i][n].state = "UNUSED"
      /\ \E d : /\ children' = [children EXCEPT ![i][n] = d]
                /\ d.state = "SUBMITTED" /\ d.filled_qty = 0
  BY <1>1, <1>2, SubmitMakesChild
<1>4. PICK d : /\ children' = [children EXCEPT ![i][n] = d]
               /\ d.state = "SUBMITTED" /\ d.filled_qty = 0
  BY <1>3
<1>5. orders[i][n] = NoOrder
  BY <1>3 DEF CorrInv, CorrBook, Corr
<1>6. Corr(d, NoOrder)
  BY <1>4 DEF Corr, NoOrder, IsLive, TerminalStates, Counted
<1>7. orders' = [orders EXCEPT ![i][n] = NoOrder]
  BY <1>1, <1>5, CorrTypes
<1>8. CorrBook(children', orders')
  BY <1>4, <1>6, <1>7, CorrPairMoves, CorrTypes DEF CorrInv
<1>9. children'[i][n] = d
  BY <1>4, CorrTypes
<1>10. /\ driver'.op = "submit_order" /\ driver'.todo = {<<i, n>>}
       /\ driver'.saved.children = children
  BY <1>2 DEF Running, Snapshot
<1>11. CorrDriver(driver', children', orders')
  <2>1. CorrBook(driver'.saved.children, orders')
    BY <1>1, <1>10 DEF CorrInv
  <2>2. ASSUME NEW j \in Intents, NEW m \in Attempts, <<j, m>> \in driver'.todo
        PROVE  orders'[j][m] = NoOrder /\ children'[j][m].state = "SUBMITTED"
    <3>1. j = i /\ m = n
      BY <1>10, <2>2
    <3> QED BY <1>1, <1>4, <1>5, <1>9, <3>1
  <2> QED BY <2>1, <2>2 DEF CorrDriver
<1> QED BY <1>8, <1>11 DEF CorrInv

\* The broker's order is for all its child requests, and works.
LEMMA PortAcceptsCorr ==
  ASSUME SessionInv, CorrInv, Faults \subseteq HarmlessFaults,
         NEW i \in Intents, NEW n \in Attempts, PortAccepts(i, n)
  PROVE  CorrInv'
<1> DEFINE c == children[i][n]
           o == [status |-> "live", qty |-> c.requested_qty, filled |-> 0]
<1>1. /\ driver.op = "submit_order" /\ driver # Idle /\ <<i, n>> \in driver.todo
      /\ orders' = [orders EXCEPT ![i][n] = o] /\ UNCHANGED children
  BY DEF PortAccepts, SetOrder, book, Idle
<1>2. driver' = [driver EXCEPT !.op = "accepted"]
  BY DEF PortAccepts, CanFail, HarmlessFaults
<1>3. c.state = "SUBMITTED" /\ GoodChild(c) /\ c.requested_qty \in Nat /\ c.filled_qty \in Nat
  BY <1>1, SessionNumbers DEF CorrInv, CorrDriver
<1>4. IsOpen(c) /\ c.filled_qty < c.requested_qty
  BY <1>3 DEF GoodChild, IsOpen, OpenStates
<1>5. Corr(c, o)
  BY <1>3, <1>4 DEF Corr, IsLive, TerminalStates, Counted
<1> HIDE DEF o
<1>6. CorrBook(children', orders')
  BY <1>1, <1>5, CorrOrderMoves, CorrTypes DEF CorrInv
<1>7. IsRunning(driver)
  BY <1>1 DEF SessionInv, DriverInv
<1>8. driver'.op = "accepted"
  BY <1>2, <1>7 DEF IsRunning
<1> QED BY <1>6, <1>8 DEF CorrInv, CorrDriver

\* A refused order is no order: the rejected child has no fills.
LEMMA SubmitRaisesCorr ==
  ASSUME SessionInv, CorrInv, NEW i \in Intents, NEW n \in Attempts, SubmitRaises(i, n)
  PROVE  CorrInv'
<1> DEFINE c == children[i][n]
           d == Closed(c, "REJECTED")
<1>1. /\ driver.op = "raised" /\ driver # Idle /\ <<i, n>> \in driver.todo
      /\ driver' = Idle /\ UNCHANGED orders
  BY DEF SubmitRaises, Idle
<1>2. children' = [children EXCEPT ![i][n] = d]
  BY DEF SubmitRaises, OnReject, CloseOpenChild, SessionInv, IInv
<1>3. orders[i][n] = NoOrder
  BY <1>1 DEF CorrInv, CorrDriver
<1>4. c.filled_qty = 0 /\ c \in Child
  BY <1>3, SessionNumbers DEF NoOrder, GoodChild
<1>5. d.filled_qty = 0 /\ d.state = "REJECTED"
  BY <1>4 DEF Closed, Child
<1> HIDE DEF d
<1>6. Corr(d, NoOrder)
  BY <1>5 DEF Corr, NoOrder, IsLive
<1>7. orders' = [orders EXCEPT ![i][n] = NoOrder]
  BY <1>1, <1>3, CorrTypes
<1>8. CorrBook(children', orders')
  BY <1>2, <1>6, <1>7, CorrPairMoves, CorrTypes DEF CorrInv
<1> QED BY <1>1, <1>8 DEF CorrInv, CorrDriver

\* A driver at work goes to its next id, with the snapshot it has.
LEMMA VisitedDriver ==
  ASSUME SessionInv, driver.op \in {"watchdog", "day_expiry", "reconcile"},
         NEW id, driver' = Visited(id)
  PROVE  driver # Idle /\ driver'.op = driver.op /\ driver'.saved = driver.saved
<1>1. driver # Idle
  BY DEF Idle
<1>2. IsRunning(driver)
  BY <1>1 DEF SessionInv, DriverInv
<1> QED BY <1>1, <1>2 DEF IsRunning, Visited

\* A child booked up to the order's fills corresponds to an order not at work.
LEMMA BookedCorr ==
  ASSUME NEW d, NEW o, NEW c, NEW p, Corr(c, p), ~IsLive(o),
         o.status # "absent", p.status # "absent", o.qty = p.qty, o.filled = p.filled,
         d.state # "UNUSED", d.filled_qty = p.filled, d.requested_qty = c.requested_qty
  PROVE  Corr(d, o)
BY DEF Corr

\* A cancel closes the order before the book closes the child.
LEMMA WatchdogCancelsCorr ==
  ASSUME SessionInv, CorrInv, Faults \subseteq HarmlessFaults,
         NEW i \in Intents, NEW n \in Attempts, WatchdogCancels(i, n)
  PROVE  CorrInv'
<1> DEFINE p == orders[i][n]
<1>1. /\ driver.op = "watchdog" /\ driver' = Visited(<<i, n>>)
      /\ ApplyTerminalStatus(i, n, "CANCELED", p.filled)
      /\ p.status # "absent"
  BY DEF WatchdogCancels
<1>2. PICK o \in Order :
         /\ orders' = [orders EXCEPT ![i][n] = o]
         /\ o.filled = p.filled /\ o.qty = p.qty
         /\ \/ ~IsLive(p) /\ o = p
            \/ IsLive(p) /\ o.status = "CANCELED"
  BY CancelLeavesFills DEF HarmlessFaults
<1>3. ~IsLive(o) /\ o.status # "absent"
  BY <1>1, <1>2 DEF IsLive
<1>4. \E d : /\ children' = [children EXCEPT ![i][n] = d]
             /\ d.state # "UNUSED"
             /\ d.filled_qty = p.filled
             /\ d.requested_qty = children[i][n].requested_qty
  BY <1>1, TerminalBooks DEF TerminalStates, Counted
<1>5. PICK d : /\ children' = [children EXCEPT ![i][n] = d]
               /\ d.state # "UNUSED" /\ d.filled_qty = p.filled
               /\ d.requested_qty = children[i][n].requested_qty
  BY <1>4
<1>6. Corr(children[i][n], p)
  BY DEF CorrInv, CorrBook
<1>7. Corr(d, o)
  BY <1>1, <1>2, <1>3, <1>5, <1>6, BookedCorr
<1>8. CorrBook(children', orders')
  BY <1>2, <1>5, <1>7, CorrPairMoves, CorrTypes DEF CorrInv
<1>9. driver # Idle /\ driver'.op = "watchdog" /\ driver'.saved = driver.saved
  BY <1>1, VisitedDriver
<1>10. CorrBook(driver.saved.children, orders)
  BY <1>1, <1>9 DEF CorrInv, CorrDriver
<1>11. Corr(driver.saved.children[i][n], o)
  <2>1. Corr(driver.saved.children[i][n], p)
    BY <1>10 DEF CorrBook
  <2> QED BY <1>2, <1>3, <2>1, LiveOrderMoves
<1>12. CorrBook(driver'.saved.children, orders')
  BY <1>2, <1>9, <1>10, <1>11, CorrOrderMoves, CorrTypes
<1> QED BY <1>8, <1>9, <1>12 DEF CorrInv, CorrDriver

\* The broker's own steps keep the correspondence, of the book in memory and
\* of the stored one.
LEMMA BrokerMovesCorr ==
  ASSUME SessionInv, CorrInv, NEW i \in Intents, NEW n \in Attempts,
         \/ \E qty \in Qty : BrokerFills(i, n, qty)
         \/ \E status \in Counted : BrokerCloses(i, n, status)
  PROVE  CorrInv'
<1> DEFINE p == orders[i][n]
<1>1. UNCHANGED <<children, driver>> /\ IsLive(p)
  BY BrokerMoves DEF book
<1>2. PICK o \in Order : /\ orders' = [orders EXCEPT ![i][n] = o]
                         /\ o.qty = p.qty /\ o.status # "absent"
                         /\ IsLive(o) => o.filled < o.qty \/ o.filled = p.filled
  BY BrokerMoves
<1>3. ASSUME NEW cs, CorrBook(cs, orders)
      PROVE  CorrBook(cs, orders')
  <2>1. Corr(cs[i][n], p)
    BY <1>3 DEF CorrBook
  <2>2. Corr(cs[i][n], o)
    BY <1>1, <1>2, <2>1, LiveOrderMoves
  <2> QED BY <1>2, <1>3, <2>2, CorrOrderMoves, CorrTypes
<1>4. CorrBook(children', orders')
  BY <1>1, <1>3 DEF CorrInv
<1>5. ASSUME NEW j \in Intents, NEW m \in Attempts, orders[j][m] = NoOrder
      PROVE  orders'[j][m] = NoOrder
  <2>1. ~(j = i /\ m = n)
    BY <1>1, <1>5 DEF NoOrder, IsLive
  <2> QED BY <1>2, <1>5, <2>1, CorrTypes
<1>6. CorrDriver(driver, children, orders')
  BY <1>3, <1>5 DEF CorrInv, CorrDriver
<1> QED BY <1>1, <1>4, <1>6 DEF CorrInv

\* The fills or the outcome the broker reports go to the book.
LEMMA BookingCorr ==
  ASSUME SessionInv, CorrInv, NEW i \in Intents, NEW n \in Attempts,
         \/ /\ orders[i][n].status \in TerminalStates
            /\ \E terminal \in TerminalStates :
                 ApplyTerminalStatus(i, n, terminal, orders[i][n].filled)
         \/ /\ orders[i][n].filled > children[i][n].filled_qty
            /\ OnFill(i, n, orders[i][n].filled - children[i][n].filled_qty)
         \/ UNCHANGED children,
         UNCHANGED orders
  PROVE  CorrBook(children', orders')
<1> DEFINE o == orders[i][n]
           c == children[i][n]
<1>0. Corr(c, o) /\ CorrBook(children, orders)
  BY DEF CorrInv, CorrBook
<1>2. CASE UNCHANGED children
  BY <1>0, <1>2
<1>3. CASE /\ o.status \in TerminalStates
           /\ \E terminal \in TerminalStates : ApplyTerminalStatus(i, n, terminal, o.filled)
  <2>1. \E d : /\ children' = [children EXCEPT ![i][n] = d]
               /\ d.state # "UNUSED" /\ d.filled_qty = o.filled
               /\ d.requested_qty = c.requested_qty
    BY <1>3, TerminalBooks
  <2>2. PICK d : /\ children' = [children EXCEPT ![i][n] = d]
                 /\ d.state # "UNUSED" /\ d.filled_qty = o.filled
                 /\ d.requested_qty = c.requested_qty
    BY <2>1
  <2>3. ~IsLive(o) /\ o.status # "absent"
    BY <1>3 DEF IsLive, TerminalStates, Counted
  <2>4. Corr(d, o)
    BY <1>0, <2>2, <2>3, BookedCorr
  <2> QED BY <1>0, <2>2, <2>4, CorrChildMoves, CorrTypes
<1>4. CASE o.filled > c.filled_qty /\ OnFill(i, n, o.filled - c.filled_qty)
  <2>1. \E d : /\ children' = [children EXCEPT ![i][n] = d]
               /\ GoodChild(d) /\ d.state # "UNUSED" /\ d.filled_qty = o.filled
               /\ d.requested_qty = c.requested_qty
               /\ d.state = "FILLED" \/ IsOpen(d)
    BY <1>4, FillBooks
  <2>2. PICK d : /\ children' = [children EXCEPT ![i][n] = d]
                 /\ GoodChild(d) /\ d.state # "UNUSED" /\ d.filled_qty = o.filled
                 /\ d.requested_qty = c.requested_qty
                 /\ d.state = "FILLED" \/ IsOpen(d)
    BY <2>1
  <2>3. IsLive(o) => IsOpen(d)
    <3> SUFFICES ASSUME IsLive(o), d.state = "FILLED" PROVE FALSE
      BY <2>2
    <3>1. d.filled_qty = d.requested_qty
      BY <2>2 DEF GoodChild
    <3>2. o.filled < o.qty /\ o.qty = c.requested_qty
      BY <1>0 DEF Corr, IsLive
    <3>3. o.filled \in Nat
      BY SessionNumbers
    <3> QED BY <2>2, <3>1, <3>2, <3>3
  <2>4. Corr(d, o)
    <3>1. o.filled # 0
      BY <1>4, SessionNumbers
    <3>2. o.status # "absent"
      BY <1>0, <3>1 DEF Corr, NoOrder
    <3> QED BY <1>0, <2>2, <2>3, <3>2 DEF Corr
  <2> QED BY <1>0, <2>2, <2>4, CorrChildMoves, CorrTypes
<1> QED BY <1>2, <1>3, <1>4

\* A status row or a fill that is read is booked as the broker has it.
LEMMA VisitsCorr ==
  ASSUME SessionInv, CorrInv, NEW i \in Intents, NEW n \in Attempts,
         DayExpiryVisits(i, n) \/ ReconcileVisits(i, n) \/ ObserveFill(i, n)
  PROVE  CorrInv'
<1>1. \/ /\ orders[i][n].status \in TerminalStates
         /\ \E terminal \in TerminalStates :
              ApplyTerminalStatus(i, n, terminal, orders[i][n].filled)
      \/ /\ orders[i][n].filled > children[i][n].filled_qty
         /\ OnFill(i, n, orders[i][n].filled - children[i][n].filled_qty)
      \/ UNCHANGED children
  BY DEF DayExpiryVisits, ReconcileVisits, ObserveFill, TerminalStates, book
<1>2. UNCHANGED orders
  BY DEF DayExpiryVisits, ReconcileVisits, ObserveFill
<1>3. CorrBook(children', orders')
  BY <1>1, <1>2, BookingCorr
<1>4. CorrDriver(driver', children', orders')
  <2>1. CASE ObserveFill(i, n)
    BY <2>1 DEF ObserveFill, Ready, CorrDriver
  <2>2. CASE ~ObserveFill(i, n)
    <3>1. driver.op \in {"day_expiry", "reconcile"} /\ driver' = Visited(<<i, n>>)
      BY <2>2 DEF DayExpiryVisits, ReconcileVisits
    <3>2. driver # Idle /\ driver'.op = driver.op /\ driver'.saved = driver.saved
      BY <3>1, VisitedDriver
    <3> QED BY <1>2, <3>1, <3>2 DEF CorrInv, CorrDriver
  <2> QED BY <2>1, <2>2
<1> QED BY <1>3, <1>4 DEF CorrInv

\* An acknowledged child is open still.
LEMMA ObserveAckCorr ==
  ASSUME SessionInv, CorrInv, NEW i \in Intents, NEW n \in Attempts, ObserveAck(i, n)
  PROVE  CorrInv'
<1> DEFINE c == children[i][n]
           o == orders[i][n]
           d == [c EXCEPT !.state = "ACCEPTED"]
<1>1. /\ UNCHANGED <<orders, driver>> /\ Ready /\ o.status # "absent"
      /\ children' = [children EXCEPT ![i][n] = d]
  BY DEF ObserveAck, OnBrokerAck, SessionInv, IInv
<1>2. c \in Child /\ Corr(c, o)
  BY SessionNumbers DEF GoodChild, CorrInv, CorrBook
<1>3. d.state = "ACCEPTED" /\ d.requested_qty = c.requested_qty
  BY <1>2 DEF Child
<1> HIDE DEF d
<1>4. Corr(d, o)
  BY <1>1, <1>2, <1>3 DEF Corr, IsOpen, OpenStates, TerminalStates, Counted
<1>5. CorrBook(children', orders)
  BY <1>1, <1>4, CorrChildMoves, CorrTypes DEF CorrInv
<1> QED BY <1>1, <1>5 DEF CorrInv, CorrDriver, Ready

\* A restart comes back with a book that corresponds.
LEMMA CrashCorr ==
  ASSUME SessionInv, CorrInv, Faults \subseteq HarmlessFaults, Crash
  PROVE  CorrInv'
<1>1. driver.op # "accepted" /\ driver' = Idle /\ UNCHANGED orders
  BY DEF Crash, HarmlessFaults
<1>2. CorrBook(children', orders)
  <2>1. CASE Ready
    <3>1. children' = children
      BY <2>1 DEF Crash, Snapshot
    <3> QED BY <3>1 DEF CorrInv
  <2>2. CASE ~Ready
    <3>1. children' = driver.saved.children
      BY <2>2 DEF Crash
    <3> QED BY <1>1, <2>2, <3>1 DEF CorrInv, CorrDriver, Ready
  <2> QED BY <2>1, <2>2
<1> QED BY <1>1, <1>2 DEF CorrInv, CorrDriver

\* A fresh session corresponds: there is nothing on either side.
LEMMA SessionInitCorr == SessionInit => CorrInv
<1> SUFFICES ASSUME SessionInit PROVE CorrInv
  OBVIOUS
<1>1. \A i \in Intents, n \in Attempts :
        orders[i][n] = NoOrder /\ children[i][n] = NoChild
  BY DEF SessionInit, Init
<1>2. Corr(NoChild, NoOrder)
  BY DEF Corr, NoChild, NoOrder, IsLive, TerminalStates, Counted
<1> QED BY <1>1, <1>2 DEF SessionInit, CorrInv, CorrBook, CorrDriver

\* Where the environment has none of the harmful faults every step keeps the
\* book and the broker in correspondence.
LEMMA SessionNextCorr ==
  Faults \subseteq HarmlessFaults =>
    (SessionInv /\ CorrInv /\ [SessionNext]_svars => CorrInv')
<1> SUFFICES ASSUME Faults \subseteq HarmlessFaults, SessionInv, CorrInv,
                    [SessionNext]_svars
             PROVE  CorrInv'
  OBVIOUS
<1>1. CASE \/ \E i \in Intents, qty \in Qty : Decide(i, qty)
           \/ \E i \in Intents : EnvelopeBlocks(i)
           \/ PortRefuses \/ SubmitReturns \/ DriverRaises \/ DriverReturns
           \/ TimePasses
           \/ UNCHANGED svars
  BY <1>1, QuietStepsCorr
<1>2. ASSUME NEW i \in Intents, NEW gate \in BOOLEAN, BeginSubmit(i, gate)
      PROVE  CorrInv'
  BY <1>2, BeginSubmitCorr
<1>3. CASE BeginWatchdog \/ BeginDayExpiry \/ BeginReconcile
  BY <1>3, BeginsCorr
<1>4. ASSUME NEW i \in Intents, NEW n \in Attempts,
             \/ PortAccepts(i, n)
             \/ SubmitRaises(i, n)
             \/ WatchdogCancels(i, n)
             \/ DayExpiryVisits(i, n)
             \/ ReconcileVisits(i, n)
             \/ ObserveAck(i, n)
             \/ ObserveFill(i, n)
      PROVE  CorrInv'
  BY <1>4, PortAcceptsCorr, SubmitRaisesCorr, WatchdogCancelsCorr, VisitsCorr,
     ObserveAckCorr
<1>5. ASSUME NEW i \in Intents, NEW n \in Attempts,
             \/ \E qty \in Qty : BrokerFills(i, n, qty)
             \/ \E status \in Counted : BrokerCloses(i, n, status)
      PROVE  CorrInv'
  BY <1>5, BrokerMovesCorr
<1>6. CASE Crash
  BY <1>6, CrashCorr
<1> QED BY <1>1, <1>2, <1>3, <1>4, <1>5, <1>6 DEF SessionNext, DriverStep

\* The book, the snapshot of a running driver and the broker correspond in every
\* reachable state.
THEOREM SessionCorresponds ==
  ASSUME Faults \subseteq HarmlessFaults
  PROVE  SessionSpec => [](SessionInv /\ CorrInv)
<1>1. SessionInit => SessionInv /\ CorrInv
  BY SessionInitSafe, SessionInitCorr
<1>2. SessionInv /\ CorrInv /\ [SessionNext]_svars => (SessionInv /\ CorrInv)'
  BY SessionNextPreserves, SessionNextCorr
<1> QED BY <1>1, <1>2, PTL DEF SessionSpec

\* The correspondence says what the book may take for closed.
LEMMA CorrImpliesClosed == SessionInv /\ CorrInv => ClosedMeansClosed
BY DEF CorrInv, CorrBook, Corr, ClosedMeansClosed

\* The broker's shares of an attempt are within the book's.
LEMMA BrokerWithinBook ==
  ASSUME SessionInv, CorrInv, NEW i \in Intents, NEW n \in Attempts
  PROVE  LET c == children[i][n]
             o == orders[i][n]
         IN  /\ o.filled \in Nat /\ Left(o) \in Int
             /\ c.filled_qty \in Nat /\ Working(c) \in Nat
             /\ o.filled + Left(o) <= c.filled_qty + Working(c)
<1> DEFINE c == children[i][n]
           o == orders[i][n]
<1>1. /\ GoodChild(c) /\ c.filled_qty \in Nat /\ c.requested_qty \in Nat
      /\ o.filled \in Nat /\ o.qty \in Nat /\ o.filled <= o.qty
      /\ c.filled_qty <= o.filled
  BY SessionNumbers
<1>2. Corr(c, o)
  BY DEF CorrInv, CorrBook
<1>3. Working(c) \in Nat /\ Left(o) \in Int
  BY <1>1, GoodChildQuantities DEF Left
<1>4. CASE IsLive(o)
  <2>1. IsOpen(c) /\ o.qty = c.requested_qty /\ Left(o) = o.qty - o.filled
    BY <1>2, <1>4 DEF Corr, IsLive, Left
  <2>2. Working(c) = c.requested_qty - c.filled_qty
    BY <2>1 DEF Working, Unfilled
  <2> QED BY <1>1, <1>3, <2>1, <2>2
<1>5. CASE ~IsLive(o)
  <2>1. Left(o) = 0
    BY <1>5 DEF Left
  <2>2. CASE IsOpen(c)
    <3>1. Working(c) = c.requested_qty - c.filled_qty
      BY <2>2 DEF Working, Unfilled
    <3>2. o.filled <= c.requested_qty
      BY <1>1, <1>2 DEF Corr, NoOrder
    <3> QED BY <1>1, <1>3, <2>1, <3>1, <3>2
  <2>3. CASE ~IsOpen(c)
    <3>1. c.state \in TerminalStates \/ c.state = "UNUSED"
      BY <1>1, <2>3 DEF GoodChild, Child, IsOpen
    <3>2. o.filled = c.filled_qty
      BY <1>2, <1>1, <3>1 DEF Corr, NoOrder, GoodChild, NoChild
    <3>3. Working(c) = 0
      BY <2>3 DEF Working
    <3> QED BY <1>1, <2>1, <3>2, <3>3
  <2> QED BY <2>2, <2>3
<1> QED BY <1>1, <1>3, <1>4, <1>5

\* The broker's sums are within the book's, and those within the target.
LEMMA CorrImpliesNeverOverfilled == SessionInv /\ CorrInv => NeverOverfilled
<1> SUFFICES ASSUME SessionInv, CorrInv, NEW i \in Intents
             PROVE  BrokerFilled(i) + BrokerWorking(i) <= target[i]
  BY DEF NeverOverfilled
<1> DEFINE F == [n \in Attempts |-> orders[i][n].filled]
           W == [n \in Attempts |-> Left(orders[i][n])]
           B == [n \in Attempts |-> F[n] + W[n]]
           f == [n \in Attempts |-> children[i][n].filled_qty]
           w == [n \in Attempts |-> Working(children[i][n])]
           b == [n \in Attempts |-> f[n] + w[n]]
<1>1. \A n \in Attempts :
        /\ F[n] \in Int /\ W[n] \in Int /\ f[n] \in Int /\ w[n] \in Int
        /\ F[n] + W[n] <= f[n] + w[n]
  BY BrokerWithinBook
<1>2. /\ BrokerFilled(i) = SumOver(F, Attempts) /\ BrokerWorking(i) = SumOver(W, Attempts)
      /\ FilledBy(children[i]) = SumOver(f, Attempts)
      /\ OpenBy(children[i]) = SumOver(w, Attempts)
  BY DEF BrokerFilled, BrokerWorking, FilledBy, OpenBy
<1> HIDE DEF F, W, f, w
<1>3. \A n \in Attempts : /\ B[n] \in Int /\ b[n] \in Int /\ B[n] <= b[n]
                          /\ B[n] = F[n] + W[n] /\ b[n] = f[n] + w[n]
  BY <1>1
<1> HIDE DEF B, b
<1>4. SumOver(B, Attempts) <= SumOver(b, Attempts)
  BY <1>3, AttemptsFinite, SumMonotone
<1>5. SumOver(B, Attempts) = SumOver(F, Attempts) + SumOver(W, Attempts)
  BY <1>1, <1>3, AttemptsFinite, SumAdd
<1>6. SumOver(b, Attempts) = SumOver(f, Attempts) + SumOver(w, Attempts)
  BY <1>1, <1>3, AttemptsFinite, SumAdd
<1>7. FilledBy(children[i]) + OpenBy(children[i]) <= target[i]
  BY IInvParent DEF SessionInv, GoodParent
<1>8. target[i] \in Nat
  BY BookAssumption DEF SessionInv, IInv
<1>9. /\ SumOver(F, Attempts) \in Int /\ SumOver(W, Attempts) \in Int
      /\ SumOver(f, Attempts) \in Int /\ SumOver(w, Attempts) \in Int
  BY <1>1, AttemptsFinite, SumType
<1> QED BY <1>2, <1>4, <1>5, <1>6, <1>7, <1>8, <1>9

\* What the book closed is closed at the broker with the same fills, and every
\* live order is one the book holds open, through crashes, restarts, refusals
\* and fills that race a cancel, so long as none of the harmful faults happens.
THEOREM SessionClosedMeansClosed ==
  ASSUME Faults \subseteq HarmlessFaults
  PROVE  SessionSpec => []ClosedMeansClosed
BY SessionCorresponds, CorrImpliesClosed, PTL

\* Retries never put more at the broker than the target of their parent: no
\* order of an earlier attempt is alive, or filled unseen, when one is added.
THEOREM SessionNeverOverfilled ==
  ASSUME Faults \subseteq HarmlessFaults
  PROVE  SessionSpec => []NeverOverfilled
BY SessionCorresponds, CorrImpliesNeverOverfilled, PTL

\* A parent whose children are all closed has no live order, and the book
\* knows every fill of it.
LEMMA ClosedParentIsQuiet ==
  ASSUME SessionInv, CorrInv, NEW i \in Intents,
         \A m \in Attempts : ~IsOpen(children[i][m])
  PROVE  BrokerWorking(i) = 0 /\ BrokerFilled(i) = cum_filled(i)
<1> DEFINE F == [n \in Attempts |-> orders[i][n].filled]
           W == [n \in Attempts |-> Left(orders[i][n])]
           f == [n \in Attempts |-> children[i][n].filled_qty]
<1>1. ASSUME NEW n \in Attempts
      PROVE  W[n] = 0 /\ f[n] \in Int /\ F[n] = f[n]
  <2>1. Corr(children[i][n], orders[i][n]) /\ GoodChild(children[i][n])
        /\ children[i][n].filled_qty \in Nat
    BY SessionNumbers DEF CorrInv, CorrBook
  <2>2. children[i][n].state \in TerminalStates \/ children[i][n].state = "UNUSED"
    BY <2>1 DEF GoodChild, Child, IsOpen
  <2>3. orders[i][n].filled = children[i][n].filled_qty
    BY <2>1, <2>2 DEF Corr, NoOrder, GoodChild, NoChild
  <2>4. Left(orders[i][n]) = 0
    BY <2>1 DEF Corr, Left
  <2> QED BY <2>1, <2>3, <2>4
<1>2. /\ BrokerFilled(i) = SumOver(F, Attempts) /\ BrokerWorking(i) = SumOver(W, Attempts)
      /\ cum_filled(i) = SumOver(f, Attempts)
  BY DEF BrokerFilled, BrokerWorking, cum_filled, FilledBy
<1> HIDE DEF F, W, f
<1>3. SumOver(W, Attempts) = 0
  BY <1>1, AttemptsFinite, SumZero
<1>4. SumOver(F, Attempts) = SumOver(f, Attempts)
  BY <1>1, AttemptsFinite, SumEqual
<1> QED BY <1>2, <1>3, <1>4

\* Between the drivers only a submission uses a new attempt number.
LEMMA OnlySubmissionsEmit ==
  ASSUME SessionInv, [SessionNext]_svars, Ready, NEW i \in Intents,
         UsedAttempts(i)' \ UsedAttempts(i) # {}
  PROVE  \A m \in Attempts : ~IsOpen(children[i][m])
<1>0. PICK n \in Attempts : children[i][n].state = "UNUSED" /\ children'[i][n].state # "UNUSED"
  BY DEF UsedAttempts
<1>1. ASSUME NEW j \in Intents, NEW gate \in BOOLEAN, BeginSubmit(j, gate)
      PROVE  \A m \in Attempts : ~IsOpen(children[i][m])
  <2>1. SubmitChild(j, remaining_unsubmitted(j), gate)
    BY <1>1 DEF BeginSubmit
  <2>2. \A m \in Attempts : ~IsOpen(children[j][m])
    BY <2>1 DEF SubmitChild, OpenAttempts
  <2>3. CASE i = j
    BY <2>2, <2>3
  <2>4. CASE i # j
    <3>1. children'[i] = children[i]
      BY <2>1, <2>4, CorrTypes DEF SubmitChild
    <3> QED BY <1>0, <3>1
  <2> QED BY <2>3, <2>4
<1>2. CASE BeginWatchdog
  <2>1. children'[i][n] = children[i][n] \/ IsOpen(children[i][n])
    BY <1>2, StaleKeepsFills DEF BeginWatchdog
  <2> QED BY <1>0, <2>1 DEF IsOpen, OpenStates
<1>3. ASSUME NEW j \in Intents, NEW m \in Attempts, ObserveAck(j, m) \/ ObserveFill(j, m)
      PROVE  FALSE
  <2>1. PICK d : /\ children' = [children EXCEPT ![j][m] = d]
                 /\ IsOpen(children[j][m])
    BY <1>3, CorrTypes DEF ObserveAck, OnBrokerAck, ObserveFill, OnFill, IsOpen, OpenStates
  <2>2. ~(i = j /\ n = m)
    BY <1>0, <2>1 DEF IsOpen, OpenStates
  <2>3. children'[i][n] = children[i][n]
    BY <2>1, <2>2, CorrTypes
  <2> QED BY <1>0, <2>3
<1>4. ASSUME UNCHANGED children PROVE FALSE
  BY <1>0, <1>4
<1>5. CASE \/ \E j \in Intents, qty \in Qty : Decide(j, qty)
           \/ \E j \in Intents : EnvelopeBlocks(j)
           \/ BeginDayExpiry \/ BeginReconcile
           \/ \E j \in Intents, m \in Attempts, qty \in Qty : BrokerFills(j, m, qty)
           \/ \E j \in Intents, m \in Attempts, status \in Counted :
                BrokerCloses(j, m, status)
           \/ TimePasses
           \/ UNCHANGED svars
  <2>1. UNCHANGED children
    BY <1>5 DEF Decide, RegisterIntent, EnvelopeBlocks, HaltEntries, BeginDayExpiry,
                BeginReconcile, BrokerFills, BrokerCloses, TimePasses, Tick, book,
                svars, vars
  <2> QED BY <1>4, <2>1
<1>6. CASE Crash
  <2>1. UNCHANGED children
    BY <1>6 DEF Crash, Snapshot
  <2> QED BY <1>4, <2>1
<1>7. ~DriverStep
  <2>1. driver.op = "idle"
    BY DEF Ready, Idle
  <2> QED BY <2>1 DEF DriverStep, PortAccepts, SubmitRaises, WatchdogCancels,
               DayExpiryVisits, ReconcileVisits, PortRefuses, SubmitReturns,
               DriverReturns, DriverRaises
<1> QED BY <1>1, <1>2, <1>3, <1>5, <1>6, <1>7 DEF SessionNext

\* A child is emitted only when nothing of its parent works at the broker and
\* the book knows every fill of it.
THEOREM SessionEmitsWhenQuiet ==
  ASSUME Faults \subseteq HarmlessFaults
  PROVE  SessionSpec => EmitsOnlyWhenBrokerIsQuiet
<1>1. ASSUME SessionInv, CorrInv, [SessionNext]_svars, NEW i \in Intents,
             UsedAttempts(i)' \ UsedAttempts(i) # {}, Ready
      PROVE  BrokerWorking(i) = 0 /\ BrokerFilled(i) = cum_filled(i)
  BY <1>1, OnlySubmissionsEmit, ClosedParentIsQuiet
<1>2. SessionInv /\ CorrInv /\ [SessionNext]_svars
        => [\A i \in Intents :
              UsedAttempts(i)' \ UsedAttempts(i) # {} /\ Ready
                => BrokerWorking(i) = 0 /\ BrokerFilled(i) = cum_filled(i)]_svars
  BY <1>1
<1> QED BY <1>2, SessionCorresponds, PTL DEF SessionSpec, EmitsOnlyWhenBrokerIsQuiet
=============================================================================
