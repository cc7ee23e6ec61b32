------------------------ MODULE OrderStateBookProofs ------------------------
(***************************************************************************)
(* The order book's accounting, proved for every set of decisions, every   *)
(* bound on quantities and attempts and every clock.                       *)
(***************************************************************************)
EXTENDS OrderStateBook, SetSumsProofs

\* A child record the invariant allows.
GoodChild(c) ==
    /\ c \in Child
    /\ c.filled_qty <= c.requested_qty
    /\ IsOpen(c) => c.filled_qty < c.requested_qty
    /\ c.state = "FILLED" => c.filled_qty = c.requested_qty
    /\ c.state = "UNUSED" => c = NoChild

Counts(counters) ==
    counters["CANCELED"] + counters["REJECTED"] + counters["EXPIRED"]

\* What the invariant says of one parent with target t, children cs and the
\* three counters.
GoodParent(t, cs, counters) ==
    /\ t \in 0..MaxQty
    /\ cs \in [Attempts -> Child]
    /\ counters \in [Counted -> Nat]
    /\ \A n \in Attempts : GoodChild(cs[n])
    /\ \A m, n \in Attempts : IsOpen(cs[m]) /\ IsOpen(cs[n]) => m = n
    /\ FilledBy(cs) + OpenBy(cs) <= t
    /\ FilledBy(cs) + OpenBy(cs) + Counts(counters) = RequestedBy(cs)

\* The inductive invariant: every parent is good.
IInv ==
    /\ target \in [Intents -> 0..MaxQty]
    /\ children \in [Intents -> [Attempts -> Child]]
    /\ cum \in [Intents -> [Counted -> Nat]]
    /\ entries_halted \in BOOLEAN
    /\ needs_reconcile \in BOOLEAN
    /\ now \in 0..MaxTime
    /\ \A i \in Intents : GoodParent(target[i], children[i], cum[i])

-----------------------------------------------------------------------------
\* A parent has finitely many attempt numbers, so its sums are defined.
LEMMA AttemptsFinite == IsFiniteSet(Attempts)
BY FS_Interval, BookAssumption DEF Attempts

\* The quantities of a good child are natural numbers.
LEMMA GoodChildQuantities ==
  ASSUME NEW c, GoodChild(c)
  PROVE  /\ c.filled_qty \in Nat /\ c.requested_qty \in Nat
         /\ Working(c) \in Nat /\ Unfilled(c) \in Nat
BY BookAssumption DEF GoodChild, Child, Working, Unfilled

\* The three sums of a parent are natural numbers.
LEMMA SumsAreNat ==
  ASSUME NEW cs \in [Attempts -> Child], \A n \in Attempts : GoodChild(cs[n])
  PROVE  FilledBy(cs) \in Nat /\ OpenBy(cs) \in Nat /\ RequestedBy(cs) \in Nat
<1>1. \A n \in Attempts : /\ cs[n].filled_qty \in Nat
                          /\ cs[n].requested_qty \in Nat
                          /\ Working(cs[n]) \in Nat
  BY GoodChildQuantities
<1>2. FilledBy(cs) \in Nat
  BY <1>1, AttemptsFinite, SumNat DEF FilledBy
<1>3. OpenBy(cs) \in Nat
  BY <1>1, AttemptsFinite, SumNat DEF OpenBy
<1>4. RequestedBy(cs) \in Nat
  BY <1>1, AttemptsFinite, SumNat DEF RequestedBy
<1> QED BY <1>2, <1>3, <1>4

\* Replacing one child moves each sum by that child's change.
LEMMA SumsAfterChange ==
  ASSUME NEW cs \in [Attempts -> Child], \A n \in Attempts : GoodChild(cs[n]),
         NEW k \in Attempts, NEW d, GoodChild(d)
  PROVE  LET ds == [cs EXCEPT ![k] = d]
         IN  /\ FilledBy(ds) = FilledBy(cs) + d.filled_qty - cs[k].filled_qty
             /\ OpenBy(ds) = OpenBy(cs) + Working(d) - Working(cs[k])
             /\ RequestedBy(ds) = RequestedBy(cs) + d.requested_qty
                                                  - cs[k].requested_qty
<1> DEFINE ds == [cs EXCEPT ![k] = d]
<1>1. ds \in [Attempts -> Child] /\ \A n \in Attempts : GoodChild(ds[n])
  BY DEF GoodChild
<1>2. \A n \in Attempts : /\ cs[n].filled_qty \in Int /\ ds[n].filled_qty \in Int
                          /\ cs[n].requested_qty \in Int /\ ds[n].requested_qty \in Int
                          /\ Working(cs[n]) \in Int /\ Working(ds[n]) \in Int
  BY <1>1, GoodChildQuantities
<1>3. ds[k] = d /\ \A n \in Attempts \ {k} : ds[n] = cs[n]
  OBVIOUS
<1> HIDE DEF ds
<1>4. FilledBy(ds) = FilledBy(cs) + ds[k].filled_qty - cs[k].filled_qty
  <2> DEFINE f == [n \in Attempts |-> cs[n].filled_qty]
             g == [n \in Attempts |-> ds[n].filled_qty]
  <2>1. DifferOnlyAt(f, g, k, Attempts)
    BY <1>2, <1>3 DEF DifferOnlyAt
  <2>0. f[k] = cs[k].filled_qty /\ g[k] = ds[k].filled_qty
    BY <1>2, <1>3
  <2>2. FilledBy(cs) = SumOver(f, Attempts) /\ FilledBy(ds) = SumOver(g, Attempts)
    BY DEF FilledBy
  <2> HIDE DEF f, g
  <2>3. SumOver(g, Attempts) = SumOver(f, Attempts) + g[k] - f[k]
    BY <2>1, AttemptsFinite, SumChangeOne
  <2> QED BY <2>0, <2>2, <2>3
<1>5. OpenBy(ds) = OpenBy(cs) + Working(ds[k]) - Working(cs[k])
  <2> DEFINE f == [n \in Attempts |-> Working(cs[n])]
             g == [n \in Attempts |-> Working(ds[n])]
  <2>1. DifferOnlyAt(f, g, k, Attempts)
    BY <1>2, <1>3 DEF DifferOnlyAt
  <2>0. f[k] = Working(cs[k]) /\ g[k] = Working(ds[k])
    BY <1>2, <1>3
  <2>2. OpenBy(cs) = SumOver(f, Attempts) /\ OpenBy(ds) = SumOver(g, Attempts)
    BY DEF OpenBy
  <2> HIDE DEF f, g
  <2>3. SumOver(g, Attempts) = SumOver(f, Attempts) + g[k] - f[k]
    BY <2>1, AttemptsFinite, SumChangeOne
  <2> QED BY <2>0, <2>2, <2>3
<1>6. RequestedBy(ds) = RequestedBy(cs) + ds[k].requested_qty - cs[k].requested_qty
  <2> DEFINE f == [n \in Attempts |-> cs[n].requested_qty]
             g == [n \in Attempts |-> ds[n].requested_qty]
  <2>1. DifferOnlyAt(f, g, k, Attempts)
    BY <1>2, <1>3 DEF DifferOnlyAt
  <2>0. f[k] = cs[k].requested_qty /\ g[k] = ds[k].requested_qty
    BY <1>2, <1>3
  <2>2. /\ RequestedBy(cs) = SumOver(f, Attempts)
        /\ RequestedBy(ds) = SumOver(g, Attempts)
    BY DEF RequestedBy
  <2> HIDE DEF f, g
  <2>3. SumOver(g, Attempts) = SumOver(f, Attempts) + g[k] - f[k]
    BY <2>1, AttemptsFinite, SumChangeOne
  <2> QED BY <2>0, <2>2, <2>3
<1>7. ds[k] = d
  BY <1>3
<1> QED BY <1>4, <1>5, <1>6, <1>7 DEF ds

\* A change of one child keeps a parent good if it keeps the child good, opens
\* nothing beside another open child, stays within the target and accounts for
\* every share it moves.
LEMMA ParentAfterChange ==
  ASSUME NEW t, NEW cs, NEW counters, GoodParent(t, cs, counters),
         NEW k \in Attempts, NEW d, GoodChild(d),
         NEW counted \in [Counted -> Nat],
         IsOpen(d) => \A n \in Attempts : IsOpen(cs[n]) => n = k,
         d.filled_qty + Working(d)
           <= cs[k].filled_qty + Working(cs[k]) + t - FilledBy(cs) - OpenBy(cs),
         d.filled_qty + Working(d) + Counts(counted) + cs[k].requested_qty
           = cs[k].filled_qty + Working(cs[k]) + Counts(counters) + d.requested_qty
  PROVE  GoodParent(t, [cs EXCEPT ![k] = d], counted)
<1> DEFINE ds == [cs EXCEPT ![k] = d]
<1>1. cs \in [Attempts -> Child] /\ \A n \in Attempts : GoodChild(cs[n])
  BY DEF GoodParent
<1>2. /\ FilledBy(ds) = FilledBy(cs) + d.filled_qty - cs[k].filled_qty
      /\ OpenBy(ds) = OpenBy(cs) + Working(d) - Working(cs[k])
      /\ RequestedBy(ds) = RequestedBy(cs) + d.requested_qty - cs[k].requested_qty
  BY <1>1, SumsAfterChange
<1>3. FilledBy(cs) \in Nat /\ OpenBy(cs) \in Nat /\ RequestedBy(cs) \in Nat
  BY <1>1, SumsAreNat
<1>4. /\ d.filled_qty \in Nat /\ d.requested_qty \in Nat /\ Working(d) \in Nat
      /\ cs[k].filled_qty \in Nat /\ cs[k].requested_qty \in Nat
      /\ Working(cs[k]) \in Nat
  BY <1>1, GoodChildQuantities
<1>5. t \in 0..MaxQty /\ Counts(counters) \in Int /\ Counts(counted) \in Int
  BY DEF GoodParent, Counts, Counted
<1>6. ds \in [Attempts -> Child] /\ \A n \in Attempts : GoodChild(ds[n])
  BY <1>1 DEF GoodChild
<1>7. \A m, n \in Attempts : IsOpen(ds[m]) /\ IsOpen(ds[n]) => m = n
  BY <1>1 DEF GoodParent
<1>8. FilledBy(ds) + OpenBy(ds) <= t
  BY <1>2, <1>3, <1>4, <1>5, BookAssumption
<1>9. FilledBy(ds) + OpenBy(ds) + Counts(counted) = RequestedBy(ds)
  <2>1. FilledBy(cs) + OpenBy(cs) + Counts(counters) = RequestedBy(cs)
    BY DEF GoodParent
  <2> QED BY <2>1, <1>2, <1>3, <1>4, <1>5
<1> HIDE DEF ds
<1>10. GoodParent(t, ds, counted)
  BY <1>5, <1>6, <1>7, <1>8, <1>9 DEF GoodParent
<1> QED BY <1>10 DEF ds

\* Closing an open child moves its unfilled part to a counter.
LEMMA CountersAfterClose ==
  ASSUME NEW counters \in [Counted -> Nat], NEW c, GoodChild(c),
         NEW terminal \in Counted
  PROVE  /\ CountRemainder(counters, c, terminal) \in [Counted -> Nat]
         /\ Counts(CountRemainder(counters, c, terminal)) = Counts(counters) + Unfilled(c)
<1>1. Unfilled(c) \in Nat
  BY GoodChildQuantities
<1> QED BY <1>1 DEF Counts, CountRemainder, Counted

\* Replacing attempt n of parent i by d, and its counters by `counted', is
\* within ParentAfterChange's conditions.
SoundChange(i, n, d, counted) ==
    /\ GoodChild(d)
    /\ counted \in [Counted -> Nat]
    /\ IsOpen(d) => \A m \in Attempts : IsOpen(children[i][m]) => m = n
    /\ d.filled_qty + Working(d)
         <= children[i][n].filled_qty + Working(children[i][n])
              + target[i] - cum_filled(i) - open_qty(i)
    /\ d.filled_qty + Working(d) + Counts(counted) + children[i][n].requested_qty
         = children[i][n].filled_qty + Working(children[i][n]) + Counts(cum[i])
             + d.requested_qty

\* A step that makes one sound change and leaves targets alone preserves IInv.
LEMMA SoundChangePreserves ==
  ASSUME IInv, NEW i \in Intents, NEW n \in Attempts, NEW d, NEW counted,
         SoundChange(i, n, d, counted),
         children' = [children EXCEPT ![i][n] = d],
         cum' = [cum EXCEPT ![i] = counted],
         UNCHANGED <<target, entries_halted, needs_reconcile, now>>
  PROVE  IInv'
<1> DEFINE ds == [children[i] EXCEPT ![n] = d]
<1>1. GoodParent(target[i], ds, counted)
  <2>1. GoodParent(target[i], children[i], cum[i])
    BY DEF IInv
  <2> QED BY <2>1, ParentAfterChange DEF SoundChange, cum_filled, open_qty
<1>2. ds \in [Attempts -> Child] /\ counted \in [Counted -> Nat]
  BY <1>1 DEF GoodParent
<1>3. children' = [children EXCEPT ![i] = ds]
  OBVIOUS
<1> HIDE DEF ds
<1>4. /\ children' \in [Intents -> [Attempts -> Child]]
      /\ cum' \in [Intents -> [Counted -> Nat]]
  BY <1>2, <1>3 DEF IInv
<1>5. ASSUME NEW j \in Intents PROVE GoodParent(target'[j], children'[j], cum'[j])
  <2>1. CASE j = i
    <3>1. target'[j] = target[i] /\ children'[j] = ds /\ cum'[j] = counted
      BY <2>1, <1>3 DEF IInv
    <3> QED BY <3>1, <1>1
  <2>2. CASE j # i
    <3>1. target'[j] = target[j] /\ children'[j] = children[j] /\ cum'[j] = cum[j]
      BY <2>2, <1>3 DEF IInv
    <3> QED BY <3>1 DEF IInv
  <2> QED BY <2>1, <2>2
<1> QED BY <1>4, <1>5 DEF IInv

\* The same for a step that leaves the counters alone.
LEMMA SoundFillPreserves ==
  ASSUME IInv, NEW i \in Intents, NEW n \in Attempts, NEW d,
         SoundChange(i, n, d, cum[i]),
         children' = [children EXCEPT ![i][n] = d],
         UNCHANGED <<target, cum, entries_halted, needs_reconcile, now>>
  PROVE  IInv'
<1>1. cum' = [cum EXCEPT ![i] = cum[i]]
  BY DEF IInv
<1> QED BY <1>1, SoundChangePreserves

-----------------------------------------------------------------------------
\* IInv in the terms of the invariants it strengthens.
LEMMA IInvParent ==
  ASSUME IInv, NEW i \in Intents
  PROVE  /\ GoodParent(target[i], children[i], cum[i])
         /\ children[i] \in [Attempts -> Child]
         /\ cum[i] \in [Counted -> Nat]
         /\ target[i] \in Nat
         /\ cum_filled(i) \in Nat /\ open_qty(i) \in Nat
         /\ cum_filled(i) + open_qty(i) <= target[i]
<1>1. GoodParent(target[i], children[i], cum[i])
  BY DEF IInv
<1>2. children[i] \in [Attempts -> Child] /\ \A n \in Attempts : GoodChild(children[i][n])
  BY <1>1 DEF GoodParent
<1>3. FilledBy(children[i]) \in Nat /\ OpenBy(children[i]) \in Nat
  BY <1>2, SumsAreNat
<1> QED BY <1>1, <1>2, <1>3, BookAssumption DEF GoodParent, cum_filled, open_qty

\* Under the invariant every attempt of every parent is a good child.
LEMMA IInvChild ==
  ASSUME IInv, NEW i \in Intents, NEW n \in Attempts
  PROVE  GoodChild(children[i][n])
BY DEF IInv, GoodParent

\* The empty book satisfies the invariant.
LEMMA InitIInv == Init => IInv
<1> SUFFICES ASSUME Init PROVE IInv
  OBVIOUS
<1> DEFINE none == [n \in Attempts |-> NoChild]
           zero == [k \in Counted |-> 0]
<1>1. GoodChild(NoChild) /\ ~IsOpen(NoChild)
  BY BookAssumption DEF GoodChild, NoChild, Child, IsOpen, OpenStates
<1>2. none \in [Attempts -> Child] /\ zero \in [Counted -> Nat]
  BY <1>1 DEF GoodChild
<1>3. FilledBy(none) = 0
  BY AttemptsFinite, SumZero DEF FilledBy, NoChild
<1>4. OpenBy(none) = 0
  <2>1. Working(NoChild) = 0
    BY <1>1 DEF Working
  <2> QED BY <2>1, AttemptsFinite, SumZero DEF OpenBy
<1>5. RequestedBy(none) = 0
  BY AttemptsFinite, SumZero DEF RequestedBy, NoChild
<1>6. Counts(zero) = 0
  BY DEF Counts, Counted
<1>7. \A n \in Attempts : none[n] = NoChild
  OBVIOUS
<1> HIDE DEF none, zero
<1>8. GoodParent(0, none, zero)
  BY <1>1, <1>2, <1>3, <1>4, <1>5, <1>6, <1>7, BookAssumption DEF GoodParent
<1>9. \A i \in Intents : target[i] = 0 /\ children[i] = none /\ cum[i] = zero
  BY DEF Init, none, zero
<1>10. /\ target \in [Intents -> 0..MaxQty]
       /\ children \in [Intents -> [Attempts -> Child]]
       /\ cum \in [Intents -> [Counted -> Nat]]
       /\ now \in 0..MaxTime
  <2>1. target \in [Intents -> {0}] /\ 0 \in 0..MaxQty /\ now = 0 /\ now \in 0..MaxTime
    BY BookAssumption DEF Init
  <2>2. children = [i \in Intents |-> none] /\ cum = [i \in Intents |-> zero]
    BY DEF Init, none, zero
  <2> QED BY <2>1, <2>2, <1>2
<1> QED BY <1>8, <1>9, <1>10 DEF IInv, Init

-----------------------------------------------------------------------------
(* One lemma per method: it preserves the invariant.                       *)

\* Registering a decision gives an unused parent a target.
LEMMA RegisterIntentPreserves ==
  ASSUME IInv, NEW i \in Intents, NEW qty \in Qty, RegisterIntent(i, qty)
  PROVE  IInv'
<1>1. /\ target' = [target EXCEPT ![i] = qty] /\ target[i] = 0
      /\ UNCHANGED <<children, cum, entries_halted, needs_reconcile, now>>
  BY BookAssumption DEF RegisterIntent, Registered, IInv
<1>2. qty \in 0..MaxQty
  BY BookAssumption DEF Qty
<1>3. ASSUME NEW j \in Intents PROVE GoodParent(target'[j], children[j], cum[j])
  <2>1. GoodParent(target[j], children[j], cum[j])
    BY DEF IInv
  <2>2. CASE j = i
    <3>1. target'[j] = qty /\ target[j] = 0
      BY <2>2, <1>1 DEF IInv
    <3>2. FilledBy(children[j]) + OpenBy(children[j]) <= qty
      BY <1>2, <3>1, IInvParent, BookAssumption DEF cum_filled, open_qty
    <3> QED BY <2>1, <3>1, <3>2, <1>2 DEF GoodParent
  <2>3. CASE j # i
    BY <2>1, <2>3, <1>1 DEF IInv
  <2> QED BY <2>2, <2>3
<1> QED BY <1>1, <1>2, <1>3 DEF IInv

\* A submission opens one child within what remains of the target.
LEMMA SubmitChildPreserves ==
  ASSUME IInv, NEW i \in Intents, NEW qty \in Qty, NEW gate \in BOOLEAN,
         SubmitChild(i, qty, gate)
  PROVE  IInv'
<1> DEFINE d == [state |-> "SUBMITTED", requested_qty |-> qty,
                 filled_qty |-> 0, submitted_at |-> now]
<1>1. PICK n \in Attempts :
         /\ IsNextAttempt(i, n)
         /\ children' = [children EXCEPT ![i][n] = d]
  BY DEF SubmitChild
<1>2. UNCHANGED <<target, cum, entries_halted, needs_reconcile, now>>
  BY DEF SubmitChild
<1>3. /\ qty \in Nat \ {0} /\ qty <= MaxQty
      /\ qty <= target[i] - cum_filled(i) - open_qty(i)
      /\ \A m \in Attempts : ~IsOpen(children[i][m])
  BY BookAssumption DEF SubmitChild, Qty, remaining_unsubmitted, OpenAttempts
<1>4. children[i][n] = NoChild
  <2>1. n \notin UsedAttempts(i)
    BY <1>1 DEF IsNextAttempt, Attempts
  <2>2. children[i][n].state = "UNUSED"
    BY <2>1 DEF UsedAttempts
  <2> QED BY <2>2, IInvChild DEF GoodChild
<1>5. /\ d.filled_qty = 0 /\ d.requested_qty = qty /\ Working(d) = qty
      /\ Working(NoChild) = 0
      /\ NoChild.filled_qty = 0 /\ NoChild.requested_qty = 0
  BY <1>3 DEF Working, Unfilled, IsOpen, OpenStates, NoChild
<1>6. GoodChild(d)
  BY <1>3, BookAssumption
     DEF GoodChild, Child, IsOpen, OpenStates, NoChild, IInv
<1>7. Counts(cum[i]) \in Int
  BY IInvParent DEF Counts, Counted
<1> HIDE DEF d
<1>8. SoundChange(i, n, d, cum[i])
  BY <1>3, <1>4, <1>5, <1>6, <1>7, IInvParent DEF SoundChange
<1> QED BY <1>1, <1>2, <1>8, SoundFillPreserves

\* An ack changes a state and no quantity.
LEMMA OnBrokerAckPreserves ==
  ASSUME IInv, NEW i \in Intents, NEW n \in Attempts, OnBrokerAck(i, n)
  PROVE  IInv'
<1> DEFINE c == children[i][n]
           d == [c EXCEPT !.state = "ACCEPTED"]
<1>1. GoodChild(c) /\ c.state = "SUBMITTED"
  BY IInvChild DEF OnBrokerAck
<1>2. children' = [children EXCEPT ![i][n] = d]
  BY <1>1 DEF OnBrokerAck, IInv
<1>3. GoodChild(d) /\ IsOpen(c)
  BY <1>1 DEF GoodChild, Child, IsOpen, OpenStates
<1>4. /\ d.filled_qty = c.filled_qty /\ d.requested_qty = c.requested_qty
      /\ Working(d) = Working(c)
  BY <1>1 DEF GoodChild, Child, Working, Unfilled, IsOpen, OpenStates
<1>5. \A m \in Attempts : IsOpen(children[i][m]) => m = n
  BY <1>3, IInvParent DEF GoodParent
<1>6. c.filled_qty \in Nat /\ c.requested_qty \in Nat /\ Working(c) \in Nat
  BY <1>1, GoodChildQuantities
<1>7. Counts(cum[i]) \in Int
  BY IInvParent DEF Counts, Counted
<1> HIDE DEF d
<1>8. SoundChange(i, n, d, cum[i])
  BY <1>3, <1>4, <1>5, <1>6, <1>7, IInvParent DEF SoundChange
<1>9. UNCHANGED <<target, cum, entries_halted, needs_reconcile, now>>
  BY DEF OnBrokerAck
<1> QED BY <1>2, <1>8, <1>9, SoundFillPreserves

\* A fill within the request leaves a good child and moves q shares from
\* working to filled.
LEMMA WithFillIsGood ==
  ASSUME NEW c, GoodChild(c), IsOpen(c), NEW q \in Nat \ {0},
         c.filled_qty + q <= c.requested_qty
  PROVE  /\ GoodChild(WithFill(c, q))
         /\ WithFill(c, q).state # "UNUSED"
         /\ WithFill(c, q).filled_qty = c.filled_qty + q
         /\ WithFill(c, q).requested_qty = c.requested_qty
         /\ Working(WithFill(c, q)) = Working(c) - q
         /\ WithFill(c, q).state = "FILLED" <=> c.filled_qty + q = c.requested_qty
         /\ IsOpen(WithFill(c, q)) <=> c.filled_qty + q # c.requested_qty
<1> DEFINE d == WithFill(c, q)
<1>1. c \in Child /\ c.filled_qty \in Nat /\ c.requested_qty \in Nat
      /\ c.requested_qty <= MaxQty
  BY GoodChildQuantities, BookAssumption DEF GoodChild, Child
<1>2. /\ d.filled_qty = c.filled_qty + q /\ d.requested_qty = c.requested_qty
      /\ d.submitted_at = c.submitted_at
  BY <1>1 DEF WithFill, Child
<1>3. CASE c.filled_qty + q = c.requested_qty
  <2>1. d.state = "FILLED"
    BY <1>1, <1>3 DEF WithFill, Child
  <2>2. d \in Child
    <3>1. d = [c EXCEPT !.filled_qty = c.filled_qty + q, !.state = "FILLED"]
      BY <1>1, <1>3 DEF WithFill
    <3> QED BY <3>1, <1>1, <1>3, BookAssumption DEF Child, TerminalStates, Counted
  <2> HIDE DEF d
  <2>3. ~IsOpen(d) /\ Working(d) = 0
    BY <2>1 DEF IsOpen, OpenStates, Working
  <2>4. Working(c) = q
    BY <1>1, <1>3 DEF Working, Unfilled
  <2>5. GoodChild(d)
    BY <1>1, <1>2, <1>3, <2>1, <2>2, <2>3 DEF GoodChild
  <2> QED BY <1>1, <1>2, <1>3, <2>1, <2>3, <2>4, <2>5 DEF d
<1>4. CASE c.filled_qty + q # c.requested_qty
  <2>1. d.state \in {"STALE_PENDING", "PARTIALLY_FILLED"}
    BY <1>1, <1>4 DEF WithFill, Child
  <2>2. d \in Child
    <3>1. PICK s \in OpenStates : d = [c EXCEPT !.filled_qty = c.filled_qty + q,
                                                !.state = s]
      BY <1>1, <1>4 DEF WithFill, Child, OpenStates
    <3>2. c.filled_qty + q \in 0..MaxQty
      BY <1>1, BookAssumption
    <3> HIDE DEF d
    <3> QED BY <3>1, <3>2, <1>1 DEF Child
  <2> HIDE DEF d
  <2>3. IsOpen(d)
    BY <2>1 DEF IsOpen, OpenStates
  <2>4. Working(d) = Working(c) - q
    BY <1>1, <1>2, <2>3 DEF Working, Unfilled
  <2>5. GoodChild(d) /\ d.state # "FILLED" /\ d.state # "UNUSED"
    BY <1>1, <1>2, <1>4, <2>1, <2>2 DEF GoodChild
  <2> QED BY <1>2, <1>4, <2>3, <2>4, <2>5 DEF d
<1> QED BY <1>3, <1>4

\* A fill moves shares from working to filled.
LEMMA OnFillPreserves ==
  ASSUME IInv, NEW i \in Intents, NEW n \in Attempts, NEW qty \in Qty,
         OnFill(i, n, qty)
  PROVE  IInv'
<1> DEFINE c == children[i][n]
           d == WithFill(c, qty)
<1>1. /\ GoodChild(c) /\ IsOpen(c) /\ qty \in Nat \ {0}
      /\ c.filled_qty + qty <= c.requested_qty
  BY IInvChild, BookAssumption DEF OnFill, Qty
<1>2. children' = [children EXCEPT ![i][n] = d]
  BY DEF OnFill, IInv
<1>3. /\ GoodChild(d) /\ d.filled_qty = c.filled_qty + qty
      /\ d.requested_qty = c.requested_qty /\ Working(d) = Working(c) - qty
  BY <1>1, WithFillIsGood
<1>5. \A m \in Attempts : IsOpen(children[i][m]) => m = n
  BY <1>1, IInvParent DEF GoodParent
<1>6. c.filled_qty \in Nat /\ c.requested_qty \in Nat /\ Working(c) \in Nat
  BY <1>1, GoodChildQuantities
<1>7. Counts(cum[i]) \in Int
  BY IInvParent DEF Counts, Counted
<1> HIDE DEF d
<1>8. SoundChange(i, n, d, cum[i])
  BY <1>1, <1>3, <1>5, <1>6, <1>7, IInvParent DEF SoundChange
<1>9. UNCHANGED <<target, cum, entries_halted, needs_reconcile, now>>
  BY DEF OnFill
<1> QED BY <1>2, <1>8, <1>9, SoundFillPreserves

\* Closing an open child empties its working part into a counter.
LEMMA ClosedIsGood ==
  ASSUME NEW c, GoodChild(c), IsOpen(c), NEW terminal \in Counted
  PROVE  /\ GoodChild(Closed(c, terminal))
         /\ ~IsOpen(Closed(c, terminal))
         /\ Closed(c, terminal).state = terminal
         /\ Closed(c, terminal).filled_qty = c.filled_qty
         /\ Closed(c, terminal).requested_qty = c.requested_qty
         /\ Working(Closed(c, terminal)) = 0
         /\ Unfilled(Closed(c, terminal)) = Working(c)
<1> DEFINE d == Closed(c, terminal)
<1>1. c \in Child /\ c.filled_qty <= c.requested_qty
  BY DEF GoodChild
<1>2. /\ d.filled_qty = c.filled_qty /\ d.requested_qty = c.requested_qty
      /\ d.state = terminal
  BY <1>1 DEF Closed, Child
<1>3. d \in Child
  BY <1>1 DEF Closed, Child, TerminalStates
<1> HIDE DEF d
<1>4. ~IsOpen(d) /\ d.state # "FILLED" /\ d.state # "UNUSED"
  BY <1>2 DEF IsOpen, OpenStates, Counted
<1>5. GoodChild(d) /\ Working(d) = 0 /\ Unfilled(d) = Working(c)
  BY <1>1, <1>2, <1>3, <1>4 DEF GoodChild, Working, Unfilled
<1> QED BY <1>2, <1>4, <1>5 DEF d

\* A close moves the unfilled remainder from working to a counter.
LEMMA CloseOpenChildPreserves ==
  ASSUME IInv, NEW i \in Intents, NEW n \in Attempts, NEW terminal \in Counted,
         CloseOpenChild(i, n, terminal)
  PROVE  IInv'
<1> DEFINE c == children[i][n]
           d == Closed(c, terminal)
           counted == CountRemainder(cum[i], c, terminal)
<1>1. GoodChild(c) /\ IsOpen(c)
  BY IInvChild DEF CloseOpenChild
<1>2. children' = [children EXCEPT ![i][n] = d] /\ cum' = [cum EXCEPT ![i] = counted]
  BY DEF CloseOpenChild, IInv
<1>3. /\ GoodChild(d) /\ ~IsOpen(d) /\ d.filled_qty = c.filled_qty
      /\ d.requested_qty = c.requested_qty /\ Working(d) = 0
  BY <1>1, ClosedIsGood
<1>4. /\ counted \in [Counted -> Nat]
      /\ Counts(counted) = Counts(cum[i]) + Unfilled(c)
  BY <1>1, IInvParent, CountersAfterClose
<1>5. Working(c) = Unfilled(c)
  BY <1>1 DEF Working
<1>6. c.filled_qty \in Nat /\ c.requested_qty \in Nat /\ Working(c) \in Nat
  BY <1>1, GoodChildQuantities
<1>7. Counts(cum[i]) \in Int
  BY IInvParent DEF Counts, Counted
<1> HIDE DEF d, counted
<1>8. SoundChange(i, n, d, counted)
  BY <1>3, <1>4, <1>5, <1>6, <1>7, IInvParent DEF SoundChange
<1>9. UNCHANGED <<target, entries_halted, needs_reconcile, now>>
  BY DEF CloseOpenChild
<1> QED BY <1>2, <1>8, <1>9, SoundChangePreserves

\* The outcome of a terminal status row: fills booked first, then the close.
LEMMA AfterTerminalIsGood ==
  ASSUME NEW c, GoodChild(c), NEW terminal \in TerminalStates,
         NEW filled \in 0..MaxQty, AcceptsTerminal(c, filled)
  PROVE  LET d == AfterTerminal(c, terminal, filled)
         IN  /\ GoodChild(d)
             /\ d.filled_qty = filled
             /\ d.requested_qty = c.requested_qty
             /\ d.state \in Counted => Working(d) = 0
             /\ d.state \notin Counted => Working(d) = Unfilled(d)
<1> DEFINE f == IF filled > c.filled_qty THEN WithFill(c, filled - c.filled_qty) ELSE c
           d == AfterTerminal(c, terminal, filled)
<1>1. /\ IsOpen(c) /\ c.filled_qty <= filled /\ filled <= c.requested_qty
      /\ c.filled_qty \in Nat /\ c.requested_qty \in Nat /\ filled \in Nat
  BY GoodChildQuantities, BookAssumption DEF AcceptsTerminal
<1>2. /\ GoodChild(f) /\ f.filled_qty = filled /\ f.requested_qty = c.requested_qty
      /\ f.state = "FILLED" \/ IsOpen(f)
  <2>1. CASE filled > c.filled_qty
    <3>1. filled - c.filled_qty \in Nat \ {0}
      BY <1>1, <2>1
    <3>2. c.filled_qty + (filled - c.filled_qty) = filled
      BY <1>1
    <3> QED BY <1>1, <2>1, <3>1, <3>2, WithFillIsGood
  <2>2. CASE ~(filled > c.filled_qty)
    BY <1>1, <2>2
  <2> QED BY <2>1, <2>2
<1>3. d = IF f.state = "FILLED" \/ terminal = "FILLED" THEN f ELSE Closed(f, terminal)
  BY DEF AfterTerminal
<1> HIDE DEF f, d
<1>4. CASE f.state = "FILLED" \/ terminal = "FILLED"
  <2>1. d = f
    BY <1>3, <1>4
  <2>2. f.state \notin Counted
    BY <1>2 DEF IsOpen, OpenStates, Counted
  <2>3. Working(f) = Unfilled(f)
    BY <1>1, <1>2 DEF GoodChild, Working, Unfilled
  <2> QED BY <1>2, <2>1, <2>2, <2>3 DEF d
<1>5. CASE ~(f.state = "FILLED" \/ terminal = "FILLED")
  <2>1. d = Closed(f, terminal) /\ terminal \in Counted /\ IsOpen(f)
    BY <1>2, <1>3, <1>5 DEF TerminalStates
  <2>2. /\ GoodChild(d) /\ d.filled_qty = filled /\ d.state = terminal
        /\ d.requested_qty = c.requested_qty /\ Working(d) = 0
    BY <1>2, <2>1, ClosedIsGood
  <2> QED BY <2>1, <2>2 DEF d
<1> QED BY <1>4, <1>5

\* A terminal status books the missing fills, then closes.
LEMMA ApplyTerminalStatusPreserves ==
  ASSUME IInv, NEW i \in Intents, NEW n \in Attempts,
         NEW terminal \in TerminalStates, NEW filled \in 0..MaxQty,
         ApplyTerminalStatus(i, n, terminal, filled)
  PROVE  IInv'
<1> DEFINE c == children[i][n]
           d == AfterTerminal(c, terminal, filled)
           counted == IF d.state \in Counted THEN CountRemainder(cum[i], d, d.state)
                                             ELSE cum[i]
<1>1. GoodChild(c) /\ IsOpen(c) /\ AcceptsTerminal(c, filled)
  BY IInvChild DEF ApplyTerminalStatus, AcceptsTerminal
<1>2. children' = [children EXCEPT ![i][n] = d]
  BY DEF ApplyTerminalStatus, IInv
<1>3. cum' = [cum EXCEPT ![i] = counted]
  <2> HIDE DEF d
  <2>1. cum' = IF d.state \in Counted
               THEN [cum EXCEPT ![i] = CountRemainder(@, d, d.state)] ELSE cum
    BY DEF ApplyTerminalStatus, d
  <2> QED BY <2>1 DEF IInv
<1>4. /\ GoodChild(d) /\ d.filled_qty = filled /\ d.requested_qty = c.requested_qty
      /\ d.state \in Counted => Working(d) = 0
      /\ d.state \notin Counted => Working(d) = Unfilled(d)
  BY <1>1, AfterTerminalIsGood
<1> HIDE DEF d
<1>5. /\ counted \in [Counted -> Nat]
      /\ Counts(counted) + Working(d) = Counts(cum[i]) + Unfilled(d)
  <2>1. cum[i] \in [Counted -> Nat] /\ Counts(cum[i]) \in Int /\ Unfilled(d) \in Nat
    BY <1>4, IInvParent, GoodChildQuantities DEF Counts, Counted
  <2>2. CASE d.state \in Counted
    <3>1. /\ CountRemainder(cum[i], d, d.state) \in [Counted -> Nat]
          /\ Counts(CountRemainder(cum[i], d, d.state)) = Counts(cum[i]) + Unfilled(d)
      BY <1>4, <2>1, <2>2, CountersAfterClose
    <3> QED BY <1>4, <2>1, <2>2, <3>1
  <2>3. CASE d.state \notin Counted
    BY <1>4, <2>1, <2>3
  <2> QED BY <2>2, <2>3
<1>6. /\ c.filled_qty \in Nat /\ c.requested_qty \in Nat /\ Working(c) \in Nat
      /\ d.filled_qty \in Nat /\ Working(d) \in Nat
      /\ c.filled_qty <= filled /\ filled <= c.requested_qty
  BY <1>1, <1>4, GoodChildQuantities DEF AcceptsTerminal
<1>7. Counts(cum[i]) \in Int /\ Counts(counted) \in Int
  BY <1>5, IInvParent DEF Counts, Counted
<1>8. \A m \in Attempts : IsOpen(children[i][m]) => m = n
  BY <1>1, IInvParent DEF GoodParent
<1>9. /\ Working(c) = c.requested_qty - c.filled_qty
      /\ Unfilled(d) = c.requested_qty - filled
      /\ Working(d) <= c.requested_qty - filled
  BY <1>1, <1>4, <1>6 DEF Working, Unfilled
<1> HIDE DEF counted
<1>10. SoundChange(i, n, d, counted)
  <2>1. d.filled_qty + Working(d)
          <= c.filled_qty + Working(c) + target[i] - cum_filled(i) - open_qty(i)
    BY <1>4, <1>6, <1>9, IInvParent
  <2>2. d.filled_qty + Working(d) + Counts(counted) + c.requested_qty
          = c.filled_qty + Working(c) + Counts(cum[i]) + d.requested_qty
    BY <1>4, <1>5, <1>6, <1>7, <1>9
  <2> QED BY <1>4, <1>5, <1>8, <2>1, <2>2 DEF SoundChange
<1>11. UNCHANGED <<target, entries_halted, needs_reconcile, now>>
  BY DEF ApplyTerminalStatus
<1> QED BY <1>2, <1>3, <1>10, <1>11, SoundChangePreserves

\* What the watchdog's pass leaves of one child: it may only be relabelled.
LEMMA StaleIsGood ==
  ASSUME NEW c, GoodChild(c), NEW t,
         NEW d, d = IF IsOverdue(c, t) THEN [c EXCEPT !.state = "STALE_PENDING"] ELSE c
  PROVE  /\ GoodChild(d)
         /\ d.filled_qty = c.filled_qty
         /\ d.requested_qty = c.requested_qty
         /\ Working(d) = Working(c)
         /\ IsOpen(d) <=> IsOpen(c)
<1>1. CASE IsOverdue(c, t)
  <2>1. c \in Child /\ IsOpen(c) /\ d = [c EXCEPT !.state = "STALE_PENDING"]
    BY <1>1 DEF GoodChild, IsOverdue
  <2>2. /\ d \in Child /\ d.state = "STALE_PENDING" /\ IsOpen(d)
        /\ d.filled_qty = c.filled_qty /\ d.requested_qty = c.requested_qty
    BY <2>1 DEF Child, IsOpen, OpenStates
  <2> QED BY <2>1, <2>2 DEF GoodChild, Working, Unfilled
<1>2. CASE ~IsOverdue(c, t)
  BY <1>2
<1> QED BY <1>1, <1>2

\* The watchdog relabels open children; no sum moves.
LEMMA MarkStalePreserves ==
  ASSUME IInv, MarkStale
  PROVE  IInv'
<1>1. ASSUME NEW i \in Intents
      PROVE  /\ children'[i] \in [Attempts -> Child]
             /\ GoodParent(target[i], children'[i], cum[i])
  <2> DEFINE cs == children[i]
             ds == children'[i]
  <2>1. GoodParent(target[i], cs, cum[i])
    BY DEF IInv
  <2>2. ds = [n \in Attempts |->
                IF IsOverdue(cs[n], now) THEN [cs[n] EXCEPT !.state = "STALE_PENDING"]
                                         ELSE cs[n]]
    BY DEF MarkStale
  <2>3. \A n \in Attempts : GoodChild(cs[n])
    BY <2>1 DEF GoodParent
  <2> HIDE DEF cs, ds
  <2>4. ASSUME NEW n \in Attempts
        PROVE  /\ GoodChild(ds[n])
               /\ ds[n].filled_qty = cs[n].filled_qty
               /\ ds[n].requested_qty = cs[n].requested_qty
               /\ Working(ds[n]) = Working(cs[n])
               /\ IsOpen(ds[n]) <=> IsOpen(cs[n])
    <3>1. ds[n] = IF IsOverdue(cs[n], now) THEN [cs[n] EXCEPT !.state = "STALE_PENDING"]
                                           ELSE cs[n]
      BY <2>2
    <3> QED BY <2>3, <3>1, StaleIsGood
  <2>5. ds \in [Attempts -> Child]
    BY <2>2, <2>4 DEF GoodChild
  <2>6. /\ FilledBy(ds) = FilledBy(cs) /\ OpenBy(ds) = OpenBy(cs)
        /\ RequestedBy(ds) = RequestedBy(cs)
    BY <2>4 DEF FilledBy, OpenBy, RequestedBy
  <2>7. \A m, n \in Attempts : IsOpen(ds[m]) /\ IsOpen(ds[n]) => m = n
    BY <2>1, <2>4 DEF GoodParent
  <2>8. GoodParent(target[i], ds, cum[i])
    BY <2>1, <2>4, <2>5, <2>6, <2>7 DEF GoodParent
  <2> QED BY <2>5, <2>8 DEF ds
<1>2. UNCHANGED <<target, cum, entries_halted, needs_reconcile, now>>
  BY DEF MarkStale
<1>3. children' \in [Intents -> [Attempts -> Child]]
  <2>1. \E f : children' = [i \in Intents |-> f[i]]
    <3>1. children' = [i \in Intents |-> children'[i]]
      BY DEF MarkStale
    <3> QED BY <3>1
  <2> QED BY <1>1, <2>1
<1> QED BY <1>1, <1>2, <1>3 DEF IInv

\* Every method of the book preserves the invariant.
LEMMA NextPreserves == IInv /\ [Next]_vars => IInv'
<1> SUFFICES ASSUME IInv, [Next]_vars PROVE IInv'
  OBVIOUS
<1>1. ASSUME NEW i \in Intents, NEW qty \in Qty, RegisterIntent(i, qty) PROVE IInv'
  BY <1>1, RegisterIntentPreserves
<1>2. ASSUME NEW i \in Intents, NEW qty \in Qty, NEW gate \in BOOLEAN,
             SubmitChild(i, qty, gate)
      PROVE  IInv'
  BY <1>2, SubmitChildPreserves
<1>3. ASSUME NEW i \in Intents, NEW n \in Attempts, OnBrokerAck(i, n) PROVE IInv'
  BY <1>3, OnBrokerAckPreserves
<1>4. ASSUME NEW i \in Intents, NEW n \in Attempts, NEW qty \in Qty, OnFill(i, n, qty)
      PROVE  IInv'
  BY <1>4, OnFillPreserves
<1>5. ASSUME NEW i \in Intents, NEW n \in Attempts,
             OnCancel(i, n) \/ OnReject(i, n) \/ OnExpire(i, n)
      PROVE  IInv'
  BY <1>5, CloseOpenChildPreserves DEF OnCancel, OnReject, OnExpire, Counted
<1>6. ASSUME NEW i \in Intents, NEW n \in Attempts, NEW terminal \in TerminalStates,
             NEW filled \in 0..MaxQty, ApplyTerminalStatus(i, n, terminal, filled)
      PROVE  IInv'
  BY <1>6, ApplyTerminalStatusPreserves
<1>7. CASE MarkStale
  BY <1>7, MarkStalePreserves
<1>8. CASE HaltEntries
  BY <1>8 DEF HaltEntries, IInv
<1>9. CASE Restore
  BY <1>9 DEF Restore, IInv
<1>10. ASSUME NEW broker_open \in BrokerViews, Reconcile(broker_open) PROVE IInv'
  BY <1>10 DEF Reconcile, IInv
<1>11. CASE Tick
  BY <1>11, BookAssumption DEF Tick, IInv
<1>12. CASE UNCHANGED vars
  BY <1>12 DEF vars, IInv
<1> QED
  BY <1>1, <1>2, <1>3, <1>4, <1>5, <1>6, <1>7, <1>8, <1>9, <1>10, <1>11, <1>12 DEF Next

\* Every reachable book satisfies the inductive invariant.
THEOREM BookInvariant == Spec => []IInv
BY InitIInv, NextPreserves, PTL DEF Spec

-----------------------------------------------------------------------------
(* The invariants the runs check are parts of IInv.                        *)

\* The invariant gives the types.
LEMMA IInvImpliesTypeOK == IInv => TypeOK
BY DEF IInv, TypeOK

\* The invariant gives well-formed children.
LEMMA IInvImpliesChildrenWellFormed == IInv => ChildrenWellFormed
BY IInvChild DEF ChildrenWellFormed, GoodChild

\* The invariant gives the one-open-child rule.
LEMMA IInvImpliesAtMostOneOpenChild == IInv => AtMostOneOpenChild
BY IInvParent DEF GoodParent, AtMostOneOpenChild, OpenAttempts

\* The invariant gives the economic invariant.
LEMMA IInvImpliesEconomicInvariant == IInv => EconomicInvariant
BY IInvParent DEF EconomicInvariant

\* The invariant gives the balance of the gross total.
LEMMA IInvImpliesGrossAccounts == IInv => GrossAccountsForEverySubmission
<1> SUFFICES ASSUME IInv, NEW i \in Intents
             PROVE  gross_submitted_qty(i) = RequestedBy(children[i])
  BY DEF GrossAccountsForEverySubmission
<1>1. /\ cum_filled(i) + open_qty(i) + Counts(cum[i]) = RequestedBy(children[i])
      /\ cum_filled(i) \in Nat /\ open_qty(i) \in Nat
      /\ cum[i]["CANCELED"] \in Nat /\ cum[i]["REJECTED"] \in Nat
      /\ cum[i]["EXPIRED"] \in Nat
  BY IInvParent DEF GoodParent, cum_filled, open_qty, Counted
<1> QED BY <1>1 DEF gross_submitted_qty, Counts

\* Every variable of the book keeps its type.
THEOREM BookTypeOK == Spec => []TypeOK
BY BookInvariant, IInvImpliesTypeOK, PTL

\* Every child record the book holds is one its methods leave.
THEOREM BookChildrenWellFormed == Spec => []ChildrenWellFormed
BY BookInvariant, IInvImpliesChildrenWellFormed, PTL

\* No parent ever has two child orders working.
THEOREM BookOneOpenChild == Spec => []AtMostOneOpenChild
BY BookInvariant, IInvImpliesAtMostOneOpenChild, PTL

\* No parent is ever filled or working beyond its target.
THEOREM BookEconomicInvariant == Spec => []EconomicInvariant
BY BookInvariant, IInvImpliesEconomicInvariant, PTL

\* The gross total is always the sum of all that was ever submitted.
THEOREM BookGrossAccounts == Spec => []GrossAccountsForEverySubmission
BY BookInvariant, IInvImpliesGrossAccounts, PTL

-----------------------------------------------------------------------------
(* Action properties.  A step touches the children of one attempt, or      *)
(* relabels overdue ones.                                                  *)

\* A parent that may not gain exposure.
Fenced(i) == needs_reconcile \/ (entries_halted /\ i \in Buys)

\* d replaces attempt n of i: a submission or an event on an open child.
ChildStep(i, n, d) ==
    /\ children' = [children EXCEPT ![i][n] = d]
    /\ GoodChild(d)
    /\ children[i][n].state \notin TerminalStates
    /\ d.requested_qty >= children[i][n].requested_qty
    /\ Fenced(i) => d.filled_qty + Working(d)
                      <= children[i][n].filled_qty + Working(children[i][n])

\* No child is both working and closed.
LEMMA OpenIsNotTerminal ==
  ASSUME NEW c, IsOpen(c) PROVE c.state \notin TerminalStates
BY DEF IsOpen, OpenStates, TerminalStates, Counted

\* A submission is a step of one unused attempt.
LEMMA SubmitChildStep ==
  ASSUME IInv, NEW i \in Intents, NEW qty \in Qty, NEW gate \in BOOLEAN,
         SubmitChild(i, qty, gate)
  PROVE  \E n \in Attempts : \E d : ChildStep(i, n, d)
<1> DEFINE d == [state |-> "SUBMITTED", requested_qty |-> qty,
                 filled_qty |-> 0, submitted_at |-> now]
<1>1. PICK n \in Attempts :
         /\ IsNextAttempt(i, n)
         /\ children' = [children EXCEPT ![i][n] = d]
  BY DEF SubmitChild
<1>2. ~Fenced(i)
  BY DEF SubmitChild, Fenced
<1>3. children[i][n] = NoChild
  <2>1. children[i][n].state = "UNUSED"
    BY <1>1 DEF IsNextAttempt, Attempts, UsedAttempts
  <2> QED BY <2>1, IInvChild DEF GoodChild
<1>4. qty \in 1..MaxQty /\ now \in 0..MaxTime
  BY DEF Qty, IInv
<1>5. GoodChild(d) /\ d.requested_qty >= 0
  BY <1>4, BookAssumption DEF GoodChild, Child, IsOpen, OpenStates, NoChild
<1> HIDE DEF d
<1>6. ChildStep(i, n, d)
  BY <1>1, <1>2, <1>3, <1>5 DEF ChildStep, NoChild, TerminalStates, Counted
<1> QED BY <1>6

\* An ack is a step of one open child.
LEMMA OnBrokerAckStep ==
  ASSUME IInv, NEW i \in Intents, NEW n \in Attempts, OnBrokerAck(i, n)
  PROVE  \E d : ChildStep(i, n, d)
<1> DEFINE c == children[i][n]
           d == [c EXCEPT !.state = "ACCEPTED"]
<1>1. GoodChild(c) /\ c.state = "SUBMITTED" /\ IsOpen(c)
  BY IInvChild DEF OnBrokerAck, IsOpen, OpenStates
<1>2. children' = [children EXCEPT ![i][n] = d]
  BY <1>1 DEF OnBrokerAck, IInv
<1>3. /\ GoodChild(d) /\ d.filled_qty = c.filled_qty
      /\ d.requested_qty = c.requested_qty /\ Working(d) = Working(c)
  BY <1>1 DEF GoodChild, Child, Working, Unfilled, IsOpen, OpenStates
<1>4. c.filled_qty \in Nat /\ c.requested_qty \in Nat /\ Working(c) \in Nat
  BY <1>1, GoodChildQuantities
<1> HIDE DEF d
<1>5. ChildStep(i, n, d)
  BY <1>1, <1>2, <1>3, <1>4, OpenIsNotTerminal DEF ChildStep
<1> QED BY <1>5

\* A fill is a step of one open child.
LEMMA OnFillStep ==
  ASSUME IInv, NEW i \in Intents, NEW n \in Attempts, NEW qty \in Qty,
         OnFill(i, n, qty)
  PROVE  \E d : ChildStep(i, n, d)
<1> DEFINE c == children[i][n]
           d == WithFill(c, qty)
<1>1. /\ GoodChild(c) /\ IsOpen(c) /\ qty \in Nat \ {0}
      /\ c.filled_qty + qty <= c.requested_qty
  BY IInvChild, BookAssumption DEF OnFill, Qty
<1>2. children' = [children EXCEPT ![i][n] = d]
  BY DEF OnFill, IInv
<1>3. /\ GoodChild(d) /\ d.filled_qty = c.filled_qty + qty
      /\ d.requested_qty = c.requested_qty /\ Working(d) = Working(c) - qty
  BY <1>1, WithFillIsGood
<1>4. c.filled_qty \in Nat /\ c.requested_qty \in Nat /\ Working(c) \in Nat
  BY <1>1, GoodChildQuantities
<1> HIDE DEF d
<1>5. ChildStep(i, n, d)
  BY <1>1, <1>2, <1>3, <1>4, OpenIsNotTerminal DEF ChildStep
<1> QED BY <1>5

\* A close is a step of one open child.
LEMMA CloseOpenChildStep ==
  ASSUME IInv, NEW i \in Intents, NEW n \in Attempts, NEW terminal \in Counted,
         CloseOpenChild(i, n, terminal)
  PROVE  \E d : ChildStep(i, n, d)
<1> DEFINE c == children[i][n]
           d == Closed(c, terminal)
<1>1. GoodChild(c) /\ IsOpen(c)
  BY IInvChild DEF CloseOpenChild
<1>2. children' = [children EXCEPT ![i][n] = d]
  BY DEF CloseOpenChild, IInv
<1>3. /\ GoodChild(d) /\ d.filled_qty = c.filled_qty
      /\ d.requested_qty = c.requested_qty /\ Working(d) = 0
  BY <1>1, ClosedIsGood
<1>4. c.filled_qty \in Nat /\ c.requested_qty \in Nat /\ Working(c) \in Nat
  BY <1>1, GoodChildQuantities
<1> HIDE DEF d
<1>5. ChildStep(i, n, d)
  BY <1>1, <1>2, <1>3, <1>4, OpenIsNotTerminal DEF ChildStep
<1> QED BY <1>5

\* A terminal status is a step of one open child.
LEMMA ApplyTerminalStatusStep ==
  ASSUME IInv, NEW i \in Intents, NEW n \in Attempts,
         NEW terminal \in TerminalStates, NEW filled \in 0..MaxQty,
         ApplyTerminalStatus(i, n, terminal, filled)
  PROVE  \E d : ChildStep(i, n, d)
<1> DEFINE c == children[i][n]
           d == AfterTerminal(c, terminal, filled)
<1>1. GoodChild(c) /\ IsOpen(c) /\ AcceptsTerminal(c, filled)
  BY IInvChild DEF ApplyTerminalStatus, AcceptsTerminal
<1>2. children' = [children EXCEPT ![i][n] = d]
  BY DEF ApplyTerminalStatus, IInv
<1>3. /\ GoodChild(d) /\ d.filled_qty = filled /\ d.requested_qty = c.requested_qty
      /\ d.state \in Counted => Working(d) = 0
      /\ d.state \notin Counted => Working(d) = Unfilled(d)
  BY <1>1, AfterTerminalIsGood
<1>4. /\ c.filled_qty \in Nat /\ c.requested_qty \in Nat
      /\ filled <= c.requested_qty /\ filled \in Nat
      /\ Working(c) = c.requested_qty - c.filled_qty
  BY <1>1, GoodChildQuantities, BookAssumption DEF AcceptsTerminal, Working, Unfilled
<1> HIDE DEF d
<1>5. d.filled_qty + Working(d) <= c.filled_qty + Working(c)
  BY <1>3, <1>4 DEF Unfilled
<1>6. ChildStep(i, n, d)
  BY <1>1, <1>2, <1>3, <1>4, <1>5, OpenIsNotTerminal DEF ChildStep
<1> QED BY <1>6

\* Every step of the book is one of three kinds.
LEMMA StepKinds ==
  ASSUME IInv, [Next]_vars
  PROVE  \/ UNCHANGED children
         \/ MarkStale
         \/ \E i \in Intents, n \in Attempts : \E d : ChildStep(i, n, d)
<1>1. ASSUME NEW i \in Intents, NEW qty \in Qty, NEW gate \in BOOLEAN,
             SubmitChild(i, qty, gate)
      PROVE  \E j \in Intents, n \in Attempts : \E d : ChildStep(j, n, d)
  BY <1>1, SubmitChildStep
<1>2. ASSUME NEW i \in Intents, NEW n \in Attempts, OnBrokerAck(i, n)
      PROVE  \E j \in Intents, m \in Attempts : \E d : ChildStep(j, m, d)
  BY <1>2, OnBrokerAckStep
<1>3. ASSUME NEW i \in Intents, NEW n \in Attempts, NEW qty \in Qty, OnFill(i, n, qty)
      PROVE  \E j \in Intents, m \in Attempts : \E d : ChildStep(j, m, d)
  BY <1>3, OnFillStep
<1>4. ASSUME NEW i \in Intents, NEW n \in Attempts,
             OnCancel(i, n) \/ OnReject(i, n) \/ OnExpire(i, n)
      PROVE  \E j \in Intents, m \in Attempts : \E d : ChildStep(j, m, d)
  BY <1>4, CloseOpenChildStep DEF OnCancel, OnReject, OnExpire, Counted
<1>5. ASSUME NEW i \in Intents, NEW n \in Attempts, NEW terminal \in TerminalStates,
             NEW filled \in 0..MaxQty, ApplyTerminalStatus(i, n, terminal, filled)
      PROVE  \E j \in Intents, m \in Attempts : \E d : ChildStep(j, m, d)
  BY <1>5, ApplyTerminalStatusStep
<1>6. ASSUME \/ \E i \in Intents, qty \in Qty : RegisterIntent(i, qty)
             \/ HaltEntries
             \/ Restore
             \/ \E broker_open \in BrokerViews : Reconcile(broker_open)
             \/ Tick
             \/ UNCHANGED vars
      PROVE  UNCHANGED children
  BY <1>6 DEF RegisterIntent, HaltEntries, Restore, Reconcile, Tick, vars
<1> QED BY <1>1, <1>2, <1>3, <1>4, <1>5, <1>6 DEF Next

\* What a ChildStep does to the sums of every parent.
LEMMA ChildStepSums ==
  ASSUME IInv, NEW k \in Intents, NEW n \in Attempts, NEW d, ChildStep(k, n, d),
         NEW i \in Intents
  PROVE  /\ RequestedBy(children'[i]) >= RequestedBy(children[i])
         /\ Fenced(i) => FilledBy(children'[i]) + OpenBy(children'[i])
                           <= FilledBy(children[i]) + OpenBy(children[i])
<1>1. children[i] \in [Attempts -> Child] /\ \A m \in Attempts : GoodChild(children[i][m])
  BY IInvParent DEF GoodParent
<1>2. FilledBy(children[i]) \in Nat /\ OpenBy(children[i]) \in Nat
      /\ RequestedBy(children[i]) \in Nat
  BY <1>1, SumsAreNat
<1>3. CASE i = k
  <2>1. /\ children'[i] = [children[i] EXCEPT ![n] = d]
        /\ GoodChild(d) /\ GoodChild(children[i][n])
        /\ d.requested_qty >= children[i][n].requested_qty
        /\ Fenced(i) => d.filled_qty + Working(d)
                          <= children[i][n].filled_qty + Working(children[i][n])
    BY <1>1, <1>3 DEF ChildStep, IInv
  <2>2. /\ FilledBy(children'[i])
             = FilledBy(children[i]) + d.filled_qty - children[i][n].filled_qty
        /\ OpenBy(children'[i])
             = OpenBy(children[i]) + Working(d) - Working(children[i][n])
        /\ RequestedBy(children'[i])
             = RequestedBy(children[i]) + d.requested_qty - children[i][n].requested_qty
    BY <1>1, <2>1, SumsAfterChange
  <2>3. /\ d.filled_qty \in Nat /\ d.requested_qty \in Nat /\ Working(d) \in Nat
        /\ children[i][n].filled_qty \in Nat /\ children[i][n].requested_qty \in Nat
        /\ Working(children[i][n]) \in Nat
    BY <2>1, GoodChildQuantities
  <2> QED BY <1>2, <2>1, <2>2, <2>3
<1>4. CASE i # k
  <2>1. children'[i] = children[i]
    BY <1>4 DEF ChildStep, IInv
  <2> QED BY <1>2, <2>1
<1> QED BY <1>3, <1>4

\* The watchdog's pass moves none of the sums.
LEMMA MarkStaleSums ==
  ASSUME IInv, MarkStale, NEW i \in Intents
  PROVE  /\ RequestedBy(children'[i]) = RequestedBy(children[i])
         /\ FilledBy(children'[i]) = FilledBy(children[i])
         /\ OpenBy(children'[i]) = OpenBy(children[i])
<1>1. ASSUME NEW n \in Attempts
      PROVE  /\ children'[i][n].filled_qty = children[i][n].filled_qty
             /\ children'[i][n].requested_qty = children[i][n].requested_qty
             /\ Working(children'[i][n]) = Working(children[i][n])
  <2>1. children'[i][n] = IF IsOverdue(children[i][n], now)
                          THEN [children[i][n] EXCEPT !.state = "STALE_PENDING"]
                          ELSE children[i][n]
    BY DEF MarkStale
  <2> QED BY <2>1, IInvChild, StaleIsGood
<1> QED BY <1>1 DEF RequestedBy, FilledBy, OpenBy

\* A closed attempt is never touched again.
THEOREM BookClosedChildIsFinal == Spec => ClosedChildIsFinal
<1>1. ASSUME IInv, [Next]_vars, NEW i \in Intents, NEW n \in Attempts,
             children[i][n].state \in TerminalStates
      PROVE  children'[i][n] = children[i][n]
  <2>1. CASE UNCHANGED children
    BY <2>1
  <2>2. CASE MarkStale
    <3>1. ~IsOverdue(children[i][n], now)
      BY <1>1, OpenIsNotTerminal DEF IsOverdue
    <3> QED BY <2>2, <3>1 DEF MarkStale
  <2>3. ASSUME NEW k \in Intents, NEW m \in Attempts, NEW d, ChildStep(k, m, d)
        PROVE  children'[i][n] = children[i][n]
    <3>1. i # k \/ n # m
      BY <1>1, <2>3 DEF ChildStep
    <3> QED BY <1>1, <2>3, <3>1 DEF ChildStep, IInv
  <2> QED BY <1>1, <2>1, <2>2, <2>3, StepKinds
<1>2. IInv /\ [Next]_vars
        => [\A i \in Intents, n \in Attempts :
              children[i][n].state \in TerminalStates
                => children'[i][n] = children[i][n]]_vars
  BY <1>1
<1> QED BY <1>2, BookInvariant, PTL DEF Spec, ClosedChildIsFinal

\* The audit total of a parent never goes down.
THEOREM BookGrossMonotone == Spec => GrossMonotone
<1>1. ASSUME IInv, [Next]_vars, NEW i \in Intents
      PROVE  gross_submitted_qty(i)' >= gross_submitted_qty(i)
  <2>1. IInv'
    BY <1>1, NextPreserves
  <2>2. gross_submitted_qty(i) = RequestedBy(children[i])
    BY <1>1, IInvImpliesGrossAccounts DEF GrossAccountsForEverySubmission
  <2>3. IInv' => gross_submitted_qty(i)' = RequestedBy(children'[i])
    <3>1. (IInv => GrossAccountsForEverySubmission)'
      BY IInvImpliesGrossAccounts, PTL
    <3> QED BY <3>1 DEF GrossAccountsForEverySubmission
  <2>4. RequestedBy(children[i]) \in Nat
    BY <1>1, IInvParent, SumsAreNat DEF GoodParent
  <2>5. RequestedBy(children'[i]) >= RequestedBy(children[i])
    <3>1. CASE UNCHANGED children
      BY <2>4, <3>1
    <3>2. CASE MarkStale
      BY <1>1, <2>4, <3>2, MarkStaleSums
    <3>3. ASSUME NEW k \in Intents, NEW m \in Attempts, NEW d, ChildStep(k, m, d)
          PROVE  RequestedBy(children'[i]) >= RequestedBy(children[i])
      BY <1>1, <3>3, ChildStepSums
    <3> QED BY <1>1, <3>1, <3>2, <3>3, StepKinds
  <2> QED BY <2>1, <2>2, <2>3, <2>5
<1>2. IInv /\ [Next]_vars
        => [\A i \in Intents : gross_submitted_qty(i)' >= gross_submitted_qty(i)]_vars
  BY <1>1
<1> QED BY <1>2, BookInvariant, PTL DEF Spec, GrossMonotone

\* Behind a fence no parent gains exposure, and a halt is never lifted.
THEOREM BookFencedExposure == Spec => FencedExposureNeverGrows
<1>1. ASSUME IInv, [Next]_vars, NEW i \in Intents, Fenced(i)
      PROVE  (cum_filled(i) + open_qty(i))' <= cum_filled(i) + open_qty(i)
  <2>1. FilledBy(children[i]) \in Nat /\ OpenBy(children[i]) \in Nat
    BY <1>1, IInvParent, SumsAreNat DEF GoodParent
  <2>2. FilledBy(children'[i]) + OpenBy(children'[i])
          <= FilledBy(children[i]) + OpenBy(children[i])
    <3>1. CASE UNCHANGED children
      BY <2>1, <3>1
    <3>2. CASE MarkStale
      BY <1>1, <2>1, <3>2, MarkStaleSums
    <3>3. ASSUME NEW k \in Intents, NEW m \in Attempts, NEW d, ChildStep(k, m, d)
          PROVE  FilledBy(children'[i]) + OpenBy(children'[i])
                   <= FilledBy(children[i]) + OpenBy(children[i])
      BY <1>1, <3>3, ChildStepSums
    <3> QED BY <1>1, <3>1, <3>2, <3>3, StepKinds
  <2> QED BY <2>2 DEF cum_filled, open_qty
<1>2. ASSUME [Next]_vars, entries_halted PROVE entries_halted'
  BY <1>2 DEF Next, vars, RegisterIntent, SubmitChild, OnBrokerAck, OnFill,
              OnCancel, OnReject, OnExpire, CloseOpenChild, ApplyTerminalStatus,
              MarkStale, HaltEntries, Restore, Reconcile, Tick
<1>3. IInv /\ [Next]_vars
        => [/\ entries_halted => entries_halted'
            /\ \A i \in Intents :
                 needs_reconcile \/ (entries_halted /\ i \in Buys)
                   => (cum_filled(i) + open_qty(i))' <= cum_filled(i) + open_qty(i)]_vars
  BY <1>1, <1>2 DEF Fenced
<1> QED BY <1>3, BookInvariant, PTL DEF Spec, FencedExposureNeverGrows

-----------------------------------------------------------------------------
(* The lifecycle diagram.  A parent's state is derived from its children,  *)
(* so it is first computed from what the invariant says of them: the one   *)
(* open child decides it, and without one only the parent's fills do.      *)

\* No attempt is made for a parent that is not registered.
UsedAreRegistered ==
    \A i \in Intents, n \in Attempts :
        children[i][n].state # "UNUSED" => Registered(i)

LifeInv == IInv /\ UsedAreRegistered

\* The lifecycle state of a parent with `filled' shares and an open child.
Shown(state, filled) ==
    CASE state = "STALE_PENDING" -> "STALE_PENDING"
      [] state # "STALE_PENDING" /\ filled > 0 -> "PARTIALLY_FILLED"
      [] OTHER -> IF state = "ACCEPTED" THEN "ACCEPTED" ELSE "SUBMITTED"

\* The lifecycle states of a parent whose attempts are all closed.
Settled == {"FILLED", "REJECTED", "CANCELED"}

\* How an event may change an open child c.
Drift(c, d) ==
    \/ d.state \in TerminalStates
    \/ d.state = "ACCEPTED" /\ c.state = "SUBMITTED" /\ d.filled_qty = c.filled_qty
    \/ d.state = "STALE_PENDING" /\ c.state = "STALE_PENDING"
    \/ d.state = "PARTIALLY_FILLED" /\ c.state # "STALE_PENDING" /\ d.filled_qty > 0

\* Attempt n of i, which was open, becomes d.
Event(i, n, d) ==
    /\ IsOpen(children[i][n])
    /\ GoodChild(d)
    /\ Drift(children[i][n], d)
    /\ children' = [children EXCEPT ![i][n] = d]
    /\ UNCHANGED target

\* An open child decides its parent's state.
OpenDecides ==
    \A i \in Intents, n \in Attempts :
        IsOpen(children[i][n])
          => /\ Registered(i)
             /\ LifecycleState(i) = Shown(children[i][n].state, cum_filled(i))

\* It does because its parent has shares left to fill.
LEMMA OpenChildDecides == IInv => OpenDecides
<1> SUFFICES ASSUME IInv, NEW i \in Intents, NEW n \in Attempts,
                    IsOpen(children[i][n])
             PROVE  /\ Registered(i)
                    /\ LifecycleState(i) = Shown(children[i][n].state, cum_filled(i))
  BY DEF OpenDecides
<1>1. cum_filled(i) < target[i] /\ cum_filled(i) \in Nat /\ target[i] \in Nat
  <2> DEFINE f == [m \in Attempts |-> Working(children[i][m])]
  <2>1. \A m \in Attempts : f[m] \in Nat
    BY IInvChild, GoodChildQuantities
  <2>2. f[n] > 0
    BY IInvChild, GoodChildQuantities DEF GoodChild, Working, Unfilled
  <2>3. open_qty(i) = SumOver(f, Attempts)
    BY DEF open_qty, OpenBy
  <2> HIDE DEF f
  <2>4. f[n] <= SumOver(f, Attempts)
    BY <2>1, AttemptsFinite, SumAtLeastMember
  <2> QED BY <2>1, <2>2, <2>3, <2>4, IInvParent
<1>2. OpenAttempts(i) = {n}
  BY IInvParent DEF GoodParent, OpenAttempts
<1>3. n \in UsedAttempts(i)
  BY DEF UsedAttempts, IsOpen, OpenStates
<1>4. (CHOOSE m \in OpenAttempts(i) : TRUE) = n
  BY <1>2
<1>5. Registered(i) /\ UsedAttempts(i) # {} /\ OpenAttempts(i) # {}
      /\ ~(cum_filled(i) >= target[i])
  BY <1>1, <1>2, <1>3 DEF Registered
<1> QED BY <1>4, <1>5 DEF LifecycleState, Shown

\* A parent whose attempts are all closed is settled, and FILLED exactly when
\* its target is.
LEMMA ClosedChildrenSettle ==
  ASSUME NEW i \in Intents
  PROVE  Registered(i) /\ UsedAttempts(i) # {} /\ OpenAttempts(i) = {}
           => /\ LifecycleState(i) \in Settled
              /\ LifecycleState(i) = "FILLED" => cum_filled(i) >= target[i]
BY DEF LifecycleState, Settled

\* A registered parent without an attempt is INTENDED, an unregistered one NONE.
LEMMA UntriedStates ==
  ASSUME NEW i \in Intents
  PROVE  /\ Registered(i) /\ UsedAttempts(i) = {} => LifecycleState(i) = "INTENDED"
         /\ ~Registered(i) /\ UsedAttempts(i) = {} => LifecycleState(i) = "NONE"
BY DEF LifecycleState

-----------------------------------------------------------------------------
\* Each method that touches an open child is an event on it.
LEMMA AckIsEvent ==
  ASSUME IInv, NEW i \in Intents, NEW n \in Attempts, OnBrokerAck(i, n)
  PROVE  \E d : Event(i, n, d)
<1> DEFINE c == children[i][n]
           d == [c EXCEPT !.state = "ACCEPTED"]
<1>1. GoodChild(c) /\ c.state = "SUBMITTED" /\ IsOpen(c)
  BY IInvChild DEF OnBrokerAck, IsOpen, OpenStates
<1>2. children' = [children EXCEPT ![i][n] = d] /\ UNCHANGED target
  BY <1>1 DEF OnBrokerAck, IInv
<1>3. GoodChild(d) /\ d.filled_qty = c.filled_qty /\ d.state = "ACCEPTED"
  BY <1>1 DEF GoodChild, Child, IsOpen, OpenStates
<1> HIDE DEF d
<1>4. Event(i, n, d)
  BY <1>1, <1>2, <1>3 DEF Event, Drift
<1> QED BY <1>4

\* The state a fill leaves behind.
LEMMA WithFillDrifts ==
  ASSUME NEW c, GoodChild(c), IsOpen(c), NEW q \in Nat \ {0},
         c.filled_qty + q <= c.requested_qty
  PROVE  Drift(c, WithFill(c, q))
<1>1. c \in Child /\ c.filled_qty \in Nat
  BY GoodChildQuantities DEF GoodChild
<1>2. WithFill(c, q).filled_qty = c.filled_qty + q /\ c.filled_qty + q > 0
  BY <1>1, WithFillIsGood
<1>3. \/ WithFill(c, q).state = "FILLED"
      \/ WithFill(c, q).state = "STALE_PENDING" /\ c.state = "STALE_PENDING"
      \/ WithFill(c, q).state = "PARTIALLY_FILLED" /\ c.state # "STALE_PENDING"
  BY <1>1 DEF WithFill, Child
<1> QED BY <1>2, <1>3 DEF Drift, TerminalStates

LEMMA FillIsEvent ==
  ASSUME IInv, NEW i \in Intents, NEW n \in Attempts, NEW qty \in Qty,
         OnFill(i, n, qty)
  PROVE  \E d : Event(i, n, d)
<1> DEFINE c == children[i][n]
           d == WithFill(c, qty)
<1>1. /\ GoodChild(c) /\ IsOpen(c) /\ qty \in Nat \ {0}
      /\ c.filled_qty + qty <= c.requested_qty
  BY IInvChild, BookAssumption DEF OnFill, Qty
<1>2. children' = [children EXCEPT ![i][n] = d] /\ UNCHANGED target
  BY DEF OnFill, IInv
<1>3. GoodChild(d) /\ Drift(c, d)
  BY <1>1, WithFillIsGood, WithFillDrifts
<1> HIDE DEF d
<1>4. Event(i, n, d)
  BY <1>1, <1>2, <1>3 DEF Event
<1> QED BY <1>4

LEMMA CloseIsEvent ==
  ASSUME IInv, NEW i \in Intents, NEW n \in Attempts, NEW terminal \in Counted,
         CloseOpenChild(i, n, terminal)
  PROVE  \E d : Event(i, n, d)
<1> DEFINE c == children[i][n]
           d == Closed(c, terminal)
<1>1. GoodChild(c) /\ IsOpen(c)
  BY IInvChild DEF CloseOpenChild
<1>2. children' = [children EXCEPT ![i][n] = d] /\ UNCHANGED target
  BY DEF CloseOpenChild, IInv
<1>3. GoodChild(d)
  BY <1>1, ClosedIsGood
<1>4. d.state \in TerminalStates
  BY <1>1 DEF Closed, GoodChild, Child, TerminalStates
<1> HIDE DEF d
<1>5. Event(i, n, d)
  BY <1>1, <1>2, <1>3, <1>4 DEF Event, Drift
<1> QED BY <1>5

\* A status row that brings nothing new changes nothing.
LEMMA TerminalStatusIsEvent ==
  ASSUME IInv, NEW i \in Intents, NEW n \in Attempts,
         NEW terminal \in TerminalStates, NEW filled \in 0..MaxQty,
         ApplyTerminalStatus(i, n, terminal, filled)
  PROVE  UNCHANGED <<target, children>> \/ \E d : Event(i, n, d)
<1> DEFINE c == children[i][n]
           f == IF filled > c.filled_qty THEN WithFill(c, filled - c.filled_qty) ELSE c
           d == AfterTerminal(c, terminal, filled)
<1>1. GoodChild(c) /\ IsOpen(c) /\ AcceptsTerminal(c, filled)
  BY IInvChild DEF ApplyTerminalStatus, AcceptsTerminal
<1>2. children' = [children EXCEPT ![i][n] = d] /\ UNCHANGED target
  BY DEF ApplyTerminalStatus, IInv
<1>3. GoodChild(d)
  BY <1>1, AfterTerminalIsGood
<1>4. d = IF f.state = "FILLED" \/ terminal = "FILLED" THEN f ELSE Closed(f, terminal)
  BY DEF AfterTerminal
<1>5. GoodChild(f) /\ (f = c \/ Drift(c, f))
  <2>1. CASE filled > c.filled_qty
    <3>1. /\ filled - c.filled_qty \in Nat \ {0}
          /\ c.filled_qty + (filled - c.filled_qty) <= c.requested_qty
      BY <1>1, <2>1, GoodChildQuantities, BookAssumption DEF AcceptsTerminal
    <3> QED BY <1>1, <2>1, <3>1, WithFillIsGood, WithFillDrifts
  <2> QED BY <1>1, <2>1
<1>6. CASE f.state = "FILLED" \/ terminal = "FILLED"
  <2>1. d = f
    BY <1>4, <1>6
  <2> HIDE DEF d, f
  <2>2. CASE f = c
    <3>1. children' = children
      BY <1>2, <2>1, <2>2 DEF IInv
    <3> QED BY <1>2, <3>1
  <2>3. CASE Drift(c, f)
    <3>1. Event(i, n, d)
      BY <1>1, <1>2, <1>3, <2>1, <2>3 DEF Event
    <3> QED BY <3>1
  <2> QED BY <1>5, <2>2, <2>3
<1>7. CASE ~(f.state = "FILLED" \/ terminal = "FILLED")
  <2>1. d = Closed(f, terminal)
    BY <1>4, <1>7
  <2> HIDE DEF f, d
  <2>2. d.state = terminal
    BY <1>5, <2>1 DEF Closed, GoodChild, Child
  <2>3. Event(i, n, d)
    BY <1>1, <1>2, <1>3, <2>2 DEF Event, Drift
  <2> QED BY <2>3
<1> QED BY <1>6, <1>7

\* A submission uses an attempt of a parent with nothing open and shares left.
Submission(i, n, d) ==
    /\ Registered(i) /\ OpenAttempts(i) = {} /\ cum_filled(i) < target[i]
    /\ d.state = "SUBMITTED" /\ d.filled_qty = 0
    /\ children' = [children EXCEPT ![i][n] = d]
    /\ UNCHANGED target

LEMMA SubmitIsSubmission ==
  ASSUME IInv, NEW i \in Intents, NEW qty \in Qty, NEW gate \in BOOLEAN,
         SubmitChild(i, qty, gate)
  PROVE  \E n \in Attempts : \E d : Submission(i, n, d)
<1> DEFINE d == [state |-> "SUBMITTED", requested_qty |-> qty,
                 filled_qty |-> 0, submitted_at |-> now]
<1>1. PICK n \in Attempts : children' = [children EXCEPT ![i][n] = d]
  BY DEF SubmitChild
<1>2. d.state = "SUBMITTED" /\ d.filled_qty = 0
  OBVIOUS
<1> HIDE DEF d
<1>3. Submission(i, n, d)
  BY <1>1, <1>2 DEF SubmitChild, Submission
<1> QED BY <1>3

\* Every step registers, submits, is an event on one open child, marks stale, or
\* leaves targets and children alone.
LEMMA LifecycleSteps ==
  ASSUME IInv, [Next]_vars
  PROVE  \/ UNCHANGED <<target, children>>
         \/ MarkStale
         \/ \E i \in Intents, qty \in Qty : RegisterIntent(i, qty)
         \/ \E i \in Intents, n \in Attempts : \E d : Submission(i, n, d)
         \/ \E i \in Intents, n \in Attempts : \E d : Event(i, n, d)
<1>1. ASSUME NEW i \in Intents, NEW qty \in Qty, NEW gate \in BOOLEAN,
             SubmitChild(i, qty, gate)
      PROVE  \E j \in Intents, n \in Attempts : \E d : Submission(j, n, d)
  BY <1>1, SubmitIsSubmission
<1>2. ASSUME NEW i \in Intents, NEW n \in Attempts, OnBrokerAck(i, n)
      PROVE  \E j \in Intents, m \in Attempts : \E d : Event(j, m, d)
  BY <1>2, AckIsEvent
<1>3. ASSUME NEW i \in Intents, NEW n \in Attempts, NEW qty \in Qty, OnFill(i, n, qty)
      PROVE  \E j \in Intents, m \in Attempts : \E d : Event(j, m, d)
  BY <1>3, FillIsEvent
<1>4. ASSUME NEW i \in Intents, NEW n \in Attempts,
             OnCancel(i, n) \/ OnReject(i, n) \/ OnExpire(i, n)
      PROVE  \E j \in Intents, m \in Attempts : \E d : Event(j, m, d)
  BY <1>4, CloseIsEvent DEF OnCancel, OnReject, OnExpire, Counted
<1>5. ASSUME NEW i \in Intents, NEW n \in Attempts, NEW terminal \in TerminalStates,
             NEW filled \in 0..MaxQty, ApplyTerminalStatus(i, n, terminal, filled)
      PROVE  \/ UNCHANGED <<target, children>>
             \/ \E j \in Intents, m \in Attempts : \E d : Event(j, m, d)
  BY <1>5, TerminalStatusIsEvent
<1>6. ASSUME \/ HaltEntries
             \/ Restore
             \/ \E broker_open \in BrokerViews : Reconcile(broker_open)
             \/ Tick
             \/ UNCHANGED vars
      PROVE  UNCHANGED <<target, children>>
  BY <1>6 DEF HaltEntries, Restore, Reconcile, Tick, vars
<1> QED BY <1>1, <1>2, <1>3, <1>4, <1>5, <1>6 DEF Next

-----------------------------------------------------------------------------
\* What the watchdog's pass does to one attempt.
LEMMA MarkStaleChild ==
  ASSUME IInv, MarkStale, NEW i \in Intents, NEW n \in Attempts
  PROVE  \/ children'[i][n] = children[i][n]
         \/ /\ IsOpen(children[i][n])
            /\ children'[i][n] = [children[i][n] EXCEPT !.state = "STALE_PENDING"]
            /\ children'[i][n].state = "STALE_PENDING"
            /\ IsOpen(children'[i][n])
<1>1. children'[i][n] = IF IsOverdue(children[i][n], now)
                        THEN [children[i][n] EXCEPT !.state = "STALE_PENDING"]
                        ELSE children[i][n]
  BY DEF MarkStale
<1>2. children[i][n] \in Child
  BY IInvChild DEF GoodChild
<1> QED BY <1>1, <1>2 DEF IsOverdue, IsOpen, OpenStates, Child

\* Attempts are used only for registered parents, step by step.
LEMMA RegistrationPreserved ==
  ASSUME LifeInv, [Next]_vars
  PROVE  UsedAreRegistered'
<1> SUFFICES ASSUME NEW i \in Intents, NEW n \in Attempts,
                    children'[i][n].state # "UNUSED"
             PROVE  target'[i] > 0
  BY DEF UsedAreRegistered, Registered
<1>0. /\ target \in [Intents -> 0..MaxQty]
      /\ children \in [Intents -> [Attempts -> Child]]
      /\ children[i][n].state # "UNUSED" => target[i] > 0
      /\ IsOpen(children[i][n]) => children[i][n].state # "UNUSED"
  BY DEF LifeInv, IInv, UsedAreRegistered, Registered, IsOpen, OpenStates
<1>1. CASE UNCHANGED <<target, children>>
  BY <1>0, <1>1
<1>2. CASE MarkStale
  <2>1. children[i][n].state # "UNUSED" /\ target' = target
    BY <1>0, <1>2, MarkStaleChild DEF MarkStale, LifeInv
  <2> QED BY <1>0, <2>1
<1>3. ASSUME NEW j \in Intents, NEW qty \in Qty, RegisterIntent(j, qty)
      PROVE  target'[i] > 0
  BY <1>0, <1>3 DEF RegisterIntent, Qty
<1>4. ASSUME NEW j \in Intents, NEW m \in Attempts, NEW d, Submission(j, m, d)
      PROVE  target'[i] > 0
  BY <1>0, <1>4 DEF Submission, Registered
<1>5. ASSUME NEW j \in Intents, NEW m \in Attempts, NEW d, Event(j, m, d)
      PROVE  target'[i] > 0
  <2>1. children[i][n].state # "UNUSED" /\ target' = target
    BY <1>0, <1>5 DEF Event, IsOpen, OpenStates
  <2> QED BY <1>0, <2>1
<1> QED BY <1>1, <1>2, <1>3, <1>4, <1>5, LifecycleSteps DEF LifeInv

\* Attempts are made only for registered parents.
LEMMA BookUsedAreRegistered == Spec => []LifeInv
<1>1. Init => LifeInv
  BY InitIInv DEF Init, LifeInv, UsedAreRegistered, NoChild
<1>2. LifeInv /\ [Next]_vars => LifeInv'
  BY NextPreserves, RegistrationPreserved DEF LifeInv
<1> QED BY <1>1, <1>2, PTL DEF Spec

-----------------------------------------------------------------------------
\* The step from one lifecycle state to the next, or none.
OnDiagram(i) ==
    LifecycleState(i)' = LifecycleState(i)
      \/ LifecycleState(i)' \in Successors[LifecycleState(i)]

\* A parent whose target and children a step leaves alone keeps its state.
LEMMA UntouchedStays ==
  ASSUME NEW i \in Intents, target'[i] = target[i], children'[i] = children[i]
  PROVE  OnDiagram(i)
<1>1. /\ Registered(i)' = Registered(i)
      /\ UsedAttempts(i)' = UsedAttempts(i)
      /\ OpenAttempts(i)' = OpenAttempts(i)
      /\ cum_filled(i)' = cum_filled(i)
  BY DEF Registered, UsedAttempts, OpenAttempts, cum_filled
<1>2. LifecycleState(i)' = LifecycleState(i)
  BY <1>1 DEF LifecycleState
<1> QED BY <1>2 DEF OnDiagram

\* A registration takes an unregistered parent from NONE to INTENDED.
LEMMA RegistrationOnDiagram ==
  ASSUME LifeInv, NEW k \in Intents, NEW qty \in Qty, RegisterIntent(k, qty),
         NEW i \in Intents
  PROVE  OnDiagram(i)
<1>1. target \in [Intents -> 0..MaxQty] /\ children' = children /\ qty > 0
  BY DEF LifeInv, IInv, RegisterIntent, Qty
<1>2. CASE i = k
  <2>1. ~Registered(i) /\ UsedAttempts(i) = {}
    BY <1>2 DEF RegisterIntent, LifeInv, UsedAreRegistered, UsedAttempts
  <2>2. Registered(i)' /\ UsedAttempts(i)' = {}
    BY <1>1, <1>2, <2>1 DEF Registered, UsedAttempts, RegisterIntent
  <2>3. LifecycleState(i) = "NONE"
    BY <2>1, UntriedStates
  <2>4. LifecycleState(i)' = "INTENDED"
    BY <2>2 DEF LifecycleState
  <2> QED BY <2>3, <2>4 DEF OnDiagram, Successors
<1>3. CASE i # k
  <2>1. target'[i] = target[i] /\ children'[i] = children[i]
    BY <1>1, <1>3 DEF RegisterIntent
  <2> QED BY <2>1, UntouchedStays
<1> QED BY <1>2, <1>3

\* A submission leaves INTENDED, REJECTED or CANCELED.
LEMMA SubmissionOnDiagram ==
  ASSUME LifeInv, IInv', NEW k \in Intents, NEW n \in Attempts, NEW d,
         Submission(k, n, d), NEW i \in Intents
  PROVE  OnDiagram(i)
<1>1. children \in [Intents -> [Attempts -> Child]] /\ target' = target
  BY DEF LifeInv, IInv, Submission
<1>2. CASE i = k
  <2>1. /\ children'[i][n].state = "SUBMITTED" /\ IsOpen(children'[i][n])
    BY <1>1, <1>2 DEF Submission, IsOpen, OpenStates
  <2>2. OpenDecides'
    <3>1. (IInv => OpenDecides)'
      BY OpenChildDecides, PTL
    <3> QED BY <3>1
  <2>3. LifecycleState(i)' = Shown("SUBMITTED", cum_filled(i)')
    BY <2>1, <2>2 DEF OpenDecides
  <2>4. LifecycleState(i)' \in {"SUBMITTED", "PARTIALLY_FILLED"}
    BY <2>3 DEF Shown
  <2>5. /\ Registered(i) /\ OpenAttempts(i) = {} /\ cum_filled(i) < target[i]
        /\ cum_filled(i) \in Nat /\ target[i] \in Nat
    BY <1>2, IInvParent DEF Submission, LifeInv
  <2>6. CASE UsedAttempts(i) # {}
    <3>1. LifecycleState(i) \in {"REJECTED", "CANCELED"}
      BY <2>5, <2>6, ClosedChildrenSettle DEF Settled
    <3> QED BY <2>4, <3>1 DEF OnDiagram, Successors
  <2>7. CASE UsedAttempts(i) = {}
    <3>1. LifecycleState(i) = "INTENDED"
      BY <2>5, <2>7, UntriedStates
    <3>2. cum_filled(i)' = 0
      <4>1. \A m \in Attempts : children'[i][m].filled_qty = 0
        <5>1. \A m \in Attempts : children[i][m] = NoChild
          BY <2>7, IInvChild DEF UsedAttempts, GoodChild, LifeInv
        <5> QED BY <1>1, <1>2, <5>1 DEF Submission, NoChild
      <4>2. SumOver([m \in Attempts |-> children'[i][m].filled_qty], Attempts) = 0
        BY <4>1, AttemptsFinite, SumZero
      <4> QED BY <4>2 DEF cum_filled, FilledBy
    <3>3. LifecycleState(i)' = "SUBMITTED"
      BY <2>3, <3>2 DEF Shown
    <3> QED BY <3>1, <3>3 DEF OnDiagram, Successors
  <2> QED BY <2>6, <2>7
<1>3. CASE i # k
  <2>1. target'[i] = target[i] /\ children'[i] = children[i]
    BY <1>1, <1>3 DEF Submission
  <2> QED BY <2>1, UntouchedStays
<1> QED BY <1>2, <1>3

\* An event keeps the open child's parent on the diagram.
LEMMA EventOnDiagram ==
  ASSUME LifeInv, IInv', NEW k \in Intents, NEW n \in Attempts, NEW d,
         Event(k, n, d), NEW i \in Intents
  PROVE  OnDiagram(i)
<1>1. children \in [Intents -> [Attempts -> Child]] /\ target' = target
  BY DEF LifeInv, IInv, Event
<1>2. CASE i = k
  <2> DEFINE c == children[i][n]
  <2>1. IsOpen(c) /\ children'[i] = [children[i] EXCEPT ![n] = d]
        /\ children'[i][n] = d /\ GoodChild(d) /\ Drift(c, d)
    BY <1>1, <1>2 DEF Event
  <2>2. Registered(i) /\ LifecycleState(i) = Shown(c.state, cum_filled(i))
    BY <2>1, OpenChildDecides DEF LifeInv, OpenDecides
  <2>3. LifecycleState(i) \in {"SUBMITTED", "ACCEPTED", "PARTIALLY_FILLED",
                               "STALE_PENDING"}
    BY <2>2 DEF Shown
  <2>4. OpenDecides'
    <3>1. (IInv => OpenDecides)'
      BY OpenChildDecides, PTL
    <3> QED BY <3>1
  <2>5. IsOpen(d) => LifecycleState(i)' = Shown(d.state, cum_filled(i)')
    BY <2>1, <2>4 DEF OpenDecides
  <2>6. cum_filled(i) \in Nat /\ GoodChild(c)
    BY IInvParent, IInvChild DEF LifeInv
  <2>7. cum_filled(i)' = cum_filled(i) + d.filled_qty - c.filled_qty
    BY <1>1, <2>1, IInvChild, SumsAfterChange DEF cum_filled, LifeInv
  <2> HIDE DEF c
  <2>8. CASE d.state \in TerminalStates
    <3>1. Registered(i)' /\ UsedAttempts(i)' # {} /\ OpenAttempts(i)' = {}
      <4>1. Registered(i)'
        BY <1>1, <2>2 DEF Registered
      <4>2. n \in UsedAttempts(i)'
        BY <2>1, <2>8 DEF UsedAttempts, TerminalStates, Counted
      <4>3. \A m \in Attempts : IsOpen(children[i][m]) => m = n
        BY <2>1, IInvParent DEF GoodParent, LifeInv, c
      <4>4. ~IsOpen(d)
        BY <2>8, OpenIsNotTerminal
      <4>5. OpenAttempts(i)' = {}
        BY <2>1, <4>3, <4>4 DEF OpenAttempts
      <4> QED BY <4>1, <4>2, <4>5
    <3>2. LifecycleState(i)' \in Settled
      BY <3>1 DEF LifecycleState, Settled
    <3> QED BY <2>3, <3>2 DEF OnDiagram, Successors, Settled
  <2>9. CASE d.state = "ACCEPTED" /\ c.state = "SUBMITTED" /\ d.filled_qty = c.filled_qty
    <3>1. cum_filled(i)' = cum_filled(i) /\ IsOpen(d)
      BY <2>6, <2>7, <2>9, GoodChildQuantities DEF IsOpen, OpenStates
    <3> QED BY <2>2, <2>5, <2>9, <3>1 DEF Shown, OnDiagram, Successors
  <2>10. CASE d.state = "STALE_PENDING" /\ c.state = "STALE_PENDING"
    BY <2>2, <2>5, <2>10 DEF Shown, OnDiagram, IsOpen, OpenStates
  <2>11. CASE d.state = "PARTIALLY_FILLED" /\ c.state # "STALE_PENDING" /\ d.filled_qty > 0
    <3>1. cum_filled(i)' > 0
      <4> DEFINE f == [m \in Attempts |-> children[i][m].filled_qty]
      <4>1. \A m \in Attempts : f[m] \in Nat
        BY IInvChild, GoodChildQuantities DEF LifeInv
      <4>2. f[n] = c.filled_qty /\ cum_filled(i) = SumOver(f, Attempts)
        BY DEF c, cum_filled, FilledBy
      <4> HIDE DEF f
      <4>3. f[n] <= SumOver(f, Attempts)
        BY <4>1, AttemptsFinite, SumAtLeastMember
      <4>4. d.filled_qty \in Nat /\ c.filled_qty \in Nat
        BY <2>1, <2>6, GoodChildQuantities
      <4> QED BY <2>6, <2>7, <2>11, <4>2, <4>3, <4>4
    <3>2. LifecycleState(i)' = "PARTIALLY_FILLED"
      BY <2>5, <2>11, <3>1 DEF Shown, IsOpen, OpenStates
    <3>3. LifecycleState(i) \in {"SUBMITTED", "ACCEPTED", "PARTIALLY_FILLED"}
      BY <2>2, <2>11 DEF Shown
    <3> QED BY <3>2, <3>3 DEF OnDiagram, Successors
  <2> QED BY <2>1, <2>8, <2>9, <2>10, <2>11 DEF Drift
<1>3. CASE i # k
  <2>1. target'[i] = target[i] /\ children'[i] = children[i]
    BY <1>1, <1>3 DEF Event
  <2> QED BY <2>1, UntouchedStays
<1> QED BY <1>2, <1>3

\* The watchdog's pass moves a parent only to STALE_PENDING.
LEMMA MarkStaleOnDiagram ==
  ASSUME LifeInv, IInv', MarkStale, NEW i \in Intents
  PROVE  OnDiagram(i)
<1>1. target' = target
  BY DEF MarkStale
<1>2. CASE \A n \in Attempts : children'[i][n] = children[i][n]
  <2>1. children[i] \in [Attempts -> Child] /\ children'[i] \in [Attempts -> Child]
    BY DEF LifeInv, IInv
  <2>2. children'[i] = children[i]
    BY <1>2, <2>1
  <2> QED BY <1>1, <2>2, UntouchedStays
<1>3. ASSUME NEW n \in Attempts, children'[i][n] # children[i][n]
      PROVE  OnDiagram(i)
  <2>1. /\ IsOpen(children[i][n])
        /\ children'[i][n].state = "STALE_PENDING"
        /\ IsOpen(children'[i][n])
    BY <1>3, MarkStaleChild DEF LifeInv
  <2>2. LifecycleState(i) = Shown(children[i][n].state, cum_filled(i))
    BY <2>1, OpenChildDecides DEF LifeInv, OpenDecides
  <2>3. OpenDecides'
    <3>1. (IInv => OpenDecides)'
      BY OpenChildDecides, PTL
    <3> QED BY <3>1
  <2>4. LifecycleState(i)' = "STALE_PENDING"
    BY <2>1, <2>3 DEF Shown, OpenDecides
  <2> QED BY <2>2, <2>4 DEF Shown, OnDiagram, Successors
<1> QED BY <1>2, <1>3

\* A parent's lifecycle state moves only along the diagram.
THEOREM BookFollowsDiagram == Spec => LifecycleFollowsDiagram
<1>1. ASSUME LifeInv, [Next]_vars, NEW i \in Intents
      PROVE  LifecycleState(i)' # LifecycleState(i)
               => LifecycleState(i)' \in Successors[LifecycleState(i)]
  <2>1. IInv'
    BY <1>1, NextPreserves DEF LifeInv
  <2>2. ASSUME UNCHANGED <<target, children>> PROVE OnDiagram(i)
    BY <2>2, UntouchedStays
  <2>3. OnDiagram(i)
    BY <1>1, <2>1, <2>2, LifecycleSteps, RegistrationOnDiagram, SubmissionOnDiagram,
       EventOnDiagram, MarkStaleOnDiagram DEF LifeInv
  <2> QED BY <2>3 DEF OnDiagram
<1>2. LifeInv /\ [Next]_vars
        => [\A i \in Intents :
              LifecycleState(i)' # LifecycleState(i)
                => LifecycleState(i)' \in Successors[LifecycleState(i)]]_vars
  BY <1>1
<1> QED BY <1>2, BookUsedAreRegistered, PTL DEF Spec, LifecycleFollowsDiagram
=============================================================================
