------------------------ MODULE SleeveEntriesProofs -------------------------
(***************************************************************************)
(* The cash ledger's guarantees and those of the sleeves that share it.    *)
(*                                                                         *)
(* The ledger's are facts about single transactions, for every finite set  *)
(* of parents and every bound on cash, reservations and the clock: they    *)
(* need no more of the state than its type, and hold however the sleeves   *)
(* interleave.                                                             *)
(*                                                                         *)
(* The sleeves use the ledger as its specification allows, so what is      *)
(* proved of every ledger holds of theirs, for any number of sleeves,      *)
(* parents and faults.  A ledger step of a sleeve is one of the ledger's   *)
(* own only if it asks for a possible amount, so the proof carries the     *)
(* accounting between a sleeve's book and the broker's orders.  From that  *)
(* accounting follows what the reservations are for: which working BUYs    *)
(* have a row, which of them the cash covers and when a recheck may fail.  *)
(* None of it assumes that sleeves wait for each other: a restart may run  *)
(* beside an entry, and an expired reservation may be retried.             *)
(***************************************************************************)
EXTENDS SleeveEntries, SetSumsProofs

-----------------------------------------------------------------------------
(* The ledger. *)

\* Releasing keeps a row a row, whichever parents are released.
LEMMA ReleasedIsRows ==
  ASSUME rows \in [Parents -> Row], NEW ps
  PROVE  Released(ps) \in [Parents -> Row]
<1> SUFFICES ASSUME NEW p \in Parents PROVE Released(ps)[p] \in Row
  BY DEF Released
<1> QED BY DEF Released, Row

\* The tables start as their columns allow.
LEMMA LedgerInitType == LedgerInit => LedgerTypeOK
BY LedgerAssumption DEF LedgerInit, LedgerTypeOK, NoRow, Row

\* No transaction leaves the tables in a shape their columns do not allow.
LEMMA LedgerNextType == LedgerTypeOK /\ [LedgerNext]_lvars => LedgerTypeOK'
<1> SUFFICES ASSUME LedgerTypeOK, [LedgerNext]_lvars PROVE LedgerTypeOK'
  OBVIOUS
<1> USE LedgerAssumption
<1>h. ASSUME NEW reason \in HaltReasons, HaltWith(reason)
      PROVE  halt_reason' \in HaltReasons \cup {NotHalted}
  BY <1>h DEF HaltWith, LedgerTypeOK
<1>1. ASSUME NEW p \in Parents, NEW amount \in Amount, Reserve(p, amount)
      PROVE  LedgerTypeOK'
  <2>1. clock + Ttl \in 0..(MaxClock + Ttl) /\ amount \in 0..MaxAmount
    BY DEF LedgerTypeOK, Amount
  <2>2. rows' \in [Parents -> Row]
    BY <1>1, <2>1 DEF Reserve, LedgerTypeOK, Row
  <2> QED BY <1>1, <2>2 DEF Reserve, LedgerTypeOK
<1>2. ASSUME NEW p \in Parents, Release(p) PROVE LedgerTypeOK'
  BY <1>2, ReleasedIsRows DEF Release, LedgerTypeOK
<1>3. CASE RecheckFails
  <2>1. halt_reason' \in HaltReasons \cup {NotHalted}
    BY <1>3, <1>h DEF RecheckFails, HaltReasons
  <2> QED BY <1>3, <2>1 DEF RecheckFails, LedgerTypeOK
<1>4. ASSUME NEW broker_open \in SUBSET (Parents \cup Strangers),
             NEW local_inflight \in SUBSET Parents,
             Sweep(broker_open, local_inflight)
      PROVE  LedgerTypeOK'
  <2>1. halt_reason' \in HaltReasons \cup {NotHalted}
    BY <1>4, <1>h DEF Sweep, HaltReasons, LedgerTypeOK
  <2>2. rows' \in [Parents -> Row]
    BY <1>4, ReleasedIsRows DEF Sweep, LedgerTypeOK
  <2> QED BY <1>4, <2>1, <2>2 DEF Sweep, LedgerTypeOK
<1>5. CASE Halt("reconcile_mismatch")
  <2>1. halt_reason' \in HaltReasons \cup {NotHalted}
    BY <1>5, <1>h DEF Halt, HaltReasons
  <2> QED BY <1>5, <2>1 DEF Halt, LedgerTypeOK
<1>6. CASE ClearHalt
  BY <1>6 DEF ClearHalt, LedgerTypeOK
<1>7. ASSUME NEW cash \in 0..MaxCash, CashMoves(cash) PROVE LedgerTypeOK'
  BY <1>7 DEF CashMoves, LedgerTypeOK
<1>8. CASE ClockTicks
  BY <1>8 DEF ClockTicks, LedgerTypeOK
<1>9. CASE UNCHANGED lvars
  BY <1>9 DEF lvars, LedgerTypeOK
<1> QED BY <1>1, <1>2, <1>3, <1>4, <1>5, <1>6, <1>7, <1>8, <1>9 DEF LedgerNext

\* The tables always hold what their columns allow.
THEOREM LedgerTypeCorrect == LedgerSpec => []LedgerTypeOK
BY LedgerInitType, LedgerNextType, PTL DEF LedgerSpec

-----------------------------------------------------------------------------
\* What a row debits is a whole amount.
LEMMA CountingIsNat ==
  ASSUME NEW row \in Row, NEW t
  PROVE  Counting(row, t) \in Nat
BY LedgerAssumption DEF Counting, Row

\* If no row debits more than before, neither does their sum.
LEMMA ActiveSumShrinks ==
  ASSUME rows \in [Parents -> Row], rows' \in [Parents -> Row],
         \A p \in Parents : Counting(rows'[p], clock') <= Counting(rows[p], clock)
  PROVE  ~(ActiveSum' > ActiveSum)
<1> DEFINE f == [p \in Parents |-> Counting(rows[p], clock)]
           g == [p \in Parents |-> Counting(rows'[p], clock')]
<1>1. \A p \in Parents : f[p] \in Int /\ g[p] \in Int /\ g[p] <= f[p]
  BY CountingIsNat
<1>2. ActiveSum = SumOver(f, Parents) /\ ActiveSum' = SumOver(g, Parents)
  BY DEF ActiveSum
<1> HIDE DEF f, g
<1>3. SumOver(g, Parents) <= SumOver(f, Parents)
  BY <1>1, LedgerAssumption, SumMonotone
<1>4. SumOver(f, Parents) \in Int /\ SumOver(g, Parents) \in Int
  BY <1>1, LedgerAssumption, SumType
<1> QED BY <1>2, <1>3, <1>4

\* A released row debits nothing, the others debit what they did.
LEMMA ReleasingShrinks ==
  ASSUME rows \in [Parents -> Row], NEW ps, rows' = Released(ps), clock' = clock
  PROVE  ~(ActiveSum' > ActiveSum)
<1>1. rows' \in [Parents -> Row]
  BY ReleasedIsRows
<1>2. ASSUME NEW p \in Parents
      PROVE  Counting(rows'[p], clock') <= Counting(rows[p], clock)
  <2>1. Counting(rows[p], clock) \in Nat
    BY CountingIsNat
  <2>2. rows'[p] = rows[p] \/ rows'[p].status = "released"
    BY DEF Released, Row
  <2> QED BY <2>1, <2>2 DEF Counting
<1> QED BY <1>1, <1>2, ActiveSumShrinks

\* A granted reservation fits in the cash its own transaction read.
LEMMA ReserveFits ==
  ASSUME LedgerTypeOK, NEW p \in Parents, NEW amount \in Amount, Reserve(p, amount)
  PROVE  ActiveSum' <= broker_cash
<1> USE LedgerAssumption
<1> DEFINE f == [q \in Parents |-> Counting(rows[q], clock)]
           g == [q \in Parents |-> Counting(rows'[q], clock')]
<1>1. /\ rows' = [rows EXCEPT ![p] = [status |-> "active", amount |-> amount,
                                      expires_at |-> clock + Ttl]]
      /\ clock' = clock /\ broker_cash - ActiveSum - amount >= 0
      /\ p \notin Active
  BY DEF Reserve, ReserveFresh, HasHeadroom
<1>2. rows \in [Parents -> Row] /\ rows' \in [Parents -> Row]
  BY LedgerNextType DEF LedgerNext, LedgerTypeOK
<1>3. \A q \in Parents : f[q] \in Int /\ g[q] \in Int
  BY <1>2, CountingIsNat
<1>4. f[p] = 0 /\ g[p] = amount
  BY <1>1, <1>2 DEF Counting, Active, LedgerTypeOK
<1>5. \A q \in Parents : q # p => g[q] = f[q]
  BY <1>1, <1>2
<1>6. DifferOnlyAt(f, g, p, Parents)
  BY <1>3, <1>5 DEF DifferOnlyAt
<1>7. ActiveSum = SumOver(f, Parents) /\ ActiveSum' = SumOver(g, Parents)
  BY DEF ActiveSum
<1> HIDE DEF f, g
<1>8. SumOver(g, Parents) = SumOver(f, Parents) + g[p] - f[p]
  BY <1>6, SumChangeOne
<1>9. SumOver(f, Parents) \in Int
  BY <1>3, SumType
<1> QED BY <1>1, <1>4, <1>7, <1>8, <1>9 DEF LedgerTypeOK, Amount

\* Every transaction keeps the promises within the cash there is.
LEMMA FreeCashStep ==
  LedgerTypeOK /\ [LedgerNext]_lvars
    => (ActiveSum' > ActiveSum => ActiveSum' <= broker_cash)
<1> SUFFICES ASSUME LedgerTypeOK, [LedgerNext]_lvars
             PROVE  ActiveSum' > ActiveSum => ActiveSum' <= broker_cash
  OBVIOUS
<1> USE LedgerAssumption
<1>0. rows \in [Parents -> Row] /\ rows' \in [Parents -> Row]
  BY LedgerNextType DEF LedgerTypeOK
<1>s. ASSUME rows' = rows, clock' = clock PROVE ~(ActiveSum' > ActiveSum)
  <2>1. \A p \in Parents : Counting(rows[p], clock) \in Nat
    BY <1>0, CountingIsNat
  <2> QED BY <1>0, <1>s, <2>1, ActiveSumShrinks
<1>1. ASSUME NEW p \in Parents, NEW amount \in Amount, Reserve(p, amount)
      PROVE  ActiveSum' <= broker_cash
  BY <1>1, ReserveFits
<1>2. ASSUME NEW p \in Parents, Release(p) PROVE ~(ActiveSum' > ActiveSum)
  BY <1>0, <1>2, ReleasingShrinks DEF Release
<1>3. ASSUME NEW broker_open, NEW local_inflight, Sweep(broker_open, local_inflight)
      PROVE  ~(ActiveSum' > ActiveSum)
  BY <1>0, <1>3, ReleasingShrinks DEF Sweep
<1>4. ASSUME ClockTicks PROVE ~(ActiveSum' > ActiveSum)
  <2>1. ASSUME NEW p \in Parents
        PROVE  Counting(rows'[p], clock') <= Counting(rows[p], clock)
    <3>1. rows'[p] = rows[p] /\ clock' = clock + 1 /\ clock \in Nat
      BY <1>4 DEF ClockTicks, LedgerTypeOK
    <3>2. rows[p].expires_at \in Nat /\ rows[p].amount \in Nat
      BY <1>0 DEF Row
    <3> QED BY <3>1, <3>2 DEF Counting
  <2> QED BY <1>0, <2>1, ActiveSumShrinks
<1>5. CASE \/ RecheckFails \/ Halt("reconcile_mismatch") \/ ClearHalt
           \/ (\E cash \in 0..MaxCash : CashMoves(cash)) \/ UNCHANGED lvars
  BY <1>5, <1>s DEF RecheckFails, Halt, ClearHalt, CashMoves, lvars
<1> QED BY <1>1, <1>2, <1>3, <1>4, <1>5 DEF LedgerNext

\* No interleaving of reserves, releases, sweeps and expiries promises the same
\* cash twice: the reserved total grows only inside the broker's cash.
THEOREM LedgerReservesOnlyFreeCash == LedgerSpec => ReservesOnlyFreeCash
<1>1. LedgerTypeOK /\ [LedgerNext]_lvars
        => [ActiveSum' > ActiveSum => ActiveSum' <= broker_cash]_lvars
  BY FreeCashStep
<1> QED BY <1>1, LedgerTypeCorrect, PTL DEF LedgerSpec, ReservesOnlyFreeCash

-----------------------------------------------------------------------------
\* What a transaction may do under a halt.
LEMMA HaltStep ==
  LedgerTypeOK /\ [LedgerNext]_lvars
    => (IsHalted => /\ \A p \in Parents : p \notin Active => p \notin Active'
                    /\ halt_reason' \in {halt_reason, NotHalted})
<1> SUFFICES ASSUME LedgerTypeOK, [LedgerNext]_lvars, IsHalted
             PROVE  /\ \A p \in Parents : p \notin Active => p \notin Active'
                    /\ halt_reason' \in {halt_reason, NotHalted}
  OBVIOUS
<1>r. ASSUME NEW ps, rows' = Released(ps)
      PROVE  \A p \in Parents : p \notin Active => p \notin Active'
  BY <1>r DEF Released, Active
<1>1. ASSUME NEW p \in Parents, NEW amount \in Amount, Reserve(p, amount)
      PROVE  FALSE
  BY <1>1 DEF Reserve, ReserveFresh
<1>2. ASSUME NEW p \in Parents, Release(p)
      PROVE  /\ \A q \in Parents : q \notin Active => q \notin Active'
             /\ halt_reason' \in {halt_reason, NotHalted}
  BY <1>2, <1>r DEF Release
<1>3. ASSUME NEW broker_open, NEW local_inflight, Sweep(broker_open, local_inflight)
      PROVE  /\ \A q \in Parents : q \notin Active => q \notin Active'
             /\ halt_reason' \in {halt_reason, NotHalted}
  BY <1>3, <1>r DEF Sweep, HaltWith
<1>4. CASE RecheckFails
  BY <1>4 DEF RecheckFails
<1>5. CASE \/ Halt("reconcile_mismatch") \/ ClearHalt
           \/ (\E cash \in 0..MaxCash : CashMoves(cash))
           \/ ClockTicks \/ UNCHANGED lvars
  BY <1>5 DEF Halt, HaltWith, ClearHalt, CashMoves, ClockTicks, lvars, Active
<1> QED BY <1>1, <1>2, <1>3, <1>4, <1>5 DEF LedgerNext

\* A halt set by one sleeve stops every sleeve's entries until it is cleared.
THEOREM LedgerHaltStopsEveryEntry == LedgerSpec => HaltStopsEveryEntry
<1>1. LedgerTypeOK /\ [LedgerNext]_lvars
        => [IsHalted => /\ \A p \in Parents : p \notin Active => p \notin Active'
                        /\ halt_reason' \in {halt_reason, NotHalted}]_lvars
  BY HaltStep
<1> QED BY <1>1, LedgerTypeCorrect, PTL DEF LedgerSpec, HaltStopsEveryEntry

-----------------------------------------------------------------------------
\* What a transaction may do to an active row.
LEMMA RowStep ==
  LedgerTypeOK /\ [LedgerNext]_lvars
    => \A p \in Parents :
         p \in Active => \/ rows'[p] = rows[p]
                         \/ rows'[p] = [rows[p] EXCEPT !.status = "released"]
<1> SUFFICES ASSUME LedgerTypeOK, [LedgerNext]_lvars, NEW p \in Active
             PROVE  \/ rows'[p] = rows[p]
                    \/ rows'[p] = [rows[p] EXCEPT !.status = "released"]
  BY DEF Active
<1>p. p \in Parents
  BY DEF Active
<1>r. ASSUME NEW ps, rows' = Released(ps)
      PROVE  \/ rows'[p] = rows[p]
             \/ rows'[p] = [rows[p] EXCEPT !.status = "released"]
  BY <1>p, <1>r DEF Released
<1>1. ASSUME NEW q \in Parents, NEW amount \in Amount, Reserve(q, amount)
      PROVE  rows'[p] = rows[p]
  BY <1>1, <1>p DEF Reserve, ReserveFresh, LedgerTypeOK
<1>2. CASE \E q \in Parents : Release(q)
  BY <1>2, <1>r DEF Release
<1>3. CASE \E broker_open \in SUBSET (Parents \cup Strangers),
              local_inflight \in SUBSET Parents : Sweep(broker_open, local_inflight)
  BY <1>3, <1>r DEF Sweep
<1>4. CASE \/ RecheckFails \/ Halt("reconcile_mismatch") \/ ClearHalt
           \/ (\E cash \in 0..MaxCash : CashMoves(cash))
           \/ ClockTicks \/ UNCHANGED lvars
  BY <1>4 DEF RecheckFails, Halt, ClearHalt, CashMoves, ClockTicks, lvars
<1> QED BY <1>1, <1>2, <1>3, <1>4 DEF LedgerNext

\* A reservation stands as granted until it is released.
THEOREM LedgerActiveRowStands == LedgerSpec => ActiveRowStands
<1>1. LedgerTypeOK /\ [LedgerNext]_lvars
        => [\A p \in Parents :
              p \in Active => \/ rows'[p] = rows[p]
                              \/ rows'[p] = [rows[p] EXCEPT !.status = "released"]]_lvars
  BY RowStep
<1> QED BY <1>1, LedgerTypeCorrect, PTL DEF LedgerSpec, ActiveRowStands

-----------------------------------------------------------------------------
(* The sleeves implement the ledger. *)

\* A parent's book entry against the broker's order for it: an open child stands for
\* the whole rest of the parent, and the broker's fills are part of it.
ParentInv(p) ==
    /\ cum_filled[p] + open_qty[p] <= Want[p]
    /\ open_qty[p] = 0 \/ cum_filled[p] + open_qty[p] = Want[p]
    /\ order[p].live => open_qty[p] = order[p].left + order[p].unseen /\ order[p].left > 0
    /\ ~order[p].live => order[p].unseen <= open_qty[p]
    /\ EntryOf(p) => ~order[p].live /\ order[p].unseen = 0
    /\ EntryOf(p) /\ stage[Owner[p]].op = "reserved" =>
         open_qty[p] = 0 /\ cum_filled[p] < Want[p]
    /\ EntryOf(p) /\ stage[Owner[p]].op \in {"emitted", "rechecked"} => open_qty[p] > 0

\* What a crash in a reconcile would restore: the book as it is, or a child the reconcile
\* has resolved, which the broker no longer works.  The view lists what works.
RecallInv(p) ==
    /\ IsReconciling(Owner[p]) =>
         LET saved == stage[Owner[p]].saved
         IN  \/ saved.cum_filled[p] = cum_filled[p] /\ saved.open_qty[p] = open_qty[p]
             \/ /\ ~order[p].live /\ order[p].unseen = 0 /\ open_qty[p] = 0
                /\ saved.cum_filled[p] \in 0..cum_filled[p]
                /\ saved.open_qty[p] \in Nat \ {0}
                /\ saved.cum_filled[p] + saved.open_qty[p] = Want[p]
    /\ stage[Owner[p]].op = "resolving" /\ order[p].live => p \in DOMAIN stage[Owner[p]].view

\* A sleeve's thread works on a parent of its own, and reads real orders only.
StageInv(s) ==
    /\ InEntry(s) => stage[s].p \in Parents /\ Owner[stage[s].p] = s
    /\ stage[s].op = "resolving" =>
         DOMAIN stage[s].view \subseteq Parents /\ stage[s].unknown \subseteq Parents \cup Strangers

ShapeInv ==
    /\ cum_filled \in [Parents -> Nat]
    /\ open_qty \in [Parents -> Nat]
    /\ order \in [Parents -> [live: BOOLEAN, left: Nat, unseen: Nat]]
    /\ stage = [s \in Sleeves |-> stage[s]]

SleeveInv ==
    /\ LedgerTypeOK
    /\ ShapeInv
    /\ \A p \in Parents : ParentInv(p) /\ RecallInv(p)
    /\ \A s \in Sleeves : StageInv(s)

BookInv ==
    /\ ShapeInv
    /\ \A p \in Parents : ParentInv(p) /\ RecallInv(p)
    /\ \A s \in Sleeves : StageInv(s)

-----------------------------------------------------------------------------
\* The bookkeeping holds at the start.
LEMMA SleeveInitInv == SleeveInit => SleeveInv
<1> SUFFICES ASSUME SleeveInit PROVE SleeveInv
  OBVIOUS
<1>1. LedgerTypeOK
  BY LedgerInitType DEF SleeveInit
<1>2. ShapeInv
  BY DEF SleeveInit, ShapeInv, NoOrder
<1>3. ASSUME NEW s \in Sleeves PROVE ~InEntry(s) /\ StageInv(s)
  BY DEF SleeveInit, InEntry, EntrySteps, IdleStage, StageInv
<1>4. ASSUME NEW p \in Parents PROVE ParentInv(p) /\ RecallInv(p)
  <2>1. stage[Owner[p]] = IdleStage /\ ~InEntry(Owner[p])
    BY <1>3, SleeveAssumption DEF SleeveInit
  <2>2. RecallInv(p)
    BY <2>1 DEF RecallInv, IsReconciling, IdleStage
  <2>3. ParentInv(p)
    BY <2>1, SleeveAssumption DEF SleeveInit, ParentInv, NoOrder, EntryOf, Amount
  <2> QED BY <2>2, <2>3
<1> QED BY <1>1, <1>2, <1>3, <1>4 DEF SleeveInv

\* The numbers of a parent are numbers.
LEMMA ParentNumbers ==
  ASSUME SleeveInv, NEW p \in Parents
  PROVE  /\ ParentInv(p) /\ RecallInv(p)
         /\ Owner[p] \in Sleeves
         /\ Want[p] \in Nat \ {0} /\ cum_filled[p] \in Nat /\ open_qty[p] \in Nat
         /\ order[p] \in [live: BOOLEAN, left: Nat, unseen: Nat]
         /\ order[p].live \in BOOLEAN /\ order[p].left \in Nat /\ order[p].unseen \in Nat
BY SleeveAssumption, LedgerAssumption DEF SleeveInv, ShapeInv, Amount

\* What a sleeve still wants of a parent is an amount the ledger may be asked for.
LEMMA RemainingIsAmount ==
  ASSUME SleeveInv, NEW p \in Parents, remaining(p) > 0
  PROVE  /\ remaining(p) \in Amount /\ open_qty[p] = 0 /\ cum_filled[p] < Want[p]
         /\ ~order[p].live /\ order[p].unseen = 0
<1>1. Want[p] \in Amount /\ MaxAmount \in Nat
  BY SleeveAssumption, LedgerAssumption
<1>2. open_qty[p] = 0 /\ Want[p] - cum_filled[p] - open_qty[p] \in Amount
  BY <1>1, ParentNumbers DEF ParentInv, remaining, Amount
<1>3. ~order[p].live
  BY <1>2, ParentNumbers DEF ParentInv
<1> QED BY <1>2, <1>3, ParentNumbers DEF ParentInv, remaining

\* One thread moves: the others are where they were, and only the parent it now works on
\* is being entered by it.
LEMMA ThreadMoves ==
  ASSUME SleeveInv, NEW s \in Sleeves, NEW x, GoTo(s, x),
         x.op \in EntrySteps => x.p \in Parents /\ Owner[x.p] = s,
         x.op = "resolving" =>
           DOMAIN x.view \subseteq Parents /\ x.unknown \subseteq Parents \cup Strangers
  PROVE  /\ stage' = [t \in Sleeves |-> stage'[t]] /\ stage'[s] = x
         /\ \A t \in Sleeves : StageInv(t)'
         /\ \A q \in Parents :
              /\ EntryOf(q)' => IF Owner[q] = s THEN x.op \in EntrySteps /\ x.p = q
                                ELSE EntryOf(q) /\ stage'[Owner[q]] = stage[Owner[q]]
              /\ stage'[Owner[q]] = IF Owner[q] = s THEN x ELSE stage[Owner[q]]
<1>1. stage = [t \in Sleeves |-> stage[t]]
  BY DEF SleeveInv, ShapeInv
<1>2. stage' = [t \in Sleeves |-> IF t = s THEN x ELSE stage[t]]
  BY <1>1 DEF GoTo
<1>3. stage' = [t \in Sleeves |-> stage'[t]]
  BY <1>2
<1>4. ASSUME NEW t \in Sleeves PROVE StageInv(t)'
  <2>1. stage'[t] = IF t = s THEN x ELSE stage[t]
    BY <1>2
  <2> QED BY <2>1 DEF SleeveInv, StageInv, InEntry
<1>5. ASSUME NEW q \in Parents, EntryOf(q)'
      PROVE  IF Owner[q] = s THEN x.op \in EntrySteps /\ x.p = q
             ELSE EntryOf(q) /\ stage'[Owner[q]] = stage[Owner[q]]
  <2>1. stage'[Owner[q]] = IF Owner[q] = s THEN x ELSE stage[Owner[q]]
    BY <1>2, SleeveAssumption
  <2> QED BY <1>5, <2>1 DEF EntryOf, InEntry
<1>6. \A q \in Parents : stage'[Owner[q]] = IF Owner[q] = s THEN x ELSE stage[Owner[q]]
  BY <1>2, SleeveAssumption
<1> QED BY <1>2, <1>3, <1>4, <1>5, <1>6

\* A parent whose numbers stay, and that no thread begins to enter, keeps its invariant.
LEMMA ParentStays ==
  ASSUME SleeveInv, NEW q \in Parents,
         cum_filled'[q] = cum_filled[q], open_qty'[q] = open_qty[q], order'[q] = order[q],
         EntryOf(q)' => EntryOf(q) /\ stage'[Owner[q]] = stage[Owner[q]]
  PROVE  ParentInv(q)'
<1>1. ParentInv(q)
  BY DEF SleeveInv
<1> QED BY <1>1 DEF ParentInv

\* What a crash would restore stays, when neither the thread nor the numbers move.
LEMMA RecallStays ==
  ASSUME SleeveInv, NEW q \in Parents,
         cum_filled'[q] = cum_filled[q], open_qty'[q] = open_qty[q],
         order'[q] = order[q] \/ order[q].live,
         order'[q].live => order[q].live,
         IsReconciling(Owner[q])' => stage'[Owner[q]] = stage[Owner[q]]
  PROVE  RecallInv(q)'
<1>1. RecallInv(q)
  BY DEF SleeveInv
<1>2. CASE IsReconciling(Owner[q])'
  BY <1>1, <1>2 DEF RecallInv, IsReconciling
<1>3. CASE ~IsReconciling(Owner[q])'
  BY <1>3 DEF RecallInv, IsReconciling
<1> QED BY <1>2, <1>3

\* A thread that works on a parent keeps every other thread and parent as it is.
LEMMA EntryMoves ==
  ASSUME SleeveInv, NEW s \in Sleeves, NEW p \in Parents, Owner[p] = s, NEW x,
         GoTo(s, x), x = IdleStage \/ \E op \in EntrySteps : x = At(op, p),
         cum_filled' = [cum_filled EXCEPT ![p] = cum_filled'[p]], cum_filled'[p] \in Nat,
         open_qty' = [open_qty EXCEPT ![p] = open_qty'[p]], open_qty'[p] \in Nat,
         order' = [order EXCEPT ![p] = order'[p]],
         order'[p] \in [live: BOOLEAN, left: Nat, unseen: Nat],
         (EntryOf(p)' => x # IdleStage) => ParentInv(p)'
  PROVE  BookInv'
<1>1. /\ x.op \in EntrySteps => x.p = p
      /\ x.op # "resolving" /\ x.op # "swept"
      /\ x = IdleStage => x.op \notin EntrySteps
  BY DEF IdleStage, At, EntrySteps
<1>a. x.op \in EntrySteps => x.p \in Parents /\ Owner[x.p] = s
  BY <1>1
<1>b. x.op = "resolving" =>
        DOMAIN x.view \subseteq Parents /\ x.unknown \subseteq Parents \cup Strangers
  BY <1>1
<1>2. /\ stage' = [t \in Sleeves |-> stage'[t]]
      /\ \A t \in Sleeves : StageInv(t)'
      /\ \A q \in Parents :
           /\ EntryOf(q)' => IF Owner[q] = s THEN x.op \in EntrySteps /\ x.p = q
                             ELSE EntryOf(q) /\ stage'[Owner[q]] = stage[Owner[q]]
           /\ stage'[Owner[q]] = IF Owner[q] = s THEN x ELSE stage[Owner[q]]
  BY <1>a, <1>b, ThreadMoves
<1>3. ShapeInv'
  BY <1>2 DEF SleeveInv, ShapeInv
<1>4. ASSUME NEW q \in Parents PROVE ParentInv(q)' /\ RecallInv(q)'
  <2>0. IsReconciling(Owner[q])' =>
          Owner[q] # s /\ stage'[Owner[q]] = stage[Owner[q]]
    BY <1>1, <1>2 DEF IsReconciling
  <2>1. CASE q = p
    <3>1. ~IsReconciling(Owner[p])'
      BY <2>0, <2>1
    <3> QED BY <2>1, <3>1, <1>1, <1>2 DEF RecallInv, IsReconciling
  <2>2. CASE q # p
    <3>1. cum_filled'[q] = cum_filled[q] /\ open_qty'[q] = open_qty[q] /\ order'[q] = order[q]
      BY <2>2 DEF SleeveInv, ShapeInv
    <3>2. EntryOf(q)' => EntryOf(q) /\ stage'[Owner[q]] = stage[Owner[q]]
      BY <2>2, <1>1, <1>2
    <3> QED BY <2>0, <3>1, <3>2, ParentStays, RecallStays
  <2> QED BY <2>1, <2>2
<1> QED BY <1>2, <1>3, <1>4 DEF BookInv

\* A step that moves no thread and changes one parent.
LEMMA NumbersMove ==
  ASSUME SleeveInv, NEW p \in Parents, UNCHANGED stage,
         cum_filled' = [cum_filled EXCEPT ![p] = cum_filled'[p]], cum_filled'[p] \in Nat,
         open_qty' = [open_qty EXCEPT ![p] = open_qty'[p]], open_qty'[p] \in Nat,
         order' = [order EXCEPT ![p] = order'[p]],
         order'[p] \in [live: BOOLEAN, left: Nat, unseen: Nat],
         ParentInv(p)', RecallInv(p)'
  PROVE  BookInv'
<1>1. ShapeInv'
  BY DEF SleeveInv, ShapeInv
<1>2. \A t \in Sleeves : StageInv(t)'
  BY DEF SleeveInv, StageInv, InEntry
<1>3. ASSUME NEW q \in Parents PROVE ParentInv(q)' /\ RecallInv(q)'
  <2>1. CASE q # p
    <3>1. cum_filled'[q] = cum_filled[q] /\ open_qty'[q] = open_qty[q] /\ order'[q] = order[q]
      BY <2>1 DEF SleeveInv, ShapeInv
    <3>2. EntryOf(q)' => EntryOf(q) /\ stage'[Owner[q]] = stage[Owner[q]]
      BY DEF EntryOf, InEntry
    <3> QED BY <3>1, <3>2, ParentStays, RecallStays
  <2> QED BY <2>1
<1> QED BY <1>1, <1>2, <1>3 DEF BookInv

\* Where a thread at a step of an entry is.
LEMMA AtStep ==
  ASSUME NEW s, NEW p \in Parents, Owner[p] = s, NEW op \in EntrySteps, IsAt(s, op, p)
  PROVE  EntryOf(p) /\ stage[s].op = op
BY DEF IsAt, At, EntryOf, InEntry

\* Where it is after its step.
LEMMA AtStepNext ==
  ASSUME SleeveInv, NEW s \in Sleeves, NEW p \in Parents, Owner[p] = s,
         NEW op \in EntrySteps, GoTo(s, At(op, p))
  PROVE  EntryOf(p)' /\ stage'[Owner[p]].op = op
BY DEF GoTo, At, EntryOf, InEntry, SleeveInv, ShapeInv

\* A step that leaves a parent's numbers alone.
LEMMA SameNumbers ==
  ASSUME SleeveInv, NEW p \in Parents
  PROVE  /\ UNCHANGED cum_filled =>
              cum_filled' = [cum_filled EXCEPT ![p] = cum_filled'[p]] /\ cum_filled'[p] \in Nat
         /\ UNCHANGED open_qty =>
              open_qty' = [open_qty EXCEPT ![p] = open_qty'[p]] /\ open_qty'[p] \in Nat
         /\ UNCHANGED order =>
              /\ order' = [order EXCEPT ![p] = order'[p]]
              /\ order'[p] \in [live: BOOLEAN, left: Nat, unseen: Nat]
         /\ \A n \in Nat : open_qty' = [open_qty EXCEPT ![p] = n] =>
              /\ open_qty' = [open_qty EXCEPT ![p] = open_qty'[p]]
              /\ open_qty'[p] = n
BY DEF SleeveInv, ShapeInv

-----------------------------------------------------------------------------
\* The reservation is granted to a parent that has nothing working.
LEMMA BeginEntryStep ==
  ASSUME SleeveInv, NEW s \in Sleeves, NEW p \in Parents, Owner[p] = s, BeginEntry(s, p)
  PROVE  BookInv' /\ [LedgerNext]_lvars
<1>1. /\ remaining(p) \in Amount /\ open_qty[p] = 0 /\ cum_filled[p] < Want[p]
      /\ ~order[p].live /\ order[p].unseen = 0
  BY RemainingIsAmount DEF BeginEntry
<1>2. [LedgerNext]_lvars
  BY <1>1 DEF BeginEntry, LedgerNext
<1>3. GoTo(s, At("reserved", p)) /\ UNCHANGED <<cum_filled, open_qty, order>>
  BY DEF BeginEntry, bookvars, broker
<1>4. ParentInv(p)'
  <2>1. stage'[Owner[p]].op = "reserved"
    BY <1>3, AtStepNext DEF EntrySteps
  <2> QED BY <1>1, <1>3, <2>1, ParentNumbers DEF ParentInv
<1>5. BookInv'
  BY <1>3, <1>4, SameNumbers, EntryMoves DEF EntrySteps
<1> QED BY <1>2, <1>5

\* A refusal changes nothing the ledger or the broker sees.
LEMMA EntryRefusedStep ==
  ASSUME SleeveInv, NEW s \in Sleeves, NEW p \in Parents, Owner[p] = s, EntryRefused(s, p)
  PROVE  BookInv' /\ [LedgerNext]_lvars
<1>1. UNCHANGED <<lvars, cum_filled, open_qty, order, stage>>
  BY DEF EntryRefused, bookvars, broker
<1>2. ParentInv(p)'
  BY <1>1, ParentNumbers DEF ParentInv, EntryOf, InEntry
<1>3. RecallInv(p)'
  BY <1>1, RecallStays
<1> QED BY <1>1, <1>2, <1>3, SameNumbers, NumbersMove

\* The child asks for the whole rest.
LEMMA EmitChildStep ==
  ASSUME SleeveInv, NEW s \in Sleeves, NEW p \in Parents, Owner[p] = s, EmitChild(s, p)
  PROVE  BookInv' /\ [LedgerNext]_lvars
<1>1. EntryOf(p) /\ stage[Owner[p]].op = "reserved" /\ UNCHANGED <<lvars, cum_filled, order>>
  BY AtStep DEF EmitChild, EntrySteps, broker
<1>2. ~order[p].live /\ order[p].unseen = 0 /\ open_qty[p] = 0 /\ cum_filled[p] < Want[p]
  BY <1>1, ParentNumbers DEF ParentInv
<1>3. CASE GoTo(s, At("emitted", p)) /\ open_qty' = [open_qty EXCEPT ![p] = remaining(p)]
  <2>1. remaining(p) \in Nat \ {0} /\ cum_filled[p] + remaining(p) = Want[p]
    BY <1>2, ParentNumbers DEF ParentInv, remaining
  <2>2. open_qty' = [open_qty EXCEPT ![p] = open_qty'[p]] /\ open_qty'[p] = remaining(p)
    BY <1>3, <2>1, SameNumbers
  <2>3. stage'[Owner[p]].op = "emitted"
    BY <1>3, AtStepNext DEF EntrySteps
  <2>4. ParentInv(p)'
    BY <1>1, <1>2, <2>1, <2>2, <2>3, ParentNumbers DEF ParentInv
  <2>5. /\ cum_filled' = [cum_filled EXCEPT ![p] = cum_filled'[p]] /\ cum_filled'[p] \in Nat
        /\ order' = [order EXCEPT ![p] = order'[p]]
        /\ order'[p] \in [live: BOOLEAN, left: Nat, unseen: Nat]
    BY <1>1, SameNumbers
  <2>6. BookInv'
    BY <1>3, <2>1, <2>2, <2>4, <2>5, EntryMoves DEF EntrySteps
  <2> QED BY <1>1, <2>6
<1>4. CASE GoTo(s, At("refused", p)) /\ UNCHANGED open_qty
  <2>1. stage'[Owner[p]].op = "refused"
    BY <1>4, AtStepNext DEF EntrySteps
  <2>2. ParentInv(p)'
    BY <1>1, <1>2, <1>4, <2>1, ParentNumbers DEF ParentInv
  <2>3. BookInv'
    BY <1>1, <1>4, <2>2, SameNumbers, EntryMoves DEF EntrySteps
  <2> QED BY <1>1, <2>3
<1> QED BY <1>3, <1>4 DEF EmitChild

\* The recheck passes, or the child is closed again.
LEMMA RecheckStep ==
  ASSUME SleeveInv, NEW s \in Sleeves, NEW p \in Parents, Owner[p] = s, Recheck(s, p)
  PROVE  BookInv' /\ [LedgerNext]_lvars
<1>1. EntryOf(p) /\ stage[Owner[p]].op = "emitted" /\ UNCHANGED <<cum_filled, order>>
  BY AtStep DEF Recheck, EntrySteps, broker
<1>2. [LedgerNext]_lvars
  BY DEF Recheck, LedgerNext
<1>3. CASE GoTo(s, At("rechecked", p)) /\ UNCHANGED open_qty
  <2>1. stage'[Owner[p]].op = "rechecked"
    BY <1>3, AtStepNext DEF EntrySteps
  <2>2. ParentInv(p)'
    BY <1>1, <1>3, <2>1, ParentNumbers DEF ParentInv
  <2>3. BookInv'
    BY <1>1, <1>3, <2>2, SameNumbers, EntryMoves DEF EntrySteps
  <2> QED BY <1>2, <2>3
<1>4. CASE GoTo(s, At("halted", p)) /\ open_qty' = [open_qty EXCEPT ![p] = 0]
  <2>1. open_qty' = [open_qty EXCEPT ![p] = open_qty'[p]] /\ open_qty'[p] = 0
    BY <1>4, SameNumbers
  <2>2. ParentInv(p)'
    <3>1. stage'[Owner[p]].op = "halted"
      BY <1>4, AtStepNext DEF EntrySteps
    <3> QED BY <1>1, <2>1, <3>1, ParentNumbers DEF ParentInv
  <2>3. /\ cum_filled' = [cum_filled EXCEPT ![p] = cum_filled'[p]] /\ cum_filled'[p] \in Nat
        /\ order' = [order EXCEPT ![p] = order'[p]]
        /\ order'[p] \in [live: BOOLEAN, left: Nat, unseen: Nat]
    BY <1>1, SameNumbers
  <2>4. open_qty' = [open_qty EXCEPT ![p] = open_qty'[p]] /\ open_qty'[p] \in Nat
    BY <2>1
  <2>5. GoTo(s, At("halted", p)) /\ "halted" \in EntrySteps
    BY <1>4 DEF EntrySteps
  <2>6. BookInv'
    BY <2>2, <2>3, <2>4, <2>5, EntryMoves
  <2> QED BY <1>2, <2>6
<1> QED BY <1>3, <1>4 DEF Recheck

\* The order works at the broker for the whole child, or the child is closed again.
LEMMA PortSubmitsStep ==
  ASSUME SleeveInv, NEW s \in Sleeves, NEW p \in Parents, Owner[p] = s, PortSubmits(s, p)
  PROVE  BookInv' /\ [LedgerNext]_lvars
<1>1. EntryOf(p) /\ stage[Owner[p]].op = "rechecked" /\ UNCHANGED <<lvars, cum_filled>>
  BY AtStep DEF PortSubmits, EntrySteps
<1>2. cum_filled' = [cum_filled EXCEPT ![p] = cum_filled'[p]] /\ cum_filled'[p] \in Nat
  BY <1>1, SameNumbers
<1>3. ~order[p].live /\ order[p].unseen = 0 /\ open_qty[p] > 0
  BY <1>1, ParentNumbers DEF ParentInv
<1>4. CASE /\ order' = [order EXCEPT ![p] =
                          [live |-> TRUE, left |-> open_qty[p], unseen |-> 0]]
           /\ GoTo(s, IdleStage) /\ UNCHANGED open_qty
  <2>1. order'[p] = [live |-> TRUE, left |-> open_qty[p], unseen |-> 0]
        /\ order' = [order EXCEPT ![p] = order'[p]]
    BY <1>4 DEF SleeveInv, ShapeInv
  <2>2. ~EntryOf(p)'
    BY <1>4 DEF GoTo, IdleStage, EntryOf, InEntry, EntrySteps, SleeveInv, ShapeInv
  <2>3. ParentInv(p)'
    BY <1>1, <1>3, <1>4, <2>1, <2>2, ParentNumbers DEF ParentInv
  <2>4. order'[p] \in [live: BOOLEAN, left: Nat, unseen: Nat]
    BY <2>1, ParentNumbers
  <2>5. open_qty' = [open_qty EXCEPT ![p] = open_qty'[p]] /\ open_qty'[p] \in Nat
    BY <1>4, SameNumbers
  <2>6. BookInv'
    BY <1>2, <1>4, <2>1, <2>3, <2>4, <2>5, EntryMoves
  <2> QED BY <1>1, <2>6
<1>5. CASE GoTo(s, At("refused", p)) /\ open_qty' = [open_qty EXCEPT ![p] = 0]
           /\ UNCHANGED order
  <2>1. open_qty' = [open_qty EXCEPT ![p] = open_qty'[p]] /\ open_qty'[p] = 0
    BY <1>5, SameNumbers
  <2>2. stage'[Owner[p]].op = "refused"
    BY <1>5, AtStepNext DEF EntrySteps
  <2>3. ParentInv(p)'
    BY <1>1, <1>3, <1>5, <2>1, <2>2, ParentNumbers DEF ParentInv
  <2>4. order' = [order EXCEPT ![p] = order'[p]]
        /\ order'[p] \in [live: BOOLEAN, left: Nat, unseen: Nat]
    BY <1>5, SameNumbers
  <2>5. open_qty' = [open_qty EXCEPT ![p] = open_qty'[p]] /\ open_qty'[p] \in Nat
    BY <2>1
  <2>6. GoTo(s, At("refused", p)) /\ "refused" \in EntrySteps
    BY <1>5 DEF EntrySteps
  <2>7. BookInv'
    BY <1>2, <2>3, <2>4, <2>5, <2>6, EntryMoves
  <2> QED BY <1>1, <2>7
<1> QED BY <1>4, <1>5 DEF PortSubmits, SubmitRaises

\* The reservation of a refused entry is given back.
LEMMA ReleaseEntryStep ==
  ASSUME SleeveInv, NEW s \in Sleeves, NEW p \in Parents, Owner[p] = s, ReleaseEntry(s, p)
  PROVE  BookInv' /\ [LedgerNext]_lvars
<1>1. [LedgerNext]_lvars
  <2>1. CASE p \in Active
    BY <2>1 DEF ReleaseEntry, LedgerNext, Release
  <2>2. CASE p \notin Active
    <3>1. rows' = rows
      BY <2>2 DEF ReleaseEntry, Released, Active, SleeveInv, LedgerTypeOK
    <3> QED BY <3>1 DEF ReleaseEntry, lvars
  <2> QED BY <2>1, <2>2
<1>2. GoTo(s, IdleStage) /\ UNCHANGED <<cum_filled, open_qty, order>>
  BY DEF ReleaseEntry, bookvars
<1>3. ~EntryOf(p)'
  BY <1>2 DEF GoTo, IdleStage, EntryOf, InEntry, EntrySteps, SleeveInv, ShapeInv
<1>4. ParentInv(p)'
  BY <1>2, <1>3, ParentNumbers DEF ParentInv
<1>5. BookInv'
  BY <1>2, <1>4, SameNumbers, EntryMoves
<1> QED BY <1>1, <1>5

-----------------------------------------------------------------------------
\* The book learns no more fills than it had working.
LEMMA LearnStep ==
  ASSUME SleeveInv, NEW p \in Parents, Learn(p), UNCHANGED stage, ~EntryOf(p),
         IsReconciling(Owner[p]) => ~order[p].live /\ open_qty[p] > 0
  PROVE  BookInv' /\ [LedgerNext]_lvars
<1> DEFINE still == IF order[p].live THEN open_qty[p] - order[p].unseen ELSE 0
<1>1. still \in Nat /\ cum_filled[p] + order[p].unseen \in Nat
      /\ (order[p].live => still = order[p].left)
  BY ParentNumbers DEF ParentInv
<1>2. /\ cum_filled' = [cum_filled EXCEPT ![p] = cum_filled[p] + order[p].unseen]
      /\ open_qty' = [open_qty EXCEPT ![p] = still]
      /\ order' = [order EXCEPT ![p].unseen = 0]
  BY DEF Learn
<1>3. /\ cum_filled'[p] = cum_filled[p] + order[p].unseen
      /\ open_qty'[p] = still
      /\ order'[p] = [order[p] EXCEPT !.unseen = 0]
  BY <1>2 DEF SleeveInv, ShapeInv
<1>4. ~EntryOf(p)'
  BY DEF EntryOf, InEntry
<1>5. ParentInv(p)'
  BY <1>1, <1>3, <1>4, ParentNumbers DEF ParentInv
<1>6. /\ cum_filled' = [cum_filled EXCEPT ![p] = cum_filled'[p]] /\ cum_filled'[p] \in Nat
      /\ open_qty' = [open_qty EXCEPT ![p] = open_qty'[p]] /\ open_qty'[p] \in Nat
  BY <1>1, <1>2, <1>3
<1>7. order' = [order EXCEPT ![p] = order'[p]]
  BY <1>2 DEF SleeveInv, ShapeInv
<1>8. order'[p] \in [live: BOOLEAN, left: Nat, unseen: Nat]
  BY <1>3, ParentNumbers
<1>r. RecallInv(p)'
  <2>1. CASE ~IsReconciling(Owner[p])
    BY <2>1 DEF RecallInv, IsReconciling
  <2>2. CASE IsReconciling(Owner[p])
    <3>1. /\ stage[Owner[p]].saved.cum_filled[p] = cum_filled[p]
          /\ stage[Owner[p]].saved.open_qty[p] = open_qty[p]
      BY <2>2 DEF SleeveInv, RecallInv
    <3>2. cum_filled[p] + open_qty[p] = Want[p] /\ open_qty[p] \in Nat \ {0}
      BY <2>2, ParentNumbers DEF ParentInv
    <3>3. cum_filled[p] \in 0..cum_filled'[p] /\ open_qty'[p] = 0
          /\ order'[p].live = FALSE /\ order'[p].unseen = 0
      BY <2>2, <1>3, ParentNumbers
    <3> QED BY <3>1, <3>2, <3>3 DEF RecallInv
  <2> QED BY <2>1, <2>2
<1>9. BookInv'
  BY <1>5, <1>6, <1>7, <1>8, <1>r, NumbersMove
<1>10. [LedgerNext]_lvars
  <2>1. CASE still = 0 /\ p \in Active
    BY <2>1 DEF Learn, LedgerNext, Release
  <2>2. CASE still = 0 /\ p \notin Active
    <3>1. rows' = rows
      BY <2>2 DEF Learn, Released, Active, SleeveInv, LedgerTypeOK
    <3> QED BY <3>1 DEF Learn, lvars
  <2>3. CASE still # 0
    BY <2>3 DEF Learn, lvars
  <2> QED BY <2>1, <2>2, <2>3
<1> QED BY <1>9, <1>10

\* What the broker does to an order.
LEMMA BrokerStep ==
  ASSUME SleeveInv, NEW p \in Parents,
         (\E k \in Amount : BrokerFills(p, k)) \/ BrokerCloses(p)
  PROVE  BookInv' /\ [LedgerNext]_lvars
<1>0. ~EntryOf(p) /\ order[p].live
  BY ParentNumbers DEF ParentInv, BrokerFills, BrokerCloses
<1>1. ASSUME NEW k \in Amount, BrokerFills(p, k)
      PROVE  BookInv' /\ [LedgerNext]_lvars
  <2>1. k \in Nat \ {0} /\ k <= order[p].left /\ k <= broker_cash
        /\ UNCHANGED <<cum_filled, open_qty, stage>>
    BY <1>1, LedgerAssumption DEF BrokerFills, Amount, bookvars
  <2>2. order'[p] = [live |-> k < order[p].left, left |-> order[p].left - k,
                     unseen |-> order[p].unseen + k]
        /\ order' = [order EXCEPT ![p] = order'[p]]
    BY <1>1 DEF BrokerFills, SleeveInv, ShapeInv
  <2>3. ~EntryOf(p)'
    BY <1>0, <2>1 DEF EntryOf, InEntry
  <2>4. ParentInv(p)'
    <3>1. order'[p].left = order[p].left - k /\ order'[p].unseen = order[p].unseen + k
      BY <2>2
    <3>2. cum_filled'[p] = cum_filled[p] /\ open_qty'[p] = open_qty[p]
      BY <2>1
    <3>3. CASE k = order[p].left
      <4>1. (k < order[p].left) = FALSE
        BY <3>3, <2>1, ParentNumbers
      <4>2. order'[p] = [live |-> FALSE, left |-> order[p].left - k,
                         unseen |-> order[p].unseen + k]
        BY <2>2, <4>1, Zenon
      <4>3. order'[p].live = FALSE
        BY <4>2
      <4> QED BY <1>0, <2>1, <2>3, <3>1, <3>2, <3>3, <4>3, ParentNumbers DEF ParentInv
    <3>4. CASE k < order[p].left
      <4>1. (k < order[p].left) = TRUE
        BY <3>4
      <4>2. order'[p] = [live |-> TRUE, left |-> order[p].left - k,
                         unseen |-> order[p].unseen + k]
        BY <2>2, <4>1, Zenon
      <4>3. order'[p].live = TRUE
        BY <4>2
      <4> QED BY <1>0, <2>1, <2>3, <3>1, <3>2, <3>4, <4>3, ParentNumbers DEF ParentInv
    <3> QED BY <2>1, <3>3, <3>4, ParentNumbers
  <2>5. order'[p] \in [live: BOOLEAN, left: Nat, unseen: Nat]
    BY <2>1, <2>2, ParentNumbers
  <2>s. /\ cum_filled' = [cum_filled EXCEPT ![p] = cum_filled'[p]] /\ cum_filled'[p] \in Nat
        /\ open_qty' = [open_qty EXCEPT ![p] = open_qty'[p]] /\ open_qty'[p] \in Nat
    BY <2>1, SameNumbers
  <2>r. RecallInv(p)'
    BY <1>0, <2>1, RecallStays
  <2>6. BookInv'
    BY <2>1, <2>2, <2>4, <2>5, <2>r, <2>s, NumbersMove
  <2>7. broker_cash - k \in 0..MaxCash
    BY <2>1, LedgerAssumption DEF SleeveInv, LedgerTypeOK
  <2>8. [LedgerNext]_lvars
    BY <1>1, <2>7 DEF BrokerFills, LedgerNext
  <2> QED BY <2>6, <2>8
<1>2. ASSUME BrokerCloses(p)
      PROVE  BookInv' /\ [LedgerNext]_lvars
  <2>1. UNCHANGED <<lvars, cum_filled, open_qty, stage>>
    BY <1>2 DEF BrokerCloses, bookvars
  <2>2. order'[p] = [live |-> FALSE, left |-> 0, unseen |-> order[p].unseen]
        /\ order' = [order EXCEPT ![p] = order'[p]]
    BY <1>2 DEF BrokerCloses, SleeveInv, ShapeInv
  <2>3. ~EntryOf(p)'
    BY <1>0, <2>1 DEF EntryOf, InEntry
  <2>4. ParentInv(p)'
    <3>1. /\ order'[p].live = FALSE /\ order'[p].unseen = order[p].unseen
          /\ cum_filled'[p] = cum_filled[p] /\ open_qty'[p] = open_qty[p]
      BY <2>1, <2>2
    <3> QED BY <1>0, <2>3, <3>1, ParentNumbers DEF ParentInv
  <2>5. order'[p] \in [live: BOOLEAN, left: Nat, unseen: Nat]
    BY <2>2, ParentNumbers
  <2>s. /\ cum_filled' = [cum_filled EXCEPT ![p] = cum_filled'[p]] /\ cum_filled'[p] \in Nat
        /\ open_qty' = [open_qty EXCEPT ![p] = open_qty'[p]] /\ open_qty'[p] \in Nat
    BY <2>1, SameNumbers
  <2>r. RecallInv(p)'
    BY <1>0, <2>1, RecallStays
  <2>6. BookInv'
    BY <2>1, <2>2, <2>4, <2>5, <2>r, <2>s, NumbersMove
  <2> QED BY <2>1, <2>6
<1> QED BY <1>1, <1>2

-----------------------------------------------------------------------------
\* A thread that enters nothing moves; the parents stay as they are.
LEMMA OtherMoves ==
  ASSUME SleeveInv, NEW s \in Sleeves, NEW x, GoTo(s, x), x.op \notin EntrySteps,
         x.op = "resolving" =>
           DOMAIN x.view \subseteq Parents /\ x.unknown \subseteq Parents \cup Strangers,
         UNCHANGED <<cum_filled, open_qty, order>>,
         \A q \in OwnedBy(s) : RecallInv(q)'
  PROVE  BookInv'
<1>1. x.op \in EntrySteps => x.p \in Parents /\ Owner[x.p] = s
  OBVIOUS
<1>2. /\ stage' = [t \in Sleeves |-> stage'[t]]
      /\ \A t \in Sleeves : StageInv(t)'
      /\ \A q \in Parents :
           /\ EntryOf(q)' => IF Owner[q] = s THEN x.op \in EntrySteps /\ x.p = q
                             ELSE EntryOf(q) /\ stage'[Owner[q]] = stage[Owner[q]]
           /\ stage'[Owner[q]] = IF Owner[q] = s THEN x ELSE stage[Owner[q]]
  BY <1>1, ThreadMoves
<1>3. ShapeInv'
  BY <1>2 DEF SleeveInv, ShapeInv
<1>4. ASSUME NEW q \in Parents PROVE ParentInv(q)' /\ RecallInv(q)'
  <2>1. EntryOf(q)' => EntryOf(q) /\ stage'[Owner[q]] = stage[Owner[q]]
    BY <1>2
  <2>2. ParentInv(q)'
    BY <2>1, ParentStays
  <2>3. CASE Owner[q] = s
    BY <2>2, <2>3 DEF OwnedBy
  <2>4. CASE Owner[q] # s
    BY <1>2, <2>2, <2>4, RecallStays
  <2> QED BY <2>3, <2>4
<1> QED BY <1>2, <1>3, <1>4 DEF BookInv

\* A thread that dies in an entry leaves a parent with nothing working in its book.
LEMMA EntryDies ==
  ASSUME SleeveInv, NEW s \in Sleeves, NEW p \in Parents, Owner[p] = s, EntryOf(p),
         GoTo(s, [op |-> "crashed"]), UNCHANGED <<cum_filled, order>>,
         open_qty' = [open_qty EXCEPT ![p] = 0]
  PROVE  BookInv'
<1>1. /\ stage' = [t \in Sleeves |-> stage'[t]]
      /\ \A t \in Sleeves : StageInv(t)'
      /\ \A q \in Parents :
           /\ EntryOf(q)' => Owner[q] # s /\ EntryOf(q) /\ stage'[Owner[q]] = stage[Owner[q]]
           /\ IsReconciling(Owner[q])' => stage'[Owner[q]] = stage[Owner[q]]
           /\ Owner[q] = s => ~IsReconciling(Owner[q])'
  <2>1. [op |-> "crashed"].op \notin EntrySteps \cup {"resolving", "swept"}
    BY DEF EntrySteps
  <2> QED BY <2>1, ThreadMoves DEF IsReconciling
<1>2. ShapeInv'
  BY <1>1 DEF SleeveInv, ShapeInv
<1>3. ASSUME NEW q \in Parents PROVE ParentInv(q)' /\ RecallInv(q)'
  <2>1. CASE q = p
    <3>1. open_qty'[p] = 0 /\ cum_filled'[p] = cum_filled[p] /\ order'[p] = order[p]
      BY DEF SleeveInv, ShapeInv
    <3>2. ~EntryOf(p)' /\ ~IsReconciling(Owner[p])'
      BY <1>1
    <3>3. RecallInv(p)'
      BY <3>2 DEF RecallInv, IsReconciling
    <3> QED BY <2>1, <3>1, <3>2, <3>3, ParentNumbers DEF ParentInv
  <2>2. CASE q # p
    <3>1. open_qty'[q] = open_qty[q] /\ cum_filled'[q] = cum_filled[q] /\ order'[q] = order[q]
      BY <2>2 DEF SleeveInv, ShapeInv
    <3> QED BY <1>1, <3>1, ParentStays, RecallStays
  <2> QED BY <2>1, <2>2
<1> QED BY <1>1, <1>2, <1>3 DEF BookInv

\* A crash forgets the child of the entry in progress, which the broker has no order for.
LEMMA CrashStep ==
  ASSUME SleeveInv, NEW s \in Sleeves, CrashSleeve(s), ~IsReconciling(s)
  PROVE  BookInv' /\ [LedgerNext]_lvars
<1>1. GoTo(s, [op |-> "crashed"]) /\ UNCHANGED <<lvars, cum_filled, order>>
  BY DEF CrashSleeve
<1>2. CASE ~InEntry(s)
  <2> DEFINE x == [op |-> "crashed"]
  <2>1. UNCHANGED open_qty
    BY <1>2 DEF CrashSleeve
  <2>2. GoTo(s, x) /\ x.op \notin EntrySteps /\ x.op \notin {"resolving", "swept"}
    BY <1>1 DEF EntrySteps
  <2> HIDE DEF x
  <2>3. ASSUME NEW q \in OwnedBy(s) PROVE RecallInv(q)'
    <3>1. q \in Parents /\ Owner[q] = s
      BY DEF OwnedBy
    <3>2. stage'[s] = x
      BY <2>2, ThreadMoves
    <3> QED BY <2>2, <3>1, <3>2 DEF RecallInv, IsReconciling
  <2>4. BookInv'
    BY <1>1, <2>1, <2>2, <2>3, OtherMoves
  <2> QED BY <1>1, <2>4
<1>3. CASE InEntry(s)
  <2>0. PICK p \in Parents : p = stage[s].p /\ Owner[p] = s
    BY <1>3 DEF SleeveInv, StageInv
  <2>1. EntryOf(p)
    BY <1>3, <2>0 DEF EntryOf
  <2>2. open_qty' = [open_qty EXCEPT ![p] = 0]
    BY <1>3, <2>0 DEF CrashSleeve
  <2> QED BY <1>1, <2>0, <2>1, <2>2, EntryDies
<1> QED BY <1>2, <1>3

\* The book forgets an order the broker has accepted.
LEMMA DiesAfterAcceptStep ==
  ASSUME SleeveInv, NEW s \in Sleeves, NEW p \in Parents, Owner[p] = s, DiesAfterAccept(s, p)
  PROVE  BookInv' /\ [LedgerNext]_lvars
<1>1. EntryOf(p)
  BY AtStep DEF DiesAfterAccept, EntrySteps
<1>2. /\ GoTo(s, [op |-> "crashed"]) /\ UNCHANGED <<lvars, cum_filled, order>>
      /\ open_qty' = [open_qty EXCEPT ![p] = 0]
  BY DEF DiesAfterAccept
<1> QED BY <1>1, <1>2, EntryDies

\* A crash in a reconcile gives back what the snapshot had, and the broker's fills that
\* the reconcile had learned are unseen again.
LEMMA ReconcileCrashStep ==
  ASSUME SleeveInv, NEW s \in Sleeves, CrashSleeve(s), IsReconciling(s)
  PROVE  BookInv' /\ [LedgerNext]_lvars
<1> DEFINE x == [op |-> "crashed"]
           saved == stage[s].saved
<1>1. /\ GoTo(s, x) /\ UNCHANGED lvars
      /\ cum_filled' = [p \in Parents |->
           IF p \in OwnedBy(s) THEN saved.cum_filled[p] ELSE cum_filled[p]]
      /\ open_qty' = [p \in Parents |->
           IF p \in OwnedBy(s) THEN saved.open_qty[p] ELSE open_qty[p]]
      /\ order' = [p \in Parents |->
           IF p \in OwnedBy(s)
           THEN [order[p] EXCEPT !.unseen = @ + cum_filled[p] - saved.cum_filled[p]]
           ELSE order[p]]
  BY DEF CrashSleeve
<1>2. x.op \notin EntrySteps /\ x.op \notin {"resolving", "swept"}
  BY DEF EntrySteps
<1> HIDE DEF x
<1>3. /\ stage' = [t \in Sleeves |-> stage'[t]]
      /\ \A t \in Sleeves : StageInv(t)'
      /\ \A q \in Parents :
           /\ EntryOf(q)' => Owner[q] # s /\ EntryOf(q) /\ stage'[Owner[q]] = stage[Owner[q]]
           /\ stage'[Owner[q]] = IF Owner[q] = s THEN x ELSE stage[Owner[q]]
  BY <1>1, <1>2, ThreadMoves
<1>4. ASSUME NEW q \in Parents, Owner[q] # s
      PROVE  ParentInv(q)' /\ RecallInv(q)' /\ cum_filled'[q] \in Nat /\ open_qty'[q] \in Nat
             /\ order'[q] \in [live: BOOLEAN, left: Nat, unseen: Nat]
  <2>1. cum_filled'[q] = cum_filled[q] /\ open_qty'[q] = open_qty[q] /\ order'[q] = order[q]
    BY <1>1, <1>4 DEF OwnedBy
  <2> QED BY <1>3, <1>4, <2>1, ParentStays, RecallStays, ParentNumbers
<1>5. ASSUME NEW q \in Parents, Owner[q] = s
      PROVE  ParentInv(q)' /\ RecallInv(q)' /\ cum_filled'[q] \in Nat /\ open_qty'[q] \in Nat
             /\ order'[q] \in [live: BOOLEAN, left: Nat, unseen: Nat]
  <2>1. /\ cum_filled'[q] = saved.cum_filled[q] /\ open_qty'[q] = saved.open_qty[q]
        /\ order'[q] = [order[q] EXCEPT !.unseen = @ + cum_filled[q] - saved.cum_filled[q]]
    BY <1>1, <1>5 DEF OwnedBy
  <2>2. /\ order'[q].live = order[q].live /\ order'[q].left = order[q].left
        /\ order'[q].unseen = order[q].unseen + cum_filled[q] - saved.cum_filled[q]
    BY <2>1, ParentNumbers
  <2>3. ~EntryOf(q)' /\ ~IsReconciling(Owner[q])'
    BY <1>2, <1>3, <1>5 DEF IsReconciling
  <2>4. RecallInv(q)'
    BY <2>3 DEF RecallInv, IsReconciling
  <2>5. CASE saved.cum_filled[q] = cum_filled[q] /\ saved.open_qty[q] = open_qty[q]
    <3>1. /\ cum_filled'[q] = cum_filled[q] /\ open_qty'[q] = open_qty[q]
          /\ order'[q].unseen = order[q].unseen
      BY <2>1, <2>2, <2>5, ParentNumbers
    <3>2. ParentInv(q)'
      BY <2>2, <2>3, <3>1, ParentNumbers DEF ParentInv
    <3>3. order'[q] \in [live: BOOLEAN, left: Nat, unseen: Nat]
      BY <2>1, <2>2, <3>1, ParentNumbers
    <3> QED BY <2>4, <3>1, <3>2, <3>3, ParentNumbers
  <2>6. CASE /\ ~order[q].live /\ order[q].unseen = 0 /\ open_qty[q] = 0
             /\ saved.cum_filled[q] \in 0..cum_filled[q]
             /\ saved.open_qty[q] \in Nat \ {0}
             /\ saved.cum_filled[q] + saved.open_qty[q] = Want[q]
    <3>1. order'[q].unseen \in Nat /\ order'[q].unseen <= open_qty'[q]
          /\ cum_filled'[q] \in Nat /\ open_qty'[q] \in Nat
      BY <2>1, <2>2, <2>6, ParentNumbers DEF ParentInv
    <3>2. ParentInv(q)'
      BY <2>1, <2>2, <2>3, <2>6, <3>1, ParentNumbers DEF ParentInv
    <3>3. order'[q] \in [live: BOOLEAN, left: Nat, unseen: Nat]
      BY <2>1, <2>2, <3>1, ParentNumbers
    <3> QED BY <2>4, <3>1, <3>2, <3>3
  <2> QED BY <1>5, <2>5, <2>6, ParentNumbers DEF RecallInv
<1>6. ShapeInv'
  BY <1>1, <1>3, <1>4, <1>5 DEF ShapeInv
<1> QED BY <1>1, <1>3, <1>4, <1>5, <1>6 DEF BookInv

\* The steps of a restart between its reads and its verdict.
LEMMA ReconcileStep ==
  ASSUME SleeveInv, NEW s \in Sleeves,
         (\E manual \in SUBSET Strangers : BeginReconcile(s, manual))
           \/ SweepLedger(s) \/ EndReconcile(s)
  PROVE  BookInv' /\ [LedgerNext]_lvars
<1>1. ASSUME NEW manual \in SUBSET Strangers, BeginReconcile(s, manual)
      PROVE  BookInv' /\ [LedgerNext]_lvars
  <2> DEFINE x == [op |-> "resolving",
                   view |-> [p \in OwnedBy(s) \cap Live |-> order[p].left],
                   unknown |-> (Live \ OwnedBy(s)) \cup {p \in Parents : stray[p].left > 0}
                                 \cup manual,
                   saved |-> [cum_filled |-> [p \in OwnedBy(s) |-> cum_filled[p]],
                              open_qty |-> [p \in OwnedBy(s) |-> open_qty[p]],
                              halted |-> book_halted[s]]]
  <2>1. GoTo(s, x) /\ UNCHANGED <<lvars, cum_filled, open_qty, order>>
    BY <1>1 DEF BeginReconcile, bookvars, broker
  <2>2. /\ x.op \notin EntrySteps
        /\ DOMAIN x.view \subseteq Parents /\ x.unknown \subseteq Parents \cup Strangers
    BY DEF EntrySteps, Live, OwnedBy
  <2>3. /\ \A q \in OwnedBy(s) : x.saved.cum_filled[q] = cum_filled[q]
                                 /\ x.saved.open_qty[q] = open_qty[q]
        /\ DOMAIN x.view = OwnedBy(s) \cap Live
    OBVIOUS
  <2> HIDE DEF x
  <2>4. ASSUME NEW q \in OwnedBy(s) PROVE RecallInv(q)'
    <3>1. q \in Parents /\ Owner[q] = s /\ stage'[s] = x
      BY <2>1, <2>2, ThreadMoves DEF OwnedBy
    <3> QED BY <2>1, <2>3, <3>1 DEF RecallInv, Live
  <2> QED BY <2>1, <2>2, <2>4, OtherMoves
<1>2. CASE SweepLedger(s)
  <2> DEFINE x == [op |-> "swept", matches |-> ViewMatchesBook(s), saved |-> stage[s].saved]
  <2>1. GoTo(s, x) /\ UNCHANGED <<cum_filled, open_qty, order>> /\ stage[s].op = "resolving"
    BY <1>2 DEF SweepLedger, AfterSweep, bookvars, broker
  <2>2. x.op \notin EntrySteps /\ x.op # "resolving" /\ x.saved = stage[s].saved
    BY DEF EntrySteps
  <2>3. Sweep(Listed(s), Inflight(s)) /\ Listed(s) \subseteq Parents \cup Strangers
    BY <1>2, <2>1 DEF SweepLedger, SleeveInv, StageInv, Listed
  <2>4. Inflight(s) \in SUBSET Parents
    BY DEF Inflight, OwnedBy
  <2> HIDE DEF x
  <2>5. LedgerNext
    BY <2>3, <2>4 DEF LedgerNext
  <2>6. ASSUME NEW q \in OwnedBy(s) PROVE RecallInv(q)'
    <3>1. q \in Parents /\ Owner[q] = s /\ stage'[s] = x
      BY <2>1, <2>2, ThreadMoves DEF OwnedBy
    <3>2. RecallInv(q)
      BY <3>1, ParentNumbers
    <3> QED BY <2>1, <2>2, <3>1, <3>2 DEF RecallInv, IsReconciling
  <2> QED BY <2>1, <2>2, <2>5, <2>6, OtherMoves
<1>3. CASE EndReconcile(s)
  <2>1. GoTo(s, IdleStage) /\ UNCHANGED <<cum_filled, open_qty, order>>
    BY <1>3 DEF EndReconcile, bookvars, broker
  <2>2. IdleStage.op \notin EntrySteps /\ IdleStage.op \notin {"resolving", "swept"}
    BY DEF EntrySteps, IdleStage
  <2>3. [LedgerNext]_lvars
    BY <1>3 DEF EndReconcile, LedgerNext
  <2>4. ASSUME NEW q \in OwnedBy(s) PROVE RecallInv(q)'
    <3>1. Owner[q] = s /\ stage'[s] = IdleStage
      BY <2>1, <2>2, ThreadMoves DEF OwnedBy
    <3> QED BY <2>2, <3>1 DEF RecallInv, IsReconciling
  <2> QED BY <2>1, <2>2, <2>3, <2>4, OtherMoves
<1> QED BY <1>1, <1>2, <1>3

\* Steps that touch neither a book nor an order a book knows.
LEMMA OutsideStep ==
  ASSUME SleeveInv,
         \/ \E p \in Parents, k \in Amount : StrayFills(p, k)
         \/ \E p \in Parents : StrayCloses(p)
         \/ \E k \in Amount : CashLeaves(k)
         \/ OperatorClears
         \/ TimePasses
         \/ UNCHANGED evars
  PROVE  BookInv' /\ [LedgerNext]_lvars
<1>1. UNCHANGED <<cum_filled, open_qty, order, stage>>
  BY DEF StrayFills, StrayCloses, CashLeaves, OperatorClears, TimePasses, evars, bookvars,
         broker
<1>2. BookInv'
  <2>1. ShapeInv' /\ \A s \in Sleeves : StageInv(s)'
    BY <1>1 DEF SleeveInv, ShapeInv, StageInv, InEntry
  <2>2. \A p \in Parents : ParentInv(p)' /\ RecallInv(p)'
    BY <1>1 DEF SleeveInv, ParentInv, RecallInv, EntryOf, InEntry, IsReconciling
  <2> QED BY <2>1, <2>2 DEF BookInv
<1>3. ASSUME NEW k \in Amount, k <= broker_cash, CashMoves(broker_cash - k)
      PROVE  LedgerNext
  <2>1. broker_cash - k \in 0..MaxCash
    BY <1>3, LedgerAssumption DEF Amount, SleeveInv, LedgerTypeOK
  <2> QED BY <1>3, <2>1 DEF LedgerNext
<1>4. CASE \/ \E p \in Parents, k \in Amount : StrayFills(p, k)
           \/ \E k \in Amount : CashLeaves(k)
  BY <1>2, <1>3, <1>4 DEF StrayFills, CashLeaves
<1>5. CASE OperatorClears \/ TimePasses
  BY <1>2, <1>5 DEF OperatorClears, TimePasses, LedgerNext
<1>6. CASE (\E p \in Parents : StrayCloses(p)) \/ UNCHANGED evars
  BY <1>2, <1>6 DEF StrayCloses, evars
<1> QED BY <1>4, <1>5, <1>6

\* One step of the sleeves is one step of the ledger, or none.
LEMMA SleeveStepInv ==
  SleeveInv /\ [SleeveNext]_evars => SleeveInv' /\ [LedgerNext]_lvars
<1> SUFFICES ASSUME SleeveInv, [SleeveNext]_evars PROVE SleeveInv' /\ [LedgerNext]_lvars
  OBVIOUS
<1>1. ASSUME NEW s \in Sleeves, NEW p \in Parents, SleeveStep(s, p)
      PROVE  BookInv' /\ [LedgerNext]_lvars
  <2>1. Owner[p] = s
    BY <1>1 DEF SleeveStep
  <2>2. CASE Observe(s, p)
    <3>1. ~EntryOf(p)
      BY <2>1, <2>2 DEF Observe, IsIdle, IdleStage, EntryOf, InEntry, EntrySteps
    <3>2. ~IsReconciling(Owner[p])
      BY <2>1, <2>2 DEF Observe, IsIdle, IdleStage, IsReconciling
    <3> QED BY <2>2, <3>1, <3>2, LearnStep DEF Observe
  <2>3. CASE ResolveChild(s, p)
    <3>1. ~EntryOf(p)
      BY <2>1, <2>3 DEF ResolveChild, EntryOf, InEntry, EntrySteps
    <3>2. stage[Owner[p]].op = "resolving" /\ p \notin DOMAIN stage[Owner[p]].view
          /\ open_qty[p] > 0
      BY <2>1, <2>3 DEF ResolveChild, Unlisted
    <3>3. ~order[p].live
      BY <3>2, ParentNumbers DEF RecallInv
    <3> QED BY <2>3, <3>1, <3>2, <3>3, LearnStep DEF ResolveChild
  <2> QED BY <1>1, <2>1, <2>2, <2>3, BeginEntryStep, EntryRefusedStep, EmitChildStep,
             RecheckStep, PortSubmitsStep, ReleaseEntryStep, DiesAfterAcceptStep
          DEF SleeveStep
<1>2. BookInv' /\ [LedgerNext]_lvars
  BY <1>1, CrashStep, ReconcileCrashStep, ReconcileStep, BrokerStep, OutsideStep
     DEF SleeveNext
<1>3. LedgerTypeOK'
  BY <1>2, LedgerNextType DEF SleeveInv
<1> QED BY <1>2, <1>3 DEF SleeveInv, BookInv

\* Whatever the sleeves do between their transactions, what they do to the ledger is a
\* behaviour of the ledger's own specification: the sleeves implement it.
THEOREM SleevesImplementLedger == SleeveSpec => ImplementsLedger
<1>1. SleeveInit => LedgerInit
  BY DEF SleeveInit
<1> QED BY <1>1, SleeveInitInv, SleeveStepInv, PTL DEF SleeveSpec, ImplementsLedger, LedgerSpec

\* The accounting between every sleeve's book and the broker's orders.
THEOREM SleeveBookkeeping == SleeveSpec => []SleeveInv
BY SleeveInitInv, SleeveStepInv, PTL DEF SleeveSpec

\* On an account shared by any number of sleeves no cash is promised twice while both
\* promises count.
THEOREM SleevesReserveOnlyFreeCash == SleeveSpec => ReservesOnlyFreeCash
BY SleevesImplementLedger, LedgerReservesOnlyFreeCash DEF ImplementsLedger

\* A halt set by one sleeve stops the reservations of every sleeve until it is cleared.
THEOREM SleevesHaltTogether == SleeveSpec => HaltStopsEveryEntry
BY SleevesImplementLedger, LedgerHaltStopsEveryEntry DEF ImplementsLedger

-----------------------------------------------------------------------------
\* Threads are where the code has them, and only after a death behind a restart.
Behind == {"crashed", "resolving", "swept"}

ThreadsInv ==
    /\ \A s \in Sleeves :
         /\ stage[s].op \in EntrySteps \cup Behind \cup {"idle"}
         /\ IsReconciling(s) => stage[s].saved.halted \in BOOLEAN
    /\ deaths = 0 => \A s \in Sleeves : stage[s].op \notin Behind

\* What SleeveInv leaves out of the shape of the state.
RestInv ==
    /\ ThreadsInv
    /\ \A p \in Parents : ~order[p].live => order[p].left = 0
    /\ stray \in [Parents -> [left: 0..MaxAmount, reused: BOOLEAN]]
    /\ book_halted \in [Sleeves -> BOOLEAN]
    /\ deaths \in 0..MaxFaults /\ lost_replies \in 0..MaxFaults
    /\ swept \subseteq Parents
    /\ unexplained \in BOOLEAN

\* A thread that moves goes where threads go.
LEMMA ThreadsStay ==
  ASSUME SleeveInv, ThreadsInv, NEW s \in Sleeves, NEW x, GoTo(s, x),
         x.op \in EntrySteps \cup Behind \cup {"idle"},
         x.op \in {"resolving", "swept"} => x.saved.halted \in BOOLEAN,
         deaths' = 0 => deaths = 0 /\ x.op \notin Behind
  PROVE  ThreadsInv'
BY DEF SleeveInv, ShapeInv, ThreadsInv, IsReconciling, GoTo

\* A step of an entry, or the end of one, is where threads go.
LEMMA EntryThreadsStay ==
  ASSUME SleeveInv, ThreadsInv, NEW s \in Sleeves, NEW p, NEW x, GoTo(s, x),
         x = IdleStage \/ \E op \in EntrySteps : x = At(op, p), UNCHANGED deaths
  PROVE  ThreadsInv'
<1>1. x.op \in EntrySteps \cup {"idle"}
  BY DEF IdleStage, At
<1>2. x.op \notin Behind /\ x.op \notin {"resolving", "swept"}
  BY <1>1 DEF EntrySteps, Behind
<1> QED BY <1>1, <1>2, ThreadsStay

\* No thread moves and nobody dies.
LEMMA ThreadsRest ==
  ASSUME ThreadsInv, UNCHANGED <<stage, deaths>>
  PROVE  ThreadsInv'
BY DEF ThreadsInv, IsReconciling

\* An order the broker no longer works has nothing left.
LEMMA OrdersStay ==
  ASSUME SleeveInv, RestInv, NEW p \in Parents,
         order' = [order EXCEPT ![p] = order'[p]],
         ~order'[p].live => order'[p].left = 0
  PROVE  \A q \in Parents : ~order'[q].live => order'[q].left = 0
BY DEF SleeveInv, ShapeInv, RestInv

\* What a sleeve learns of an order does not change what is left of it.
LEMMA LearnOrders ==
  ASSUME SleeveInv, RestInv, NEW p \in Parents, Learn(p)
  PROVE  \A q \in Parents : ~order'[q].live => order'[q].left = 0
<1>1. order' = [order EXCEPT ![p].unseen = 0]
  BY DEF Learn
<1>2. order'[p].live = order[p].live /\ order'[p].left = order[p].left
      /\ order' = [order EXCEPT ![p] = order'[p]]
  BY <1>1, ParentNumbers DEF SleeveInv, ShapeInv
<1> QED BY <1>2, OrdersStay DEF RestInv

\* An order the book loses asked for no more than a target.
LEMMA StrayBegins ==
  ASSUME SleeveInv, RestInv, NEW p \in Parents, FaultsLeft,
         stray' = [stray EXCEPT ![p] = [left |-> open_qty[p], reused |-> TRUE]]
  PROVE  /\ stray' \in [Parents -> [left: 0..MaxAmount, reused: BOOLEAN]]
         /\ deaths + 1 \in 0..MaxFaults /\ lost_replies + 1 \in 0..MaxFaults
<1>1. Want[p] <= MaxAmount /\ MaxAmount \in Nat
  BY SleeveAssumption, LedgerAssumption DEF Amount
<1>2. open_qty[p] \in 0..MaxAmount
  BY <1>1, ParentNumbers DEF ParentInv
<1>3. deaths + 1 \in 0..MaxFaults /\ lost_replies + 1 \in 0..MaxFaults
  BY SleeveAssumption DEF RestInv, FaultsLeft
<1> QED BY <1>2, <1>3 DEF RestInv

\* The rest of the shape is kept by the steps of an entry.
LEMMA RestEntryStep ==
  ASSUME SleeveInv, RestInv, NEW s \in Sleeves, NEW p \in Parents, Owner[p] = s,
         SleeveStep(s, p)
  PROVE  RestInv'
<1>t. ThreadsInv
  BY DEF RestInv
<1>1. CASE BeginEntry(s, p)
  <2>1. /\ GoTo(s, At("reserved", p))
        /\ UNCHANGED <<order, stray, book_halted, deaths, lost_replies, unexplained>>
    BY <1>1 DEF BeginEntry, broker, faults
  <2>2. swept' \subseteq Parents
    BY <1>1 DEF BeginEntry, RestInv
  <2>3. ThreadsInv'
    BY <1>t, <2>1, EntryThreadsStay DEF EntrySteps
  <2> QED BY <2>1, <2>2, <2>3 DEF RestInv
<1>2. CASE EntryRefused(s, p)
  <2>1. UNCHANGED <<order, stray, stage, deaths, lost_replies, swept, unexplained>>
    BY <1>2 DEF EntryRefused, broker, world, faults
  <2>2. IsHalted \in BOOLEAN
    BY DEF IsHalted
  <2>3. book_halted' \in [Sleeves -> BOOLEAN]
    BY <1>2, <2>2 DEF EntryRefused, RestInv
  <2> QED BY <1>t, <2>1, <2>3, ThreadsRest DEF RestInv
<1>3. CASE EmitChild(s, p)
  <2>1. /\ GoTo(s, At("emitted", p)) \/ GoTo(s, At("refused", p))
        /\ UNCHANGED <<order, stray, book_halted, deaths, lost_replies, swept, unexplained>>
    BY <1>3 DEF EmitChild, broker, world, faults
  <2>2. ThreadsInv'
    BY <1>t, <2>1, EntryThreadsStay DEF EntrySteps
  <2> QED BY <2>1, <2>2 DEF RestInv
<1>4. CASE Recheck(s, p)
  <2>1. /\ GoTo(s, At("rechecked", p)) \/ GoTo(s, At("halted", p))
        /\ UNCHANGED <<order, stray, book_halted, deaths, lost_replies, swept, unexplained>>
    BY <1>4 DEF Recheck, broker, world, faults
  <2>2. ThreadsInv'
    BY <1>t, <2>1, EntryThreadsStay DEF EntrySteps
  <2> QED BY <2>1, <2>2 DEF RestInv
<1>5. CASE PortSubmits(s, p)
  <2>1. /\ GoTo(s, IdleStage) \/ GoTo(s, At("refused", p))
        /\ UNCHANGED <<book_halted, deaths, swept, unexplained>>
    BY <1>5 DEF PortSubmits, SubmitRaises, faults
  <2>2. ThreadsInv'
    BY <1>t, <2>1, EntryThreadsStay DEF EntrySteps
  <2>3. CASE /\ order' = [order EXCEPT ![p] =
                            [live |-> TRUE, left |-> open_qty[p], unseen |-> 0]]
             /\ UNCHANGED <<stray, faults>>
    <3>1. \A q \in Parents : ~order'[q].live => order'[q].left = 0
      BY <2>3 DEF RestInv, SleeveInv, ShapeInv
    <3> QED BY <2>1, <2>2, <2>3, <3>1 DEF RestInv, faults
  <2>4. CASE SubmitRaises(p)
    <3>1. UNCHANGED order
      BY <2>4 DEF SubmitRaises
    <3>2. CASE UNCHANGED <<stray, lost_replies>>
      BY <2>1, <2>2, <3>1, <3>2 DEF RestInv
    <3>3. CASE /\ FaultsLeft /\ lost_replies' = lost_replies + 1
               /\ stray' = [stray EXCEPT ![p] = [left |-> open_qty[p], reused |-> TRUE]]
      BY <2>1, <2>2, <3>1, <3>3, StrayBegins DEF RestInv
    <3> QED BY <2>4, <3>2, <3>3 DEF SubmitRaises
  <2> QED BY <1>5, <2>3, <2>4 DEF PortSubmits
<1>6. CASE ReleaseEntry(s, p)
  <2>1. /\ GoTo(s, IdleStage)
        /\ UNCHANGED <<order, deaths, lost_replies, swept, unexplained>>
        /\ stray' = [stray EXCEPT ![p].reused = FALSE]
        /\ book_halted' = [book_halted EXCEPT ![s] = @ \/ stage[s].op = "halted"]
    BY <1>6 DEF ReleaseEntry, world, faults
  <2>2. book_halted' \in [Sleeves -> BOOLEAN]
        /\ stray' \in [Parents -> [left: 0..MaxAmount, reused: BOOLEAN]]
    BY <2>1 DEF RestInv
  <2>3. ThreadsInv'
    BY <1>t, <2>1, EntryThreadsStay
  <2> QED BY <2>1, <2>2, <2>3 DEF RestInv
<1>7. CASE Observe(s, p) \/ ResolveChild(s, p)
  <2>1. Learn(p)
        /\ UNCHANGED <<stray, stage, book_halted, deaths, lost_replies, swept, unexplained>>
    BY <1>7 DEF Observe, ResolveChild, world, faults
  <2> QED BY <1>t, <2>1, LearnOrders, ThreadsRest DEF RestInv
<1>8. CASE DiesAfterAccept(s, p)
  <2> DEFINE x == [op |-> "crashed"]
  <2>1. /\ GoTo(s, x) /\ FaultsLeft /\ deaths' = deaths + 1
        /\ stray' = [stray EXCEPT ![p] = [left |-> open_qty[p], reused |-> TRUE]]
        /\ UNCHANGED <<order, book_halted, lost_replies, swept, unexplained>>
    BY <1>8 DEF DiesAfterAccept
  <2>2. x.op \in Behind /\ x.op \notin {"resolving", "swept"}
    BY DEF Behind
  <2> HIDE DEF x
  <2>3. deaths + 1 \in 0..MaxFaults
        /\ stray' \in [Parents -> [left: 0..MaxAmount, reused: BOOLEAN]]
    BY <2>1, StrayBegins
  <2>d. deaths' # 0
    BY <2>1, SleeveAssumption DEF RestInv
  <2>4. ThreadsInv'
    BY <1>t, <2>1, <2>2, <2>d, ThreadsStay
  <2> QED BY <2>1, <2>3, <2>4 DEF RestInv
<1> QED BY <1>1, <1>2, <1>3, <1>4, <1>5, <1>6, <1>7, <1>8 DEF SleeveStep

\* It is kept by a crash and by the steps of a restart.
LEMMA RestReconcileStep ==
  ASSUME SleeveInv, RestInv, NEW s \in Sleeves,
         \/ CrashSleeve(s)
         \/ \E manual \in SUBSET Strangers : BeginReconcile(s, manual)
         \/ SweepLedger(s)
         \/ EndReconcile(s)
  PROVE  RestInv'
<1>t. ThreadsInv
  BY DEF RestInv
<1>1. CASE CrashSleeve(s)
  <2> DEFINE x == [op |-> "crashed"]
  <2>1. GoTo(s, x) /\ UNCHANGED <<stray, lost_replies, swept, unexplained>>
    BY <1>1 DEF CrashSleeve
  <2>2. x.op \in Behind /\ x.op \notin {"resolving", "swept"}
    BY DEF Behind
  <2> HIDE DEF x
  <2>3. CASE IsReconciling(s)
    <3>1. /\ deaths' = deaths /\ deaths # 0
          /\ book_halted' = [book_halted EXCEPT ![s] = stage[s].saved.halted]
          /\ order' = [p \in Parents |->
               IF p \in OwnedBy(s)
               THEN [order[p] EXCEPT !.unseen = @ + cum_filled[p] - stage[s].saved.cum_filled[p]]
               ELSE order[p]]
      BY <1>1, <1>t, <2>3 DEF CrashSleeve, ThreadsInv, IsReconciling, Behind
    <3>2. book_halted' \in [Sleeves -> BOOLEAN]
      BY <1>t, <2>3, <3>1 DEF RestInv, ThreadsInv
    <3>3. \A q \in Parents : ~order'[q].live => order'[q].left = 0
      BY <3>1, ParentNumbers DEF RestInv
    <3>4. ThreadsInv'
      BY <1>t, <2>1, <2>2, <3>1, ThreadsStay
    <3> QED BY <2>1, <3>1, <3>2, <3>3, <3>4 DEF RestInv
  <2>4. CASE ~IsReconciling(s)
    <3>1. FaultsLeft /\ deaths' = deaths + 1 /\ UNCHANGED <<order, book_halted>>
      BY <1>1, <2>4 DEF CrashSleeve
    <3>2. deaths + 1 \in 0..MaxFaults /\ deaths \in Nat
      BY <3>1, SleeveAssumption DEF RestInv, FaultsLeft
    <3>3. ThreadsInv'
      BY <1>t, <2>1, <2>2, <3>1, <3>2, ThreadsStay
    <3> QED BY <2>1, <3>1, <3>2, <3>3 DEF RestInv
  <2> QED BY <2>3, <2>4
<1>2. ASSUME NEW manual \in SUBSET Strangers, BeginReconcile(s, manual) PROVE RestInv'
  <2>1. PICK x : /\ GoTo(s, x) /\ x.op = "resolving"
                 /\ x.saved.halted = book_halted[s]
    BY <1>2 DEF BeginReconcile
  <2>2. /\ UNCHANGED <<order, stray, book_halted, deaths, lost_replies, swept, unexplained>>
        /\ stage[s].op = "crashed"
    BY <1>2 DEF BeginReconcile, broker, world, faults
  <2>3. x.op \in Behind /\ deaths # 0
    BY <1>t, <2>1, <2>2 DEF Behind, ThreadsInv
  <2>4. x.saved.halted \in BOOLEAN
    BY <2>1 DEF RestInv
  <2>5. ThreadsInv'
    BY <1>t, <2>1, <2>2, <2>3, <2>4, ThreadsStay
  <2> QED BY <2>2, <2>5 DEF RestInv
<1>3. CASE SweepLedger(s)
  <2>1. PICK x : GoTo(s, x) /\ x.op = "swept" /\ x.saved = stage[s].saved
    BY <1>3 DEF SweepLedger, AfterSweep
  <2>2. /\ UNCHANGED <<order, stray, deaths, lost_replies, unexplained>>
        /\ stage[s].op = "resolving"
        /\ book_halted' = [book_halted EXCEPT ![s] = @ \/ ~ViewMatchesBook(s)]
        /\ swept' \subseteq swept \cup Active
    BY <1>3 DEF SweepLedger, AfterSweep, broker, faults
  <2>3. x.op \in Behind /\ deaths # 0 /\ x.saved.halted \in BOOLEAN
    BY <1>t, <2>1, <2>2 DEF Behind, ThreadsInv, IsReconciling
  <2>4. book_halted' \in [Sleeves -> BOOLEAN] /\ swept' \subseteq Parents
    BY <2>2 DEF RestInv, Active
  <2>5. ThreadsInv'
    BY <1>t, <2>1, <2>2, <2>3, ThreadsStay
  <2> QED BY <2>2, <2>4, <2>5 DEF RestInv
<1>4. CASE EndReconcile(s)
  <2>1. /\ GoTo(s, IdleStage)
        /\ UNCHANGED <<order, stray, deaths, lost_replies, swept, unexplained>>
        /\ book_halted' = [book_halted EXCEPT ![s] = @ \/ halt_reason' # NotHalted]
    BY <1>4 DEF EndReconcile, broker, world, faults
  <2>2. book_halted' \in [Sleeves -> BOOLEAN]
    BY <2>1 DEF RestInv
  <2>3. ThreadsInv'
    BY <1>t, <2>1, EntryThreadsStay
  <2> QED BY <2>1, <2>2, <2>3 DEF RestInv
<1> QED BY <1>1, <1>2, <1>3, <1>4

\* The rest of the shape is kept by every step.
LEMMA RestStep == SleeveInv /\ RestInv /\ [SleeveNext]_evars => RestInv'
<1> SUFFICES ASSUME SleeveInv, RestInv, [SleeveNext]_evars PROVE RestInv'
  OBVIOUS
<1>t. ThreadsInv
  BY DEF RestInv
<1>1. ASSUME NEW s \in Sleeves, NEW p \in Parents, SleeveStep(s, p) PROVE RestInv'
  BY <1>1, RestEntryStep DEF SleeveStep
<1>2. ASSUME NEW p \in Parents, NEW k \in Amount, BrokerFills(p, k) PROVE RestInv'
  <2>1. /\ order' = [order EXCEPT ![p] = [live |-> k < order[p].left,
                       left |-> order[p].left - k, unseen |-> order[p].unseen + k]]
        /\ k <= order[p].left /\ k \in Int
        /\ UNCHANGED <<stray, stage, book_halted, deaths, lost_replies, swept>>
        /\ unexplained' \in BOOLEAN
    BY <1>2 DEF BrokerFills, Amount, RestInv, faults
  <2>2. ThreadsInv'
    BY <1>t, <2>1, ThreadsRest
  <2>3. order'[p] = [live |-> k < order[p].left, left |-> order[p].left - k,
                     unseen |-> order[p].unseen + k]
        /\ order' = [order EXCEPT ![p] = order'[p]]
    BY <2>1 DEF SleeveInv, ShapeInv
  <2>4. CASE k < order[p].left
    <3>1. (k < order[p].left) = TRUE
      BY <2>4
    <3>2. order'[p] = [live |-> TRUE, left |-> order[p].left - k,
                       unseen |-> order[p].unseen + k]
      BY <2>3, <3>1, Zenon
    <3>3. order'[p].live
      BY <3>2
    <3> QED BY <2>1, <2>2, <2>3, <3>3, OrdersStay DEF RestInv
  <2>5. CASE k = order[p].left
    <3>1. order'[p].left = 0
      BY <2>1, <2>3, <2>5
    <3> QED BY <2>1, <2>2, <2>3, <3>1, OrdersStay DEF RestInv
  <2> QED BY <2>1, <2>4, <2>5, ParentNumbers
<1>3. ASSUME NEW p \in Parents, BrokerCloses(p) PROVE RestInv'
  <2>1. /\ order'[p].left = 0 /\ order' = [order EXCEPT ![p] = order'[p]]
        /\ UNCHANGED <<stray, stage, book_halted, deaths, lost_replies, swept, unexplained>>
    BY <1>3 DEF SleeveInv, ShapeInv, BrokerCloses, world, faults
  <2> QED BY <1>t, <2>1, OrdersStay, ThreadsRest DEF RestInv
<1>4. ASSUME NEW p \in Parents, (\E k \in Amount : StrayFills(p, k)) \/ StrayCloses(p)
      PROVE  RestInv'
  <2>1. /\ UNCHANGED <<order, stage, book_halted, deaths, lost_replies, swept>>
        /\ unexplained' \in BOOLEAN
    BY <1>4 DEF StrayFills, StrayCloses, RestInv, world, faults
  <2>2. stray[p].left \in 0..MaxAmount /\ MaxAmount \in Nat
    BY LedgerAssumption DEF RestInv
  <2>3. PICK n \in 0..MaxAmount : stray' = [stray EXCEPT ![p].left = n]
    <3>1. ASSUME NEW k \in Amount, StrayFills(p, k)
          PROVE  \E n \in 0..MaxAmount : stray' = [stray EXCEPT ![p].left = n]
      <4>1. stray[p].left - k \in 0..MaxAmount
        BY <2>2, <3>1 DEF StrayFills, Amount
      <4> QED BY <3>1, <4>1 DEF StrayFills
    <3>2. CASE StrayCloses(p)
      <4>1. 0 \in 0..MaxAmount
        BY <2>2
      <4>2. stray' = [stray EXCEPT ![p].left = 0]
        BY <3>2 DEF StrayCloses
      <4> QED BY <4>1, <4>2
    <3> QED BY <1>4, <3>1, <3>2
  <2>4. stray' \in [Parents -> [left: 0..MaxAmount, reused: BOOLEAN]]
    BY <2>3 DEF RestInv
  <2> QED BY <1>t, <2>1, <2>4, ThreadsRest DEF RestInv
<1>5. CASE (\E k \in Amount : CashLeaves(k)) \/ OperatorClears \/ TimePasses
           \/ UNCHANGED evars
  <2>1. /\ UNCHANGED <<order, stray, stage, book_halted, deaths, lost_replies, swept>>
        /\ unexplained' \in BOOLEAN
    BY <1>5 DEF CashLeaves, OperatorClears, TimePasses, evars, broker, world, faults, RestInv
  <2> QED BY <1>t, <2>1, ThreadsRest DEF RestInv
<1> QED BY <1>1, <1>2, <1>3, <1>4, <1>5, RestReconcileStep DEF SleeveNext

\* The rest of the shape holds at the start.
LEMMA RestInit == SleeveInit => RestInv
<1> SUFFICES ASSUME SleeveInit PROVE RestInv
  OBVIOUS
<1>1. \A s \in Sleeves : stage[s].op = "idle"
  BY DEF SleeveInit, IdleStage
<1>2. ThreadsInv
  BY <1>1 DEF ThreadsInv, IsReconciling, Behind
<1>3. book_halted \in [Sleeves -> BOOLEAN]
  BY DEF SleeveInit
<1>4. deaths \in 0..MaxFaults /\ lost_replies \in 0..MaxFaults
  BY SleeveAssumption DEF SleeveInit
<1>5. \A p \in Parents : order[p].left = 0
  BY DEF SleeveInit, NoOrder
<1>6. stray \in [Parents -> [left: 0..MaxAmount, reused: BOOLEAN]]
  BY LedgerAssumption DEF SleeveInit, NoStray
<1> QED BY <1>2, <1>3, <1>4, <1>5, <1>6 DEF SleeveInit, RestInv

\* The shape of the whole state, from the bookkeeping.
LEMMA ShapeIsType == SleeveInv /\ RestInv => SleeveTypeOK
<1> SUFFICES ASSUME SleeveInv, RestInv PROVE SleeveTypeOK
  OBVIOUS
<1>1. ASSUME NEW p \in Parents
      PROVE  /\ cum_filled[p] \in 0..MaxAmount /\ open_qty[p] \in 0..MaxAmount
             /\ order[p] \in [live: BOOLEAN, left: 0..MaxAmount, unseen: 0..MaxAmount]
  <2>1. Want[p] \in Nat /\ Want[p] <= MaxAmount /\ MaxAmount \in Nat
    BY SleeveAssumption, LedgerAssumption DEF Amount
  <2>2. cum_filled[p] \in 0..MaxAmount /\ open_qty[p] \in 0..MaxAmount
    BY <2>1, ParentNumbers DEF ParentInv
  <2>3. order[p].left <= MaxAmount /\ order[p].unseen <= MaxAmount
    BY <2>1, <2>2, ParentNumbers DEF ParentInv, RestInv
  <2>4. order[p].left \in 0..MaxAmount /\ order[p].unseen \in 0..MaxAmount
    BY <2>1, <2>3, ParentNumbers
  <2> QED BY <2>2, <2>4, ParentNumbers
<1>2. {cum_filled, open_qty} \subseteq [Parents -> 0..MaxAmount]
  BY <1>1 DEF SleeveInv, ShapeInv
<1>3. order \in [Parents -> [live: BOOLEAN, left: 0..MaxAmount, unseen: 0..MaxAmount]]
  BY <1>1 DEF SleeveInv, ShapeInv
<1>4. \A s \in Sleeves :
        stage[s].op \in EntrySteps \cup {"idle", "crashed", "resolving", "swept"}
  BY DEF RestInv, ThreadsInv, Behind
<1> QED BY <1>2, <1>3, <1>4 DEF SleeveTypeOK, SleeveInv, RestInv

\* The state of every sleeve, of its orders and of the account keeps its shape.
THEOREM SleeveTypeCorrect == SleeveSpec => []SleeveTypeOK
BY SleeveInitInv, SleeveStepInv, RestInit, RestStep, ShapeIsType, PTL DEF SleeveSpec

-----------------------------------------------------------------------------
\* What a reservation is held for, as long as no process died.
Held(p) == deaths = 0 /\ p \in Active => open_qty[p] > 0 \/ EntryOf(p)

\* Where the threads of the other sleeves are after one has moved.
LEMMA OthersStay ==
  ASSUME SleeveInv, NEW s \in Sleeves, NEW x, GoTo(s, x)
  PROVE  /\ \A t \in Sleeves : t # s => stage'[t] = stage[t]
         /\ stage'[s] = x
         /\ \A q \in Parents : Owner[q] # s /\ EntryOf(q) => EntryOf(q)'
<1>1. \A t \in Sleeves : stage'[t] = IF t = s THEN x ELSE stage[t]
  BY DEF SleeveInv, ShapeInv, GoTo
<1> QED BY <1>1, SleeveAssumption DEF EntryOf, InEntry

\* A parent that gains no reservation, and keeps what it is held for, stays as it is.
LEMMA HeldStays ==
  ASSUME NEW q \in Parents, Held(q), deaths' = 0 => deaths = 0,
         q \in Active' => q \in Active, open_qty'[q] = open_qty[q],
         EntryOf(q) => EntryOf(q)'
  PROVE  Held(q)'
BY DEF Held

\* A release takes away reservations and adds none.
LEMMA ReleaseShrinksActive ==
  ASSUME NEW ps, rows' = Released(ps)
  PROVE  \A q \in Parents : (q \in Active' => q \in Active) /\ (q \in Active' => q \notin ps)
BY DEF Released, Active

\* Steps of a sleeve's thread on a parent of its own.
LEMMA HeldEntryStep ==
  ASSUME SleeveInv, \A q \in Parents : Held(q),
         NEW s \in Sleeves, NEW p \in Parents, Owner[p] = s,
         \/ BeginEntry(s, p) \/ EmitChild(s, p) \/ Recheck(s, p)
         \/ PortSubmits(s, p) \/ ReleaseEntry(s, p)
  PROVE  \A q \in Parents : Held(q)'
<1>1. /\ UNCHANGED deaths
      /\ \A q \in Parents : q # p => open_qty'[q] = open_qty[q]
  BY DEF BeginEntry, EmitChild, Recheck, PortSubmits, SubmitRaises, ReleaseEntry, world,
         faults, bookvars, SleeveInv, ShapeInv
<1>2. \A q \in Parents : q # p => (q \in Active' => q \in Active)
  <2>1. CASE BeginEntry(s, p)
    BY <2>1 DEF BeginEntry, Reserve, lvars, Active, SleeveInv, LedgerTypeOK
  <2>2. CASE ReleaseEntry(s, p)
    BY <2>2, ReleaseShrinksActive DEF ReleaseEntry
  <2>3. CASE EmitChild(s, p) \/ Recheck(s, p) \/ PortSubmits(s, p)
    BY <2>3 DEF EmitChild, Recheck, PortSubmits, RecheckFails, lvars, Active
  <2> QED BY <2>1, <2>2, <2>3
<1>3. PICK x : GoTo(s, x) /\ (IsIdle(s) \/ EntryOf(p))
  BY DEF BeginEntry, EmitChild, Recheck, PortSubmits, ReleaseEntry, IsAt, At, EntryOf,
         InEntry, EntrySteps
<1>4. ASSUME NEW q \in Parents, q # p PROVE Held(q)'
  <2>1. EntryOf(q) => EntryOf(q)'
    BY <1>3, <1>4, OthersStay DEF IsIdle, IdleStage, EntryOf, InEntry, EntrySteps
  <2> QED BY <1>1, <1>2, <1>4, <2>1, HeldStays
<1>5. Held(p)'
  <2>1. CASE BeginEntry(s, p)
    BY <2>1, AtStepNext DEF BeginEntry, Held, EntrySteps
  <2>2. CASE EmitChild(s, p)
    BY <2>2, AtStepNext DEF EmitChild, Held, EntrySteps
  <2>3. CASE Recheck(s, p)
    BY <2>3, AtStepNext DEF Recheck, Held, EntrySteps
  <2>4. CASE PortSubmits(s, p)
    <3>1. open_qty[p] > 0
      BY <2>4, AtStep, ParentNumbers DEF ParentInv, PortSubmits, EntrySteps
    <3>2. UNCHANGED open_qty \/ GoTo(s, At("refused", p))
      BY <2>4 DEF PortSubmits
    <3> QED BY <3>1, <3>2, AtStepNext DEF Held, EntrySteps
  <2>5. CASE ReleaseEntry(s, p)
    BY <2>5, ReleaseShrinksActive DEF ReleaseEntry, Held
  <2> QED BY <2>1, <2>2, <2>3, <2>4, <2>5
<1> QED BY <1>4, <1>5

\* A child that ends gives its reservation back.
LEMMA HeldLearnStep ==
  ASSUME SleeveInv, \A q \in Parents : Held(q), NEW p \in Parents,
         Learn(p), UNCHANGED <<stage, deaths>>, ~EntryOf(p)
  PROVE  \A q \in Parents : Held(q)'
<1> DEFINE still == IF order[p].live THEN open_qty[p] - order[p].unseen ELSE 0
<1>1. still \in Nat
  BY ParentNumbers DEF ParentInv
<1>2. /\ open_qty' = [open_qty EXCEPT ![p] = still]
      /\ rows' = IF still = 0 THEN Released({p}) ELSE rows
  BY DEF Learn
<1>3. \A q \in Parents : (q \in Active' => q \in Active) /\ (EntryOf(q) => EntryOf(q)')
  BY <1>2, ReleaseShrinksActive DEF Active, EntryOf, InEntry
<1>4. open_qty'[p] = still /\ \A q \in Parents : q # p => open_qty'[q] = open_qty[q]
  BY <1>2 DEF SleeveInv, ShapeInv
<1> HIDE DEF still
<1>5. CASE still = 0
  <2>1. p \notin Active'
    BY <1>2, <1>5, ReleaseShrinksActive
  <2> QED BY <2>1, <1>3, <1>4, HeldStays DEF Held
<1>6. CASE still # 0
  BY <1>1, <1>3, <1>4, <1>6, HeldStays DEF Held
<1> QED BY <1>5, <1>6

\* Whatever a step does, a reservation is held for something.
LEMMA HeldStep ==
  SleeveInv /\ RestInv /\ (\A p \in Parents : Held(p)) /\ [SleeveNext]_evars
    => \A p \in Parents : Held(p)'
<1> SUFFICES ASSUME SleeveInv, RestInv, \A p \in Parents : Held(p), [SleeveNext]_evars
             PROVE  \A p \in Parents : Held(p)'
  OBVIOUS
<1>1. ASSUME NEW s \in Sleeves, NEW p \in Parents, SleeveStep(s, p)
      PROVE  \A q \in Parents : Held(q)'
  <2>1. Owner[p] = s
    BY <1>1 DEF SleeveStep
  <2>2. CASE Observe(s, p)
    <3>1. ~EntryOf(p)
      BY <2>1, <2>2 DEF Observe, IsIdle, IdleStage, EntryOf, InEntry, EntrySteps
    <3> QED BY <2>2, <3>1, HeldLearnStep DEF Observe, world, faults
  <2>3. CASE ResolveChild(s, p)
    <3>1. ~EntryOf(p)
      BY <2>1, <2>3 DEF ResolveChild, EntryOf, InEntry, EntrySteps
    <3> QED BY <2>3, <3>1, HeldLearnStep DEF ResolveChild, world, faults
  <2>4. CASE EntryRefused(s, p)
    BY <2>4 DEF EntryRefused, Held, Active, EntryOf, InEntry, world, faults, bookvars, lvars
  <2>5. CASE DiesAfterAccept(s, p)
    <3>1. deaths' # 0
      BY <2>5 DEF DiesAfterAccept, RestInv
    <3> QED BY <3>1 DEF Held
  <2> QED BY <1>1, <2>1, <2>2, <2>3, <2>4, <2>5, HeldEntryStep DEF SleeveStep
<1>2. ASSUME NEW s \in Sleeves, CrashSleeve(s) PROVE \A q \in Parents : Held(q)'
  <2>1. CASE IsReconciling(s)
    <3>1. deaths # 0
      BY <2>1 DEF RestInv, ThreadsInv, IsReconciling, Behind
    <3>2. deaths' = deaths
      BY <1>2, <2>1 DEF CrashSleeve
    <3> QED BY <3>1, <3>2 DEF Held
  <2>2. CASE ~IsReconciling(s)
    <3>1. deaths' = deaths + 1
      BY <1>2, <2>2 DEF CrashSleeve
    <3>2. deaths' # 0
      BY <3>1 DEF RestInv
    <3> QED BY <3>2 DEF Held
  <2> QED BY <2>1, <2>2
<1>3. ASSUME NEW s \in Sleeves,
             \/ \E manual \in SUBSET Strangers : BeginReconcile(s, manual)
             \/ SweepLedger(s) \/ EndReconcile(s)
      PROVE  \A q \in Parents : Held(q)'
  <2>1. PICK x : GoTo(s, x)
    BY <1>3 DEF BeginReconcile, SweepLedger, AfterSweep, EndReconcile
  <2>2. UNCHANGED <<open_qty, deaths>> /\ ~InEntry(s)
    BY <1>3 DEF BeginReconcile, SweepLedger, AfterSweep, EndReconcile, world, faults,
                bookvars, InEntry, EntrySteps
  <2>3. \A q \in Parents : q \in Active' => q \in Active
    <3>1. CASE SweepLedger(s)
      BY <3>1, ReleaseShrinksActive DEF SweepLedger, Sweep
    <3>2. CASE \/ \E manual \in SUBSET Strangers : BeginReconcile(s, manual)
               \/ EndReconcile(s)
      BY <3>2 DEF BeginReconcile, EndReconcile, Halt, Active, lvars
    <3> QED BY <1>3, <3>1, <3>2
  <2>4. \A q \in Parents : EntryOf(q) => EntryOf(q)'
    BY <2>1, <2>2, OthersStay DEF EntryOf
  <2> QED BY <2>2, <2>3, <2>4, HeldStays
<1>4. CASE \/ \E p \in Parents, k \in Amount : BrokerFills(p, k)
           \/ \E p \in Parents, k \in Amount : StrayFills(p, k)
           \/ \E p \in Parents : BrokerCloses(p) \/ StrayCloses(p)
           \/ \E k \in Amount : CashLeaves(k)
           \/ OperatorClears
           \/ TimePasses
           \/ UNCHANGED evars
  <2>1. UNCHANGED <<rows, open_qty, stage, deaths>>
    BY <1>4 DEF BrokerFills, BrokerCloses, StrayFills, StrayCloses, CashLeaves, CashMoves,
                OperatorClears, ClearHalt, TimePasses, ClockTicks, evars, lvars, bookvars,
                world, faults
  <2> QED BY <2>1 DEF Held, Active, EntryOf, InEntry
<1> QED BY <1>1, <1>2, <1>3, <1>4 DEF SleeveNext

\* Every way an entry can end gives its reservation back, whatever the sleeves do between
\* their transactions: only a crash leaves one behind.
THEOREM SleevesReleaseWhatEnds == SleeveSpec => []NoReservationOutlivesItsEntry
<1> DEFINE Inv == SleeveInv /\ RestInv /\ \A p \in Parents : Held(p)
<1>1. SleeveInit => Inv
  <2>1. SleeveInit => \A p \in Parents : Held(p)
    BY DEF SleeveInit, LedgerInit, NoRow, Active, Held
  <2> QED BY <2>1, SleeveInitInv, RestInit
<1>2. Inv /\ [SleeveNext]_evars => Inv'
  BY SleeveStepInv, RestStep, HeldStep
<1>3. Inv => NoReservationOutlivesItsEntry
  BY DEF Held, NoReservationOutlivesItsEntry, Active
<1> QED BY <1>1, <1>2, <1>3, PTL DEF SleeveSpec

-----------------------------------------------------------------------------
(* What the sleeves owe the account: what works has a row, and what the     *)
(* rows that count stand for is paid for.                                  *)

\* A row is worth at least what its parent still wants; what works or is about to has a
\* row, or a sweep took it; a child a reconcile has resolved has none.
CoverInv(p) ==
    /\ p \in Active => Want[p] - cum_filled[p] <= rows[p].amount /\ rows[p].amount <= Want[p]
    /\ p \in swept => p \notin Active
    /\ order[p].live => p \in Active \cup swept
    /\ EntryOf(p) /\ stage[Owner[p]].op \in {"reserved", "emitted", "rechecked"} =>
         p \in Active \cup swept
    /\ IsReconciling(Owner[p]) /\ stage[Owner[p]].saved.open_qty[p] # open_qty[p] =>
         p \notin Active

\* What a parent whose row counts may still cost the account.
Claim(p) == IF Counts(p) THEN Want[p] - cum_filled[p] - order[p].unseen ELSE 0

Claims == SumOver([p \in Parents |-> Claim(p)], Parents)

FundedInv == ~unexplained => Claims <= broker_cash

AccountInv ==
    /\ SleeveInv
    /\ RestInv
    /\ \A p \in Parents : CoverInv(p)

\* What works of a parent whose row counts.
CountedUnits == SumOver([p \in Parents |-> IF Counts(p) THEN order[p].left ELSE 0], Parents)

\* A claim is no more than its row counts for, and no less than what works under it.
LEMMA ClaimBounds ==
  ASSUME SleeveInv, RestInv, NEW p \in Parents, CoverInv(p)
  PROVE  /\ Claim(p) \in Nat
         /\ Claim(p) <= Counting(rows[p], clock)
         /\ Counts(p) => order[p].left <= Claim(p)
         /\ order[p].left \in Nat /\ Counting(rows[p], clock) \in Nat
<1>0. /\ rows[p] \in Row /\ clock \in Nat
      /\ rows[p].amount \in Nat /\ rows[p].expires_at \in Nat
  BY LedgerAssumption DEF SleeveInv, LedgerTypeOK, Row
<1>1. Counting(rows[p], clock) \in Nat
  BY <1>0, CountingIsNat
<1>2. cum_filled[p] + order[p].unseen <= Want[p]
  BY ParentNumbers DEF ParentInv
<1>3. CASE Counts(p)
  <2>1. Counting(rows[p], clock) = rows[p].amount /\ Want[p] - cum_filled[p] <= rows[p].amount
    BY <1>0, <1>3 DEF Counts, IsExpired, Counting, Active, CoverInv
  <2>2. order[p].left <= Want[p] - cum_filled[p] - order[p].unseen
    BY <1>2, ParentNumbers DEF ParentInv, RestInv
  <2> QED BY <1>0, <1>1, <1>2, <1>3, <2>1, <2>2, ParentNumbers DEF Claim
<1>4. CASE ~Counts(p)
  BY <1>1, <1>4, ParentNumbers DEF Claim
<1> QED BY <1>3, <1>4

\* What works under counting rows, what is claimed and what is reserved, summed.
LEMMA SumsAreOrdered ==
  ASSUME SleeveInv, RestInv, \A p \in Parents : CoverInv(p)
  PROVE  /\ CountedUnits \in Nat /\ Claims \in Nat /\ ActiveSum \in Nat
         /\ CountedUnits <= Claims /\ Claims <= ActiveSum
<1> DEFINE f == [p \in Parents |-> IF Counts(p) THEN order[p].left ELSE 0]
           g == [p \in Parents |-> Claim(p)]
           h == [p \in Parents |-> Counting(rows[p], clock)]
<1>1. /\ \A p \in Parents : f[p] \in Nat /\ g[p] \in Nat /\ h[p] \in Nat
      /\ \A p \in Parents : f[p] <= g[p] /\ g[p] <= h[p]
  BY ClaimBounds
<1>2. CountedUnits = SumOver(f, Parents) /\ Claims = SumOver(g, Parents)
      /\ ActiveSum = SumOver(h, Parents)
  BY DEF CountedUnits, Claims, ActiveSum
<1>3. IsFiniteSet(Parents)
  BY LedgerAssumption
<1> HIDE DEF f, g, h
<1>4. SumOver(f, Parents) \in Nat /\ SumOver(g, Parents) \in Nat /\ SumOver(h, Parents) \in Nat
  BY <1>1, <1>3, SumNat
<1>5. \A p \in Parents : f[p] \in Int /\ g[p] \in Int /\ h[p] \in Int
  BY <1>1
<1>6. SumOver(f, Parents) <= SumOver(g, Parents)
  BY <1>1, <1>3, <1>5, SumMonotone
<1>7. SumOver(g, Parents) <= SumOver(h, Parents)
  BY <1>1, <1>3, <1>5, SumMonotone
<1> QED BY <1>2, <1>4, <1>6, <1>7

\* A BUY at the broker that no sweep uncovered has its row, which is worth what is left.
LEMMA CoverIsRow ==
  SleeveInv /\ (\A p \in Parents : CoverInv(p)) => OnlyStaleSweepsUncover
<1> SUFFICES ASSUME SleeveInv, \A q \in Parents : CoverInv(q),
                    NEW p \in Parents, order[p].live, p \notin swept
             PROVE  p \in Active /\ order[p].left <= rows[p].amount
  BY DEF OnlyStaleSweepsUncover, Live
<1>1. p \in Active /\ Want[p] - cum_filled[p] <= rows[p].amount
  BY DEF CoverInv
<1>2. rows[p].amount \in Nat
  BY LedgerAssumption DEF SleeveInv, LedgerTypeOK, Row
<1>3. order[p].left <= Want[p] - cum_filled[p]
  BY ParentNumbers DEF ParentInv
<1> QED BY <1>1, <1>2, <1>3, ParentNumbers

-----------------------------------------------------------------------------
\* A parent whose row, numbers and thread stay is covered as before.
LEMMA CoverStays ==
  ASSUME NEW q \in Parents, CoverInv(q), rows'[q] = rows[q],
         cum_filled'[q] = cum_filled[q], open_qty'[q] = open_qty[q],
         q \in swept' <=> q \in swept, order'[q].live => order[q].live,
         EntryOf(q)' => EntryOf(q) /\ stage'[Owner[q]] = stage[Owner[q]],
         IsReconciling(Owner[q])' =>
           \/ stage'[Owner[q]] = stage[Owner[q]]
           \/ stage'[Owner[q]].saved.open_qty[q] = open_qty[q]
           \/ /\ IsReconciling(Owner[q])
              /\ stage'[Owner[q]].saved = stage[Owner[q]].saved
  PROVE  CoverInv(q)'
<1>1. q \in Active' <=> q \in Active
  BY DEF Active
<1>2. IsReconciling(Owner[q])' /\ stage'[Owner[q]].saved.open_qty[q] # open_qty'[q]
        => q \notin Active
  BY DEF CoverInv, IsReconciling
<1> QED BY <1>1, <1>2 DEF CoverInv

\* A parent whose row is released needs none.
LEMMA CoverGone ==
  ASSUME NEW q \in Parents, q \notin Active', ~order'[q].live,
         ~(EntryOf(q)' /\ stage'[Owner[q]].op \in {"reserved", "emitted", "rechecked"})
  PROVE  CoverInv(q)'
BY DEF CoverInv

\* Nor does one whose row a sweep has taken.
LEMMA CoverSwept ==
  ASSUME NEW q \in Parents, q \notin Active', q \in swept'
  PROVE  CoverInv(q)'
BY DEF CoverInv

\* Released rows and the others.
LEMMA ReleasedRows ==
  ASSUME LedgerTypeOK, NEW ps, rows' = Released(ps), NEW q \in Parents
  PROVE  /\ q \notin ps => rows'[q] = rows[q]
         /\ q \in ps => q \notin Active'
         /\ q \notin Active => rows'[q] = rows[q]
BY DEF Released, Active, LedgerTypeOK

\* A parent of which a thread begins to work is covered.
LEMMA CoverEntryStep ==
  ASSUME SleeveInv, RestInv, \A q \in Parents : CoverInv(q),
         NEW s \in Sleeves, NEW p \in Parents, Owner[p] = s,
         \/ BeginEntry(s, p) \/ EmitChild(s, p) \/ Recheck(s, p)
         \/ PortSubmits(s, p) \/ ReleaseEntry(s, p)
  PROVE  \A q \in Parents : CoverInv(q)'
<1>1. /\ UNCHANGED cum_filled
      /\ \A q \in Parents : q # p => order'[q] = order[q] /\ open_qty'[q] = open_qty[q]
  BY DEF BeginEntry, EmitChild, Recheck, PortSubmits, SubmitRaises, ReleaseEntry,
         bookvars, broker, SleeveInv, ShapeInv
<1>2. \A q \in Parents : q # p => rows'[q] = rows[q] /\ (q \in swept' <=> q \in swept)
  <2>1. CASE BeginEntry(s, p)
    <3>1. CASE Reserve(p, remaining(p)) /\ swept' = swept \ {p}
      BY <3>1 DEF Reserve, SleeveInv, LedgerTypeOK
    <3>2. CASE UNCHANGED <<lvars, swept>>
      BY <3>2 DEF lvars
    <3> QED BY <2>1, <3>1, <3>2 DEF BeginEntry
  <2>2. CASE ReleaseEntry(s, p)
    BY <2>2, ReleasedRows DEF ReleaseEntry, SleeveInv, world
  <2>3. CASE EmitChild(s, p) \/ Recheck(s, p) \/ PortSubmits(s, p)
    BY <2>3 DEF EmitChild, Recheck, PortSubmits, RecheckFails, lvars, world
  <2> QED BY <2>1, <2>2, <2>3
<1>3. PICK x : /\ GoTo(s, x)
               /\ x = IdleStage \/ \E op \in EntrySteps : x = At(op, p)
  BY DEF BeginEntry, EmitChild, Recheck, PortSubmits, ReleaseEntry, EntrySteps
<1>b. /\ x.op \in EntrySteps => x.p = p
      /\ x.op # "resolving" /\ x.op # "swept"
  BY <1>3 DEF IdleStage, At, EntrySteps
<1>c. \A q \in Parents :
        /\ EntryOf(q)' => IF Owner[q] = s THEN x.op \in EntrySteps /\ x.p = q
                          ELSE EntryOf(q) /\ stage'[Owner[q]] = stage[Owner[q]]
        /\ stage'[Owner[q]] = IF Owner[q] = s THEN x ELSE stage[Owner[q]]
  BY <1>3, <1>b, ThreadMoves
<1>4. ASSUME NEW q \in Parents, q # p PROVE CoverInv(q)'
  <2>1. EntryOf(q)' => EntryOf(q) /\ stage'[Owner[q]] = stage[Owner[q]]
    BY <1>4, <1>b, <1>c
  <2>2. IsReconciling(Owner[q])' => stage'[Owner[q]] = stage[Owner[q]]
    BY <1>b, <1>c DEF IsReconciling
  <2> QED BY <1>1, <1>2, <1>4, <2>1, <2>2, CoverStays
<1>5. CoverInv(p)'
  <2>0. stage'[Owner[p]] = x /\ ~IsReconciling(Owner[p])'
    BY <1>b, <1>c DEF IsReconciling
  <2>1. CASE BeginEntry(s, p)
    <3>1. remaining(p) \in Amount /\ open_qty[p] = 0 /\ ~order[p].live
      BY <2>1, RemainingIsAmount DEF BeginEntry
    <3>2. order' = order
      BY <2>1 DEF BeginEntry, broker
    <3>3. CASE Reserve(p, remaining(p)) /\ swept' = swept \ {p}
      <4>1. rows'[p] = [status |-> "active", amount |-> remaining(p), expires_at |-> clock + Ttl]
        BY <3>3 DEF Reserve, SleeveInv, LedgerTypeOK
      <4>2. p \in Active' /\ p \notin swept'
        BY <3>3, <4>1 DEF Active
      <4>3. rows'[p].amount = Want[p] - cum_filled[p]
        BY <3>1, <4>1, ParentNumbers DEF remaining
      <4> QED BY <1>1, <2>0, <3>1, <3>2, <4>2, <4>3, ParentNumbers DEF CoverInv
    <3>4. CASE ReserveRetried(p) /\ UNCHANGED <<lvars, swept>>
      <4>1. p \in Active /\ rows' = rows /\ swept' = swept
        BY <3>4 DEF ReserveRetried, lvars
      <4> QED BY <1>1, <2>0, <3>1, <3>2, <4>1 DEF CoverInv, Active
    <3> QED BY <2>1, <3>3, <3>4 DEF BeginEntry
  <2>2. CASE EmitChild(s, p)
    <3>1. EntryOf(p) /\ stage[Owner[p]].op = "reserved" /\ UNCHANGED <<rows, order, swept>>
      BY <2>2, AtStep DEF EmitChild, EntrySteps, lvars, broker, world
    <3> QED BY <1>1, <2>0, <3>1 DEF CoverInv, Active
  <2>3. CASE Recheck(s, p)
    <3>1. EntryOf(p) /\ stage[Owner[p]].op = "emitted" /\ UNCHANGED <<rows, order, swept>>
      BY <2>3, AtStep DEF Recheck, RecheckFails, EntrySteps, lvars, broker, world
    <3> QED BY <1>1, <2>0, <3>1 DEF CoverInv, Active
  <2>4. CASE PortSubmits(s, p)
    <3>1. EntryOf(p) /\ stage[Owner[p]].op = "rechecked" /\ UNCHANGED <<rows, swept>>
      BY <2>4, AtStep DEF PortSubmits, EntrySteps, lvars
    <3> QED BY <1>1, <2>0, <3>1 DEF CoverInv, Active
  <2>5. CASE ReleaseEntry(s, p)
    <3>1. p \notin Active'
      BY <2>5, ReleasedRows DEF ReleaseEntry, SleeveInv
    <3>2. EntryOf(p) /\ order' = order
      BY <2>5, AtStep DEF ReleaseEntry, EntrySteps
    <3>3. ~order[p].live
      BY <3>2, ParentNumbers DEF ParentInv
    <3>4. stage'[Owner[p]] = IdleStage
      BY <2>5, OthersStay DEF ReleaseEntry
    <3>5. ~(stage'[Owner[p]].op \in {"reserved", "emitted", "rechecked"})
      BY <3>4 DEF IdleStage
    <3> QED BY <3>1, <3>2, <3>3, <3>5, CoverGone
  <2> QED BY <2>1, <2>2, <2>3, <2>4, <2>5
<1> QED BY <1>4, <1>5

\* What the book learns lowers what the parent wants of its row.
LEMMA CoverLearnStep ==
  ASSUME SleeveInv, RestInv, \A q \in Parents : CoverInv(q), NEW p \in Parents,
         Learn(p), UNCHANGED <<stage, swept>>, ~EntryOf(p),
         IsReconciling(Owner[p]) => ~order[p].live
  PROVE  \A q \in Parents : CoverInv(q)'
<1> DEFINE still == IF order[p].live THEN open_qty[p] - order[p].unseen ELSE 0
<1>1. still \in Nat /\ (order[p].live <=> still # 0)
  BY ParentNumbers DEF ParentInv
<1>2. /\ cum_filled' = [cum_filled EXCEPT ![p] = cum_filled[p] + order[p].unseen]
      /\ open_qty' = [open_qty EXCEPT ![p] = still]
      /\ order' = [order EXCEPT ![p].unseen = 0]
      /\ rows' = IF still = 0 THEN Released({p}) ELSE rows
  BY DEF Learn
<1> HIDE DEF still
<1>3. \A q \in Parents : (EntryOf(q)' <=> EntryOf(q))
                         /\ (IsReconciling(Owner[q])' <=> IsReconciling(Owner[q]))
  BY DEF EntryOf, InEntry, IsReconciling
<1>4. \A q \in Parents : order'[q].live = order[q].live
  BY <1>2, ParentNumbers DEF SleeveInv, ShapeInv
<1>5. ASSUME NEW q \in Parents, q # p PROVE CoverInv(q)'
  <2>1. rows'[q] = rows[q]
    <3>1. LedgerTypeOK /\ q \notin {p}
      BY <1>5 DEF SleeveInv
    <3>2. CASE rows' = rows
      BY <3>2
    <3>3. CASE rows' = Released({p})
      BY <3>1, <3>3, ReleasedRows
    <3> QED BY <1>2, <3>2, <3>3
  <2>2. cum_filled'[q] = cum_filled[q] /\ open_qty'[q] = open_qty[q]
    BY <1>2, <1>5 DEF SleeveInv, ShapeInv
  <2> QED BY <1>3, <1>4, <2>1, <2>2, CoverStays
<1>6. CoverInv(p)'
  <2>1. CASE still = 0
    <3>1. p \notin Active'
      BY <1>2, <2>1, ReleasedRows DEF SleeveInv
    <3> QED BY <1>1, <1>3, <1>4, <2>1, <3>1, CoverGone
  <2>2. CASE still # 0
    <3>1. cum_filled'[p] = cum_filled[p] + order[p].unseen
      BY <1>2 DEF SleeveInv, ShapeInv
    <3>2. rows' = rows /\ rows[p].amount \in Nat
      BY <1>2, <2>2, LedgerAssumption DEF SleeveInv, LedgerTypeOK, Row
    <3>3. p \in Active => Want[p] - cum_filled'[p] <= rows[p].amount /\ rows[p].amount <= Want[p]
      BY <3>1, <3>2, ParentNumbers DEF CoverInv
    <3>4. p \in Active' <=> p \in Active
      BY <3>2 DEF Active
    <3>5. ~IsReconciling(Owner[p])'
      BY <1>1, <1>3, <2>2
    <3> QED BY <1>3, <1>4, <3>2, <3>3, <3>4, <3>5 DEF CoverInv
  <2> QED BY <2>1, <2>2
<1> QED BY <1>5, <1>6

\* A crash outside a reconcile forgets at most the child of the entry in progress.
LEMMA CoverDeathStep ==
  ASSUME SleeveInv, \A q \in Parents : CoverInv(q), NEW s \in Sleeves,
         ~IsReconciling(s),
         CrashSleeve(s) \/ \E p \in Parents : SleeveStep(s, p) /\ DiesAfterAccept(s, p)
  PROVE  \A q \in Parents : CoverInv(q)'
<1>1. GoTo(s, [op |-> "crashed"]) /\ UNCHANGED <<rows, cum_filled, order, swept>>
  BY DEF CrashSleeve, DiesAfterAccept, lvars
<1>2. /\ \A q \in Parents :
           /\ EntryOf(q)' => EntryOf(q) /\ stage'[Owner[q]] = stage[Owner[q]]
           /\ IsReconciling(Owner[q])' =>
                Owner[q] # s /\ stage'[Owner[q]] = stage[Owner[q]]
  <2>1. [op |-> "crashed"].op \notin EntrySteps \cup {"resolving", "swept"}
    BY DEF EntrySteps
  <2> QED BY <1>1, <2>1, ThreadMoves DEF IsReconciling
<1>3. \A q \in Parents : Owner[q] # s => open_qty'[q] = open_qty[q]
  BY DEF CrashSleeve, DiesAfterAccept, SleeveStep, SleeveInv, ShapeInv, StageInv
<1> SUFFICES ASSUME NEW q \in Parents PROVE CoverInv(q)'
  OBVIOUS
<1>4. q \in Active' <=> q \in Active
  BY <1>1 DEF Active
<1>5. IsReconciling(Owner[q])' => IsReconciling(Owner[q]) /\ open_qty'[q] = open_qty[q]
                                  /\ stage'[Owner[q]] = stage[Owner[q]]
  BY <1>2, <1>3 DEF IsReconciling
<1> QED BY <1>1, <1>2, <1>4, <1>5 DEF CoverInv

\* A crash in a reconcile takes back what it had learned, of children without a row.
LEMMA CoverReconcileCrashStep ==
  ASSUME SleeveInv, \A q \in Parents : CoverInv(q), NEW s \in Sleeves,
         CrashSleeve(s), IsReconciling(s)
  PROVE  \A q \in Parents : CoverInv(q)'
<1> DEFINE saved == stage[s].saved
<1>1. /\ GoTo(s, [op |-> "crashed"]) /\ UNCHANGED <<rows, swept>>
      /\ cum_filled' = [p \in Parents |->
           IF p \in OwnedBy(s) THEN saved.cum_filled[p] ELSE cum_filled[p]]
      /\ open_qty' = [p \in Parents |->
           IF p \in OwnedBy(s) THEN saved.open_qty[p] ELSE open_qty[p]]
      /\ order' = [p \in Parents |->
           IF p \in OwnedBy(s)
           THEN [order[p] EXCEPT !.unseen = @ + cum_filled[p] - saved.cum_filled[p]]
           ELSE order[p]]
  BY DEF CrashSleeve, lvars
<1>2. \A q \in Parents :
        /\ EntryOf(q)' => Owner[q] # s /\ EntryOf(q) /\ stage'[Owner[q]] = stage[Owner[q]]
        /\ IsReconciling(Owner[q])' =>
             Owner[q] # s /\ stage'[Owner[q]] = stage[Owner[q]]
  <2>1. [op |-> "crashed"].op \notin EntrySteps \cup {"resolving", "swept"}
    BY DEF EntrySteps
  <2> QED BY <1>1, <2>1, ThreadMoves DEF IsReconciling
<1>3. ASSUME NEW q \in Parents, Owner[q] # s PROVE CoverInv(q)'
  <2>1. cum_filled'[q] = cum_filled[q] /\ open_qty'[q] = open_qty[q] /\ order'[q] = order[q]
        /\ rows'[q] = rows[q]
    BY <1>1, <1>3 DEF OwnedBy
  <2> QED BY <1>1, <1>2, <2>1, CoverStays
<1>4. ASSUME NEW q \in Parents, Owner[q] = s PROVE CoverInv(q)'
  <2>1. cum_filled'[q] = saved.cum_filled[q] /\ order'[q].live = order[q].live
    BY <1>1, <1>4, ParentNumbers DEF OwnedBy
  <2>2. (q \in Active' <=> q \in Active) /\ ~EntryOf(q)' /\ ~IsReconciling(Owner[q])'
    BY <1>1, <1>2, <1>4 DEF Active
  <2>3. CASE saved.cum_filled[q] = cum_filled[q]
    BY <1>1, <2>1, <2>2, <2>3 DEF CoverInv
  <2>4. CASE open_qty[q] = 0 /\ saved.open_qty[q] \in Nat \ {0}
    <3>1. q \notin Active
      BY <1>4, <2>4 DEF CoverInv
    <3> QED BY <1>1, <2>1, <2>2, <3>1 DEF CoverInv
  <2> QED BY <1>4, <2>3, <2>4, ParentNumbers DEF RecallInv
<1> QED BY <1>3, <1>4

\* A sweep takes the rows the view does not list; a restart touches no other.
LEMMA CoverReconcileStep ==
  ASSUME SleeveInv, \A q \in Parents : CoverInv(q), NEW s \in Sleeves,
         (\E manual \in SUBSET Strangers : BeginReconcile(s, manual))
           \/ SweepLedger(s) \/ EndReconcile(s)
  PROVE  \A q \in Parents : CoverInv(q)'
<1>1. UNCHANGED <<cum_filled, open_qty, order>>
  BY DEF BeginReconcile, SweepLedger, AfterSweep, EndReconcile, bookvars, broker
<1>2. \A q \in Parents :
        /\ EntryOf(q)' => EntryOf(q) /\ stage'[Owner[q]] = stage[Owner[q]]
        /\ IsReconciling(Owner[q])' =>
             \/ stage'[Owner[q]] = stage[Owner[q]]
             \/ stage'[Owner[q]].saved.open_qty[q] = open_qty[q]
             \/ /\ IsReconciling(Owner[q])
                /\ stage'[Owner[q]].saved = stage[Owner[q]].saved
  <2>1. ASSUME NEW manual \in SUBSET Strangers, BeginReconcile(s, manual), NEW q \in Parents
        PROVE  /\ EntryOf(q)' => EntryOf(q) /\ stage'[Owner[q]] = stage[Owner[q]]
               /\ stage'[Owner[q]] # stage[Owner[q]] =>
                    stage'[Owner[q]].saved.open_qty[q] = open_qty[q]
    <3> DEFINE x == [op |-> "resolving",
                     view |-> [p \in OwnedBy(s) \cap Live |-> order[p].left],
                     unknown |-> (Live \ OwnedBy(s)) \cup {p \in Parents : stray[p].left > 0}
                                   \cup manual,
                     saved |-> [cum_filled |-> [p \in OwnedBy(s) |-> cum_filled[p]],
                                open_qty |-> [p \in OwnedBy(s) |-> open_qty[p]],
                                halted |-> book_halted[s]]]
    <3>1. GoTo(s, x)
      BY <2>1 DEF BeginReconcile
    <3>2. /\ x.op \notin EntrySteps
          /\ DOMAIN x.view \subseteq Parents /\ x.unknown \subseteq Parents \cup Strangers
          /\ \A p \in OwnedBy(s) : x.saved.open_qty[p] = open_qty[p]
      BY DEF EntrySteps, Live, OwnedBy
    <3> HIDE DEF x
    <3>3. /\ EntryOf(q)' => EntryOf(q) /\ stage'[Owner[q]] = stage[Owner[q]]
          /\ stage'[Owner[q]] = IF Owner[q] = s THEN x ELSE stage[Owner[q]]
      BY <3>1, <3>2, ThreadMoves
    <3>4. Owner[q] = s => q \in OwnedBy(s)
      BY DEF OwnedBy
    <3> QED BY <3>2, <3>3, <3>4
  <2>2. ASSUME SweepLedger(s) \/ EndReconcile(s), NEW q \in Parents
        PROVE  /\ EntryOf(q)' => EntryOf(q) /\ stage'[Owner[q]] = stage[Owner[q]]
               /\ IsReconciling(Owner[q])' =>
                    \/ stage'[Owner[q]] = stage[Owner[q]]
                    \/ /\ IsReconciling(Owner[q])
                       /\ stage'[Owner[q]].saved = stage[Owner[q]].saved
    <3>1. PICK x : /\ GoTo(s, x) /\ x.op \notin EntrySteps /\ x.op # "resolving"
                   /\ x.op = "swept" => IsReconciling(s) /\ x.saved = stage[s].saved
      <4>1. CASE SweepLedger(s)
        <5> DEFINE y == [op |-> "swept", matches |-> ViewMatchesBook(s),
                         saved |-> stage[s].saved]
        <5>1. GoTo(s, y) /\ IsReconciling(s)
          BY <4>1 DEF SweepLedger, AfterSweep, IsReconciling
        <5>2. y.op \notin EntrySteps /\ y.op # "resolving" /\ y.saved = stage[s].saved
          BY DEF EntrySteps
        <5> HIDE DEF y
        <5> QED BY <5>1, <5>2
      <4>2. CASE EndReconcile(s)
        BY <4>2 DEF EndReconcile, IdleStage, EntrySteps
      <4> QED BY <2>2, <4>1, <4>2
    <3>2. /\ EntryOf(q)' => EntryOf(q) /\ stage'[Owner[q]] = stage[Owner[q]]
          /\ stage'[Owner[q]] = IF Owner[q] = s THEN x ELSE stage[Owner[q]]
      BY <3>1, ThreadMoves
    <3> QED BY <3>1, <3>2 DEF IsReconciling
  <2> QED BY <2>1, <2>2
<1>3. CASE ~SweepLedger(s)
  <2>1. rows' = rows /\ swept' = swept
    BY <1>3 DEF BeginReconcile, EndReconcile, Halt, lvars, world
  <2> QED BY <1>1, <1>2, <2>1, CoverStays
<1>4. CASE SweepLedger(s)
  <2> SUFFICES ASSUME NEW q \in Parents PROVE CoverInv(q)'
    OBVIOUS
  <2> DEFINE ps == Parents \ (Listed(s) \cup Inflight(s))
  <2>1. rows' = Released(ps) /\ swept' = swept \cup (Active \ (Listed(s) \cup Inflight(s)))
    BY <1>4 DEF SweepLedger, Sweep, AfterSweep
  <2>2. q \in swept' <=> q \in swept \/ (q \in Active /\ q \in ps)
    BY <2>1
  <2> HIDE DEF ps
  <2>3. CASE q \in Active /\ q \in ps
    <3>1. q \notin Active'
      BY <2>1, <2>3, ReleasedRows DEF SleeveInv
    <3> QED BY <2>2, <2>3, <3>1, CoverSwept
  <2>4. CASE ~(q \in Active /\ q \in ps)
    <3>1. rows'[q] = rows[q]
      BY <2>1, <2>4, ReleasedRows DEF SleeveInv
    <3> QED BY <1>1, <1>2, <2>2, <2>4, <3>1, CoverStays
  <2> QED BY <2>3, <2>4
<1> QED BY <1>3, <1>4

\* The broker, the cash and the clock leave rows and books alone.
LEMMA CoverOutsideStep ==
  ASSUME SleeveInv, RestInv, \A q \in Parents : CoverInv(q),
         \/ \E p \in Parents, k \in Amount : BrokerFills(p, k)
         \/ \E p \in Parents, k \in Amount : StrayFills(p, k)
         \/ \E p \in Parents : BrokerCloses(p) \/ StrayCloses(p)
         \/ \E k \in Amount : CashLeaves(k)
         \/ OperatorClears
         \/ TimePasses
         \/ UNCHANGED evars
  PROVE  \A q \in Parents : CoverInv(q)'
<1>1. UNCHANGED <<rows, cum_filled, open_qty, stage, swept>>
  BY DEF BrokerFills, BrokerCloses, StrayFills, StrayCloses, CashLeaves, CashMoves,
         OperatorClears, ClearHalt, TimePasses, ClockTicks, evars, lvars, bookvars, world
<1>2. \A q \in Parents : EntryOf(q)' <=> EntryOf(q)
  BY <1>1 DEF EntryOf, InEntry
<1>3. \A q \in Parents : order'[q].live => order[q].live
  <2>1. ASSUME NEW p \in Parents, NEW k \in Amount, BrokerFills(p, k)
        PROVE  \A q \in Parents : order'[q].live => order[q].live
    BY <2>1 DEF BrokerFills, SleeveInv, ShapeInv
  <2>2. ASSUME NEW p \in Parents, BrokerCloses(p)
        PROVE  \A q \in Parents : order'[q].live => order[q].live
    BY <2>2 DEF BrokerCloses, SleeveInv, ShapeInv
  <2>3. CASE \/ \E p \in Parents, k \in Amount : StrayFills(p, k)
             \/ \E p \in Parents : StrayCloses(p)
             \/ \E k \in Amount : CashLeaves(k)
             \/ OperatorClears \/ TimePasses \/ UNCHANGED evars
    BY <2>3 DEF StrayFills, StrayCloses, CashLeaves, OperatorClears, TimePasses, evars, broker
  <2> QED BY <2>1, <2>2, <2>3
<1> QED BY <1>1, <1>2, <1>3, CoverStays

\* What holds of every state of the account is kept by every step.
LEMMA AccountStep == AccountInv /\ [SleeveNext]_evars => AccountInv'
<1> SUFFICES ASSUME AccountInv, [SleeveNext]_evars PROVE AccountInv'
  OBVIOUS
<1>0. SleeveInv' /\ RestInv'
  BY SleeveStepInv, RestStep DEF AccountInv
<1>a. SleeveInv /\ RestInv /\ \A q \in Parents : CoverInv(q)
  BY DEF AccountInv
<1>1. ASSUME NEW s \in Sleeves, NEW p \in Parents, SleeveStep(s, p)
      PROVE  \A q \in Parents : CoverInv(q)'
  <2>1. Owner[p] = s
    BY <1>1 DEF SleeveStep
  <2>2. CASE Observe(s, p)
    <3>1. ~EntryOf(p) /\ ~IsReconciling(Owner[p])
      BY <2>1, <2>2 DEF Observe, IsIdle, IdleStage, EntryOf, InEntry, EntrySteps, IsReconciling
    <3>2. Learn(p) /\ UNCHANGED <<stage, swept>>
      BY <2>2 DEF Observe, world
    <3> QED BY <1>a, <3>1, <3>2, CoverLearnStep
  <2>3. CASE ResolveChild(s, p)
    <3>1. ~EntryOf(p)
      BY <2>1, <2>3 DEF ResolveChild, EntryOf, InEntry, EntrySteps
    <3>2. Learn(p) /\ UNCHANGED <<stage, swept>>
      BY <2>3 DEF ResolveChild, world
    <3>3. stage[Owner[p]].op = "resolving" /\ p \notin DOMAIN stage[Owner[p]].view
      BY <2>1, <2>3 DEF ResolveChild, Unlisted
    <3>4. ~order[p].live
      BY <1>a, <3>3, ParentNumbers DEF RecallInv
    <3> QED BY <1>a, <3>1, <3>2, <3>4, CoverLearnStep
  <2>4. CASE EntryRefused(s, p)
    <3>1. UNCHANGED <<rows, cum_filled, open_qty, order, stage, swept>>
      BY <2>4 DEF EntryRefused, lvars, bookvars, broker, world
    <3> QED BY <1>a, <3>1 DEF CoverInv, Active, EntryOf, InEntry, IsReconciling
  <2>5. CASE \/ BeginEntry(s, p) \/ EmitChild(s, p) \/ Recheck(s, p)
             \/ PortSubmits(s, p) \/ ReleaseEntry(s, p)
    BY <1>a, <2>1, <2>5, CoverEntryStep
  <2>6. CASE DiesAfterAccept(s, p)
    <3>1. ~IsReconciling(s)
      BY <2>6 DEF DiesAfterAccept, IsAt, At, IsReconciling
    <3> QED BY <1>a, <1>1, <2>6, <3>1, CoverDeathStep
  <2> QED BY <1>1, <2>2, <2>3, <2>4, <2>5, <2>6 DEF SleeveStep
<1>2. ASSUME NEW s \in Sleeves,
             \/ CrashSleeve(s)
             \/ \E manual \in SUBSET Strangers : BeginReconcile(s, manual)
             \/ SweepLedger(s) \/ EndReconcile(s)
      PROVE  \A q \in Parents : CoverInv(q)'
  BY <1>a, <1>2, CoverReconcileStep, CoverReconcileCrashStep, CoverDeathStep
<1>3. ASSUME \/ \E p \in Parents, k \in Amount : BrokerFills(p, k)
             \/ \E p \in Parents, k \in Amount : StrayFills(p, k)
             \/ \E p \in Parents : BrokerCloses(p) \/ StrayCloses(p)
             \/ \E k \in Amount : CashLeaves(k)
             \/ OperatorClears
             \/ TimePasses
             \/ UNCHANGED evars
      PROVE  \A q \in Parents : CoverInv(q)'
  BY <1>a, <1>3, CoverOutsideStep
<1> QED BY <1>0, <1>1, <1>2, <1>3 DEF AccountInv, SleeveNext

\* On a fresh account nothing is reserved and no thread works.
LEMMA AccountInit == SleeveInit => AccountInv
<1> SUFFICES ASSUME SleeveInit PROVE AccountInv
  OBVIOUS
<1>1. SleeveInv /\ RestInv
  BY SleeveInitInv, RestInit
<1>2. \A s \in Sleeves : stage[s].op = "idle"
  BY DEF SleeveInit, IdleStage
<1>3. ASSUME NEW p \in Parents PROVE CoverInv(p)
  <2>1. p \notin Active /\ ~order[p].live /\ p \notin swept
    BY DEF SleeveInit, LedgerInit, NoRow, NoOrder, Active
  <2>2. ~EntryOf(p)
    BY <1>2, SleeveAssumption DEF EntryOf, InEntry, EntrySteps
  <2> QED BY <2>1, <2>2 DEF CoverInv
<1> QED BY <1>1, <1>3 DEF AccountInv

\* Whatever crashes, lost replies and late retries there are, only a sweep whose view did
\* not have an order takes the row of a BUY that works: every other working BUY has an
\* active row that is worth what is left of it.
THEOREM SleevesOnlyStaleSweepsUncover == SleeveSpec => []OnlyStaleSweepsUncover
<1>1. AccountInv => OnlyStaleSweepsUncover
  BY CoverIsRow DEF AccountInv
<1> QED BY <1>1, AccountInit, AccountStep, PTL DEF SleeveSpec

-----------------------------------------------------------------------------
\* The numbers of the accounting, before a step and after it.
Numbers ==
    /\ Claims \in Nat
    /\ \A p \in Parents : Claim(p) \in Nat /\ cum_filled[p] \in Nat /\ order[p].unseen \in Nat

\* The numbers the sums are made of, now and after a step.
LEMMA AccountNumbers == AccountInv => Numbers
BY ClaimBounds, SumsAreOrdered, ParentNumbers DEF AccountInv, Numbers

LEMMA AccountNumbersNext == AccountInv' => Numbers'
BY AccountNumbers, PTL

\* If no parent claims more than before, neither do all together.
LEMMA ClaimsShrink ==
  ASSUME AccountInv, AccountInv', \A q \in Parents : Counts(q)' => Counts(q),
         \A q \in Parents : cum_filled'[q] + order'[q].unseen = cum_filled[q] + order[q].unseen
  PROVE  Claims' <= Claims
<1> DEFINE f == [q \in Parents |-> Claim(q)]
           g == [q \in Parents |-> Claim(q)']
<1>1. \A q \in Parents : Claim(q) \in Nat
  BY ClaimBounds DEF AccountInv
<1>2. \A q \in Parents : Claim(q)' \in Nat
  BY AccountNumbersNext DEF Numbers
<1>3. ASSUME NEW q \in Parents PROVE Claim(q)' <= Claim(q)
  <2>1. CASE Counts(q)'
    <3>1. /\ Claim(q)' = Want[q] - cum_filled'[q] - order'[q].unseen
          /\ Claim(q) = Want[q] - cum_filled[q] - order[q].unseen
      BY <2>1 DEF Claim
    <3>2. Want[q] \in Nat
      BY ParentNumbers DEF AccountInv
    <3> QED BY <3>1, <3>2, AccountNumbers, AccountNumbersNext DEF Numbers
  <2>2. CASE ~Counts(q)'
    <3>1. Claim(q)' = 0
      BY <2>2 DEF Claim
    <3> QED BY <3>1, <1>1
  <2> QED BY <2>1, <2>2
<1>4. Claims = SumOver(f, Parents) /\ Claims' = SumOver(g, Parents)
  BY DEF Claims
<1>5. \A q \in Parents : f[q] \in Int /\ g[q] \in Int /\ g[q] <= f[q]
  BY <1>1, <1>2, <1>3
<1>6. IsFiniteSet(Parents)
  BY LedgerAssumption
<1> HIDE DEF f, g
<1>7. SumOver(g, Parents) <= SumOver(f, Parents)
  BY <1>5, <1>6, SumMonotone
<1> QED BY <1>4, <1>7

\* If one parent's claim moves, the sum moves by as much.
LEMMA OneClaimMoves ==
  ASSUME AccountInv, AccountInv', NEW p \in Parents,
         \A q \in Parents : q # p => Claim(q)' = Claim(q)
  PROVE  Claims' = Claims + Claim(p)' - Claim(p)
<1> DEFINE f == [q \in Parents |-> Claim(q)]
           g == [q \in Parents |-> Claim(q)']
<1>1. \A q \in Parents : Claim(q) \in Nat
  BY ClaimBounds DEF AccountInv
<1>2. \A q \in Parents : Claim(q)' \in Nat
  BY AccountNumbersNext DEF Numbers
<1>3. Claims = SumOver(f, Parents) /\ Claims' = SumOver(g, Parents)
  BY DEF Claims
<1>4. f[p] = Claim(p) /\ g[p] = Claim(p)'
  OBVIOUS
<1>5. DifferOnlyAt(f, g, p, Parents)
  BY <1>1, <1>2 DEF DifferOnlyAt
<1>6. IsFiniteSet(Parents)
  BY LedgerAssumption
<1> HIDE DEF f, g
<1>7. SumOver(g, Parents) = SumOver(f, Parents) + g[p] - f[p]
  BY <1>5, <1>6, SumChangeOne
<1> QED BY <1>3, <1>4, <1>7

\* A new reservation claims what it asked for, out of cash no row counts for.
LEMMA FundedReserve ==
  ASSUME AccountInv, AccountInv', NEW s \in Sleeves, NEW p \in Parents, BeginEntry(s, p),
         Reserve(p, remaining(p))
  PROVE  Claims' <= broker_cash
<1>a. SleeveInv /\ RestInv /\ \A q \in Parents : CoverInv(q)
  BY DEF AccountInv
<1>1. remaining(p) = Want[p] - cum_filled[p] /\ remaining(p) \in Nat /\ order[p].unseen = 0
  BY <1>a, RemainingIsAmount, ParentNumbers, LedgerAssumption DEF BeginEntry, remaining, Amount
<1>2. /\ p \notin Active /\ broker_cash - ActiveSum - remaining(p) >= 0
      /\ rows' = [rows EXCEPT ![p] = [status |-> "active", amount |-> remaining(p),
                                      expires_at |-> clock + Ttl]]
      /\ UNCHANGED <<clock, cum_filled, order>>
  BY DEF Reserve, ReserveFresh, HasHeadroom, BeginEntry, bookvars, broker
<1>3. ASSUME NEW q \in Parents, q # p PROVE Claim(q)' = Claim(q)
  <2>1. rows'[q] = rows[q]
    BY <1>a, <1>2, <1>3 DEF SleeveInv, LedgerTypeOK
  <2> QED BY <1>2, <2>1 DEF Claim, Counts, Active
<1>4. Claim(p) = 0
  BY <1>2 DEF Claim, Counts
<1>5. Claim(p)' = remaining(p)
  <2>1. rows'[p] = [status |-> "active", amount |-> remaining(p), expires_at |-> clock + Ttl]
    BY <1>a, <1>2 DEF SleeveInv, LedgerTypeOK
  <2>2. clock \in Nat /\ Ttl \in Nat \ {0}
    BY <1>a, LedgerAssumption DEF SleeveInv, LedgerTypeOK
  <2>3. Counts(p)'
    BY <1>2, <2>1, <2>2 DEF Counts, IsExpired, Active
  <2>4. Claim(p)' = Want[p] - cum_filled[p] - order[p].unseen
    BY <1>2, <2>3 DEF Claim
  <2> QED BY <1>1, <1>a, <2>4, ParentNumbers
<1>6. Claims' = Claims + remaining(p)
  <2>1. Claims' = Claims + Claim(p)' - Claim(p)
    BY <1>3, OneClaimMoves
  <2>2. Claims \in Nat
    BY <1>a, SumsAreOrdered
  <2> QED BY <1>1, <1>4, <1>5, <2>1, <2>2
<1>7. Claims \in Nat /\ ActiveSum \in Nat /\ Claims <= ActiveSum
  BY <1>a, SumsAreOrdered
<1>8. broker_cash \in Nat
  BY <1>a, LedgerAssumption DEF SleeveInv, LedgerTypeOK
<1> QED BY <1>1, <1>2, <1>6, <1>7, <1>8

\* A fill under a counting row takes as much off its claim as off the cash.
LEMMA FundedFill ==
  ASSUME AccountInv, AccountInv', NEW p \in Parents, NEW k \in Amount, BrokerFills(p, k),
         Counts(p), Claims <= broker_cash
  PROVE  Claims' <= broker_cash'
<1>a. SleeveInv /\ RestInv /\ \A q \in Parents : CoverInv(q)
  BY DEF AccountInv
<1>0. k \in Nat
  BY DEF Amount
<1>1. /\ order[p].live /\ broker_cash' = broker_cash - k
      /\ UNCHANGED <<rows, clock, cum_filled>>
      /\ order' = [order EXCEPT ![p] = [live |-> k < order[p].left,
                     left |-> order[p].left - k, unseen |-> order[p].unseen + k]]
  BY DEF BrokerFills, CashMoves, bookvars
<1>2. ASSUME NEW q \in Parents, q # p PROVE Claim(q)' = Claim(q)
  <2>1. order'[q] = order[q]
    BY <1>a, <1>1, <1>2 DEF SleeveInv, ShapeInv
  <2> QED BY <1>1, <2>1 DEF Claim, Counts, Active
<1>3. order'[p].unseen = order[p].unseen + k
  BY <1>a, <1>1 DEF SleeveInv, ShapeInv
<1>4. Counts(p)'
  BY <1>1 DEF Counts, Active
<1>5. /\ Claim(p) = Want[p] - cum_filled[p] - order[p].unseen
      /\ Claim(p)' = Want[p] - cum_filled[p] - (order[p].unseen + k)
  BY <1>1, <1>3, <1>4 DEF Claim
<1>6. Claims' = Claims + Claim(p)' - Claim(p)
  BY <1>2, OneClaimMoves
<1>7. Claims \in Nat /\ broker_cash \in Nat
  BY <1>a, SumsAreOrdered, LedgerAssumption DEF SleeveInv, LedgerTypeOK
<1>8. Want[p] \in Nat /\ cum_filled[p] \in Nat /\ order[p].unseen \in Nat
  BY <1>a, ParentNumbers
<1> QED BY <1>0, <1>1, <1>5, <1>6, <1>7, <1>8

\* A crash in a reconcile forgets fills of the book, and the broker's stand.
LEMMA RecalledFills ==
  ASSUME SleeveInv, NEW s \in Sleeves, CrashSleeve(s), NEW q \in Parents
  PROVE  cum_filled'[q] + order'[q].unseen = cum_filled[q] + order[q].unseen
<1>1. CASE IsReconciling(s) /\ Owner[q] = s
  <2>1. /\ cum_filled'[q] = stage[s].saved.cum_filled[q]
        /\ order'[q] = [order[q] EXCEPT !.unseen =
                          @ + cum_filled[q] - stage[s].saved.cum_filled[q]]
    BY <1>1 DEF CrashSleeve, OwnedBy
  <2>2. order'[q].unseen = order[q].unseen + cum_filled[q] - stage[s].saved.cum_filled[q]
    BY <2>1, ParentNumbers
  <2>3. stage[s].saved.cum_filled[q] \in Nat
    BY <1>1, ParentNumbers DEF RecallInv
  <2> QED BY <2>1, <2>2, <2>3, ParentNumbers
<1>2. CASE ~(IsReconciling(s) /\ Owner[q] = s)
  <2>1. cum_filled'[q] = cum_filled[q] /\ order'[q] = order[q]
    BY <1>2 DEF CrashSleeve, OwnedBy
  <2> QED BY <2>1
<1> QED BY <1>1, <1>2

\* Every step that takes cash for what no row counts says so, and no other raises a claim.
LEMMA FundedStep ==
  AccountInv /\ AccountInv' /\ FundedInv /\ [SleeveNext]_evars => FundedInv'
<1> SUFFICES ASSUME AccountInv, AccountInv', FundedInv, [SleeveNext]_evars PROVE FundedInv'
  OBVIOUS
<1>a. SleeveInv /\ RestInv /\ \A q \in Parents : CoverInv(q)
  BY DEF AccountInv
<1>n. Claims \in Nat /\ broker_cash \in Nat
  BY <1>a, SumsAreOrdered, LedgerAssumption DEF SleeveInv, LedgerTypeOK
<1>m. Claims' \in Nat
  BY AccountNumbersNext DEF Numbers
\* Rows that stand or are released, and numbers that add up as before.
<1>s. ASSUME UNCHANGED <<broker_cash, clock, unexplained>>,
             rows' = rows \/ \E ps : rows' = Released(ps),
             \A q \in Parents :
               cum_filled'[q] + order'[q].unseen = cum_filled[q] + order[q].unseen
      PROVE  FundedInv'
  <2>1. ASSUME NEW q \in Parents, Counts(q)' PROVE Counts(q)
    <3>1. CASE rows' = rows
      BY <1>s, <2>1, <3>1 DEF Counts, Active
    <3>2. CASE \E ps : rows' = Released(ps)
      <4>1. PICK ps : rows' = Released(ps)
        BY <3>2
      <4>2. q \notin ps /\ rows'[q] = rows[q]
        BY <1>a, <2>1, <4>1, ReleasedRows DEF SleeveInv, Counts
      <4> QED BY <1>s, <2>1, <4>2 DEF Counts, Active
    <3> QED BY <1>s, <3>1, <3>2
  <2>2. Claims' <= Claims
    BY <1>s, <2>1, ClaimsShrink
  <2> QED BY <1>s, <1>n, <1>m, <2>2 DEF FundedInv
<1>1. ASSUME NEW s \in Sleeves, NEW p \in Parents, SleeveStep(s, p)
      PROVE  FundedInv'
  <2>1. CASE BeginEntry(s, p)
    <3>1. CASE Reserve(p, remaining(p))
      <4>1. Claims' <= broker_cash
        BY <2>1, <3>1, FundedReserve
      <4> QED BY <2>1, <3>1, <4>1 DEF Reserve, FundedInv, BeginEntry
    <3>2. CASE UNCHANGED lvars
      BY <2>1, <3>2, <1>s DEF BeginEntry, lvars, bookvars, broker
    <3> QED BY <2>1, <3>1, <3>2 DEF BeginEntry
  <2>2. CASE EntryRefused(s, p) \/ EmitChild(s, p) \/ Recheck(s, p) \/ DiesAfterAccept(s, p)
    BY <2>2, <1>s DEF EntryRefused, EmitChild, Recheck, RecheckFails, DiesAfterAccept, lvars,
                      bookvars, broker, world
  <2>3. CASE PortSubmits(s, p)
    <3>1. order[p].unseen = 0
      BY <2>3, <1>1, <1>a, AtStep, ParentNumbers
         DEF PortSubmits, ParentInv, EntrySteps, SleeveStep
    <3>2. \A q \in Parents : order'[q].unseen = order[q].unseen
      BY <2>3, <3>1, <1>a DEF PortSubmits, SubmitRaises, SleeveInv, ShapeInv
    <3> QED BY <2>3, <3>2, <1>s DEF PortSubmits, lvars
  <2>4. CASE ReleaseEntry(s, p)
    BY <2>4, <1>s DEF ReleaseEntry, bookvars, world
  <2>5. CASE Observe(s, p) \/ ResolveChild(s, p)
    <3>1. Learn(p) /\ UNCHANGED world
      BY <2>5 DEF Observe, ResolveChild
    <3>2. /\ cum_filled' = [cum_filled EXCEPT ![p] = cum_filled[p] + order[p].unseen]
          /\ order' = [order EXCEPT ![p].unseen = 0]
      BY <3>1 DEF Learn
    <3>3. ASSUME NEW q \in Parents
          PROVE  cum_filled'[q] + order'[q].unseen = cum_filled[q] + order[q].unseen
      <4>1. CASE q = p
        <5>1. cum_filled'[p] = cum_filled[p] + order[p].unseen /\ order'[p].unseen = 0
          BY <1>a, <3>2 DEF SleeveInv, ShapeInv
        <5> QED BY <1>a, <4>1, <5>1, ParentNumbers
      <4>2. CASE q # p
        BY <1>a, <3>2, <4>2 DEF SleeveInv, ShapeInv
      <4> QED BY <4>1, <4>2
    <3>4. rows' = rows \/ rows' = Released({p})
      BY <3>1 DEF Learn
    <3>5. UNCHANGED <<broker_cash, clock, unexplained>>
      BY <3>1 DEF Learn, world
    <3> QED BY <3>3, <3>4, <3>5, <1>s
  <2> QED BY <1>1, <2>1, <2>2, <2>3, <2>4, <2>5 DEF SleeveStep
<1>2. ASSUME NEW s \in Sleeves, CrashSleeve(s) PROVE FundedInv'
  <2>1. \A q \in Parents :
          cum_filled'[q] + order'[q].unseen = cum_filled[q] + order[q].unseen
    BY <1>a, <1>2, RecalledFills
  <2>2. UNCHANGED <<rows, broker_cash, clock, unexplained>>
    BY <1>2 DEF CrashSleeve, lvars
  <2> QED BY <2>1, <2>2, <1>s
<1>3. ASSUME NEW s \in Sleeves,
             \/ \E manual \in SUBSET Strangers : BeginReconcile(s, manual)
             \/ SweepLedger(s) \/ EndReconcile(s)
      PROVE  FundedInv'
  <2>1. rows' = rows \/ \E ps : rows' = Released(ps)
    BY <1>3 DEF BeginReconcile, SweepLedger, Sweep, EndReconcile, Halt, lvars
  <2>2. UNCHANGED <<broker_cash, clock, unexplained, cum_filled, order>>
    BY <1>3 DEF BeginReconcile, SweepLedger, Sweep, AfterSweep, EndReconcile, Halt, lvars,
                bookvars, broker, world
  <2> QED BY <2>1, <2>2, <1>s
<1>4. ASSUME NEW p \in Parents, NEW k \in Amount, BrokerFills(p, k) PROVE FundedInv'
  BY <1>4, FundedFill DEF FundedInv, BrokerFills
<1>5. ASSUME NEW p \in Parents, BrokerCloses(p) \/ StrayCloses(p) PROVE FundedInv'
  <2>1. \A q \in Parents : order'[q].unseen = order[q].unseen
    BY <1>5, <1>a DEF BrokerCloses, StrayCloses, SleeveInv, ShapeInv
  <2> QED BY <1>5, <2>1, <1>s DEF BrokerCloses, StrayCloses, lvars, bookvars, world
<1>6. CASE \/ \E p \in Parents, k \in Amount : StrayFills(p, k)
           \/ \E k \in Amount : CashLeaves(k)
  BY <1>6 DEF StrayFills, CashLeaves, FundedInv
<1>7. CASE OperatorClears \/ UNCHANGED evars
  BY <1>7, <1>s DEF OperatorClears, ClearHalt, evars, lvars, bookvars, broker, world
<1>8. CASE TimePasses
  <2>1. clock' = clock + 1 /\ UNCHANGED <<rows, broker_cash, cum_filled, order, unexplained>>
    BY <1>8 DEF TimePasses, ClockTicks, bookvars, broker, world
  <2>2. clock \in Nat /\ \A q \in Parents : rows[q].expires_at \in Nat
    BY <1>a, LedgerAssumption DEF SleeveInv, LedgerTypeOK, Row
  <2>3. \A q \in Parents : Counts(q)' => Counts(q)
    BY <2>1, <2>2 DEF Counts, IsExpired, Active
  <2>4. Claims' <= Claims
    BY <2>1, <2>3, ClaimsShrink
  <2> QED BY <1>n, <1>m, <2>1, <2>4 DEF FundedInv
<1> QED BY <1>1, <1>2, <1>3, <1>4, <1>5, <1>6, <1>7, <1>8 DEF SleeveNext

\* A fresh account has no claims.
LEMMA FundedInit == SleeveInit => FundedInv
<1> SUFFICES ASSUME SleeveInit PROVE Claims <= broker_cash
  BY DEF FundedInv
<1> DEFINE f == [p \in Parents |-> Claim(p)]
<1>1. \A p \in Parents : f[p] = 0
  BY DEF SleeveInit, LedgerInit, NoRow, Claim, Counts, Active
<1>2. Claims = SumOver(f, Parents)
  BY DEF Claims
<1> HIDE DEF f
<1>3. Claims = 0
  BY <1>1, <1>2, LedgerAssumption, SumZero
<1> QED BY <1>3, LedgerAssumption DEF SleeveInit, LedgerInit

\* What the ledger does close: whatever the sleeves do, the working BUYs whose rows count
\* can all be paid for together, until cash leaves for something no counting row stands for.
THEOREM SleevesCountedBuysAreFunded == SleeveSpec => []CountedBuysAreFunded
<1>1. AccountInv /\ FundedInv => CountedBuysAreFunded
  <2> SUFFICES ASSUME AccountInv, FundedInv, ~unexplained PROVE CountedUnits <= broker_cash
    BY DEF CountedBuysAreFunded, CountedUnits
  <2>1. CountedUnits \in Nat /\ Claims \in Nat /\ CountedUnits <= Claims
    BY SumsAreOrdered DEF AccountInv
  <2>2. broker_cash \in Nat
    BY LedgerAssumption DEF AccountInv, SleeveInv, LedgerTypeOK
  <2> QED BY <2>1, <2>2 DEF FundedInv
<1> QED BY <1>1, AccountInit, AccountStep, FundedInit, FundedStep, PTL DEF SleeveSpec

\* When nothing has been filled of what is reserved, every row that counts is claimed in
\* full: the recheck finds the cash its reservations were granted from.
LEMMA NothingFilledAllClaimed ==
  ASSUME AccountInv, \A p \in Active : ~(cum_filled[p] + order[p].unseen > 0)
  PROVE  ActiveSum <= Claims
<1> DEFINE f == [p \in Parents |-> Counting(rows[p], clock)]
           g == [p \in Parents |-> Claim(p)]
<1>a. SleeveInv /\ RestInv /\ \A q \in Parents : CoverInv(q)
  BY DEF AccountInv
<1>1. ASSUME NEW p \in Parents PROVE f[p] \in Int /\ g[p] \in Int /\ f[p] <= g[p]
  <2>1. Claim(p) \in Nat /\ Counting(rows[p], clock) \in Nat
    BY <1>a, ClaimBounds
  <2>n. rows[p].expires_at \in Nat /\ clock \in Nat
    BY <1>a, LedgerAssumption DEF SleeveInv, LedgerTypeOK, Row
  <2>2. CASE Counts(p)
    <3>1. p \in Active /\ rows[p].amount <= Want[p]
      BY <1>a, <2>2 DEF Counts, CoverInv
    <3>2. cum_filled[p] = 0 /\ order[p].unseen = 0
      BY <1>a, <3>1, ParentNumbers
    <3>3. Claim(p) = Want[p]
      BY <1>a, <2>2, <3>2, ParentNumbers DEF Claim
    <3>4. Counting(rows[p], clock) = rows[p].amount
      BY <2>2, <2>n DEF Counts, IsExpired, Counting, Active
    <3> QED BY <2>1, <3>1, <3>3, <3>4
  <2>3. CASE ~Counts(p)
    <3>1. Counting(rows[p], clock) = 0
      BY <2>3, <2>n DEF Counts, IsExpired, Counting, Active
    <3> QED BY <2>1, <3>1
  <2> QED BY <2>2, <2>3
<1>2. ActiveSum = SumOver(f, Parents) /\ Claims = SumOver(g, Parents)
  BY DEF ActiveSum, Claims
<1>3. IsFiniteSet(Parents)
  BY LedgerAssumption
<1> HIDE DEF f, g
<1>4. SumOver(f, Parents) <= SumOver(g, Parents)
  BY <1>1, <1>3, SumMonotone
<1> QED BY <1>2, <1>4

\* Only a recheck that fails writes its reason.
LEMMA RecheckWrites ==
  ASSUME [SleeveNext]_evars, ~IsHalted, halt_reason' = "recheck_mismatch"
  PROVE  ~RecheckPasses
<1>1. halt_reason' # halt_reason
  BY DEF IsHalted, NotHalted
<1>2. ASSUME NEW s \in Sleeves, NEW p \in Parents, SleeveStep(s, p) PROVE ~RecheckPasses
  BY <1>1, <1>2 DEF SleeveStep, BeginEntry, Reserve, EntryRefused, EmitChild, Recheck,
                    RecheckFails, PortSubmits, ReleaseEntry, Observe, ResolveChild, Learn,
                    DiesAfterAccept, lvars
<1>3. ASSUME NEW s \in Sleeves,
             \/ CrashSleeve(s)
             \/ \E manual \in SUBSET Strangers : BeginReconcile(s, manual)
             \/ SweepLedger(s) \/ EndReconcile(s)
      PROVE  FALSE
  BY <1>1, <1>3 DEF CrashSleeve, BeginReconcile, SweepLedger, Sweep, EndReconcile, Halt,
                    HaltWith, IsHalted, lvars
<1>4. CASE \/ \E p \in Parents, k \in Amount : BrokerFills(p, k)
           \/ \E p \in Parents, k \in Amount : StrayFills(p, k)
           \/ \E p \in Parents : BrokerCloses(p) \/ StrayCloses(p)
           \/ \E k \in Amount : CashLeaves(k)
           \/ OperatorClears \/ TimePasses \/ UNCHANGED evars
  BY <1>1, <1>4 DEF BrokerFills, BrokerCloses, StrayFills, StrayCloses, CashLeaves, CashMoves,
                    OperatorClears, TimePasses, ClockTicks, evars, lvars
<1> QED BY <1>2, <1>3, <1>4 DEF SleeveNext

\* A failed recheck halts the account for a cause: as long as no cash left for what no
\* counting row stands for and nothing is filled of what is reserved, no interleaving of
\* reservations, late retries, releases, crashes and sweeps makes it fail.
THEOREM SleevesRecheckForACause == SleeveSpec => RecheckHaltsForACause
<1> DEFINE Caused == ~IsHalted /\ halt_reason' = "recheck_mismatch" =>
                       unexplained \/ \E p \in Active : cum_filled[p] + order[p].unseen > 0
<1>1. AccountInv /\ FundedInv /\ [SleeveNext]_evars => [Caused]_evars
  <2> SUFFICES ASSUME AccountInv, FundedInv, [SleeveNext]_evars, ~IsHalted,
                      halt_reason' = "recheck_mismatch", ~unexplained,
                      \A p \in Active : ~(cum_filled[p] + order[p].unseen > 0)
               PROVE  FALSE
    OBVIOUS
  <2>1. ~RecheckPasses
    BY RecheckWrites
  <2>2. ActiveSum <= Claims /\ Claims <= broker_cash
    BY NothingFilledAllClaimed DEF FundedInv
  <2>3. ActiveSum \in Nat /\ Claims \in Nat
    BY SumsAreOrdered DEF AccountInv
  <2>4. broker_cash \in Nat
    BY LedgerAssumption DEF AccountInv, SleeveInv, LedgerTypeOK
  <2> QED BY <2>1, <2>2, <2>3, <2>4 DEF RecheckPasses
<1> QED BY <1>1, AccountInit, AccountStep, FundedInit, FundedStep, PTL
        DEF SleeveSpec, RecheckHaltsForACause
=============================================================================
