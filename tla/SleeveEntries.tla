--------------------------- MODULE SleeveEntries ----------------------------
(***************************************************************************)
(* Several sleeves, each a process with a session book of its own, enter   *)
(* BUY orders on one brokerage account through the shared cash ledger: the *)
(* ledger side of submit_remainder, of the book's terminal transitions and *)
(* of reconcile_on_restart.  A sleeve is one thread, cut at its ledger     *)
(* transactions and at its calls of the broker; the sleeves interleave.    *)
(*                                                                         *)
(* Of a parent the book entry keeps what the ledger's callers look at: its *)
(* fills and what its open child has working (OrderSession has the rest).  *)
(* A share costs one unit of cash, the worst case reserve_entry reserves.  *)
(* A restored sleeve reconciles before it does anything else.              *)
(***************************************************************************)
EXTENDS AccountCashLedger

CONSTANTS
    Sleeves,
    Owner,          \* the sleeve whose book registered each parent
    Want,           \* the target of each parent
    MaxFaults       \* bound on deaths outside a reconcile and lost replies

ASSUME SleeveAssumption ==
    /\ Owner \in [Parents -> Sleeves]
    /\ Want \in [Parents -> Amount]
    /\ MaxFaults \in Nat

VARIABLES
    cum_filled,    \* each parent's fills, as its book has them
    open_qty,      \* what its open child has working, 0 without one
    order,         \* the broker's order for the parent's open child
    stray,         \* an order of the parent the book does not know of
    stage,         \* where each sleeve's thread is
    book_halted,   \* entries_halted of each sleeve's book
    deaths,        \* of processes outside a reconcile
    lost_replies,  \* of the broker's acceptance of an order
    swept,         \* history: rows a sweep released, until they are granted again
    unexplained    \* history: cash left other than for an order whose row counts

evars == <<lvars, cum_filled, open_qty, order, stray, stage, book_halted, deaths,
           lost_replies, swept, unexplained>>

bookvars == <<cum_filled, open_qty>>

broker == <<order, stray>>

faults == <<deaths, lost_replies>>

world == <<faults, swept, unexplained>>

\* left: what still works at the broker; unseen: fills the book has not heard of.
NoOrder == [live |-> FALSE, left |-> 0, unseen |-> 0]

\* left: what still works; reused: the book will give its number to the next child.
NoStray == [left |-> 0, reused |-> FALSE]

IdleStage == [op |-> "idle"]

At(op, p) == [op |-> op, p |-> p]

IsIdle(s) == stage[s] = IdleStage

IsAt(s, op, p) == stage[s] = At(op, p)

EntrySteps == {"reserved", "emitted", "rechecked", "refused", "halted"}

InEntry(s) == stage[s].op \in EntrySteps

IsReconciling(s) == stage[s].op \in {"resolving", "swept"}

OwnedBy(s) == {p \in Parents : Owner[p] = s}

EntryOf(p) == InEntry(Owner[p]) /\ stage[Owner[p]].p = p

remaining(p) == Want[p] - cum_filled[p] - open_qty[p]

FaultsLeft == deaths + lost_replies < MaxFaults

Live == {p \in Parents : order[p].live}

Counts(p) == p \in Active /\ ~IsExpired(rows[p], clock)

LiveUnits == SumOver([p \in Parents |-> order[p].left], Parents)

GoTo(s, where) == stage' = [stage EXCEPT ![s] = where]

-----------------------------------------------------------------------------
SleeveInit ==
    /\ LedgerInit
    /\ cum_filled = [p \in Parents |-> 0]
    /\ open_qty = [p \in Parents |-> 0]
    /\ order = [p \in Parents |-> NoOrder]
    /\ stray = [p \in Parents |-> NoStray]
    /\ stage = [s \in Sleeves |-> IdleStage]
    /\ book_halted = [s \in Sleeves |-> FALSE]
    /\ deaths = 0
    /\ lost_replies = 0
    /\ swept = {}
    /\ unexplained = FALSE

-----------------------------------------------------------------------------
(* submit_remainder, one ledger transaction or broker call at a time.      *)

\* The reservation is granted: afresh, or because an active row is still there, which
\* may have expired.
BeginEntry(s, p) ==
    /\ IsIdle(s) /\ remaining(p) > 0
    /\ \/ Reserve(p, remaining(p)) /\ swept' = swept \ {p}
       \/ ReserveRetried(p) /\ UNCHANGED <<lvars, swept>>
    /\ GoTo(s, At("reserved", p))
    /\ UNCHANGED <<bookvars, broker, book_halted, faults, unexplained>>

\* Refused: when the account is halted the session's entries halt too.
EntryRefused(s, p) ==
    /\ IsIdle(s) /\ remaining(p) > 0
    /\ ~ReserveGrants(p, remaining(p))
    /\ book_halted' = [book_halted EXCEPT ![s] = @ \/ IsHalted]
    /\ UNCHANGED <<lvars, bookvars, broker, stage, world>>

\* Faulty: a refused entry keeps its reservation.
EmitKeepsReservation(s, p) ==
    /\ IsAt(s, "reserved", p)
    /\ \/ /\ ~book_halted[s]
          /\ open_qty' = [open_qty EXCEPT ![p] = remaining(p)]
          /\ GoTo(s, At("emitted", p))
       \/ book_halted[s] /\ GoTo(s, IdleStage) /\ UNCHANGED open_qty
    /\ UNCHANGED <<lvars, cum_filled, broker, book_halted, world>>

\* submit_child, or its refusal and the release of the reservation.
EmitChild(s, p) ==
    /\ IsAt(s, "reserved", p)
    /\ \/ /\ ~book_halted[s]
          /\ open_qty' = [open_qty EXCEPT ![p] = remaining(p)]
          /\ GoTo(s, At("emitted", p))
       \/ book_halted[s] /\ GoTo(s, At("refused", p)) /\ UNCHANGED open_qty
    /\ UNCHANGED <<lvars, cum_filled, broker, book_halted, world>>

\* recheck_before_submit; on_reject closes the child before it releases.
Recheck(s, p) ==
    /\ IsAt(s, "emitted", p)
    /\ \/ RecheckPasses /\ GoTo(s, At("rechecked", p)) /\ UNCHANGED <<lvars, open_qty>>
       \/ /\ RecheckFails \/ (IsHalted /\ UNCHANGED lvars)
          /\ GoTo(s, At("halted", p))
          /\ open_qty' = [open_qty EXCEPT ![p] = 0]
    /\ UNCHANGED <<cum_filled, broker, book_halted, world>>

\* submit_order raises: the broker refused, a number it has seen always, or it took the
\* order and the reply was lost.  on_reject closes the child either way.
SubmitRaises(p) ==
    /\ open_qty' = [open_qty EXCEPT ![p] = 0]
    /\ UNCHANGED <<order, deaths>>
    /\ \/ UNCHANGED <<stray, lost_replies>>
       \/ /\ FaultsLeft /\ lost_replies' = lost_replies + 1
          /\ ~stray[p].reused /\ stray[p].left = 0
          /\ stray' = [stray EXCEPT ![p] = [left |-> open_qty[p], reused |-> TRUE]]

PortSubmits(s, p) ==
    /\ IsAt(s, "rechecked", p)
    /\ \/ /\ ~stray[p].reused
          /\ order' = [order EXCEPT ![p] =
                         [live |-> TRUE, left |-> open_qty[p], unseen |-> 0]]
          /\ GoTo(s, IdleStage)
          /\ UNCHANGED <<open_qty, stray, faults>>
       \/ SubmitRaises(p) /\ GoTo(s, At("refused", p))
    /\ UNCHANGED <<lvars, cum_filled, book_halted, swept, unexplained>>

\* The release of a refused entry, whose child has used its number up; after a failed
\* recheck the book halts.
ReleaseEntry(s, p) ==
    /\ IsAt(s, "refused", p) \/ IsAt(s, "halted", p)
    /\ rows' = Released({p})
    /\ book_halted' = [book_halted EXCEPT ![s] = @ \/ stage[s].op = "halted"]
    /\ stray' = [stray EXCEPT ![p].reused = FALSE]
    /\ GoTo(s, IdleStage)
    /\ UNCHANGED <<halt_reason, broker_cash, clock, bookvars, order, world>>

-----------------------------------------------------------------------------
(* What the broker did reaches the book (on_fill, on_cancel and the rest). *)

\* Faulty: a fill is taken in but not marked as seen; every fill releases; every fill
\* shrinks the reservation.
LearnAgain(p) ==
    /\ cum_filled' = [cum_filled EXCEPT ![p] = @ + order[p].unseen]
    /\ open_qty' = [open_qty EXCEPT ![p] =
                      IF order[p].live THEN @ - order[p].unseen ELSE 0]
    /\ UNCHANGED <<lvars, order>>

ReleaseOnAnyFill(p) ==
    /\ cum_filled' = [cum_filled EXCEPT ![p] = @ + order[p].unseen]
    /\ open_qty' = [open_qty EXCEPT ![p] =
                      IF order[p].live THEN @ - order[p].unseen ELSE 0]
    /\ order' = [order EXCEPT ![p].unseen = 0]
    /\ rows' = Released({p})
    /\ UNCHANGED <<halt_reason, broker_cash, clock>>

LearnShrinksRow(p) ==
    LET still == IF order[p].live THEN open_qty[p] - order[p].unseen ELSE 0
    IN  /\ cum_filled' = [cum_filled EXCEPT ![p] = @ + order[p].unseen]
        /\ open_qty' = [open_qty EXCEPT ![p] = still]
        /\ order' = [order EXCEPT ![p].unseen = 0]
        /\ rows' = [rows EXCEPT ![p].amount = still]
        /\ UNCHANGED <<halt_reason, broker_cash, clock>>

\* Fills first; a child that is filled or no longer live closes and releases.
Learn(p) ==
    LET still == IF order[p].live THEN open_qty[p] - order[p].unseen ELSE 0
    IN  /\ cum_filled' = [cum_filled EXCEPT ![p] = @ + order[p].unseen]
        /\ open_qty' = [open_qty EXCEPT ![p] = still]
        /\ order' = [order EXCEPT ![p].unseen = 0]
        /\ rows' = IF still = 0 THEN Released({p}) ELSE rows
        /\ UNCHANGED <<halt_reason, broker_cash, clock>>

Observe(s, p) ==
    /\ IsIdle(s) /\ open_qty[p] > 0
    /\ order[p].unseen > 0 \/ ~order[p].live
    /\ Learn(p)
    /\ UNCHANGED <<stray, stage, book_halted, world>>

-----------------------------------------------------------------------------
(* A crash, and reconcile_on_restart with the ledger attached.             *)

\* The book comes back from the snapshot of before the driver in progress; the ledger's
\* row is durable.  What a reconcile had learned is to be learned again.
CrashSleeve(s) ==
    /\ stage[s].op # "crashed"
    /\ IF IsReconciling(s)
       THEN LET saved == stage[s].saved
            IN  /\ cum_filled' = [p \in Parents |->
                     IF p \in OwnedBy(s) THEN saved.cum_filled[p] ELSE cum_filled[p]]
                /\ open_qty' = [p \in Parents |->
                     IF p \in OwnedBy(s) THEN saved.open_qty[p] ELSE open_qty[p]]
                /\ order' = [p \in Parents |->
                     IF p \in OwnedBy(s)
                     THEN [order[p] EXCEPT !.unseen = @ + cum_filled[p] - saved.cum_filled[p]]
                     ELSE order[p]]
                /\ book_halted' = [book_halted EXCEPT ![s] = saved.halted]
                /\ UNCHANGED deaths
       ELSE /\ FaultsLeft /\ deaths' = deaths + 1
            /\ open_qty' = IF InEntry(s) THEN [open_qty EXCEPT ![stage[s].p] = 0]
                                         ELSE open_qty
            /\ UNCHANGED <<cum_filled, order, book_halted>>
    /\ GoTo(s, [op |-> "crashed"])
    /\ UNCHANGED <<lvars, stray, lost_replies, swept, unexplained>>

\* The process dies between the broker's acceptance and the next snapshot.
DiesAfterAccept(s, p) ==
    /\ IsAt(s, "rechecked", p)
    /\ FaultsLeft /\ deaths' = deaths + 1
    /\ ~stray[p].reused /\ stray[p].left = 0
    /\ stray' = [stray EXCEPT ![p] = [left |-> open_qty[p], reused |-> TRUE]]
    /\ open_qty' = [open_qty EXCEPT ![p] = 0]
    /\ GoTo(s, [op |-> "crashed"])
    /\ UNCHANGED <<lvars, cum_filled, order, book_halted, lost_replies, swept,
                   unexplained>>

\* open_orders() lists the whole account.  A sleeve's book does not know the orders of the
\* others, those no book knows and those placed by hand.
BeginReconcile(s, manual) ==
    /\ stage[s].op = "crashed"
    /\ GoTo(s, [op |-> "resolving",
                view |-> [p \in OwnedBy(s) \cap Live |-> order[p].left],
                unknown |-> (Live \ OwnedBy(s)) \cup {p \in Parents : stray[p].left > 0}
                              \cup manual,
                saved |-> [cum_filled |-> [p \in OwnedBy(s) |-> cum_filled[p]],
                           open_qty |-> [p \in OwnedBy(s) |-> open_qty[p]],
                           halted |-> book_halted[s]]])
    /\ UNCHANGED <<lvars, bookvars, broker, book_halted, world>>

\* The sleeve's open children the view does not list.
Unlisted(s) ==
    {p \in OwnedBy(s) \ DOMAIN stage[s].view : open_qty[p] > 0}

ResolveChild(s, p) ==
    /\ stage[s].op = "resolving" /\ p \in Unlisted(s)
    /\ Learn(p)
    /\ UNCHANGED <<stray, stage, book_halted, world>>

ViewMatchesBook(s) ==
    /\ stage[s].unknown = {}
    /\ \A p \in DOMAIN stage[s].view : open_qty[p] = stage[s].view[p]

\* The BUYs of the whole view, and the parents the sleeve's own book still wants.
Listed(s) == DOMAIN stage[s].view \cup stage[s].unknown

Inflight(s) == {p \in OwnedBy(s) : open_qty[p] > 0 \/ remaining(p) > 0}

AfterSweep(s) ==
    /\ book_halted' = [book_halted EXCEPT ![s] = @ \/ ~ViewMatchesBook(s)]
    /\ swept' = swept \cup (Active \ (Listed(s) \cup Inflight(s)))
    /\ GoTo(s, [op |-> "swept", matches |-> ViewMatchesBook(s), saved |-> stage[s].saved])
    /\ UNCHANGED <<bookvars, broker, faults, unexplained>>

\* Faulty: the sweep is told of the sleeve's own open orders only.
SweepOwnOrders(s) ==
    /\ stage[s].op = "resolving" /\ Unlisted(s) = {}
    /\ Sweep(DOMAIN stage[s].view, Inflight(s))
    /\ AfterSweep(s)

SweepLedger(s) ==
    /\ stage[s].op = "resolving" /\ Unlisted(s) = {}
    /\ Sweep(Listed(s), Inflight(s))
    /\ AfterSweep(s)

EndReconcile(s) ==
    /\ stage[s].op = "swept"
    /\ IF stage[s].matches THEN UNCHANGED lvars ELSE Halt("reconcile_mismatch")
    /\ book_halted' = [book_halted EXCEPT ![s] = @ \/ halt_reason' # NotHalted]
    /\ GoTo(s, IdleStage)
    /\ UNCHANGED <<bookvars, broker, world>>

-----------------------------------------------------------------------------
(* The broker, the operator, the clock. *)

BrokerFills(p, k) ==
    /\ order[p].live /\ k <= order[p].left /\ k <= broker_cash
    /\ order' = [order EXCEPT ![p] = [live |-> k < @.left, left |-> @.left - k,
                                      unseen |-> @.unseen + k]]
    /\ CashMoves(broker_cash - k)
    /\ unexplained' = (unexplained \/ ~Counts(p))
    /\ UNCHANGED <<bookvars, stray, stage, book_halted, faults, swept>>

BrokerCloses(p) ==
    /\ order[p].live
    /\ order' = [order EXCEPT ![p].live = FALSE, ![p].left = 0]
    /\ UNCHANGED <<lvars, bookvars, stray, stage, book_halted, world>>

StrayFills(p, k) ==
    /\ k <= stray[p].left /\ k <= broker_cash
    /\ stray' = [stray EXCEPT ![p].left = @ - k]
    /\ CashMoves(broker_cash - k)
    /\ unexplained' = TRUE
    /\ UNCHANGED <<bookvars, order, stage, book_halted, faults, swept>>

StrayCloses(p) ==
    /\ stray[p].left > 0
    /\ stray' = [stray EXCEPT ![p].left = 0]
    /\ UNCHANGED <<lvars, bookvars, order, stage, book_halted, world>>

\* Cash leaves the account by a way the ledger does not know.
CashLeaves(k) ==
    /\ ~unexplained /\ k <= broker_cash
    /\ CashMoves(broker_cash - k)
    /\ unexplained' = TRUE
    /\ UNCHANGED <<bookvars, broker, stage, book_halted, faults, swept>>

OperatorClears ==
    /\ IsHalted /\ ClearHalt
    /\ UNCHANGED <<bookvars, broker, stage, book_halted, world>>

TimePasses ==
    /\ ClockTicks
    /\ UNCHANGED <<bookvars, broker, stage, book_halted, world>>

SleeveStep(s, p) ==
    /\ Owner[p] = s
    /\ \/ BeginEntry(s, p)
       \/ EntryRefused(s, p)
       \/ EmitChild(s, p)
       \/ Recheck(s, p)
       \/ PortSubmits(s, p)
       \/ ReleaseEntry(s, p)
       \/ Observe(s, p)
       \/ ResolveChild(s, p)
       \/ DiesAfterAccept(s, p)

SleeveNext ==
    \/ \E s \in Sleeves, p \in Parents : SleeveStep(s, p)
    \/ \E s \in Sleeves : \/ CrashSleeve(s)
                          \/ \E manual \in SUBSET Strangers : BeginReconcile(s, manual)
                          \/ SweepLedger(s)
                          \/ EndReconcile(s)
    \/ \E p \in Parents, k \in Amount : BrokerFills(p, k)
    \/ \E p \in Parents, k \in Amount : StrayFills(p, k)
    \/ \E p \in Parents : BrokerCloses(p) \/ StrayCloses(p)
    \/ \E k \in Amount : CashLeaves(k)
    \/ OperatorClears
    \/ TimePasses

SleeveSpec == SleeveInit /\ [][SleeveNext]_evars

-----------------------------------------------------------------------------
(* Properties. *)

\* The sleeves' own variables have the shape the code keeps.
SleeveTypeOK ==
    /\ LedgerTypeOK
    /\ {cum_filled, open_qty} \subseteq [Parents -> 0..MaxAmount]
    /\ order \in [Parents -> [live: BOOLEAN, left: 0..MaxAmount, unseen: 0..MaxAmount]]
    /\ stray \in [Parents -> [left: 0..MaxAmount, reused: BOOLEAN]]
    /\ \A s \in Sleeves :
         stage[s].op \in EntrySteps \cup {"idle", "crashed", "resolving", "swept"}
    /\ book_halted \in [Sleeves -> BOOLEAN]
    /\ {deaths, lost_replies} \subseteq 0..MaxFaults
    /\ swept \subseteq Parents
    /\ unexplained \in BOOLEAN

\* The hole the ledger exists to close: as long as cash leaves the account only
\* through its orders, every working BUY of every sleeve can be paid for
\* (account_cash_ledger.py:8-13).
OpenBuysAreFunded == ~unexplained => LiveUnits <= broker_cash

\* What the ledger does keep, under every crash, lost reply, late retry and sweep: the
\* working BUYs whose rows count can all be paid for, until cash leaves for something
\* that no counting row stands for.
CountedBuysAreFunded ==
    ~unexplained =>
      SumOver([p \in Parents |-> IF Counts(p) THEN order[p].left ELSE 0], Parents)
        <= broker_cash

\* Only a sweep that was not shown the order takes the row of a BUY that works: every
\* other one has an active row of at least what is left of it (the releases of the
\* book's transitions, and the sweep's protection of listed orders).
OnlyStaleSweepsUncover ==
    \A p \in Live \ swept : p \in Active /\ order[p].left <= rows[p].amount

\* As long as no process died, a reservation is held for an entry in progress
\* or an open child: every way an entry can end gives the cash back.
NoReservationOutlivesItsEntry ==
    deaths = 0 => \A p \in Active : open_qty[p] > 0 \/ EntryOf(p)

\* The sleeves use the ledger as its own specification allows, whatever they do between
\* their transactions: what is proved of LedgerSpec holds on a real account
\* (account_cash_ledger.py, "single-writer-transaction reserve/release protocol").
ImplementsLedger == LedgerSpec

\* A failed recheck halts the account only when cash left for something no counting row
\* stands for (by hand, or for an order that was swept, has expired or is unknown), or
\* when an order paid for fills while its reservation still counts in full: reservations,
\* retries, releases and sweeps alone never make it fail (recheck_before_submit).
RecheckHaltsForACause ==
    [][~IsHalted /\ halt_reason' = "recheck_mismatch" =>
         unexplained \/ \E p \in Active : cum_filled[p] + order[p].unseen > 0]_evars
=============================================================================
