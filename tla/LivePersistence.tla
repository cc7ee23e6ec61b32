--------------------------- MODULE LivePersistence ---------------------------
(***************************************************************************)
(* The native live run: execute_live_commit sends a list of intents to the *)
(* broker one by one, sells first, and returns a commit plan;              *)
(* commit_live_persistence then brings the plan's fills to the cached      *)
(* positions (a JSON file), the trade journal, the lifecycle journal and a *)
(* sqlite snapshot, in this order and one after the other.                 *)
(*                                                                         *)
(* The process may die between any two of these steps.  A plan that is not *)
(* committed survives as the payload the caller holds; a committed payload *)
(* may be committed again.  Prices, averages, dates and audit counts are   *)
(* left out; quantities are whole lots.                                    *)
(***************************************************************************)
EXTENDS Integers, Sequences

CONSTANTS
    Symbols,
    Brokers,     \* the brokers the run may be wired to: "alpaca", "paper"
    MaxQty,      \* bound on a position at the broker and on an order
    MaxIntents,  \* bound on the intents of one run
    MaxRuns,     \* bound on the runs, numbered from 1
    MaxFaults,   \* bound on crashes and on calls of place_order that raise
    Optional     \* the optional stores that are configured

ASSUME PersistenceAssumption ==
    /\ Brokers \subseteq {"alpaca", "paper"}
    /\ MaxQty \in Nat \ {0} /\ MaxIntents \in Nat
    /\ MaxRuns \in Nat /\ MaxFaults \in Nat
    /\ Optional \subseteq {"lifecycle", "snapshot"}

VARIABLES
    broker,     \* the broker's name and the shares the account really holds
    resting,    \* orders the broker accepted and may still fill
    job,        \* the run in progress and the plan its caller holds
    disk,       \* the live-state file
    journal,    \* journal[id]: rows of fill id in the trade journal
    lifecycle,  \* lifecycle[id]: rows of fill id in the lifecycle journal
    snapshots,  \* the sqlite table: run_id to live state
    faults,     \* crashes and raising calls so far
    applied,    \* history: how often fill id was brought to the cache
    missed,     \* history: symbols with a fill that no finished commit holds
    closed      \* history: symbols a run sold to nothing

stores == <<disk, journal, lifecycle, snapshots>>

history == <<applied, missed, closed>>

pvars == <<broker, resting, job, stores, faults, history>>

Runs == 1..MaxRuns

\* A fill: the run and its order's place in the plan (mutation_id, order_id).
Ids == Runs \X (1..MaxIntents)

Intent == [symbol: Symbols, action: {"BUY", "SELL"}, quantity: 1..MaxQty]

Statuses == {"filled", "partially_filled", "canceled", "accepted", "rejected",
             "rejected_non_fractionable", "dry_run"}

\* A broker result, as place_order returns it.
Result == [symbol: Symbols, action: {"BUY", "SELL"}, status: Statuses,
           quantity: 0..MaxQty, filled_qty: 0..MaxQty]

LiveState == [positions: [Symbols -> Nat],       \* 0: no entry
              last_sell_dates: SUBSET Symbols,
              warnings: SUBSET Symbols,
              last_run: {0} \cup Runs]

EmptyState == [positions |-> [s \in Symbols |-> 0], last_sell_dates |-> {},
               warnings |-> {}, last_run |-> 0]

Phases == {"idle", "submitting", "planned", "refused",
           "state_written", "journalled", "lifecycle_written", "snapshotted"}

-----------------------------------------------------------------------------
(* Pure parts: the order of submission and the reading of a result.        *)

IsSell(intent) == intent.action = "SELL"

IsBuy(intent) == intent.action = "BUY"

\* The intents of one action, in the order given.
OfAction(action, intents) ==
    LET picked[n \in 0..Len(intents)] ==
          IF n = 0 THEN <<>>
          ELSE IF intents[n].action = action THEN Append(picked[n - 1], intents[n])
          ELSE picked[n - 1]
    IN  picked[Len(intents)]

SellFirst(intents) == OfAction("SELL", intents) \o OfAction("BUY", intents)

Skipped(r) == r.status = "rejected_non_fractionable"

Filled(r) ==
    ~ Skipped(r) /\ (r.status = "filled" \/ r.quantity \in 1..r.filled_qty)

\* Faulty: a cancel that carries a fill is a cancel and nothing more.
PartialByStatus(r) == r.status = "partially_filled"

Partial(r) ==
    /\ ~ Skipped(r)
    /\ r.status = "partially_filled" \/ r.filled_qty \in 1..(r.quantity - 1)

\* A result "filled" that names no filled quantity filled its quantity.
FillQty(r) ==
    IF Filled(r) /\ r.filled_qty = 0 THEN r.quantity ELSE r.filled_qty

HasMutations(r) == Filled(r) \/ Partial(r)

\* Faulty: the mark that a mutation was committed is not looked at.
AllPlaces == {i \in DOMAIN job.rows : HasMutations(job.rows[i])}

\* The fills of the plan that are not marked committed.
PendingPlaces ==
    {i \in DOMAIN job.rows : HasMutations(job.rows[i]) /\ ~ job.committed}

PendingIds == {<<job.run, i>> : i \in PendingPlaces}

\* The mutations that _finite_positive refuses.
Unusable == {i \in PendingPlaces : FillQty(job.rows[i]) = 0}

Counted(rows) == [id \in Ids |-> rows[id] + IF id \in PendingIds THEN 1 ELSE 0]

-----------------------------------------------------------------------------
(* _apply_live_state_mutation.                                             *)

ApplyBuy(state, r) ==
    [state EXCEPT !.positions[r.symbol] = @ + FillQty(r)]

\* Faulty: no lower bound, as if the cache could not hold less than was sold.
SellBelowZero(state, r) ==
    LET held == state.positions[r.symbol]
        left == held - FillQty(r)
    IN  IF held = 0 THEN [state EXCEPT !.warnings = @ \cup {r.symbol}]
        ELSE [state EXCEPT !.positions[r.symbol] = left,
                           !.last_sell_dates = IF left = 0 THEN @ \cup {r.symbol}
                                                           ELSE @]

\* Faulty: a position sold to exactly nothing is not taken for closed.
SellKeepsEmptyPosition(state, r) ==
    LET held == state.positions[r.symbol]
    IN  IF held < FillQty(r)
        THEN [state EXCEPT !.positions[r.symbol] = 0,
                           !.last_sell_dates = @ \cup {r.symbol}]
        ELSE [state EXCEPT !.positions[r.symbol] = held - FillQty(r)]

ApplySell(state, r) ==
    LET held == state.positions[r.symbol]
    IN  IF held = 0
        THEN [state EXCEPT !.warnings = @ \cup {r.symbol}]
        ELSE IF held <= FillQty(r)
        THEN [state EXCEPT !.positions[r.symbol] = 0,
                           !.last_sell_dates = @ \cup {r.symbol}]
        ELSE [state EXCEPT !.positions[r.symbol] = held - FillQty(r)]

Apply(state, r) == IF IsBuy(r) THEN ApplyBuy(state, r) ELSE ApplySell(state, r)

\* What the file holds once the mutations among the first n rows of the plan
\* are applied, for each n.
Replay ==
    LET after[n \in 0..Len(job.rows)] ==
          IF n = 0 THEN disk
          ELSE IF n \in PendingPlaces THEN Apply(after[n - 1], job.rows[n])
          ELSE after[n - 1]
    IN  after

CommittedState == [Replay[Len(job.rows)] EXCEPT !.last_run = job.run]

-----------------------------------------------------------------------------
(* The broker, as far as place_order shows it.                             *)

Held(s) == broker.positions[s]

CanFill(s, action, f) ==
    IF action = "BUY" THEN Held(s) + f <= MaxQty ELSE f <= Held(s)

Fill(s, action, f) ==
    /\ CanFill(s, action, f)
    /\ broker' = [broker EXCEPT !.positions[s] =
                     IF action = "BUY" THEN @ + f ELSE @ - f]
    /\ closed' = IF action = "SELL" /\ f > 0 /\ f = Held(s)
                 THEN closed \cup {s} ELSE closed

AnswerTo(intent, status, quantity, filled) ==
    [symbol |-> intent.symbol, action |-> intent.action, status |-> status,
     quantity |-> quantity, filled_qty |-> filled]

\* PaperBroker sells what is held and calls the order filled, whatever it sold,
\* and refuses a BUY for want of cash.
PaperAnswers(intent) ==
    LET q == IF IsSell(intent) /\ Held(intent.symbol) < intent.quantity
             THEN Held(intent.symbol) ELSE intent.quantity
    IN  {AnswerTo(intent, "filled", q, 0)}
        \cup IF IsBuy(intent) THEN {AnswerTo(intent, "rejected", 0, 0)} ELSE {}

\* AlpacaBroker answers with the order as the broker reports it: one status
\* stands for the open ones, one for cancel, expiry and done-for-day, one for
\* the orders the adapter does not send.
AlpacaAnswers(intent) ==
    LET q == intent.quantity
    IN  {AnswerTo(intent, "filled", q, q), AnswerTo(intent, "accepted", q, 0),
         AnswerTo(intent, "rejected_non_fractionable", q, 0)}
        \cup {AnswerTo(intent, "partially_filled", q, f) : f \in 1..(q - 1)}
        \cup {AnswerTo(intent, "canceled", q, f) : f \in 0..(q - 1)}

Unfilled(r) ==
    IF r.status \in {"accepted", "partially_filled"}
    THEN {[symbol |-> r.symbol, action |-> r.action,
           left |-> r.quantity - r.filled_qty]}
    ELSE {}

Answers(intent) ==
    IF broker.name = "paper" THEN PaperAnswers(intent) ELSE AlpacaAnswers(intent)

-----------------------------------------------------------------------------
NoJob(run) == [phase |-> "idle", run |-> run, todo |-> <<>>, rows |-> <<>>,
               readonly |-> FALSE, committed |-> FALSE]

PersistenceInit ==
    /\ broker \in [name: Brokers, positions: {[s \in Symbols |-> 0]}]
    /\ resting = {}
    /\ job = NoJob(0)
    /\ disk = EmptyState
    /\ journal = [id \in Ids |-> 0]
    /\ lifecycle = [id \in Ids |-> 0]
    /\ snapshots = [run \in Runs |-> EmptyState]
    /\ faults = 0
    /\ applied = [id \in Ids |-> 0]
    /\ missed = {}
    /\ closed = {}

\* Symbols of the plan in hand that really traded.
Traded == {job.rows[i].symbol :
             i \in {j \in DOMAIN job.rows : FillQty(job.rows[j]) > 0}}

Fault == faults < MaxFaults /\ faults' = faults + 1

-----------------------------------------------------------------------------
(* execute_live_commit.                                                    *)

\* A rehearsal: no order leaves, and the plan is readonly.
DryRun(intents) ==
    /\ job.phase = "idle" /\ job.run < MaxRuns
    /\ job' = [NoJob(job.run + 1) EXCEPT
                 !.phase = "planned", !.readonly = TRUE,
                 !.rows = [i \in DOMAIN intents |->
                             LET intent == SellFirst(intents)[i]
                             IN  AnswerTo(intent, "dry_run", intent.quantity, 0)]]
    /\ UNCHANGED <<broker, resting, stores, faults, history>>

BeginExecute(intents) ==
    /\ job.phase = "idle" /\ job.run < MaxRuns
    /\ job' = [NoJob(job.run + 1) EXCEPT
                 !.phase = "submitting", !.todo = SellFirst(intents)]
    /\ UNCHANGED <<broker, resting, stores, faults, history>>

PlaceOrder ==
    /\ job.phase = "submitting" /\ job.todo # <<>>
    /\ LET intent == Head(job.todo)
       IN  \E r \in Answers(intent) :
             /\ Fill(r.symbol, r.action, FillQty(r))
             /\ resting' = resting \cup Unfilled(r)
             /\ job' = [job EXCEPT !.todo = Tail(@), !.rows = Append(@, r)]
    /\ UNCHANGED <<stores, faults, applied, missed>>

\* place_order raises, whether or not the broker took the order: the list of
\* results so far goes with the exception.
PlaceRaises ==
    /\ job.phase = "submitting" /\ job.todo # <<>>
    /\ Fault
    /\ LET intent == Head(job.todo)
       IN  \E f \in 0..intent.quantity :
             /\ Fill(intent.symbol, intent.action, f)
             /\ missed' = missed \cup Traded
                             \cup (IF f > 0 THEN {intent.symbol} ELSE {})
    /\ job' = NoJob(job.run)
    /\ UNCHANGED <<resting, stores, applied>>

ReturnPlan ==
    /\ job.phase = "submitting" /\ job.todo = <<>>
    /\ job' = [job EXCEPT !.phase = "planned"]
    /\ UNCHANGED <<broker, resting, stores, faults, history>>

\* A resting order fills after its result was taken down.  No step of a commit
\* reads the broker, so a fill during one is as good as a fill before it.
LateFill ==
    /\ job.phase \in {"idle", "submitting", "planned"} /\ ~ job.committed
    /\ \E o \in resting : \E f \in 1..o.left :
         /\ Fill(o.symbol, o.action, f)
         /\ resting' = resting \ {o}
         /\ missed' = missed \cup {o.symbol}
    /\ UNCHANGED <<job, stores, faults, applied>>

-----------------------------------------------------------------------------
(* commit_live_persistence.                                                *)

\* Faulty: the file is written after every mutation, up to the one refused.
WritesUntilRefused ==
    /\ job.phase = "planned" /\ (job.readonly \/ Unusable # {})
    /\ LET n == CHOOSE k \in 0..Len(job.rows) :
                  /\ \A j \in Unusable : k < j
                  /\ k = Len(job.rows) \/ k + 1 \in Unusable
       IN  /\ disk' = Replay[n]
           /\ applied' = [id \in Ids |-> applied[id] +
                             IF id \in PendingIds /\ id[2] <= n THEN 1 ELSE 0]
    /\ job' = [job EXCEPT !.phase = "refused"]
    /\ missed' = missed \cup Traded
    /\ UNCHANGED <<broker, resting, journal, lifecycle, snapshots, faults, closed>>

\* It raises before anything is written: a readonly plan, or one mutation
\* without a positive quantity.
CommitRaises ==
    /\ job.phase = "planned" /\ (job.readonly \/ Unusable # {})
    /\ job' = [job EXCEPT !.phase = "refused"]
    /\ missed' = missed \cup Traded
    /\ UNCHANGED <<broker, resting, stores, faults, applied, closed>>

WriteState ==
    /\ job.phase = "planned" /\ ~ job.readonly /\ Unusable = {}
    /\ disk' = CommittedState
    /\ applied' = Counted(applied)
    /\ job' = [job EXCEPT !.phase = "state_written"]
    /\ UNCHANGED <<broker, resting, journal, lifecycle, snapshots, faults,
                   missed, closed>>

\* Faulty: the journal is written although the state may not be.
JournalBeforeState ==
    /\ job.phase \in {"planned", "state_written"} /\ ~ job.readonly
    /\ journal' = Counted(journal)
    /\ job' = [job EXCEPT !.phase = "journalled"]
    /\ UNCHANGED <<broker, resting, disk, lifecycle, snapshots, faults, history>>

AppendJournal ==
    /\ job.phase = "state_written"
    /\ journal' = Counted(journal)
    /\ job' = [job EXCEPT !.phase = "journalled"]
    /\ UNCHANGED <<broker, resting, disk, lifecycle, snapshots, faults, history>>

AppendLifecycle ==
    /\ job.phase = "journalled"
    /\ lifecycle' = IF "lifecycle" \in Optional THEN Counted(lifecycle) ELSE lifecycle
    /\ job' = [job EXCEPT !.phase = "lifecycle_written"]
    /\ UNCHANGED <<broker, resting, disk, journal, snapshots, faults, history>>

\* INSERT OR REPLACE under the run's id.
RecordSnapshot ==
    /\ job.phase = "lifecycle_written"
    /\ snapshots' = IF "snapshot" \in Optional
                    THEN [snapshots EXCEPT ![job.run] = disk] ELSE snapshots
    /\ job' = [job EXCEPT !.phase = "snapshotted"]
    /\ UNCHANGED <<broker, resting, disk, journal, lifecycle, faults, history>>

\* The payload returned has its mutations marked committed.
ReturnCommitted ==
    /\ job.phase = "snapshotted"
    /\ job' = [job EXCEPT !.phase = "planned", !.committed = TRUE]
    /\ UNCHANGED <<broker, resting, stores, faults, history>>

-----------------------------------------------------------------------------
(* The caller and the process.                                             *)

\* The run is over; a plan that was never committed takes its fills with it.
EndRun ==
    /\ job.phase \in {"planned", "refused"}
    /\ job' = NoJob(job.run)
    /\ missed' = IF job.committed THEN missed ELSE missed \cup Traded
    /\ UNCHANGED <<broker, resting, stores, faults, applied, closed>>

\* Dying while orders are sent loses the results; dying inside the commit
\* leaves the caller with the uncommitted payload it passed.
Crash ==
    /\ job.phase \notin {"idle", "planned", "refused"}
    /\ Fault
    /\ job' = IF job.phase = "submitting" THEN NoJob(job.run)
              ELSE [job EXCEPT !.phase = "planned"]
    /\ missed' = IF job.committed THEN missed ELSE missed \cup Traded
    /\ UNCHANGED <<broker, resting, stores, applied, closed>>

IntentLists == UNION {[1..n -> Intent] : n \in 1..MaxIntents}

PersistenceNext ==
    \/ \E intents \in IntentLists : DryRun(intents) \/ BeginExecute(intents)
    \/ PlaceOrder \/ PlaceRaises \/ ReturnPlan \/ LateFill
    \/ CommitRaises \/ WriteState \/ AppendJournal \/ AppendLifecycle
    \/ RecordSnapshot \/ ReturnCommitted
    \/ EndRun \/ Crash

PersistenceSpec == PersistenceInit /\ [][PersistenceNext]_pvars

-----------------------------------------------------------------------------
(* Properties.                                                             *)

\* The types of the run, of the four stores and of the history.
PersistenceTypeOK ==
    /\ broker \in [name: Brokers, positions: [Symbols -> 0..MaxQty]]
    /\ job.phase \in Phases /\ job.run \in 0..MaxRuns
    /\ job.readonly \in BOOLEAN /\ job.committed \in BOOLEAN
    /\ \A i \in DOMAIN job.rows : job.rows[i] \in Result
    /\ disk \in LiveState
    /\ snapshots \in [Runs -> LiveState]
    /\ journal \in [Ids -> Nat] /\ lifecycle \in [Ids -> Nat]
    /\ applied \in [Ids -> Nat]
    /\ faults \in 0..MaxFaults
    /\ missed \subseteq Symbols /\ closed \subseteq Symbols

AtRest == job.phase = "idle" \/ (job.phase = "planned" /\ job.committed)

\* Between runs the cached position of a symbol is the broker's, over any
\* number of runs and repeated commits, unless a fill of it came late or was
\* lost to an exception, a crash or a refused plan: buys add up, partial fills
\* and cancels with a fill count, and a sell takes off what it sold
\* (live_commit.py:81-153, live_persistence.py:136-181).
CacheMirrorsBroker ==
    AtRest => \A s \in Symbols \ missed : disk.positions[s] = Held(s)

\* A position a run closed at the broker has its sell date in the file, which
\* the wash-sale rule reads (live_persistence.py:172-177).
CloseIsStamped ==
    AtRest => \A s \in closed \ missed : s \in disk.last_sell_dates

\* The journals never tell of a fill the cache has not got: whatever crash
\* falls between the writes, the later store has no more rows of a fill than
\* the earlier one (live_persistence.py:339-342).
LogsTrailTheCache ==
    \A id \in Ids : lifecycle[id] <= journal[id] /\ journal[id] <= applied[id]

\* A fill reaches the cache once, however often the returned payload is
\* committed again; each crash inside a commit can add one more application
\* (live_persistence.py:305-306, 352-361).
AppliedOnceUnlessCrashed ==
    \A id \in Ids : applied[id] <= 1 + faults

\* A plan reaches the cache whole or not at all: a mutation the commit refuses
\* keeps out the ones before it as well (live_persistence.py:302-339).
PlanIsAllOrNothing ==
    job.phase # "idle" =>
        \A i, j \in DOMAIN job.rows :
            HasMutations(job.rows[i]) /\ HasMutations(job.rows[j])
                => applied[<<job.run, i>>] = applied[<<job.run, j>>]
=============================================================================
