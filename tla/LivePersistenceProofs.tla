------------------------ MODULE LivePersistenceProofs ------------------------
(***************************************************************************)
(* Proofs about live runs, for any number of runs, orders, symbols, faults *)
(* and repeated commits: the order of the writes of a commit, the types,   *)
(* the cached positions against the account, and the plan that reaches the *)
(* cache whole.                                                            *)
(*                                                                         *)
(* The cache is compared with the account order by order, although the     *)
(* file is written once a plan is committed: Kept is the file with the     *)
(* plan in hand replayed over it.  The replay and the reordering of the    *)
(* intents are recursive functions, and BoundedRecursion shows that such a *)
(* function exists and unfolds (by NatSetInduction of SetSumsProofs).      *)
(***************************************************************************)
EXTENDS LivePersistence, SetSumsProofs, TLAPS

\* The run in progress, as far as the writes depend on it.
JobOK ==
  /\ job = [phase |-> job.phase, run |-> job.run, todo |-> job.todo,
            rows |-> job.rows, readonly |-> job.readonly,
            committed |-> job.committed]
  /\ job.run \in Nat

\* The counts of rows and applications are numbers.
CountsOK ==
  /\ applied \in [Ids -> Nat]
  /\ journal \in [Ids -> Nat]
  /\ lifecycle \in [Ids -> Nat]
  /\ faults \in Nat

\* Between two writes of one commit the store that was written is ahead.
AheadByOne ==
  \A id \in Ids :
    id \in PendingIds =>
      /\ job.phase = "state_written" => journal[id] < applied[id]
      /\ job.phase = "journalled" => lifecycle[id] < journal[id]

\* An uncommitted plan was applied at most once for each fault; a run that is
\* to come not at all.
NotYetApplied ==
  \A id \in Ids :
    /\ id[1] > job.run => applied[id] = 0
    /\ (id[1] = job.run /\ ~ job.committed
          /\ job.phase \in {"submitting", "planned"}) => applied[id] <= faults

\* The inductive invariant.
WriteInv ==
  /\ JobOK /\ CountsOK
  /\ LogsTrailTheCache /\ AheadByOne
  /\ NotYetApplied /\ AppliedOnceUnlessCrashed

-----------------------------------------------------------------------------
\* Every fill of the plan in hand is numbered by the run in progress.
LEMMA PendingOfThisRun ==
  ASSUME NEW id \in PendingIds
  PROVE  id[1] = job.run /\ ~ job.committed
BY DEF PendingIds, PendingPlaces

\* Counting a plan adds one where it has a fill, and nothing elsewhere.
LEMMA CountedAdds ==
  ASSUME NEW f \in [Ids -> Nat]
  PROVE  /\ Counted(f) \in [Ids -> Nat]
         /\ \A id \in Ids : id \in PendingIds => Counted(f)[id] = f[id] + 1
         /\ \A id \in Ids : id \notin PendingIds => Counted(f)[id] = f[id]
BY DEF Counted

\* The plan stays the same while only the phase of the job changes.
LEMMA PlanStays ==
  ASSUME JobOK, NEW p, job' = [job EXCEPT !.phase = p]
  PROVE  /\ JobOK' /\ PendingIds' = PendingIds
         /\ job'.phase = p /\ job'.run = job.run /\ job'.committed = job.committed
<1>1. /\ job'.phase = p /\ job'.run = job.run /\ job'.todo = job.todo
      /\ job'.rows = job.rows /\ job'.readonly = job.readonly
      /\ job'.committed = job.committed
  BY DEF JobOK
<1>2. JobOK'
  BY <1>1 DEF JobOK
<1>3. PendingIds' = PendingIds
  BY <1>1 DEF PendingIds, PendingPlaces
<1> QED BY <1>1, <1>2, <1>3

\* What a job without a plan looks like.
LEMMA NoJobFields ==
  ASSUME NEW run \in Nat, job' = NoJob(run)
  PROVE  JobOK' /\ job'.phase = "idle" /\ job'.run = run
BY DEF NoJob, JobOK

-----------------------------------------------------------------------------
\* Nothing is written and nothing is counted at the start.
LEMMA WriteInvInit == PersistenceInit => WriteInv
<1> SUFFICES ASSUME PersistenceInit PROVE WriteInv
  OBVIOUS
<1>1. JobOK /\ job.phase = "idle"
  BY DEF PersistenceInit, NoJob, JobOK
<1>2. CountsOK
  BY DEF PersistenceInit, CountsOK
<1> QED
  BY <1>1, <1>2 DEF PersistenceInit, WriteInv, LogsTrailTheCache, AheadByOne,
                    NotYetApplied, AppliedOnceUnlessCrashed

\* A step that writes no store and leaves no uncommitted plan where there was
\* none: it starts, ends, refuses or loses a run.
LEMMA QuietStep ==
  ASSUME WriteInv, JobOK', faults' \in Nat, faults' >= faults,
         UNCHANGED <<applied, journal, lifecycle>>,
         job'.phase \notin {"state_written", "journalled"},
         \/ job'.run = job.run /\ job'.phase \notin {"submitting", "planned"}
         \/ job'.run = job.run /\ job'.committed
         \/ job'.run = job.run /\ ~ job.committed
              /\ job.phase \in {"submitting", "planned"}
         \/ job'.run = job.run + 1
         \/ job'.run = job.run /\ faults' = faults + 1
  PROVE  WriteInv'
<1> USE DEF WriteInv, CountsOK
<1>1. CountsOK' /\ LogsTrailTheCache'
  BY DEF LogsTrailTheCache
<1>2. AheadByOne'
  BY DEF AheadByOne
<1>3. AppliedOnceUnlessCrashed'
  <2> SUFFICES ASSUME NEW id \in Ids PROVE applied'[id] <= 1 + faults'
    BY DEF AppliedOnceUnlessCrashed
  <2> QED BY DEF AppliedOnceUnlessCrashed
<1>4. NotYetApplied'
  <2> SUFFICES ASSUME NEW id \in Ids
               PROVE  /\ id[1] > job'.run => applied[id] = 0
                      /\ (id[1] = job'.run /\ ~ job'.committed
                            /\ job'.phase \in {"submitting", "planned"})
                         => applied[id] <= faults'
    BY DEF NotYetApplied
  <2>1. id[1] \in Nat /\ applied[id] \in Nat /\ job.run \in Nat
    BY PersistenceAssumption DEF Ids, Runs, JobOK
  <2>2. applied[id] <= 1 + faults
    BY DEF AppliedOnceUnlessCrashed
  <2> QED BY <2>1, <2>2 DEF NotYetApplied
<1> QED BY <1>1, <1>2, <1>3, <1>4

\* The four writes.
LEMMA WriteStateKeeps == WriteInv /\ WriteState => WriteInv'
<1> SUFFICES ASSUME WriteInv, WriteState PROVE WriteInv'
  OBVIOUS
<1> USE DEF WriteInv, CountsOK
<1>1. /\ JobOK' /\ PendingIds' = PendingIds /\ job'.phase = "state_written"
      /\ job'.run = job.run /\ job'.committed = job.committed
  BY PlanStays DEF WriteState
<1>2. /\ applied' \in [Ids -> Nat]
      /\ \A id \in Ids : id \in PendingIds => applied'[id] = applied[id] + 1
      /\ \A id \in Ids : id \notin PendingIds => applied'[id] = applied[id]
  BY CountedAdds DEF WriteState
<1>3. UNCHANGED <<journal, lifecycle, faults>> /\ job.phase = "planned"
  BY DEF WriteState
<1>4. LogsTrailTheCache' /\ AheadByOne'
  BY <1>1, <1>2, <1>3 DEF LogsTrailTheCache, AheadByOne
<1>5. ASSUME NEW id \in Ids
      PROVE  /\ applied'[id] <= 1 + faults
             /\ id[1] > job.run => applied'[id] = 0
  <2>1. id[1] \in Nat /\ job.run \in Nat
    BY PersistenceAssumption DEF Ids, Runs, JobOK
  <2>2. CASE id \in PendingIds
    <3>1. id[1] = job.run /\ ~ job.committed
      BY <2>2, PendingOfThisRun
    <3>2. applied[id] <= faults
      BY <3>1, <1>3 DEF NotYetApplied
    <3> QED BY <1>2, <2>1, <2>2, <3>1, <3>2
  <2>3. CASE id \notin PendingIds
    BY <1>2, <2>3 DEF NotYetApplied, AppliedOnceUnlessCrashed
  <2> QED BY <2>2, <2>3
<1>6. NotYetApplied' /\ AppliedOnceUnlessCrashed'
  BY <1>1, <1>3, <1>5 DEF NotYetApplied, AppliedOnceUnlessCrashed
<1> QED BY <1>1, <1>2, <1>3, <1>4, <1>6

LEMMA AppendJournalKeeps == WriteInv /\ AppendJournal => WriteInv'
<1> SUFFICES ASSUME WriteInv, AppendJournal PROVE WriteInv'
  OBVIOUS
<1> USE DEF WriteInv, CountsOK
<1>1. /\ JobOK' /\ PendingIds' = PendingIds /\ job'.phase = "journalled"
      /\ job'.run = job.run /\ job'.committed = job.committed
  BY PlanStays DEF AppendJournal
<1>2. /\ journal' \in [Ids -> Nat]
      /\ \A id \in Ids : id \in PendingIds => journal'[id] = journal[id] + 1
      /\ \A id \in Ids : id \notin PendingIds => journal'[id] = journal[id]
  BY CountedAdds DEF AppendJournal
<1>3. UNCHANGED <<applied, lifecycle, faults>> /\ job.phase = "state_written"
  BY DEF AppendJournal, history
<1>4. LogsTrailTheCache' /\ AheadByOne'
  BY <1>1, <1>2, <1>3 DEF LogsTrailTheCache, AheadByOne
<1>5. NotYetApplied' /\ AppliedOnceUnlessCrashed'
  BY <1>1, <1>3 DEF NotYetApplied, AppliedOnceUnlessCrashed
<1> QED BY <1>1, <1>2, <1>3, <1>4, <1>5

LEMMA AppendLifecycleKeeps == WriteInv /\ AppendLifecycle => WriteInv'
<1> SUFFICES ASSUME WriteInv, AppendLifecycle PROVE WriteInv'
  OBVIOUS
<1> USE DEF WriteInv, CountsOK
<1>1. /\ JobOK' /\ PendingIds' = PendingIds /\ job'.phase = "lifecycle_written"
      /\ job'.run = job.run /\ job'.committed = job.committed
  BY PlanStays DEF AppendLifecycle
<1>2. /\ lifecycle' \in [Ids -> Nat]
      /\ \A id \in Ids : id \in PendingIds => lifecycle'[id] <= lifecycle[id] + 1
      /\ \A id \in Ids : id \notin PendingIds => lifecycle'[id] = lifecycle[id]
  BY CountedAdds DEF AppendLifecycle
<1>3. UNCHANGED <<applied, journal, faults>> /\ job.phase = "journalled"
  BY DEF AppendLifecycle, history
<1>4. LogsTrailTheCache' /\ AheadByOne'
  BY <1>1, <1>2, <1>3 DEF LogsTrailTheCache, AheadByOne
<1>5. NotYetApplied' /\ AppliedOnceUnlessCrashed'
  BY <1>1, <1>3 DEF NotYetApplied, AppliedOnceUnlessCrashed
<1> QED BY <1>1, <1>2, <1>3, <1>4, <1>5

LEMMA RecordSnapshotKeeps == WriteInv /\ RecordSnapshot => WriteInv'
<1> SUFFICES ASSUME WriteInv, RecordSnapshot PROVE WriteInv'
  OBVIOUS
<1>1. /\ JobOK' /\ PendingIds' = PendingIds /\ job'.phase = "snapshotted"
      /\ job'.run = job.run /\ job'.committed = job.committed
  BY PlanStays DEF RecordSnapshot, WriteInv
<1>2. UNCHANGED <<applied, journal, lifecycle, faults>>
  BY DEF RecordSnapshot, history
<1> QED
  BY <1>1, <1>2 DEF WriteInv, CountsOK, LogsTrailTheCache, AheadByOne,
                    NotYetApplied, AppliedOnceUnlessCrashed

\* Every step keeps the invariant.
LEMMA WriteInvNext == WriteInv /\ [PersistenceNext]_pvars => WriteInv'
<1> SUFFICES ASSUME WriteInv, [PersistenceNext]_pvars PROVE WriteInv'
  OBVIOUS
<1>j. JobOK /\ faults \in Nat /\ job.run \in Nat /\ job.run + 1 \in Nat
  BY DEF WriteInv, CountsOK, JobOK
<1>1. ASSUME NEW intents \in IntentLists, DryRun(intents) PROVE WriteInv'
  <2>1. JobOK' /\ job'.run = job.run + 1 /\ job'.phase = "planned"
    BY <1>1, <1>j DEF DryRun, NoJob, JobOK
  <2>2. UNCHANGED <<applied, journal, lifecycle, faults>>
    BY <1>1 DEF DryRun, stores, history
  <2> QED BY <1>j, <2>1, <2>2, QuietStep
<1>2. ASSUME NEW intents \in IntentLists, BeginExecute(intents) PROVE WriteInv'
  <2>1. JobOK' /\ job'.run = job.run + 1 /\ job'.phase = "submitting"
    BY <1>2, <1>j DEF BeginExecute, NoJob, JobOK
  <2>2. UNCHANGED <<applied, journal, lifecycle, faults>>
    BY <1>2 DEF BeginExecute, stores, history
  <2> QED BY <1>j, <2>1, <2>2, QuietStep
<1>3. CASE PlaceOrder
  <2>1. /\ JobOK' /\ job'.run = job.run /\ job'.phase = "submitting"
        /\ job.phase = "submitting" /\ job'.committed = job.committed
    BY <1>3, <1>j DEF PlaceOrder, JobOK
  <2>2. UNCHANGED <<applied, journal, lifecycle, faults>>
    BY <1>3 DEF PlaceOrder, stores
  <2> QED BY <1>j, <2>1, <2>2, QuietStep
<1>4. CASE PlaceRaises
  <2>1. JobOK' /\ job'.run = job.run /\ job'.phase = "idle"
    BY <1>4, <1>j, NoJobFields DEF PlaceRaises
  <2>2. UNCHANGED <<applied, journal, lifecycle>> /\ faults' = faults + 1
    BY <1>4 DEF PlaceRaises, Fault, stores
  <2> QED BY <1>j, <2>1, <2>2, QuietStep
<1>5. CASE ReturnPlan
  <2>1. /\ JobOK' /\ job'.run = job.run /\ job'.phase = "planned"
        /\ job.phase = "submitting" /\ job'.committed = job.committed
    BY <1>5, <1>j, PlanStays DEF ReturnPlan
  <2>2. UNCHANGED <<applied, journal, lifecycle, faults>>
    BY <1>5 DEF ReturnPlan, stores, history
  <2> QED BY <1>j, <2>1, <2>2, QuietStep
<1>6. CASE LateFill
  <2>1. UNCHANGED <<job, applied, journal, lifecycle, faults>>
    BY <1>6 DEF LateFill, stores
  <2> QED
    BY <2>1 DEF WriteInv, JobOK, CountsOK, LogsTrailTheCache, AheadByOne,
                NotYetApplied, AppliedOnceUnlessCrashed, PendingIds, PendingPlaces
<1>7. CASE CommitRaises
  <2>1. JobOK' /\ job'.run = job.run /\ job'.phase = "refused"
    BY <1>7, <1>j, PlanStays DEF CommitRaises
  <2>2. UNCHANGED <<applied, journal, lifecycle, faults>>
    BY <1>7 DEF CommitRaises, stores
  <2> QED BY <1>j, <2>1, <2>2, QuietStep
<1>8. CASE WriteState
  BY <1>8, WriteStateKeeps
<1>9. CASE AppendJournal
  BY <1>9, AppendJournalKeeps
<1>10. CASE AppendLifecycle
  BY <1>10, AppendLifecycleKeeps
<1>11. CASE RecordSnapshot
  BY <1>11, RecordSnapshotKeeps
<1>12. CASE ReturnCommitted
  <2>1. /\ JobOK' /\ job'.run = job.run /\ job'.phase = "planned"
        /\ job'.committed
    BY <1>12, <1>j DEF ReturnCommitted, JobOK
  <2>2. UNCHANGED <<applied, journal, lifecycle, faults>>
    BY <1>12 DEF ReturnCommitted, stores, history
  <2> QED BY <1>j, <2>1, <2>2, QuietStep
<1>13. CASE EndRun
  <2>1. JobOK' /\ job'.run = job.run /\ job'.phase = "idle"
    BY <1>13, <1>j, NoJobFields DEF EndRun
  <2>2. UNCHANGED <<applied, journal, lifecycle, faults>>
    BY <1>13 DEF EndRun, stores
  <2> QED BY <1>j, <2>1, <2>2, QuietStep
<1>14. CASE Crash
  <2>1. JobOK' /\ job'.run = job.run /\ job'.phase \in {"idle", "planned"}
    <3>1. CASE job.phase = "submitting"
      BY <1>14, <1>j, <3>1, NoJobFields DEF Crash
    <3>2. CASE job.phase # "submitting"
      BY <1>14, <1>j, <3>2, PlanStays DEF Crash
    <3> QED BY <3>1, <3>2
  <2>2. UNCHANGED <<applied, journal, lifecycle>> /\ faults' = faults + 1
    BY <1>14 DEF Crash, Fault, stores
  <2> QED BY <1>j, <2>1, <2>2, QuietStep
<1>15. CASE UNCHANGED pvars
  BY <1>15 DEF pvars, stores, history, WriteInv, JobOK, CountsOK, LogsTrailTheCache,
               AheadByOne, NotYetApplied, AppliedOnceUnlessCrashed, PendingIds,
               PendingPlaces
<1> QED
  BY <1>1, <1>2, <1>3, <1>4, <1>5, <1>6, <1>7, <1>8, <1>9, <1>10, <1>11, <1>12,
     <1>13, <1>14, <1>15 DEF PersistenceNext

-----------------------------------------------------------------------------
\* The invariant of the writes holds in every reachable state.
THEOREM PersistenceWriteInvariant == PersistenceSpec => []WriteInv
BY WriteInvInit, WriteInvNext, PTL DEF PersistenceSpec

\* No journal ever tells of a fill the cache has not got, whatever crashes fall
\* between the writes of however many commits.
THEOREM PersistenceLogsTrail == PersistenceSpec => []LogsTrailTheCache
<1>1. WriteInv => LogsTrailTheCache
  BY DEF WriteInv
<1> QED BY <1>1, PersistenceWriteInvariant, PTL

\* A fill is applied once and at most once more for each crash, however often
\* the returned payload is committed again.
THEOREM PersistenceAppliedOnce == PersistenceSpec => []AppliedOnceUnlessCrashed
<1>1. WriteInv => AppliedOnceUnlessCrashed
  BY DEF WriteInv
<1> QED BY <1>1, PersistenceWriteInvariant, PTL

-----------------------------------------------------------------------------
(* The two recursions of the model: they have a solution, and it unfolds.  *)

\* f solves f[0] = b, f[n] = step(f[n - 1], n) up to k, inside X.
Iterates(f, X, b, step, k) ==
    /\ f = [n \in 0..k |-> IF n = 0 THEN b ELSE step[<<f[n - 1], n>>]]
    /\ \A n \in 0..k : f[n] \in X

\* A recursion over 0..N that stays in X has a solution.
LEMMA BoundedRecursion ==
  ASSUME NEW X, NEW b, b \in X, NEW N \in Nat, NEW step,
         \A x \in X : \A n \in 1..N : step[<<x, n>>] \in X
  PROVE  \E f : Iterates(f, X, b, step, N)
<1> DEFINE G == {k \in Nat : k <= N => \E f : Iterates(f, X, b, step, k)}
<1>1. 0 \in G
  <2> DEFINE z == [n \in 0..0 |-> b]
  <2>1. z = [n \in 0..0 |-> IF n = 0 THEN b ELSE step[<<z[n - 1], n>>]]
    OBVIOUS
  <2>2. \A n \in 0..0 : z[n] \in X
    OBVIOUS
  <2>3. Iterates(z, X, b, step, 0)
    BY <2>1, <2>2 DEF Iterates
  <2> QED BY <2>3
<1>2. \A k \in Nat : k \in G => k + 1 \in G
  <2> SUFFICES ASSUME NEW k \in Nat, k \in G, k + 1 <= N
               PROVE  \E f : Iterates(f, X, b, step, k + 1)
    OBVIOUS
  <2>0. PICK f : Iterates(f, X, b, step, k)
    <3>1. k <= N
      BY ONLY N \in Nat, k \in Nat, k + 1 <= N
    <3> QED BY <3>1
  <2> DEFINE g == [n \in 0..(k + 1) |-> IF n = k + 1 THEN step[<<f[k], k + 1>>]
                                                     ELSE f[n]]
  <2>1. \A n \in 0..k : g[n] = f[n] /\ g[n] \in X
    BY <2>0 DEF Iterates
  <2>2. g[k + 1] = step[<<g[k], k + 1>>] /\ g[k + 1] \in X
    <3>1. k \in 0..k /\ k + 1 \in 0..(k + 1) /\ k + 1 \in 1..N
      BY ONLY N \in Nat, k \in Nat, k + 1 <= N
    <3>2. g[k + 1] = step[<<f[k], k + 1>>]
      BY <3>1
    <3>3. f[k] = g[k] /\ f[k] \in X
      BY <2>1, <3>1
    <3> HIDE DEF g
    <3> QED BY <3>1, <3>2, <3>3
  <2>3. g[0] = b
    BY <2>0, <2>1 DEF Iterates
  <2>4. \A n \in 1..k : g[n] = step[<<g[n - 1], n>>]
    <3> SUFFICES ASSUME NEW n \in 1..k PROVE g[n] = step[<<g[n - 1], n>>]
      OBVIOUS
    <3>1. n \in 0..k /\ n - 1 \in 0..k /\ n # 0
      OBVIOUS
    <3>2. f[n] = step[<<f[n - 1], n>>]
      BY <2>0, <3>1 DEF Iterates
    <3> HIDE DEF g
    <3> QED BY <2>1, <3>1, <3>2
  <2>5. \A n \in 0..(k + 1) :
           g[n] = IF n = 0 THEN b ELSE step[<<g[n - 1], n>>]
    <3> SUFFICES ASSUME NEW n \in 0..(k + 1)
                 PROVE  g[n] = IF n = 0 THEN b ELSE step[<<g[n - 1], n>>]
      OBVIOUS
    <3>1. n = 0 \/ n \in 1..k \/ n = k + 1
      OBVIOUS
    <3> HIDE DEF g
    <3> QED BY <2>2, <2>3, <2>4, <3>1
  <2>6. g = [n \in 0..(k + 1) |-> g[n]]
    OBVIOUS
  <2>7. g = [n \in 0..(k + 1) |-> IF n = 0 THEN b ELSE step[<<g[n - 1], n>>]]
    <3> HIDE DEF g
    <3> QED BY <2>5, <2>6
  <2>8. \A n \in 0..(k + 1) : g[n] \in X
    BY <2>1, <2>2, \A n \in 0..(k + 1) : n \in 0..k \/ n = k + 1
  <2>9. Iterates(g, X, b, step, k + 1)
    BY <2>7, <2>8 DEF Iterates
  <2> QED BY <2>9
<1>3. N \in G
  <2> HIDE DEF G
  <2> QED BY <1>1, <1>2, NatSetInduction
<1> QED BY <1>3

\* What the recursion of OfAction says of its solution.
IsPicked(p, action, intents) ==
    p = [n \in 0..Len(intents) |->
           IF n = 0 THEN <<>>
           ELSE IF intents[n].action = action THEN Append(p[n - 1], intents[n])
           ELSE p[n - 1]]

LEMMA OfActionUnfolds ==
  ASSUME NEW action, NEW intents \in Seq(Intent)
  PROVE  \E p : /\ IsPicked(p, action, intents)
                /\ OfAction(action, intents) = p[Len(intents)]
                /\ \A n \in 0..Len(intents) : p[n] \in Seq(Intent)
<1> DEFINE N == Len(intents)
           X == Seq(Intent)
           step == [xn \in X \X (1..N) |->
                      IF intents[xn[2]].action = action
                      THEN Append(xn[1], intents[xn[2]]) ELSE xn[1]]
<1>1. \A x \in X : \A n \in 1..N :
         /\ step[<<x, n>>] = IF intents[n].action = action
                             THEN Append(x, intents[n]) ELSE x
         /\ step[<<x, n>>] \in X
  OBVIOUS
<1>2. <<>> \in X /\ N \in Nat
  OBVIOUS
<1>3. PICK f : /\ f = [n \in 0..N |-> IF n = 0 THEN <<>> ELSE step[<<f[n - 1], n>>]]
               /\ \A n \in 0..N : f[n] \in X
  <2>1. \A x \in X : \A n \in 1..N : step[<<x, n>>] \in X
    BY <1>1
  <2>2. \E f : Iterates(f, X, <<>>, step, N)
    <3> HIDE DEF X, step, N
    <3> QED BY <2>1, <1>2, BoundedRecursion
  <2> HIDE DEF X, step, N
  <2> QED BY <2>2 DEF Iterates
<1>4. \A n \in 0..N :
        (IF n = 0 THEN <<>> ELSE step[<<f[n - 1], n>>])
        = (IF n = 0 THEN <<>>
           ELSE IF intents[n].action = action THEN Append(f[n - 1], intents[n])
           ELSE f[n - 1])
  <2> HIDE DEF X, step, N
  <2> QED BY <1>1, <1>2, <1>3
<1>5. IsPicked(f, action, intents)
  <2> HIDE DEF X, step
  <2> QED BY <1>3, <1>4 DEF IsPicked
<1> DEFINE p == CHOOSE q : IsPicked(q, action, intents)
<1>6. IsPicked(p, action, intents)
  BY <1>5
<1>7. OfAction(action, intents) = p[Len(intents)]
  BY DEF OfAction, IsPicked
<1>8. \A n \in 0..N : p[n] \in X
  <2> HIDE DEF p, step
  <2> DEFINE G == {n \in Nat : n <= N => p[n] \in X}
  <2>1. 0 \in G
    BY <1>2, <1>6 DEF IsPicked
  <2>2. \A n \in Nat : n \in G => n + 1 \in G
    <3> SUFFICES ASSUME NEW n \in Nat, n \in G, n + 1 <= N
                 PROVE  p[n + 1] \in X
      OBVIOUS
    <3>1. p[n] \in X /\ n + 1 \in 0..N /\ n + 1 \in 1..N /\ n + 1 # 0
          /\ (n + 1) - 1 = n
      BY <1>2
    <3>2. p[n + 1] = IF intents[n + 1].action = action
                     THEN Append(p[n], intents[n + 1]) ELSE p[n]
      BY <1>6, <3>1 DEF IsPicked
    <3>3. intents[n + 1] \in Intent
      BY <3>1
    <3> QED BY <3>1, <3>2, <3>3
  <2>3. \A n \in Nat : n \in G
    <3> HIDE DEF G
    <3> QED BY <2>1, <2>2, NatSetInduction
  <2> QED BY <2>3, <1>2
<1> QED BY <1>6, <1>7, <1>8

\* Sells first: the same number of intents, and each of them an intent.
LEMMA SellFirstType ==
  ASSUME NEW intents \in Seq(Intent)
  PROVE  SellFirst(intents) \in Seq(Intent)
         /\ Len(SellFirst(intents)) = Len(intents)
<1> DEFINE N == Len(intents)
<1>1. PICK p : /\ IsPicked(p, "SELL", intents)
               /\ OfAction("SELL", intents) = p[N]
               /\ \A n \in 0..N : p[n] \in Seq(Intent)
  BY OfActionUnfolds
<1>2. PICK q : /\ IsPicked(q, "BUY", intents)
               /\ OfAction("BUY", intents) = q[N]
               /\ \A n \in 0..N : q[n] \in Seq(Intent)
  BY OfActionUnfolds
<1>3. N \in Nat
  OBVIOUS
<1> DEFINE lp(n) == Len(p[n])
           lq(n) == Len(q[n])
           G == {n \in Nat : n <= N => lp(n) + lq(n) = n}
<1>4. 0 \in G
  <2>1. p[0] = <<>> /\ q[0] = <<>>
    BY <1>1, <1>2, <1>3 DEF IsPicked
  <2>2. lp(0) = 0 /\ lq(0) = 0
    BY <2>1
  <2> HIDE DEF lp, lq
  <2> QED BY <2>2
<1>5. \A n \in Nat : n \in G => n + 1 \in G
  <2> SUFFICES ASSUME NEW n \in Nat, n \in G, n + 1 <= N
               PROVE  lp(n + 1) + lq(n + 1) = n + 1
    <3> HIDE DEF lp, lq, N
    <3> QED OBVIOUS
  <2> HIDE DEF N
  <2>1. /\ n \in 0..N /\ n + 1 \in 0..N /\ n + 1 \in 1..N /\ n + 1 # 0
        /\ (n + 1) - 1 = n
    BY <1>3
  <2>2. p[n] \in Seq(Intent) /\ q[n] \in Seq(Intent)
    BY <1>1, <1>2, <2>1
  <2>10. lp(n) + lq(n) = n
    <3> HIDE DEF lp, lq
    <3> QED BY <2>1
  <2>3. intents[n + 1] \in Intent
    BY <2>1 DEF N
  <2>4. p[n + 1] = IF intents[n + 1].action = "SELL"
                   THEN Append(p[n], intents[n + 1]) ELSE p[n]
    BY <1>1, <2>1 DEF IsPicked, N
  <2>5. q[n + 1] = IF intents[n + 1].action = "BUY"
                   THEN Append(q[n], intents[n + 1]) ELSE q[n]
    BY <1>2, <2>1 DEF IsPicked, N
  <2>6. intents[n + 1].action \in {"BUY", "SELL"}
    BY <2>3 DEF Intent
  <2>7. /\ Len(Append(p[n], intents[n + 1])) = lp(n) + 1
        /\ Len(Append(q[n], intents[n + 1])) = lq(n) + 1
        /\ lp(n) \in Nat /\ lq(n) \in Nat
    BY <2>2, <2>3
  <2>8. CASE intents[n + 1].action = "SELL"
    <3>1. p[n + 1] = Append(p[n], intents[n + 1]) /\ q[n + 1] = q[n]
      BY <2>4, <2>5, <2>8
    <3>2. lp(n + 1) = lp(n) + 1 /\ lq(n + 1) = lq(n)
      BY <2>7, <3>1
    <3> HIDE DEF lp, lq
    <3> QED BY <2>7, <2>10, <3>2
  <2>9. CASE intents[n + 1].action = "BUY"
    <3>1. p[n + 1] = p[n] /\ q[n + 1] = Append(q[n], intents[n + 1])
      BY <2>4, <2>5, <2>9
    <3>2. lp(n + 1) = lp(n) /\ lq(n + 1) = lq(n) + 1
      BY <2>7, <3>1
    <3> HIDE DEF lp, lq
    <3> QED BY <2>7, <2>10, <3>2
  <2> QED BY <2>6, <2>8, <2>9
<1>6. N \in G
  <2> HIDE DEF G
  <2> QED BY <1>3, <1>4, <1>5, NatSetInduction
<1>7. p[N] \in Seq(Intent) /\ q[N] \in Seq(Intent)
  BY <1>1, <1>2, <1>3
<1>8. lp(N) + lq(N) = N
  <2> HIDE DEF lp, lq, N
  <2> QED BY <1>6, <1>3
<1>9. SellFirst(intents) = p[N] \o q[N]
  BY <1>1, <1>2 DEF SellFirst
<1>10. p[N] \o q[N] \in Seq(Intent) /\ Len(p[N] \o q[N]) = lp(N) + lq(N)
  <2> HIDE DEF N
  <2> QED BY <1>7
<1> HIDE DEF lp, lq, N
<1>11. SellFirst(intents) \in Seq(Intent) /\ Len(SellFirst(intents)) = N
  BY <1>8, <1>9, <1>10
<1> QED BY <1>11 DEF N

-----------------------------------------------------------------------------
(* What one mutation does to the file.                                     *)

\* The effect of _apply_live_state_mutation, buy and sell together.
LEMMA ApplyFacts ==
  ASSUME NEW st \in LiveState, NEW r \in Result
  PROVE  /\ Apply(st, r) \in LiveState
         /\ FillQty(r) \in 0..MaxQty
         /\ \A s \in Symbols \ {r.symbol} : Apply(st, r).positions[s] = st.positions[s]
         /\ FillQty(r) = 0 => Apply(st, r).positions[r.symbol] = st.positions[r.symbol]
         /\ r.action = "BUY" => Apply(st, r).positions[r.symbol]
                                = st.positions[r.symbol] + FillQty(r)
         /\ (r.action = "SELL" /\ FillQty(r) <= st.positions[r.symbol])
              => Apply(st, r).positions[r.symbol] = st.positions[r.symbol] - FillQty(r)
         /\ st.last_sell_dates \subseteq Apply(st, r).last_sell_dates
         /\ Apply(st, r).last_sell_dates \subseteq st.last_sell_dates \cup {r.symbol}
         /\ FillQty(r) = 0 => Apply(st, r).last_sell_dates = st.last_sell_dates
         /\ (r.action = "SELL" /\ FillQty(r) > 0 /\ st.positions[r.symbol] = FillQty(r))
              => r.symbol \in Apply(st, r).last_sell_dates
<1> DEFINE k == r.symbol
           held == st.positions[k]
           q == FillQty(r)
           put(v) == [st.positions EXCEPT ![k] = v]
<1>1. /\ k \in Symbols /\ r.action \in {"BUY", "SELL"} /\ r.quantity \in 0..MaxQty
      /\ r.filled_qty \in 0..MaxQty /\ MaxQty \in Nat
  BY PersistenceAssumption DEF Result
<1>2. q \in 0..MaxQty /\ q \in Nat
  BY <1>1 DEF FillQty
<1>3. /\ st = [positions |-> st.positions, last_sell_dates |-> st.last_sell_dates,
               warnings |-> st.warnings, last_run |-> st.last_run]
      /\ st.positions \in [Symbols -> Nat] /\ st.last_sell_dates \subseteq Symbols
      /\ st.warnings \subseteq Symbols /\ st.last_run \in {0} \cup Runs
  BY DEF LiveState
<1>4. held \in Nat
  BY <1>1, <1>3
<1>5. ASSUME NEW v \in Nat
      PROVE  /\ put(v) \in [Symbols -> Nat] /\ put(v)[k] = v
             /\ \A s \in Symbols \ {k} : put(v)[s] = st.positions[s]
  BY <1>1, <1>3
<1>6. CASE r.action = "BUY"
  <2>1. Apply(st, r) = [st EXCEPT !.positions = put(held + q)]
    BY <1>1, <1>3, <1>6 DEF Apply, IsBuy, ApplyBuy
  <2>2. held + q \in Nat
    BY <1>2, <1>4
  <2>3. Apply(st, r) = [positions |-> put(held + q),
                        last_sell_dates |-> st.last_sell_dates,
                        warnings |-> st.warnings, last_run |-> st.last_run]
    BY <1>3, <2>1
  <2>4. /\ put(held + q) \in [Symbols -> Nat] /\ put(held + q)[k] = held + q
        /\ \A s \in Symbols \ {k} : put(held + q)[s] = st.positions[s]
    BY <1>5, <2>2
  <2>5. q = 0 => held + q = held
    BY <1>2, <1>4
  <2> HIDE DEF put, held, q
  <2>6. Apply(st, r) \in LiveState
    BY <1>3, <2>3, <2>4 DEF LiveState
  <2> QED BY <1>2, <1>6, <2>3, <2>4, <2>5, <2>6 DEF held, q
<1>7. CASE r.action = "SELL" /\ held = 0
  <2>1. Apply(st, r) = [positions |-> st.positions,
                        last_sell_dates |-> st.last_sell_dates,
                        warnings |-> st.warnings \cup {k}, last_run |-> st.last_run]
    BY <1>3, <1>7 DEF Apply, IsBuy, ApplySell
  <2>2. Apply(st, r) \in LiveState
    BY <1>1, <1>3, <2>1 DEF LiveState
  <2>3. q <= held => q = 0 /\ held - q = held
    BY <1>2, <1>7
  <2> HIDE DEF q
  <2> QED BY <1>2, <1>7, <2>1, <2>2, <2>3 DEF q
<1>8. CASE r.action = "SELL" /\ held # 0 /\ held <= q
  <2>1. Apply(st, r) = [st EXCEPT !.positions[r.symbol] = 0,
                                  !.last_sell_dates = @ \cup {r.symbol}]
    BY <1>8 DEF Apply, IsBuy, ApplySell
  <2>2. Apply(st, r) = [positions |-> put(0),
                        last_sell_dates |-> st.last_sell_dates \cup {k},
                        warnings |-> st.warnings, last_run |-> st.last_run]
    BY <1>3, <2>1
  <2>3. /\ put(0) \in [Symbols -> Nat] /\ put(0)[k] = 0
        /\ \A s \in Symbols \ {k} : put(0)[s] = st.positions[s]
    BY <1>5
  <2>4. q # 0 /\ (q <= held => held - q = 0)
    BY <1>2, <1>4, <1>8
  <2> HIDE DEF put, q
  <2>5. Apply(st, r) \in LiveState
    BY <1>1, <1>3, <2>2, <2>3 DEF LiveState
  <2> QED BY <1>2, <1>8, <2>2, <2>3, <2>4, <2>5 DEF q
<1>9. CASE r.action = "SELL" /\ held # 0 /\ ~ (held <= q)
  <2>1. Apply(st, r) = [st EXCEPT !.positions[r.symbol] = held - q]
    BY <1>9 DEF Apply, IsBuy, ApplySell
  <2>2. Apply(st, r) = [positions |-> put(held - q),
                        last_sell_dates |-> st.last_sell_dates,
                        warnings |-> st.warnings, last_run |-> st.last_run]
    BY <1>3, <2>1
  <2>3. held - q \in Nat /\ (q = 0 => held - q = held) /\ held # q
    BY <1>2, <1>4, <1>9
  <2>4. /\ put(held - q) \in [Symbols -> Nat] /\ put(held - q)[k] = held - q
        /\ \A s \in Symbols \ {k} : put(held - q)[s] = st.positions[s]
    BY <1>5, <2>3
  <2> HIDE DEF put, q, held
  <2>5. Apply(st, r) \in LiveState
    BY <1>3, <2>2, <2>4 DEF LiveState
  <2> QED BY <1>2, <1>9, <2>2, <2>3, <2>4, <2>5 DEF q, held
<1> QED BY <1>1, <1>6, <1>7, <1>8, <1>9

-----------------------------------------------------------------------------
(* Replaying a plan.                                                       *)

\* What the recursion of Replay says of its solution, its inputs named.
IsReplay(f, base, rows, places) ==
    f = [n \in 0..Len(rows) |->
           IF n = 0 THEN base
           ELSE IF n \in places THEN Apply(f[n - 1], rows[n])
           ELSE f[n - 1]]

ReplayOf(base, rows, places) == CHOOSE f : IsReplay(f, base, rows, places)

LEMMA ReplayIsReplayOf == Replay = ReplayOf(disk, job.rows, PendingPlaces)
BY DEF Replay, ReplayOf, IsReplay

\* The replay unfolds, and the file stays a file.
LEMMA ReplayUnfolds ==
  ASSUME NEW base \in LiveState, NEW rows \in Seq(Result), NEW places
  PROVE  /\ IsReplay(ReplayOf(base, rows, places), base, rows, places)
         /\ ReplayOf(base, rows, places)[0] = base
         /\ \A n \in 0..Len(rows) : ReplayOf(base, rows, places)[n] \in LiveState
<1> DEFINE N == Len(rows)
           X == LiveState
           step == [xn \in X \X (1..N) |->
                      IF xn[2] \in places THEN Apply(xn[1], rows[xn[2]]) ELSE xn[1]]
<1>1. \A n \in 1..N : rows[n] \in Result
  OBVIOUS
<1>2. \A x \in X : \A n \in 1..N :
         step[<<x, n>>] = IF n \in places THEN Apply(x, rows[n]) ELSE x
  OBVIOUS
<1>3. \A x \in X : \A n \in 1..N : step[<<x, n>>] \in X
  BY <1>1, <1>2, ApplyFacts
<1>4. base \in X /\ N \in Nat
  OBVIOUS
<1>5. \E f : Iterates(f, X, base, step, N)
  <2> HIDE DEF X, step, N
  <2> QED BY <1>3, <1>4, BoundedRecursion
<1>6. PICK f : /\ f = [n \in 0..N |-> IF n = 0 THEN base ELSE step[<<f[n - 1], n>>]]
               /\ \A n \in 0..N : f[n] \in X
  <2> HIDE DEF X, step, N
  <2> QED BY <1>5 DEF Iterates
<1>7. \A n \in 0..N :
        (IF n = 0 THEN base ELSE step[<<f[n - 1], n>>])
        = (IF n = 0 THEN base
           ELSE IF n \in places THEN Apply(f[n - 1], rows[n])
           ELSE f[n - 1])
  <2> HIDE DEF X, step, N
  <2> QED BY <1>2, <1>4, <1>6
<1>8. IsReplay(f, base, rows, places)
  <2> HIDE DEF X, step
  <2> QED BY <1>6, <1>7 DEF IsReplay
<1> DEFINE p == ReplayOf(base, rows, places)
<1>9. IsReplay(p, base, rows, places)
  BY <1>8 DEF ReplayOf
<1>10. p[0] = base
  <2> HIDE DEF p, step
  <2> QED BY <1>4, <1>9 DEF IsReplay
<1>11. \A n \in 0..N : p[n] \in X
  <2> HIDE DEF p, step
  <2> DEFINE G == {n \in Nat : n <= N => p[n] \in X}
  <2>1. 0 \in G
    BY <1>10
  <2>2. \A n \in Nat : n \in G => n + 1 \in G
    <3> SUFFICES ASSUME NEW n \in Nat, n \in G, n + 1 <= N
                 PROVE  p[n + 1] \in X
      OBVIOUS
    <3>1. /\ p[n] \in X /\ n + 1 \in 0..N /\ n + 1 \in 1..N /\ n + 1 # 0
          /\ (n + 1) - 1 = n
      BY <1>4
    <3>2. p[n + 1] = IF n + 1 \in places THEN Apply(p[n], rows[n + 1]) ELSE p[n]
      BY <1>9, <3>1 DEF IsReplay
    <3>3. rows[n + 1] \in Result
      BY <3>1
    <3> HIDE DEF G, N
    <3> QED BY <3>1, <3>2, <3>3, ApplyFacts
  <2>3. \A n \in Nat : n \in G
    <3> HIDE DEF G
    <3> QED BY <2>1, <2>2, NatSetInduction
  <2> QED BY <2>3, <1>4
<1> QED BY <1>9, <1>10, <1>11

\* One step of the replay.
LEMMA ReplayStep ==
  ASSUME NEW base \in LiveState, NEW rows \in Seq(Result), NEW places,
         NEW n \in Nat, n + 1 <= Len(rows)
  PROVE  ReplayOf(base, rows, places)[n + 1] =
           IF n + 1 \in places THEN Apply(ReplayOf(base, rows, places)[n], rows[n + 1])
           ELSE ReplayOf(base, rows, places)[n]
<1> DEFINE p == ReplayOf(base, rows, places)
<1>1. n + 1 \in 0..Len(rows) /\ n + 1 # 0 /\ (n + 1) - 1 = n
  OBVIOUS
<1>2. IsReplay(p, base, rows, places)
  BY ReplayUnfolds
<1> HIDE DEF p
<1>3. p[n + 1] = IF n + 1 \in places THEN Apply(p[n], rows[n + 1]) ELSE p[n]
  BY <1>1, <1>2 DEF IsReplay
<1> QED BY <1>3 DEF p

\* A symbol none of the fills is of keeps its position and its sell date, or
\* the want of one.
LEMMA ReplayLeavesUntraded ==
  ASSUME NEW base \in LiveState, NEW rows \in Seq(Result), NEW places,
         NEW s \in Symbols,
         \A i \in DOMAIN rows :
            i \in places /\ rows[i].symbol = s => FillQty(rows[i]) = 0
  PROVE  \A n \in 0..Len(rows) :
           /\ ReplayOf(base, rows, places)[n].positions[s] = base.positions[s]
           /\ s \in base.last_sell_dates
                <=> s \in ReplayOf(base, rows, places)[n].last_sell_dates
<1> DEFINE p == ReplayOf(base, rows, places)
           N == Len(rows)
           G == {n \in Nat : n <= N =>
                   /\ p[n].positions[s] = base.positions[s]
                   /\ s \in base.last_sell_dates <=> s \in p[n].last_sell_dates}
<1>1. p[0] = base /\ N \in Nat /\ \A n \in 0..N : p[n] \in LiveState
  BY ReplayUnfolds
<1>0. \A n \in Nat : n + 1 <= N =>
        p[n + 1] = IF n + 1 \in places THEN Apply(p[n], rows[n + 1]) ELSE p[n]
  BY ReplayStep
<1>2. 0 \in G
  BY <1>1
<1>3. \A n \in Nat : n \in G => n + 1 \in G
  <2> SUFFICES ASSUME NEW n \in Nat, n \in G, n + 1 <= N
               PROVE  /\ p[n + 1].positions[s] = base.positions[s]
                      /\ s \in base.last_sell_dates <=> s \in p[n + 1].last_sell_dates
    OBVIOUS
  <2>1. p[n + 1] = IF n + 1 \in places THEN Apply(p[n], rows[n + 1]) ELSE p[n]
    BY <1>0
  <2> HIDE DEF p
  <2>2. n \in 0..N /\ n + 1 \in 1..N
    BY <1>1
  <2>3. rows[n + 1] \in Result /\ n + 1 \in DOMAIN rows /\ p[n] \in LiveState
    BY <1>1, <2>2
  <2>4. /\ p[n].positions[s] = base.positions[s]
        /\ s \in base.last_sell_dates <=> s \in p[n].last_sell_dates
    BY <2>2
  <2>5. ASSUME n + 1 \in places
        PROVE  /\ Apply(p[n], rows[n + 1]).positions[s] = p[n].positions[s]
               /\ s \in Apply(p[n], rows[n + 1]).last_sell_dates
                    <=> s \in p[n].last_sell_dates
    <3> HIDE DEF G, N
    <3>1. CASE rows[n + 1].symbol = s
      BY <2>3, <2>5, <3>1, ApplyFacts
    <3>2. CASE rows[n + 1].symbol # s
      <4>1. s \in Symbols \ {rows[n + 1].symbol}
        BY <3>2
      <4> QED BY <2>3, <3>2, <4>1, ApplyFacts
    <3> QED BY <3>1, <3>2
  <2> HIDE DEF G, N
  <2> QED BY <2>1, <2>4, <2>5
<1>4. \A n \in Nat : n \in G
  <2> HIDE DEF G
  <2> QED BY <1>2, <1>3, NatSetInduction
<1> HIDE DEF p
<1>5. \A n \in 0..N : /\ p[n].positions[s] = base.positions[s]
                      /\ s \in base.last_sell_dates <=> s \in p[n].last_sell_dates
  BY <1>1, <1>4
<1> QED BY <1>5 DEF p

\* A row more leaves the replay of the rows before it as it was.
LEMMA ReplayAppend ==
  ASSUME NEW base \in LiveState, NEW rows \in Seq(Result), NEW places,
         NEW r \in Result, NEW more, more \cap (1..Len(rows)) = places
  PROVE  ReplayOf(base, Append(rows, r), more)[Len(rows) + 1] =
           IF Len(rows) + 1 \in more
           THEN Apply(ReplayOf(base, rows, places)[Len(rows)], r)
           ELSE ReplayOf(base, rows, places)[Len(rows)]
<1> DEFINE p == ReplayOf(base, rows, places)
           q == ReplayOf(base, Append(rows, r), more)
           N == Len(rows)
           G == {n \in Nat : n <= N => q[n] = p[n]}
<1>1. /\ N \in Nat /\ Append(rows, r) \in Seq(Result) /\ Len(Append(rows, r)) = N + 1
      /\ Append(rows, r)[N + 1] = r
      /\ \A n \in 1..N : Append(rows, r)[n] = rows[n]
  OBVIOUS
<1>2. p[0] = base /\ q[0] = base
  BY <1>1, ReplayUnfolds
<1>3. \A n \in Nat : n + 1 <= N =>
        p[n + 1] = IF n + 1 \in places THEN Apply(p[n], rows[n + 1]) ELSE p[n]
  BY ReplayStep
<1>4. \A n \in Nat : n + 1 <= N + 1 =>
        q[n + 1] = IF n + 1 \in more THEN Apply(q[n], Append(rows, r)[n + 1]) ELSE q[n]
  <2> DEFINE ext == Append(rows, r)
  <2>1. ext \in Seq(Result) /\ Len(ext) = N + 1
    BY <1>1
  <2> HIDE DEF ext
  <2>2. \A n \in Nat : n + 1 <= Len(ext) =>
          ReplayOf(base, ext, more)[n + 1] =
            IF n + 1 \in more THEN Apply(ReplayOf(base, ext, more)[n], ext[n + 1])
            ELSE ReplayOf(base, ext, more)[n]
    BY <2>1, ReplayStep
  <2> QED BY <2>1, <2>2 DEF ext
<1> HIDE DEF p, q
<1>5. 0 \in G
  BY <1>2
<1>6. \A n \in Nat : n \in G => n + 1 \in G
  <2> SUFFICES ASSUME NEW n \in Nat, n \in G, n + 1 <= N PROVE q[n + 1] = p[n + 1]
    OBVIOUS
  <2>1. n <= N /\ n + 1 <= N + 1 /\ n + 1 \in 1..N
    BY <1>1
  <2>2. (n + 1 \in more) <=> (n + 1 \in places)
    BY <2>1
  <2>3. q[n] = p[n] /\ Append(rows, r)[n + 1] = rows[n + 1]
    BY <1>1, <2>1
  <2> HIDE DEF G, N
  <2> QED BY <1>3, <1>4, <2>1, <2>2, <2>3
<1>7. q[N] = p[N]
  <2>1. N \in G
    <3> HIDE DEF G
    <3> QED BY <1>1, <1>5, <1>6, NatSetInduction
  <2> QED BY <2>1
<1>8. q[N + 1] = IF N + 1 \in more THEN Apply(p[N], r) ELSE p[N]
  BY <1>1, <1>4, <1>7
<1> QED BY <1>8 DEF p, q

-----------------------------------------------------------------------------
(* The types of a run, and the cache against the broker.                   *)

Resting == [symbol: Symbols, action: {"BUY", "SELL"}, left: 0..MaxQty]

\* The plan in hand: its intents still to send and its results are no more
\* than a run may have, an idle job has none, and only a returned plan is
\* marked committed.
PlanOK ==
  /\ job.phase \in Phases /\ job.run \in 0..MaxRuns
  /\ job.readonly \in BOOLEAN /\ job.committed \in BOOLEAN
  /\ job.todo \in Seq(Intent) /\ job.rows \in Seq(Result)
  /\ Len(job.todo) + Len(job.rows) <= MaxIntents
  /\ job.phase = "idle" => job.rows = <<>> /\ ~ job.committed
  /\ job.phase # "idle" => job.run \in Runs
  /\ job.phase = "submitting" => ~ job.committed

\* The account, and what is remembered of it.
MarketOK ==
  /\ broker \in [name: Brokers, positions: [Symbols -> 0..MaxQty]]
  /\ resting \subseteq Resting
  /\ missed \subseteq Symbols /\ closed \subseteq Symbols

FilesOK ==
  /\ disk \in LiveState
  /\ snapshots \in [Runs -> LiveState]
  /\ faults \in 0..MaxFaults

RunInv == PlanOK /\ MarketOK /\ FilesOK

\* What the file holds, or will hold once the plan in hand is committed.
Kept == IF job.phase \in {"submitting", "planned"} /\ ~ job.committed
        THEN Replay[Len(job.rows)] ELSE disk

\* Mirrors(st, s): the live state st says of symbol s what the broker says.
Mirrors(st, s, account, gone) ==
  /\ st.positions[s] = account.positions[s]
  /\ s \in gone => s \in st.last_sell_dates

\* A symbol with no lost and no late fill is mirrored by the file together with
\* the plan in hand, order by order.
MirrorInv == \A s \in Symbols \ missed : Mirrors(Kept, s, broker, closed)

-----------------------------------------------------------------------------
\* All the fields of a job of which one phase changes.
LEMMA OnlyPhaseMoves ==
  ASSUME JobOK, NEW p, job' = [job EXCEPT !.phase = p]
  PROVE  /\ job'.phase = p /\ job'.run = job.run /\ job'.todo = job.todo
         /\ job'.rows = job.rows /\ job'.readonly = job.readonly
         /\ job'.committed = job.committed
BY DEF JobOK

\* What place_order can answer, the two adapters together: a fill is always
\* one that the plan takes for a mutation.
LEMMA AnswerFacts ==
  ASSUME MarketOK, NEW intent \in Intent, NEW r \in Answers(intent)
  PROVE  /\ r \in Result /\ r.symbol = intent.symbol /\ r.action = intent.action
         /\ FillQty(r) \in 0..MaxQty
         /\ FillQty(r) > 0 => HasMutations(r)
         /\ Unfilled(r) \subseteq Resting
<1>1. /\ intent.symbol \in Symbols /\ intent.action \in {"BUY", "SELL"}
      /\ intent.quantity \in 1..MaxQty /\ MaxQty \in Nat
  BY PersistenceAssumption DEF Intent
<1>2. Held(intent.symbol) \in 0..MaxQty
  BY <1>1 DEF MarketOK, Held
<1>3. ASSUME NEW st \in Statuses, NEW q \in 0..MaxQty, NEW f \in 0..MaxQty, f <= q,
             r = AnswerTo(intent, st, q, f),
             f > 0 => st # "rejected_non_fractionable"
      PROVE  /\ r \in Result /\ r.symbol = intent.symbol /\ r.action = intent.action
             /\ FillQty(r) \in 0..MaxQty
             /\ FillQty(r) > 0 => HasMutations(r)
             /\ Unfilled(r) \subseteq Resting
  <2>1. /\ r.symbol = intent.symbol /\ r.action = intent.action /\ r.status = st
        /\ r.quantity = q /\ r.filled_qty = f
    BY <1>3 DEF AnswerTo
  <2>2. r \in Result
    BY <1>1, <1>3 DEF AnswerTo, Result
  <2>3. FillQty(r) \in 0..MaxQty
    BY <1>1, <2>1 DEF FillQty
  <2>4. FillQty(r) > 0 => HasMutations(r)
    <3> SUFFICES ASSUME FillQty(r) > 0, ~ Filled(r) PROVE Partial(r)
      BY DEF HasMutations
    <3>1. f > 0
      BY <2>1 DEF FillQty
    <3>2. ~ Skipped(r)
      BY <1>3, <2>1, <3>1 DEF Skipped
    <3>3. ~ (q \in 1..f)
      BY <2>1, <3>2 DEF Filled
    <3>4. f \in 1..(q - 1)
      BY <1>1, <1>3, <3>1, <3>3
    <3> QED BY <2>1, <3>2, <3>4 DEF Partial
  <2>5. Unfilled(r) \subseteq Resting
    <3>1. q - f \in 0..MaxQty
      BY <1>1, <1>3
    <3> QED BY <1>1, <2>1, <3>1 DEF Unfilled, Resting
  <2> QED BY <2>1, <2>2, <2>3, <2>4, <2>5
<1> DEFINE Found == \E st \in Statuses, q \in 0..MaxQty, f \in 0..MaxQty :
                      /\ f <= q /\ r = AnswerTo(intent, st, q, f)
                      /\ f > 0 => st # "rejected_non_fractionable"
<1>4. Found
  <2>1. CASE broker.name = "paper"
    <3>1. r \in PaperAnswers(intent)
      BY <2>1 DEF Answers
    <3> DEFINE q == IF IsSell(intent) /\ Held(intent.symbol) < intent.quantity
                    THEN Held(intent.symbol) ELSE intent.quantity
    <3>2. r = AnswerTo(intent, "filled", q, 0) \/ r = AnswerTo(intent, "rejected", 0, 0)
      BY <3>1 DEF PaperAnswers
    <3>3. q \in 0..MaxQty /\ 0 \in 0..MaxQty /\ 0 <= q
      BY <1>1, <1>2
    <3>4. "filled" \in Statuses /\ "rejected" \in Statuses
      BY DEF Statuses
    <3> HIDE DEF q
    <3>5. CASE r = AnswerTo(intent, "filled", q, 0)
      BY <3>3, <3>4, <3>5
    <3>6. CASE r = AnswerTo(intent, "rejected", 0, 0)
      BY <3>3, <3>4, <3>6
    <3> QED BY <3>2, <3>5, <3>6
  <2>2. CASE broker.name # "paper"
    <3> DEFINE q == intent.quantity
    <3>1. r \in AlpacaAnswers(intent)
      BY <2>2 DEF Answers
    <3>2. /\ {"filled", "accepted", "rejected_non_fractionable",
              "partially_filled", "canceled"} \subseteq Statuses
          /\ q \in 0..MaxQty /\ 0 \in 0..MaxQty /\ 0 <= q /\ q <= q
          /\ \A f \in 0..(q - 1) : f \in 0..MaxQty /\ f <= q
          /\ \A f \in 1..(q - 1) : f \in 0..MaxQty /\ f <= q
      BY <1>1 DEF Statuses
    <3>3. \/ r = AnswerTo(intent, "filled", q, q)
          \/ r = AnswerTo(intent, "accepted", q, 0)
          \/ r = AnswerTo(intent, "rejected_non_fractionable", q, 0)
          \/ \E f \in 1..(q - 1) : r = AnswerTo(intent, "partially_filled", q, f)
          \/ \E f \in 0..(q - 1) : r = AnswerTo(intent, "canceled", q, f)
      BY <3>1 DEF AlpacaAnswers
    <3> HIDE DEF q
    <3>4. CASE r = AnswerTo(intent, "filled", q, q)
      BY <3>2, <3>4
    <3>5. CASE r = AnswerTo(intent, "accepted", q, 0)
      BY <3>2, <3>5
    <3>6. CASE r = AnswerTo(intent, "rejected_non_fractionable", q, 0)
      BY <3>2, <3>6
    <3>7. ASSUME NEW f \in 1..(q - 1), r = AnswerTo(intent, "partially_filled", q, f)
          PROVE  Found
      BY <3>2, <3>7
    <3>8. ASSUME NEW f \in 0..(q - 1), r = AnswerTo(intent, "canceled", q, f)
          PROVE  Found
      BY <3>2, <3>8
    <3> QED BY <3>3, <3>4, <3>5, <3>6, <3>7, <3>8
  <2> QED BY <2>1, <2>2
<1> QED BY <1>3, <1>4

\* What a fill does to the account: it moves one symbol, and none when nothing
\* is filled.
LEMMA FillFacts ==
  ASSUME MarketOK, NEW s \in Symbols, NEW action \in {"BUY", "SELL"},
         NEW f \in 0..MaxQty, Fill(s, action, f)
  PROVE  /\ broker' \in [name: Brokers, positions: [Symbols -> 0..MaxQty]]
         /\ closed' \subseteq Symbols
         /\ \A t \in Symbols \ {s} : broker'.positions[t] = broker.positions[t]
                                     /\ (t \in closed' <=> t \in closed)
         /\ f = 0 => broker'.positions[s] = broker.positions[s]
                     /\ (s \in closed' <=> s \in closed)
         /\ action = "BUY" => broker'.positions[s] = broker.positions[s] + f
                              /\ (s \in closed' <=> s \in closed)
         /\ action = "SELL" => /\ f <= broker.positions[s]
                               /\ broker'.positions[s] = broker.positions[s] - f
                               /\ s \in closed' => s \in closed \/
                                    (f > 0 /\ f = broker.positions[s])
<1> DEFINE v == IF action = "BUY" THEN broker.positions[s] + f
                                  ELSE broker.positions[s] - f
           held == broker.positions[s]
<1>1. /\ broker = [name |-> broker.name, positions |-> broker.positions]
      /\ broker.name \in Brokers /\ broker.positions \in [Symbols -> 0..MaxQty]
      /\ held \in 0..MaxQty /\ MaxQty \in Nat
  BY PersistenceAssumption DEF MarketOK
<1>2. /\ action = "BUY" => held + f <= MaxQty
      /\ action = "SELL" => f <= held
  BY DEF Fill, CanFill, Held
<1>3. v \in 0..MaxQty
  BY <1>1, <1>2
<1>4. broker' = [broker EXCEPT !.positions = [broker.positions EXCEPT ![s] = v]]
  BY DEF Fill
<1>5. broker' = [name |-> broker.name,
                 positions |-> [broker.positions EXCEPT ![s] = v]]
  BY <1>1, <1>4
<1>6. /\ [broker.positions EXCEPT ![s] = v] \in [Symbols -> 0..MaxQty]
      /\ [broker.positions EXCEPT ![s] = v][s] = v
      /\ \A t \in Symbols \ {s} :
            [broker.positions EXCEPT ![s] = v][t] = broker.positions[t]
  <2> HIDE DEF v
  <2> QED BY <1>1, <1>3
<1>7. closed' = IF action = "SELL" /\ f > 0 /\ f = held THEN closed \cup {s}
                ELSE closed
  BY DEF Fill, Held
<1>8. closed' \subseteq Symbols /\ \A t \in Symbols \ {s} : t \in closed' <=> t \in closed
  BY <1>7 DEF MarketOK
<1>9. broker'.positions[s] = v
      /\ \A t \in Symbols \ {s} : broker'.positions[t] = broker.positions[t]
  <2> HIDE DEF v
  <2> QED BY <1>5, <1>6
<1>10. broker' \in [name: Brokers, positions: [Symbols -> 0..MaxQty]]
  <2> HIDE DEF v
  <2> QED BY <1>1, <1>5, <1>6
<1>11. /\ action = "BUY" => v = held + f
       /\ action = "SELL" => v = held - f
       /\ f = 0 => v = held
       /\ action = "BUY" => action # "SELL"
  BY <1>1
<1> HIDE DEF v, held
<1>12. /\ f = 0 => (s \in closed' <=> s \in closed)
       /\ action = "BUY" => (s \in closed' <=> s \in closed)
       /\ action = "SELL" => (s \in closed' => s \in closed \/ (f > 0 /\ f = held))
  BY <1>7
<1> QED BY <1>2, <1>8, <1>9, <1>10, <1>11, <1>12 DEF held

-----------------------------------------------------------------------------
\* What the lists of intents are.
LEMMA IntentListFacts ==
  ASSUME NEW intents \in IntentLists
  PROVE  /\ intents \in Seq(Intent) /\ Len(intents) \in 1..MaxIntents
         /\ DOMAIN intents = 1..Len(intents)
<1>1. PICK n \in 1..MaxIntents : intents \in [1..n -> Intent]
  BY DEF IntentLists
<1>2. n \in Nat /\ MaxIntents \in Nat
  BY PersistenceAssumption
<1>3. intents \in Seq(Intent) /\ Len(intents) = n
  BY <1>1, <1>2
<1> QED BY <1>1, <1>3

\* A rehearsal has a result for every intent, and no fill in any of them.
LEMMA RehearsalFacts ==
  ASSUME NEW intents \in IntentLists, NEW rows,
         rows = [i \in DOMAIN intents |->
                   LET intent == SellFirst(intents)[i]
                   IN  AnswerTo(intent, "dry_run", intent.quantity, 0)]
  PROVE  /\ rows \in Seq(Result) /\ Len(rows) = Len(intents)
         /\ \A i \in DOMAIN rows : FillQty(rows[i]) = 0 /\ ~ HasMutations(rows[i])
<1> DEFINE N == Len(intents)
<1>1. /\ intents \in Seq(Intent) /\ N \in 1..MaxIntents /\ DOMAIN intents = 1..N
      /\ N \in Nat
  BY IntentListFacts, PersistenceAssumption
<1>2. SellFirst(intents) \in Seq(Intent) /\ Len(SellFirst(intents)) = N
  BY <1>1, SellFirstType
<1>3. \A i \in 1..N : SellFirst(intents)[i] \in Intent
  <2> HIDE DEF N
  <2> QED BY <1>1, <1>2
<1>4. ASSUME NEW i \in 1..N
      PROVE  rows[i] \in Result /\ FillQty(rows[i]) = 0 /\ ~ HasMutations(rows[i])
  <2> DEFINE it == SellFirst(intents)[i]
  <2>1. rows[i] = AnswerTo(it, "dry_run", it.quantity, 0)
    BY <1>1
  <2>2. it \in Intent
    BY <1>3
  <2> HIDE DEF it
  <2>3. /\ it.symbol \in Symbols /\ it.action \in {"BUY", "SELL"}
        /\ it.quantity \in 0..MaxQty /\ 0 \in 0..MaxQty /\ it.quantity \in Nat
    BY <2>2, PersistenceAssumption DEF Intent
  <2>4. rows[i] \in Result
    BY <2>1, <2>3 DEF AnswerTo, Result, Statuses
  <2>5. /\ rows[i].status = "dry_run" /\ rows[i].filled_qty = 0
        /\ rows[i].quantity = it.quantity
    BY <2>1 DEF AnswerTo
  <2>6. ~ Filled(rows[i]) /\ ~ Partial(rows[i])
    BY <2>3, <2>5 DEF Filled, Partial
  <2> QED BY <2>4, <2>5, <2>6 DEF FillQty, HasMutations
<1>5. DOMAIN rows = 1..N /\ rows \in [1..N -> Result]
  BY <1>1, <1>4
<1>6. rows \in Seq(Result) /\ Len(rows) = N
  <2> HIDE DEF N
  <2> QED BY <1>1, <1>5
<1> QED BY <1>4, <1>5, <1>6

\* What the file holds with the whole plan in hand applied.
Whole == Replay[Len(job.rows)]

\* Two live states say the same of a symbol.
SameAt(a, b, s) ==
  /\ a.positions[s] = b.positions[s]
  /\ s \in a.last_sell_dates <=> s \in b.last_sell_dates

\* The file as it stands, as the plan in hand leaves it, and as the commit
\* writes it differ only at the symbols the plan traded.
LEMMA KeptFacts ==
  RunInv =>
    /\ Kept \in LiveState /\ Whole \in LiveState /\ CommittedState \in LiveState
    /\ \A s \in Symbols : SameAt(CommittedState, Whole, s)
    /\ \A s \in Symbols \ Traded : SameAt(Whole, disk, s) /\ SameAt(Kept, disk, s)
    /\ job.committed => \A s \in Symbols : SameAt(Whole, disk, s)
<1> SUFFICES ASSUME RunInv
             PROVE  /\ Kept \in LiveState /\ Whole \in LiveState
                    /\ CommittedState \in LiveState
                    /\ \A s \in Symbols : SameAt(CommittedState, Whole, s)
                    /\ \A s \in Symbols \ Traded :
                         SameAt(Whole, disk, s) /\ SameAt(Kept, disk, s)
                    /\ job.committed => \A s \in Symbols : SameAt(Whole, disk, s)
  OBVIOUS
<1> DEFINE N == Len(job.rows)
<1>1. /\ disk \in LiveState /\ job.rows \in Seq(Result) /\ N \in Nat /\ N \in 0..N
      /\ job.run \in {0} \cup Runs
  BY PersistenceAssumption DEF RunInv, PlanOK, FilesOK, Runs
<1>2. Replay = ReplayOf(disk, job.rows, PendingPlaces)
  BY ReplayIsReplayOf
<1>3. Whole \in LiveState
  BY <1>1, <1>2, ReplayUnfolds DEF Whole
<1>4. Kept \in LiveState
  BY <1>1, <1>3 DEF Kept, Whole
<1>5. CommittedState = [Whole EXCEPT !.last_run = job.run]
  BY DEF CommittedState, Whole
<1>6. /\ CommittedState.positions = Whole.positions
      /\ CommittedState.last_sell_dates = Whole.last_sell_dates
      /\ CommittedState \in LiveState
  BY <1>1, <1>3, <1>5 DEF LiveState
<1>7. \A s \in Symbols : SameAt(CommittedState, Whole, s)
  BY <1>6 DEF SameAt
<1>8. ASSUME NEW s \in Symbols,
             \A i \in DOMAIN job.rows :
                i \in PendingPlaces /\ job.rows[i].symbol = s
                   => FillQty(job.rows[i]) = 0
      PROVE  SameAt(Whole, disk, s)
  <2>1. /\ ReplayOf(disk, job.rows, PendingPlaces)[N].positions[s] = disk.positions[s]
        /\ s \in disk.last_sell_dates
             <=> s \in ReplayOf(disk, job.rows, PendingPlaces)[N].last_sell_dates
    <3> HIDE DEF N
    <3>1. \A n \in 0..Len(job.rows) :
           /\ ReplayOf(disk, job.rows, PendingPlaces)[n].positions[s]
                = disk.positions[s]
           /\ s \in disk.last_sell_dates
                <=> s \in ReplayOf(disk, job.rows, PendingPlaces)[n].last_sell_dates
      BY <1>1, <1>8, ReplayLeavesUntraded
    <3> QED BY <1>1, <3>1 DEF N
  <2> QED BY <1>2, <2>1 DEF SameAt, Whole
<1>9. ASSUME NEW s \in Symbols \ Traded PROVE SameAt(Whole, disk, s)
  <2>1. \A i \in DOMAIN job.rows : job.rows[i].symbol = s => FillQty(job.rows[i]) = 0
    <3> SUFFICES ASSUME NEW i \in DOMAIN job.rows, job.rows[i].symbol = s
                 PROVE  FillQty(job.rows[i]) = 0
      OBVIOUS
    <3>1. job.rows[i] \in Result
      BY <1>1
    <3>2. FillQty(job.rows[i]) \in 0..MaxQty /\ MaxQty \in Nat
      BY <1>1, <3>1, ApplyFacts, PersistenceAssumption
    <3>3. ~ (FillQty(job.rows[i]) > 0)
      BY DEF Traded
    <3> QED BY <3>2, <3>3
  <2> QED BY <2>1, <1>8
<1>10. ASSUME NEW s \in Symbols \ Traded PROVE SameAt(Kept, disk, s)
  BY <1>9 DEF Kept, Whole, SameAt
<1>11. ASSUME job.committed, NEW s \in Symbols PROVE SameAt(Whole, disk, s)
  <2>1. PendingPlaces = {}
    BY <1>11 DEF PendingPlaces
  <2> QED BY <1>8, <2>1
<1> QED BY <1>3, <1>4, <1>6, <1>7, <1>9, <1>10, <1>11

\* A symbol that two live states say the same of is mirrored by both.
LEMMA SameMirrors ==
  ASSUME NEW a, NEW b, NEW s, NEW account, NEW gone,
         SameAt(a, b, s), Mirrors(b, s, account, gone)
  PROVE  Mirrors(a, s, account, gone)
BY DEF SameAt, Mirrors

-----------------------------------------------------------------------------
\* The types hold at the start.
LEMMA RunInvInit == PersistenceInit => RunInv
<1> SUFFICES ASSUME PersistenceInit PROVE RunInv
  OBVIOUS
<1>0. /\ MaxQty \in Nat /\ MaxIntents \in Nat /\ MaxRuns \in Nat
      /\ MaxFaults \in Nat /\ 0 \in 0..MaxQty
  BY PersistenceAssumption
<1>1. /\ job.phase = "idle" /\ job.run = 0 /\ job.todo = <<>> /\ job.rows = <<>>
      /\ job.readonly \in BOOLEAN /\ job.committed \in BOOLEAN /\ ~ job.committed
  BY DEF PersistenceInit, NoJob
<1>2. PlanOK
  BY <1>0, <1>1 DEF PlanOK, Phases
<1>3. MarketOK
  <2>1. PICK pos \in {[s \in Symbols |-> 0]} : broker \in [name: Brokers, positions: {pos}]
    BY DEF PersistenceInit
  <2>2. broker \in [name: Brokers, positions: [Symbols -> 0..MaxQty]]
    BY <1>0, <2>1
  <2> QED BY <2>2 DEF PersistenceInit, MarketOK
<1>4. EmptyState \in LiveState
  BY DEF EmptyState, LiveState
<1>5. FilesOK
  BY <1>0, <1>4 DEF FilesOK, PersistenceInit
<1> QED BY <1>2, <1>3, <1>5 DEF RunInv

\* Every step keeps the types.
LEMMA RunInvNext == RunInv /\ JobOK /\ [PersistenceNext]_pvars => RunInv'
<1> SUFFICES ASSUME RunInv, JobOK, [PersistenceNext]_pvars PROVE RunInv'
  OBVIOUS
<1> USE DEF RunInv
<1>0. /\ MaxQty \in Nat /\ MaxIntents \in Nat /\ MaxRuns \in Nat
      /\ MaxFaults \in Nat /\ job.run \in Nat
  BY PersistenceAssumption DEF JobOK
<1>p. {"idle", "submitting", "planned", "refused", "state_written", "journalled",
       "lifecycle_written", "snapshotted"} = Phases
  BY DEF Phases
\* The job when only its phase moves, and never from idle or to submitting.
<1>q. ASSUME NEW p \in Phases, p \notin {"idle", "submitting"},
             job.phase # "idle", job' = [job EXCEPT !.phase = p]
      PROVE  PlanOK'
  <2>1. /\ job'.phase = p /\ job'.run = job.run /\ job'.todo = job.todo
        /\ job'.rows = job.rows /\ job'.readonly = job.readonly
        /\ job'.committed = job.committed
    BY <1>q, OnlyPhaseMoves
  <2> QED BY <1>q, <2>1 DEF PlanOK
<1>r. ASSUME job' = NoJob(job.run) PROVE PlanOK'
  <2>1. /\ job'.phase = "idle" /\ job'.run = job.run /\ job'.todo = <<>>
        /\ job'.rows = <<>> /\ job'.readonly \in BOOLEAN /\ job'.committed \in BOOLEAN
          /\ ~ job'.committed
    BY <1>r DEF NoJob
  <2> QED BY <1>0, <1>p, <2>1 DEF PlanOK
<1>f. Fault => faults' \in 0..MaxFaults
  BY <1>0 DEF Fault, FilesOK
<1>m. Traded \subseteq Symbols
  <2>1. \A i \in DOMAIN job.rows : job.rows[i] \in Result
    BY DEF PlanOK
  <2> QED BY <2>1 DEF Traded, Result
<1>1. ASSUME NEW intents \in IntentLists, DryRun(intents) PROVE RunInv'
  <2> DEFINE rows == [i \in DOMAIN intents |->
                        LET intent == SellFirst(intents)[i]
                        IN  AnswerTo(intent, "dry_run", intent.quantity, 0)]
  <2>1. /\ rows \in Seq(Result) /\ Len(rows) = Len(intents)
        /\ Len(intents) \in 1..MaxIntents
    BY RehearsalFacts, IntentListFacts
  <2>2. /\ job'.phase = "planned" /\ job'.run = job.run + 1 /\ job'.todo = <<>>
        /\ job'.rows = rows /\ job'.readonly \in BOOLEAN /\ job'.committed \in BOOLEAN
          /\ ~ job'.committed
    BY <1>1 DEF DryRun, NoJob
  <2>3. job.run + 1 \in Runs /\ job.run + 1 \in 0..MaxRuns
    BY <1>0, <1>1 DEF DryRun, Runs
  <2> HIDE DEF rows
  <2>4. Len(job'.todo) + Len(job'.rows) <= MaxIntents
    BY <1>0, <2>1, <2>2
  <2>5. PlanOK'
    BY <1>p, <2>1, <2>2, <2>3, <2>4 DEF PlanOK
  <2> QED BY <1>1, <2>5 DEF DryRun, MarketOK, FilesOK, stores, history
<1>2. ASSUME NEW intents \in IntentLists, BeginExecute(intents) PROVE RunInv'
  <2> DEFINE todo == SellFirst(intents)
  <2>1. /\ todo \in Seq(Intent) /\ Len(todo) = Len(intents)
        /\ Len(intents) \in 1..MaxIntents
    BY SellFirstType, IntentListFacts
  <2>2. /\ job'.phase = "submitting" /\ job'.run = job.run + 1 /\ job'.todo = todo
        /\ job'.rows = <<>> /\ job'.readonly \in BOOLEAN /\ job'.committed \in BOOLEAN
          /\ ~ job'.committed
    BY <1>2 DEF BeginExecute, NoJob
  <2>3. job.run + 1 \in Runs /\ job.run + 1 \in 0..MaxRuns
    BY <1>0, <1>2 DEF BeginExecute, Runs
  <2> HIDE DEF todo
  <2>4. Len(job'.todo) + Len(job'.rows) <= MaxIntents
    BY <1>0, <2>1, <2>2
  <2>5. PlanOK'
    BY <1>p, <2>1, <2>2, <2>3, <2>4 DEF PlanOK
  <2> QED BY <1>2, <2>5 DEF BeginExecute, MarketOK, FilesOK, stores, history
<1>3. CASE PlaceOrder
  <2>1. /\ job.phase = "submitting" /\ job.todo # <<>>
        /\ job.todo \in Seq(Intent) /\ job.rows \in Seq(Result)
    BY <1>3 DEF PlaceOrder, PlanOK
  <2>2. Head(job.todo) \in Intent /\ Tail(job.todo) \in Seq(Intent)
        /\ Len(Tail(job.todo)) = Len(job.todo) - 1
    BY <2>1
  <2>3. PICK r \in Answers(Head(job.todo)) :
          /\ Fill(r.symbol, r.action, FillQty(r))
          /\ resting' = resting \cup Unfilled(r)
          /\ job' = [job EXCEPT !.todo = Tail(@), !.rows = Append(@, r)]
    BY <1>3 DEF PlaceOrder
  <2>4. /\ r \in Result /\ FillQty(r) \in 0..MaxQty /\ Unfilled(r) \subseteq Resting
        /\ r.symbol \in Symbols /\ r.action \in {"BUY", "SELL"}
    BY <2>2, AnswerFacts DEF Result
  <2>5. /\ broker' \in [name: Brokers, positions: [Symbols -> 0..MaxQty]]
        /\ closed' \subseteq Symbols
    BY <2>3, <2>4, FillFacts
  <2>6. /\ job'.phase = job.phase /\ job'.run = job.run
        /\ job'.todo = Tail(job.todo) /\ job'.rows = Append(job.rows, r)
        /\ job'.readonly = job.readonly /\ job'.committed = job.committed
    BY <2>3 DEF JobOK
  <2>7. /\ Append(job.rows, r) \in Seq(Result)
        /\ Len(Append(job.rows, r)) = Len(job.rows) + 1
        /\ Len(job.rows) \in Nat /\ Len(job.todo) \in Nat
    BY <2>1, <2>4
  <2>8. Len(job'.todo) + Len(job'.rows) <= MaxIntents
    <3>1. Len(job.todo) + Len(job.rows) <= MaxIntents
      BY DEF PlanOK
    <3>2. Len(job'.todo) = Len(job.todo) - 1 /\ Len(job'.rows) = Len(job.rows) + 1
      BY <2>2, <2>6, <2>7
    <3>3. Len(job.rows) \in Nat /\ Len(job.todo) \in Nat
      BY <2>7
    <3> DEFINE lt == Len(job'.todo)
               lr == Len(job'.rows)
               t == Len(job.todo)
               r0 == Len(job.rows)
    <3> HIDE DEF lt, lr, t, r0
    <3>4. lt = t - 1 /\ lr = r0 + 1 /\ t + r0 <= MaxIntents /\ t \in Nat /\ r0 \in Nat
      BY <3>1, <3>2, <3>3 DEF lt, lr, t, r0
    <3>5. lt + lr <= MaxIntents
      BY <1>0, <3>4
    <3> QED BY <3>5 DEF lt, lr
  <2>9. PlanOK'
    BY <2>1, <2>2, <2>6, <2>7, <2>8 DEF PlanOK
  <2>10. MarketOK' /\ FilesOK'
    BY <1>3, <2>3, <2>4, <2>5 DEF PlaceOrder, MarketOK, FilesOK, stores
  <2> QED BY <2>9, <2>10
<1>4. CASE PlaceRaises
  <2>1. job.todo # <<>> /\ job.todo \in Seq(Intent)
    BY <1>4 DEF PlaceRaises, PlanOK
  <2>2. Head(job.todo) \in Intent
    BY <2>1
  <2>3. PICK f \in 0..Head(job.todo).quantity :
          /\ Fill(Head(job.todo).symbol, Head(job.todo).action, f)
          /\ missed' = missed \cup Traded
                         \cup (IF f > 0 THEN {Head(job.todo).symbol} ELSE {})
    BY <1>4 DEF PlaceRaises
  <2>4. /\ Head(job.todo).symbol \in Symbols
        /\ Head(job.todo).action \in {"BUY", "SELL"} /\ f \in 0..MaxQty
    BY <1>0, <2>2 DEF Intent
  <2>5. /\ broker' \in [name: Brokers, positions: [Symbols -> 0..MaxQty]]
        /\ closed' \subseteq Symbols
    BY <2>3, <2>4, FillFacts
  <2>6. MarketOK'
    BY <1>4, <1>m, <2>3, <2>4, <2>5 DEF PlaceRaises, MarketOK
  <2>7. PlanOK'
    BY <1>4, <1>r DEF PlaceRaises
  <2>8. FilesOK'
    BY <1>4, <1>f DEF PlaceRaises, FilesOK, stores
  <2> QED BY <2>6, <2>7, <2>8
<1>5. CASE ReturnPlan
  <2>1. PlanOK'
    BY <1>5, <1>p, <1>q DEF ReturnPlan
  <2> QED BY <1>5, <2>1 DEF ReturnPlan, MarketOK, FilesOK, stores, history
<1>6. CASE LateFill
  <2>1. PICK o \in resting : \E f \in 1..o.left :
          /\ Fill(o.symbol, o.action, f)
          /\ resting' = resting \ {o}
          /\ missed' = missed \cup {o.symbol}
    BY <1>6 DEF LateFill
  <2>2. PICK f \in 1..o.left :
          /\ Fill(o.symbol, o.action, f)
          /\ resting' = resting \ {o}
          /\ missed' = missed \cup {o.symbol}
    BY <2>1
  <2>3. o.symbol \in Symbols /\ o.action \in {"BUY", "SELL"} /\ f \in 0..MaxQty
    BY <1>0 DEF MarketOK, Resting
  <2>4. /\ broker' \in [name: Brokers, positions: [Symbols -> 0..MaxQty]]
        /\ closed' \subseteq Symbols
    BY <2>2, <2>3, FillFacts
  <2>5. MarketOK'
    BY <2>2, <2>3, <2>4 DEF MarketOK
  <2> QED BY <1>6, <2>5 DEF LateFill, PlanOK, FilesOK, stores
<1>7. CASE CommitRaises
  <2>1. PlanOK'
    BY <1>7, <1>p, <1>q DEF CommitRaises
  <2> QED BY <1>7, <1>m, <2>1 DEF CommitRaises, MarketOK, FilesOK, stores
<1>8. CASE WriteState
  <2>1. PlanOK'
    BY <1>8, <1>p, <1>q DEF WriteState
  <2>2. disk' \in LiveState
    BY <1>8, KeptFacts DEF WriteState
  <2> QED BY <1>8, <2>1, <2>2 DEF WriteState, MarketOK, FilesOK
<1>9. CASE AppendJournal
  <2>1. PlanOK'
    BY <1>9, <1>p, <1>q DEF AppendJournal
  <2> QED BY <1>9, <2>1 DEF AppendJournal, MarketOK, FilesOK, history
<1>10. CASE AppendLifecycle
  <2>1. PlanOK'
    BY <1>10, <1>p, <1>q DEF AppendLifecycle
  <2> QED BY <1>10, <2>1 DEF AppendLifecycle, MarketOK, FilesOK, history
<1>11. CASE RecordSnapshot
  <2>1. PlanOK'
    BY <1>11, <1>p, <1>q DEF RecordSnapshot
  <2>2. snapshots' \in [Runs -> LiveState]
    BY <1>11 DEF RecordSnapshot, FilesOK
  <2> QED BY <1>11, <2>1, <2>2 DEF RecordSnapshot, MarketOK, FilesOK, history
<1>12. CASE ReturnCommitted
  <2>1. /\ job'.phase = "planned" /\ job'.run = job.run /\ job'.todo = job.todo
        /\ job'.rows = job.rows /\ job'.readonly = job.readonly
        /\ job'.committed \in BOOLEAN
    BY <1>12 DEF ReturnCommitted, JobOK
  <2>2. job.phase = "snapshotted" /\ "planned" \in Phases
    BY <1>12, <1>p DEF ReturnCommitted
  <2>3. PlanOK'
    BY <2>1, <2>2 DEF PlanOK
  <2> QED BY <1>12, <2>3 DEF ReturnCommitted, MarketOK, FilesOK, stores, history
<1>13. CASE EndRun
  <2>1. PlanOK'
    BY <1>13, <1>r DEF EndRun
  <2> QED BY <1>13, <1>m, <2>1 DEF EndRun, MarketOK, FilesOK, stores
<1>14. CASE Crash
  <2>1. PlanOK'
    <3>1. CASE job.phase = "submitting"
      BY <1>14, <1>r, <3>1 DEF Crash
    <3>2. CASE job.phase # "submitting"
      BY <1>14, <1>p, <1>q, <3>2 DEF Crash
    <3> QED BY <3>1, <3>2
  <2>2. MarketOK'
    BY <1>14, <1>m DEF Crash, MarketOK
  <2>3. FilesOK'
    BY <1>14, <1>f DEF Crash, FilesOK, stores
  <2> QED BY <2>1, <2>2, <2>3
<1>15. CASE UNCHANGED pvars
  BY <1>15 DEF pvars, stores, history, PlanOK, MarketOK, FilesOK
<1> QED
  BY <1>1, <1>2, <1>3, <1>4, <1>5, <1>6, <1>7, <1>8, <1>9, <1>10, <1>11, <1>12,
     <1>13, <1>14, <1>15 DEF PersistenceNext

-----------------------------------------------------------------------------
\* The plan in hand is the same plan while neither its results nor its mark
\* nor the file changes.
LEMMA WholeStays ==
  ASSUME disk' = disk, job'.rows = job.rows, job'.committed = job.committed
  PROVE  Whole' = Whole /\ Traded' = Traded
<1>1. PendingPlaces' = PendingPlaces
  BY DEF PendingPlaces
<1>2. Replay = ReplayOf(disk, job.rows, PendingPlaces)
  BY ReplayIsReplayOf
<1>3. (Replay = ReplayOf(disk, job.rows, PendingPlaces))'
  BY ReplayIsReplayOf, PTL
<1>4. Whole = ReplayOf(disk, job.rows, PendingPlaces)[Len(job.rows)]
  BY <1>2 DEF Whole
<1>5. Whole' = ReplayOf(disk', job'.rows, PendingPlaces')[Len(job'.rows)]
  BY <1>3 DEF Whole
<1>6. Traded' = Traded
  BY DEF Traded
<1> QED BY <1>1, <1>4, <1>5, <1>6

\* The cache and the account start empty.
LEMMA MirrorInit == PersistenceInit => MirrorInv
<1> SUFFICES ASSUME PersistenceInit PROVE MirrorInv
  OBVIOUS
<1>1. Kept = EmptyState
  BY DEF PersistenceInit, NoJob, Kept
<1>2. PICK pos \in {[s \in Symbols |-> 0]} : broker \in [name: Brokers, positions: {pos}]
  BY DEF PersistenceInit
<1>3. \A s \in Symbols : broker.positions[s] = 0 /\ EmptyState.positions[s] = 0
  BY <1>2 DEF EmptyState
<1>4. closed = {}
  BY DEF PersistenceInit
<1> QED BY <1>1, <1>3, <1>4 DEF MirrorInv, Mirrors

\* The kept state and the file agree where the plan did not trade.
LEMMA KeptElsewhere == RunInv => \A s \in Symbols \ Traded : SameAt(Kept, disk, s)
BY KeptFacts

\* A step that takes the plan out of hand, in whole or in part, and owns up to
\* the fills it loses.
LEMMA LosingKeepsMirror ==
  ASSUME RunInv, RunInv', MirrorInv, disk' = disk,
         missed \cup Traded \subseteq missed', Traded' \subseteq Traded,
         \A s \in Symbols \ missed' :
            /\ broker'.positions[s] = broker.positions[s]
            /\ s \in closed' => s \in closed
  PROVE  MirrorInv'
<1>1. \A s \in Symbols \ Traded : SameAt(Kept, disk, s)
  BY KeptFacts
<1>2. RunInv' => (\A s \in Symbols \ Traded : SameAt(Kept, disk, s))'
  BY KeptElsewhere, PTL
<1>3. \A s \in Symbols \ Traded' : SameAt(Kept', disk', s)
  BY <1>2 DEF SameAt
<1> SUFFICES ASSUME NEW s \in Symbols \ missed'
             PROVE  Mirrors(Kept', s, broker', closed')
  BY DEF MirrorInv
<1>4. s \in Symbols \ Traded /\ s \in Symbols \ Traded' /\ s \in Symbols \ missed
  OBVIOUS
<1>5. Mirrors(Kept, s, broker, closed)
  BY <1>4 DEF MirrorInv
<1>6. SameAt(Kept', Kept, s)
  BY <1>1, <1>3, <1>4 DEF SameAt
<1> QED BY <1>5, <1>6 DEF Mirrors, SameAt

\* A step that leaves the file as it is while nothing in hand is to be applied.
LEMMA SettledKeepsMirror ==
  ASSUME MirrorInv, Kept = disk, Kept' = disk',
         disk' = disk, UNCHANGED <<broker, closed, missed>>
  PROVE  MirrorInv'
BY DEF MirrorInv, Mirrors

\* A result taken down is applied to the kept state as the broker filled it.
LEMMA PlaceOrderKeepsMirror ==
  ASSUME RunInv, RunInv', JobOK, MirrorInv, PlaceOrder
  PROVE  MirrorInv'
<1> USE DEF RunInv
<1>1. /\ job.phase = "submitting" /\ job.todo # <<>> /\ ~ job.committed
      /\ job.todo \in Seq(Intent) /\ job.rows \in Seq(Result)
  BY DEF PlaceOrder, PlanOK
<1>2. Head(job.todo) \in Intent
  BY <1>1
<1>3. PICK r \in Answers(Head(job.todo)) :
        /\ Fill(r.symbol, r.action, FillQty(r))
        /\ job' = [job EXCEPT !.todo = Tail(@), !.rows = Append(@, r)]
  BY DEF PlaceOrder
<1>4. /\ r \in Result /\ FillQty(r) \in 0..MaxQty
      /\ r.symbol \in Symbols /\ r.action \in {"BUY", "SELL"}
      /\ FillQty(r) > 0 => HasMutations(r)
  BY <1>2, AnswerFacts DEF Result
<1>5. /\ job'.phase = "submitting" /\ job'.rows = Append(job.rows, r)
      /\ ~ job'.committed
  BY <1>1, <1>3 DEF JobOK
<1>6. disk' = disk /\ missed' = missed
  BY DEF PlaceOrder, stores
<1> DEFINE N == Len(job.rows)
<1>7. N \in Nat /\ DOMAIN job.rows = 1..N
      /\ Len(Append(job.rows, r)) = N + 1
      /\ DOMAIN Append(job.rows, r) = 1..(N + 1)
      /\ Append(job.rows, r)[N + 1] = r
      /\ \A i \in 1..N : Append(job.rows, r)[i] = job.rows[i]
  BY <1>1, <1>4
<1>8. /\ PendingPlaces' \cap (1..N) = PendingPlaces
      /\ N + 1 \in PendingPlaces' <=> HasMutations(r)
  <2>1. PendingPlaces = {i \in 1..N : HasMutations(job.rows[i])}
    BY <1>1, <1>7 DEF PendingPlaces
  <2>2. PendingPlaces' = {i \in 1..(N + 1) : HasMutations(Append(job.rows, r)[i])}
    BY <1>5, <1>7 DEF PendingPlaces
  <2> HIDE DEF N
  <2> QED BY <1>7, <2>1, <2>2
<1>9. Whole' = IF HasMutations(r) THEN Apply(Whole, r) ELSE Whole
  <2>1. (Replay = ReplayOf(disk, job.rows, PendingPlaces))'
    BY ReplayIsReplayOf, PTL
  <2>2. Whole' = ReplayOf(disk, Append(job.rows, r), PendingPlaces')[N + 1]
    BY <1>5, <1>6, <1>7, <2>1 DEF Whole
  <2>3. Whole = ReplayOf(disk, job.rows, PendingPlaces)[N]
    BY ReplayIsReplayOf DEF Whole
  <2>4. disk \in LiveState
    BY DEF FilesOK
  <2>5. ReplayOf(disk, Append(job.rows, r), PendingPlaces')[N + 1] =
          IF N + 1 \in PendingPlaces'
          THEN Apply(ReplayOf(disk, job.rows, PendingPlaces)[N], r)
          ELSE ReplayOf(disk, job.rows, PendingPlaces)[N]
    BY <1>1, <1>4, <1>8, <2>4, ReplayAppend
  <2> QED BY <1>8, <2>2, <2>3, <2>5
<1>10. Kept = Whole /\ Kept' = Whole' /\ Whole \in LiveState
  BY <1>1, <1>5, KeptFacts DEF Kept, Whole
<1> SUFFICES ASSUME NEW s \in Symbols \ missed
             PROVE  Mirrors(Kept', s, broker', closed')
  BY <1>6 DEF MirrorInv
<1> DEFINE K == Whole
           f == FillQty(r)
<1>11. K.positions[s] = broker.positions[s] /\ (s \in closed => s \in K.last_sell_dates)
  BY <1>10 DEF MirrorInv, Mirrors
<1>12. f \in Nat /\ K.positions[s] \in Nat
  BY <1>4, <1>10 DEF LiveState
<1>13. CASE ~ HasMutations(r)
  <2>1. Kept' = K /\ f = 0
    BY <1>4, <1>9, <1>10, <1>12, <1>13
  <2>2. broker'.positions[s] = broker.positions[s] /\ (s \in closed' <=> s \in closed)
    <3>1. CASE s = r.symbol
      BY <1>3, <1>4, <2>1, <3>1, FillFacts
    <3>2. CASE s # r.symbol
      <4>1. s \in Symbols \ {r.symbol}
        BY <3>2
      <4> QED BY <1>3, <1>4, <4>1, FillFacts
    <3> QED BY <3>1, <3>2
  <2> QED BY <1>11, <2>1, <2>2 DEF Mirrors
<1>14. CASE HasMutations(r) /\ s # r.symbol
  <2>0. s \in Symbols \ {r.symbol}
    BY <1>14
  <2>1. Kept' = Apply(K, r)
    BY <1>9, <1>10, <1>14
  <2>2. broker'.positions[s] = broker.positions[s] /\ (s \in closed' <=> s \in closed)
    BY <1>3, <1>4, <2>0, FillFacts
  <2>3. /\ Apply(K, r).positions[s] = K.positions[s]
        /\ K.last_sell_dates \subseteq Apply(K, r).last_sell_dates
    BY <1>4, <1>10, <2>0, ApplyFacts
  <2> HIDE DEF K
  <2> QED BY <1>11, <2>1, <2>2, <2>3 DEF Mirrors
<1>15. CASE HasMutations(r) /\ s = r.symbol
  <2>1. Kept' = Apply(K, r)
    BY <1>9, <1>10, <1>15
  <2>2. CASE r.action = "BUY"
    <3>1. broker'.positions[s] = broker.positions[s] + f /\ (s \in closed' <=> s \in closed)
      BY <1>3, <1>4, <1>15, <2>2, FillFacts
    <3>2. /\ Apply(K, r).positions[s] = K.positions[s] + f
          /\ K.last_sell_dates \subseteq Apply(K, r).last_sell_dates
      BY <1>4, <1>10, <1>15, <2>2, ApplyFacts
    <3> HIDE DEF K, f
    <3> QED BY <1>11, <2>1, <3>1, <3>2 DEF Mirrors
  <2>3. CASE r.action = "SELL"
    <3>1. /\ f <= broker.positions[s]
          /\ broker'.positions[s] = broker.positions[s] - f
          /\ s \in closed' => s \in closed \/ (f > 0 /\ f = broker.positions[s])
      BY <1>3, <1>4, <1>15, <2>3, FillFacts
    <3>2. /\ f <= K.positions[s] => Apply(K, r).positions[s] = K.positions[s] - f
          /\ K.last_sell_dates \subseteq Apply(K, r).last_sell_dates
          /\ f > 0 /\ K.positions[s] = f => s \in Apply(K, r).last_sell_dates
      BY <1>4, <1>10, <1>15, <2>3, ApplyFacts
    <3> HIDE DEF K, f
    <3> QED BY <1>11, <2>1, <3>1, <3>2 DEF Mirrors
  <2> QED BY <1>4, <2>2, <2>3
<1> QED BY <1>13, <1>14, <1>15

\* Every step keeps the mirror.
LEMMA MirrorNext ==
  RunInv /\ RunInv' /\ JobOK /\ MirrorInv /\ [PersistenceNext]_pvars => MirrorInv'
<1> SUFFICES ASSUME RunInv, RunInv', JobOK, MirrorInv, [PersistenceNext]_pvars
             PROVE  MirrorInv'
  OBVIOUS
<1>t. job.rows = <<>> => Traded = {}
  BY DEF Traded
<1>u. job'.rows = <<>> => Traded' = {}
  BY DEF Traded
<1>i. job.phase = "idle" => Traded = {}
  BY <1>t DEF RunInv, PlanOK
<1>1. ASSUME NEW intents \in IntentLists, DryRun(intents) PROVE MirrorInv'
  <2> DEFINE rows == [i \in DOMAIN intents |->
                        LET intent == SellFirst(intents)[i]
                        IN  AnswerTo(intent, "dry_run", intent.quantity, 0)]
  <2>1. \A i \in DOMAIN rows : FillQty(rows[i]) = 0
    BY RehearsalFacts
  <2>2. job'.rows = rows
    BY <1>1 DEF DryRun, NoJob
  <2> HIDE DEF rows
  <2>3. Traded' = {}
    BY <2>1, <2>2 DEF Traded
  <2>4. Traded = {} /\ UNCHANGED <<disk, missed, broker, closed>>
    BY <1>1, <1>i DEF DryRun, stores, history
  <2> QED BY <2>3, <2>4, LosingKeepsMirror
<1>2. ASSUME NEW intents \in IntentLists, BeginExecute(intents) PROVE MirrorInv'
  <2>1. job'.rows = <<>>
    BY <1>2 DEF BeginExecute, NoJob
  <2>2. Traded = {} /\ UNCHANGED <<disk, missed, broker, closed>>
    BY <1>2, <1>i DEF BeginExecute, stores, history
  <2> QED BY <1>u, <2>1, <2>2, LosingKeepsMirror
<1>3. CASE PlaceOrder
  BY <1>3, PlaceOrderKeepsMirror
<1>4. CASE PlaceRaises
  <2>1. job.todo # <<>> /\ job.todo \in Seq(Intent)
    BY <1>4 DEF PlaceRaises, RunInv, PlanOK
  <2>2. Head(job.todo) \in Intent
    BY <2>1
  <2>3. PICK f \in 0..Head(job.todo).quantity :
          /\ Fill(Head(job.todo).symbol, Head(job.todo).action, f)
          /\ missed' = missed \cup Traded
                         \cup (IF f > 0 THEN {Head(job.todo).symbol} ELSE {})
    BY <1>4 DEF PlaceRaises
  <2> DEFINE k == Head(job.todo).symbol
  <2>4. /\ k \in Symbols /\ f \in Nat
        /\ Head(job.todo).action \in {"BUY", "SELL"} /\ f \in 0..MaxQty
    BY <2>2, PersistenceAssumption DEF Intent
  <2>5. /\ \A t \in Symbols \ {k} : broker'.positions[t] = broker.positions[t]
                                    /\ (t \in closed' <=> t \in closed)
        /\ f = 0 => broker'.positions[k] = broker.positions[k]
                    /\ (k \in closed' <=> k \in closed)
    BY <2>3, <2>4, FillFacts DEF RunInv
  <2> HIDE DEF k
  <2>6. \A s \in Symbols \ missed' : s # k \/ f = 0
    BY <2>3, <2>4 DEF k
  <2>7. \A s \in Symbols \ missed' : /\ broker'.positions[s] = broker.positions[s]
                                     /\ s \in closed' => s \in closed
    BY <2>4, <2>5, <2>6
  <2>8. job'.rows = <<>> /\ disk' = disk
    BY <1>4 DEF PlaceRaises, NoJob, stores
  <2>9. missed \cup Traded \subseteq missed'
    BY <2>3
  <2> QED BY <1>u, <2>7, <2>8, <2>9, LosingKeepsMirror
<1>5. CASE ReturnPlan
  <2>1. /\ job'.phase = "planned" /\ job'.rows = job.rows
        /\ job'.committed = job.committed /\ job.phase = "submitting"
    BY <1>5, OnlyPhaseMoves DEF ReturnPlan
  <2>2. UNCHANGED <<disk, missed, broker, closed>>
    BY <1>5 DEF ReturnPlan, stores, history
  <2>3. Whole' = Whole
    BY <2>1, <2>2, WholeStays
  <2>4. Kept' = Kept
    BY <2>1, <2>2, <2>3 DEF Kept, Whole
  <2> QED BY <2>2, <2>4 DEF MirrorInv, Mirrors
<1>6. CASE LateFill
  <2>1. PICK o \in resting : \E f \in 1..o.left :
          Fill(o.symbol, o.action, f) /\ missed' = missed \cup {o.symbol}
    BY <1>6 DEF LateFill
  <2>2. PICK f \in 1..o.left :
          Fill(o.symbol, o.action, f) /\ missed' = missed \cup {o.symbol}
    BY <2>1
  <2>3. o.symbol \in Symbols /\ o.action \in {"BUY", "SELL"} /\ f \in 0..MaxQty
    BY PersistenceAssumption DEF RunInv, MarketOK, Resting
  <2>4. \A t \in Symbols \ {o.symbol} : broker'.positions[t] = broker.positions[t]
                                        /\ (t \in closed' <=> t \in closed)
    BY <2>2, <2>3, FillFacts DEF RunInv
  <2>5. UNCHANGED <<job, disk>>
    BY <1>6 DEF LateFill, stores
  <2>6. Kept' = Kept
    <3>1. Whole' = Whole
      BY <2>5, WholeStays
    <3> QED BY <2>5, <3>1 DEF Kept, Whole
  <2> QED BY <2>2, <2>4, <2>6 DEF MirrorInv, Mirrors
<1>7. CASE CommitRaises
  <2>1. job'.rows = job.rows
    BY <1>7, OnlyPhaseMoves DEF CommitRaises
  <2>2. Traded' = Traded
    BY <2>1 DEF Traded
  <2>3. UNCHANGED <<disk, broker, closed>> /\ missed' = missed \cup Traded
    BY <1>7 DEF CommitRaises, stores
  <2> QED BY <2>2, <2>3, LosingKeepsMirror
<1>8. CASE WriteState
  <2>1. /\ job'.phase = "state_written" /\ job.phase = "planned"
        /\ disk' = CommittedState /\ UNCHANGED <<broker, missed, closed>>
    BY <1>8, OnlyPhaseMoves DEF WriteState
  <2>2. Kept' = CommittedState
    BY <2>1 DEF Kept
  <2>3. \A s \in Symbols : SameAt(CommittedState, Kept, s)
    <3>1. CASE job.committed
      BY <3>1, KeptFacts DEF Kept, SameAt
    <3>2. CASE ~ job.committed
      BY <2>1, <3>2, KeptFacts DEF Kept, Whole
    <3> QED BY <3>1, <3>2
  <2> QED BY <2>1, <2>2, <2>3 DEF MirrorInv, Mirrors, SameAt
<1>9. CASE AppendJournal
  <2>1. job.phase = "state_written" /\ job'.phase = "journalled"
    BY <1>9, OnlyPhaseMoves DEF AppendJournal
  <2>2. UNCHANGED <<disk, broker, closed, missed>>
    BY <1>9 DEF AppendJournal, history
  <2>3. Kept = disk /\ Kept' = disk'
    BY <2>1 DEF Kept
  <2> QED BY <2>2, <2>3, SettledKeepsMirror
<1>10. CASE AppendLifecycle
  <2>1. job.phase = "journalled" /\ job'.phase = "lifecycle_written"
    BY <1>10, OnlyPhaseMoves DEF AppendLifecycle
  <2>2. UNCHANGED <<disk, broker, closed, missed>>
    BY <1>10 DEF AppendLifecycle, history
  <2>3. Kept = disk /\ Kept' = disk'
    BY <2>1 DEF Kept
  <2> QED BY <2>2, <2>3, SettledKeepsMirror
<1>11. CASE RecordSnapshot
  <2>1. job.phase = "lifecycle_written" /\ job'.phase = "snapshotted"
    BY <1>11, OnlyPhaseMoves DEF RecordSnapshot
  <2>2. UNCHANGED <<disk, broker, closed, missed>>
    BY <1>11 DEF RecordSnapshot, history
  <2>3. Kept = disk /\ Kept' = disk'
    BY <2>1 DEF Kept
  <2> QED BY <2>2, <2>3, SettledKeepsMirror
<1>12. CASE ReturnCommitted
  <2>1. job.phase = "snapshotted" /\ job'.committed
    BY <1>12 DEF ReturnCommitted, JobOK
  <2>2. UNCHANGED <<disk, broker, closed, missed>>
    BY <1>12 DEF ReturnCommitted, stores, history
  <2>3. Kept = disk /\ Kept' = disk'
    BY <2>1 DEF Kept
  <2> QED BY <2>2, <2>3, SettledKeepsMirror
<1>13. CASE EndRun
  <2>1. job'.rows = <<>> /\ job'.phase = "idle"
    BY <1>13 DEF EndRun, NoJob
  <2>2. UNCHANGED <<disk, broker, closed>>
    BY <1>13 DEF EndRun, stores
  <2>3. CASE job.committed
    <3>1. missed' = missed
      BY <1>13, <2>3 DEF EndRun
    <3>2. Kept = disk /\ Kept' = disk'
      BY <2>1, <2>3 DEF Kept
    <3> QED BY <2>2, <3>1, <3>2, SettledKeepsMirror
  <2>4. CASE ~ job.committed
    <3>1. missed' = missed \cup Traded
      BY <1>13, <2>4 DEF EndRun
    <3> QED BY <1>u, <2>1, <2>2, <3>1, LosingKeepsMirror
  <2> QED BY <2>3, <2>4
<1>14. CASE Crash
  <2>1. UNCHANGED <<disk, broker, closed>>
    BY <1>14 DEF Crash, stores
  <2>2. CASE job.committed
    <3>1. missed' = missed /\ job.phase \notin {"submitting", "planned"}
      BY <1>14, <2>2 DEF Crash, RunInv, PlanOK
    <3>2. job' = [job EXCEPT !.phase = "planned"]
      BY <1>14, <3>1 DEF Crash
    <3>3. job'.committed
      BY <2>2, <3>2 DEF JobOK
    <3>4. Kept = disk /\ Kept' = disk'
      BY <3>1, <3>3 DEF Kept
    <3> QED BY <2>1, <3>1, <3>4, SettledKeepsMirror
  <2>3. CASE ~ job.committed
    <3>1. missed' = missed \cup Traded
      BY <1>14, <2>3 DEF Crash
    <3>2. job'.rows = <<>> \/ job'.rows = job.rows
      BY <1>14 DEF Crash, NoJob, JobOK
    <3>3. Traded' \subseteq Traded
      BY <3>2 DEF Traded
    <3> QED BY <2>1, <3>1, <3>3, LosingKeepsMirror
  <2> QED BY <2>2, <2>3
<1>15. CASE UNCHANGED pvars
  <2>1. UNCHANGED <<job, disk, broker, closed, missed>>
    BY <1>15 DEF pvars, stores, history
  <2>2. Whole' = Whole
    BY <2>1, WholeStays
  <2>3. Kept' = Kept
    BY <2>1, <2>2 DEF Kept, Whole
  <2> QED BY <2>1, <2>3 DEF MirrorInv, Mirrors
<1> QED
  BY <1>1, <1>2, <1>3, <1>4, <1>5, <1>6, <1>7, <1>8, <1>9, <1>10, <1>11, <1>12,
     <1>13, <1>14, <1>15 DEF PersistenceNext

-----------------------------------------------------------------------------
(* The plan goes to the cache whole.                                       *)

\* All fills of the plan in hand were applied equally often, and none of them
\* while the plan is still being made.
WholeInv ==
  /\ \A i, j \in DOMAIN job.rows :
        HasMutations(job.rows[i]) /\ HasMutations(job.rows[j])
          => applied[<<job.run, i>>] = applied[<<job.run, j>>]
  /\ job.phase = "submitting"
       => \A i \in 1..MaxIntents : applied[<<job.run, i>>] = 0

\* A step that applies nothing and starts no run, and drops the results or
\* leaves them as they are.
LEMMA UncountedKeepsWhole ==
  ASSUME WholeInv, applied' = applied,
         job'.phase = "submitting" => job.phase = "submitting" /\ job'.run = job.run,
         job'.rows = <<>> \/ (job'.rows = job.rows /\ job'.run = job.run)
  PROVE  WholeInv'
<1>1. CASE job'.rows = <<>>
  BY <1>1 DEF WholeInv
<1>2. CASE job'.rows = job.rows /\ job'.run = job.run
  BY <1>2 DEF WholeInv
<1> QED BY <1>1, <1>2

LEMMA WholeInit == PersistenceInit => WholeInv
<1> SUFFICES ASSUME PersistenceInit PROVE WholeInv
  OBVIOUS
<1>1. job.rows = <<>> /\ job.phase = "idle"
  BY DEF PersistenceInit, NoJob
<1> QED BY <1>1 DEF WholeInv

LEMMA WholeNext ==
  WholeInv /\ RunInv /\ RunInv' /\ WriteInv /\ [PersistenceNext]_pvars => WholeInv'
<1> SUFFICES ASSUME WholeInv, RunInv, RunInv', WriteInv, [PersistenceNext]_pvars
             PROVE  WholeInv'
  OBVIOUS
<1>j. JobOK
  BY DEF WriteInv
<1>n. /\ job.run \in Nat /\ MaxIntents \in Nat /\ MaxRuns \in Nat
  BY PersistenceAssumption, <1>j DEF JobOK
\* The places of a plan are numbers of fills.
<1>d. RunInv' => /\ DOMAIN job'.rows \subseteq 1..MaxIntents
                 /\ job'.phase # "idle" => job'.run \in Runs
  <2> SUFFICES ASSUME RunInv' PROVE DOMAIN job'.rows \subseteq 1..MaxIntents
    BY DEF RunInv, PlanOK
  <2>1. /\ job'.rows \in Seq(Result) /\ job'.todo \in Seq(Intent)
        /\ Len(job'.todo) + Len(job'.rows) <= MaxIntents
    BY DEF RunInv, PlanOK
  <2>2. DOMAIN job'.rows = 1..Len(job'.rows) /\ Len(job'.rows) \in Nat
        /\ Len(job'.todo) \in Nat
    BY <2>1
  <2> DEFINE lr == Len(job'.rows)
             lt == Len(job'.todo)
  <2>3. lt + lr <= MaxIntents /\ lr \in Nat /\ lt \in Nat
    BY <2>1, <2>2
  <2> HIDE DEF lr, lt
  <2>4. lr <= MaxIntents
    BY <1>n, <2>3
  <2>5. 1..lr \subseteq 1..MaxIntents
    BY <1>n, <2>3, <2>4
  <2> QED BY <2>2, <2>5 DEF lr
<1>1. ASSUME NEW intents \in IntentLists, DryRun(intents) PROVE WholeInv'
  <2> DEFINE rows == [i \in DOMAIN intents |->
                        LET intent == SellFirst(intents)[i]
                        IN  AnswerTo(intent, "dry_run", intent.quantity, 0)]
  <2>1. \A i \in DOMAIN rows : ~ HasMutations(rows[i])
    BY RehearsalFacts
  <2>2. job'.rows = rows /\ job'.phase = "planned"
    BY <1>1 DEF DryRun, NoJob
  <2> HIDE DEF rows
  <2> QED BY <2>1, <2>2 DEF WholeInv
<1>2. ASSUME NEW intents \in IntentLists, BeginExecute(intents) PROVE WholeInv'
  <2>1. job'.rows = <<>> /\ job'.phase = "submitting" /\ job'.run = job.run + 1
    BY <1>2 DEF BeginExecute, NoJob
  <2>2. applied' = applied /\ job.run + 1 \in Runs
    BY <1>2, <1>n DEF BeginExecute, history, Runs
  <2>3. \A i \in 1..MaxIntents : applied[<<job.run + 1, i>>] = 0
    <3> SUFFICES ASSUME NEW i \in 1..MaxIntents
                 PROVE  applied[<<job.run + 1, i>>] = 0
      OBVIOUS
    <3> DEFINE id == <<job.run + 1, i>>
    <3>1. id \in Ids /\ id[1] > job.run
      BY <1>n, <2>2 DEF Ids
    <3> HIDE DEF id
    <3>2. applied[id] = 0
      BY <3>1 DEF WriteInv, NotYetApplied
    <3> QED BY <3>2 DEF id
  <2> QED BY <2>1, <2>2, <2>3 DEF WholeInv
<1>3. CASE PlaceOrder
  <2>1. /\ job.phase = "submitting" /\ job'.phase = "submitting"
        /\ job'.run = job.run /\ applied' = applied
    BY <1>3, <1>j DEF PlaceOrder, JobOK
  <2>2. \A i \in 1..MaxIntents : applied'[<<job'.run, i>>] = 0
    BY <2>1 DEF WholeInv
  <2>3. DOMAIN job'.rows \subseteq 1..MaxIntents
    BY <1>d
  <2> QED BY <2>2, <2>3 DEF WholeInv
<1>4. CASE PlaceRaises
  <2>1. job'.rows = <<>> /\ job'.phase = "idle" /\ applied' = applied
    BY <1>4 DEF PlaceRaises, NoJob
  <2> QED BY <2>1, UncountedKeepsWhole
<1>5. CASE ReturnPlan
  <2>1. /\ job'.phase = "planned" /\ job'.rows = job.rows /\ job'.run = job.run
        /\ applied' = applied
    BY <1>5, <1>j, OnlyPhaseMoves DEF ReturnPlan, history
  <2> QED BY <2>1, UncountedKeepsWhole
<1>6. CASE LateFill
  BY <1>6, UncountedKeepsWhole DEF LateFill
<1>7. CASE CommitRaises
  <2>1. /\ job'.phase = "refused" /\ job'.rows = job.rows /\ job'.run = job.run
        /\ applied' = applied
    BY <1>7, <1>j, OnlyPhaseMoves DEF CommitRaises
  <2> QED BY <2>1, UncountedKeepsWhole
<1>8. CASE WriteState
  <2>1. /\ job'.phase = "state_written" /\ job'.rows = job.rows /\ job'.run = job.run
        /\ applied' = Counted(applied)
    BY <1>8, <1>j, OnlyPhaseMoves DEF WriteState
  <2>2. DOMAIN job.rows \subseteq 1..MaxIntents /\ job.run \in Runs
    BY <1>d, <2>1
  <2>3. applied \in [Ids -> Nat]
    BY DEF WriteInv, CountsOK
  <2>4. ASSUME NEW i \in DOMAIN job.rows, HasMutations(job.rows[i])
        PROVE  /\ <<job.run, i>> \in Ids
               /\ <<job.run, i>> \in PendingIds <=> ~ job.committed
    BY <2>2, <2>4 DEF Ids, PendingIds, PendingPlaces
  <2>5. ASSUME NEW i \in DOMAIN job.rows, HasMutations(job.rows[i])
        PROVE  applied'[<<job.run, i>>] =
                 IF job.committed THEN applied[<<job.run, i>>]
                 ELSE applied[<<job.run, i>>] + 1
    <3> DEFINE id == <<job.run, i>>
    <3>1. id \in Ids /\ (id \in PendingIds <=> ~ job.committed)
      BY <2>4, <2>5
    <3> HIDE DEF id
    <3>2. applied'[id] = IF job.committed THEN applied[id] ELSE applied[id] + 1
      BY <2>1, <2>3, <3>1, CountedAdds
    <3> QED BY <3>2 DEF id
  <2>6. \A i, j \in DOMAIN job.rows :
          HasMutations(job.rows[i]) /\ HasMutations(job.rows[j])
            => applied'[<<job.run, i>>] = applied'[<<job.run, j>>]
    BY <2>5 DEF WholeInv
  <2> QED BY <2>1, <2>6 DEF WholeInv
<1>9. CASE AppendJournal
  <2>1. /\ job'.phase = "journalled" /\ job'.rows = job.rows /\ job'.run = job.run
        /\ applied' = applied
    BY <1>9, <1>j, OnlyPhaseMoves DEF AppendJournal, history
  <2> QED BY <2>1, UncountedKeepsWhole
<1>10. CASE AppendLifecycle
  <2>1. /\ job'.phase = "lifecycle_written" /\ job'.rows = job.rows
        /\ job'.run = job.run /\ applied' = applied
    BY <1>10, <1>j, OnlyPhaseMoves DEF AppendLifecycle, history
  <2> QED BY <2>1, UncountedKeepsWhole
<1>11. CASE RecordSnapshot
  <2>1. /\ job'.phase = "snapshotted" /\ job'.rows = job.rows /\ job'.run = job.run
        /\ applied' = applied
    BY <1>11, <1>j, OnlyPhaseMoves DEF RecordSnapshot, history
  <2> QED BY <2>1, UncountedKeepsWhole
<1>12. CASE ReturnCommitted
  <2>1. /\ job'.phase = "planned" /\ job'.rows = job.rows /\ job'.run = job.run
        /\ applied' = applied
    BY <1>12, <1>j DEF ReturnCommitted, JobOK, history
  <2> QED BY <2>1, UncountedKeepsWhole
<1>13. CASE EndRun
  <2>1. job'.rows = <<>> /\ job'.phase = "idle" /\ applied' = applied
    BY <1>13 DEF EndRun, NoJob
  <2> QED BY <2>1, UncountedKeepsWhole
<1>14. CASE Crash
  <2>1. CASE job.phase = "submitting"
    <3>1. job'.rows = <<>> /\ job'.phase = "idle" /\ applied' = applied
      BY <1>14, <2>1 DEF Crash, NoJob
    <3> QED BY <3>1, UncountedKeepsWhole
  <2>2. CASE job.phase # "submitting"
    <3>1. /\ job'.phase = "planned" /\ job'.rows = job.rows /\ job'.run = job.run
          /\ applied' = applied
      BY <1>14, <1>j, <2>2, OnlyPhaseMoves DEF Crash
    <3> QED BY <3>1, UncountedKeepsWhole
  <2> QED BY <2>1, <2>2
<1>15. CASE UNCHANGED pvars
  BY <1>15, UncountedKeepsWhole DEF pvars, history
<1> QED
  BY <1>1, <1>2, <1>3, <1>4, <1>5, <1>6, <1>7, <1>8, <1>9, <1>10, <1>11, <1>12,
     <1>13, <1>14, <1>15 DEF PersistenceNext

-----------------------------------------------------------------------------
\* The inductive invariant of a live run: the order of the writes, the types,
\* the cache against the account, and the plan against the cache.
PersistenceInv == WriteInv /\ RunInv /\ MirrorInv /\ WholeInv

\* Between runs nothing in hand is still to be applied.
LEMMA RestingFacts == RunInv /\ AtRest => \A s \in Symbols : SameAt(Kept, disk, s)
<1> SUFFICES ASSUME RunInv, AtRest PROVE Kept = disk
  BY DEF SameAt
<1> QED BY DEF AtRest, Kept

\* The invariant of a live run holds in every reachable state.
THEOREM PersistenceInvariant == PersistenceSpec => []PersistenceInv
<1>1. PersistenceInit => PersistenceInv
  BY WriteInvInit, RunInvInit, MirrorInit, WholeInit DEF PersistenceInv
<1>2. PersistenceInv /\ [PersistenceNext]_pvars => PersistenceInv'
  <2> SUFFICES ASSUME PersistenceInv, [PersistenceNext]_pvars PROVE PersistenceInv'
    OBVIOUS
  <2>1. WriteInv /\ RunInv /\ MirrorInv /\ WholeInv /\ JobOK
    BY DEF PersistenceInv, WriteInv
  <2>2. WriteInv'
    BY <2>1, WriteInvNext
  <2>3. RunInv'
    BY <2>1, RunInvNext
  <2>4. MirrorInv'
    BY <2>1, <2>3, MirrorNext
  <2>5. WholeInv'
    BY <2>1, <2>3, WholeNext
  <2> QED BY <2>2, <2>3, <2>4, <2>5 DEF PersistenceInv
<1> QED BY <1>1, <1>2, PTL DEF PersistenceSpec

\* The run, the four stores and the history keep their types.
THEOREM PersistenceTypeCorrect == PersistenceSpec => []PersistenceTypeOK
<1>1. PersistenceInv => PersistenceTypeOK
  <2> SUFFICES ASSUME PersistenceInv PROVE PersistenceTypeOK
    OBVIOUS
  <2>1. /\ job.phase \in Phases /\ job.run \in 0..MaxRuns
        /\ job.readonly \in BOOLEAN /\ job.committed \in BOOLEAN
        /\ \A i \in DOMAIN job.rows : job.rows[i] \in Result
    BY DEF PersistenceInv, RunInv, PlanOK
  <2> QED BY <2>1 DEF PersistenceInv, RunInv, MarketOK, FilesOK, WriteInv, CountsOK,
                      PersistenceTypeOK
<1> QED BY <1>1, PersistenceInvariant, PTL

\* Between runs the cached position of a symbol is the broker's, unless a fill
\* of it came late or went with a plan that was never committed.
THEOREM PersistenceCacheMirrors == PersistenceSpec => []CacheMirrorsBroker
<1>1. PersistenceInv => CacheMirrorsBroker
  <2> SUFFICES ASSUME PersistenceInv, AtRest, NEW s \in Symbols \ missed
               PROVE  disk.positions[s] = Held(s)
    BY DEF CacheMirrorsBroker
  <2>1. SameAt(Kept, disk, s) /\ Mirrors(Kept, s, broker, closed)
    BY RestingFacts DEF PersistenceInv, MirrorInv
  <2> QED BY <2>1 DEF SameAt, Mirrors, Held
<1> QED BY <1>1, PersistenceInvariant, PTL

\* A position that a run closed at the broker has its sell date in the file,
\* with the same exceptions.
THEOREM PersistenceCloseStamped == PersistenceSpec => []CloseIsStamped
<1>1. PersistenceInv => CloseIsStamped
  <2> SUFFICES ASSUME PersistenceInv, AtRest, NEW s \in closed \ missed
               PROVE  s \in disk.last_sell_dates
    BY DEF CloseIsStamped
  <2>1. s \in Symbols \ missed
    BY DEF PersistenceInv, RunInv, MarketOK
  <2>2. SameAt(Kept, disk, s) /\ Mirrors(Kept, s, broker, closed)
    BY <2>1, RestingFacts DEF PersistenceInv, MirrorInv
  <2> QED BY <2>2 DEF SameAt, Mirrors
<1> QED BY <1>1, PersistenceInvariant, PTL

\* A plan reaches the cache whole or not at all.
THEOREM PersistencePlanWhole == PersistenceSpec => []PlanIsAllOrNothing
<1>1. PersistenceInv => PlanIsAllOrNothing
  BY DEF PersistenceInv, WholeInv, PlanIsAllOrNothing
<1> QED BY <1>1, PersistenceInvariant, PTL
=============================================================================
