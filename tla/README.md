# Verification of renquant-execution

TLA+ models of the execution layer, the TLC runs that check them on small
instances, and TLAPS proofs of what holds for every instance. Source paths
below are relative to `src/renquant_execution/`.

## 1. The system

renquant-execution turns decisions ("buy 20 of X today") into broker orders and
keeps the records of what happened. Its core is the order-lifecycle state machine
with the account cash ledger; around it stand broker adapters, batch persistence
and several protective jobs, each a process of its own.

| Component | State | Operations | Made correct by |
|---|---|---|---|
| **Order state book** `order_state_machine.py:587-1160` | parents (target, audit counters), their children (state, requested, filled, submitted_at), `entries_halted`, `_needs_reconcile`, gross high water | `register_intent`, `submit_child`, `on_broker_ack`, `on_fill`, `on_cancel`, `on_reject`, `on_expire`, `apply_terminal_status`, `mark_stale`, `halt_entries`, `to_snapshot`/`from_snapshot`, `reconcile` | the economic invariant, one open child, a complete and monotone audit total, final closed children, nothing emitted behind a fence |
| **Session drivers** `:1199-1457` | none of their own: a place in a loop over broker calls | `submit_remainder`, `run_stale_watchdog`, `resolve_day_expiry`, `reconcile_on_restart` | book and broker agree across races, crashes and lost replies; an overdue order is resolved |
| **Account cash ledger** `account_cash_ledger.py` | one SQLite file per account: reservations, a sticky halt | `reserve_entry`/`reserve`, `release`, `recheck_before_submit`, `sweep`, `halt`, `clear_halt` | the same cash is never promised twice; a halt stops every sleeve; a granted row stands |
| **Sleeves on one account** `open_session_order_book`, the ledger side of the drivers | one book per sleeve process, one ledger, one broker account | the drivers with a ledger attached | a working BUY keeps its row, what counts is funded, no leaked reservation |
| **Live commit and persistence** `live_commit.py`, `live_persistence.py`, `execution.py` | state JSON, trade journal, lifecycle journal, sqlite snapshot | `execute_live_commit` (orders one by one), `commit_live_persistence` (four writes) | cached positions follow the broker; journals trail the cache; a plan is written whole and once |
| **Crypto stops** `alpaca_broker.py:680-1350`, `coverage_report.py` | GTC stop-limits at the broker, the published coverage report | `place_crypto_stop_limit`, `replace_crypto_stop_limit`, the two-read coverage audit and its publication | never two stops of one pair, no stop beyond the position read, "protected" only with a new stop in place, a naked position gets reported |
| **Crypto stage-0 battery** `crypto_stage0_checks.py` | two probe orders on a paper account, the steps' results | `run_full_battery`: account and pair checks, then place, poll, cancel, wait, audit for each probe | a probe filed as passed left no order and no position |
| **Pre-open cancel gate** `preopen_cancel_gate.py` | broker orders, `preopen_cancel_ledger.jsonl` | severity of the night, list, cancel the adverse market orders, append rows, alert | the hurt side is stopped and no other; every cancel has its row |
| **Alerts** `alerts.py` | `alert_state.json`, read and written whole by every process | `post_ntfy_alert` | one alert per event and cooldown, no alert held back for one that failed |
| **IGV short plan** `igv_short_state.py`, `igv_short_monitor.py`, `options_executor.py` | a plan's state file, spread orders at the broker | `step`, `run_once`, `execute`, spread orders | one entry of the planned size; file and broker agree on it |
| Broker ports `alpaca_broker_port.py`, `paper_broker_port.py` | the broker's orders by client order id | submit, cancel, status, open orders | duplicate ids refused; open orders report what is left |
| Software stop liveness, order arithmetic, lifecycle journal, paper/read-only brokers, factory | little or none | checks, rounding, records, wrappers | sequential code |

**Interaction.** A sleeve process owns one book and calls the drivers from one
thread. The drivers call the `BrokerPort` (synchronous; each call may raise)
and, for BUY parents, the shared ledger, each of whose methods is one
`BEGIN IMMEDIATE` transaction. Sleeves meet only in the ledger's file and in the
account's orders and cash. The broker fills and closes orders at any moment.
The caller persists the book by snapshot, before or after a driver call, never
inside one; a restored book refuses every submit until it is reconciled. The
protective jobs share the broker account with everyone, and `alert_state.json`
with each other.

**What is hard.** Fills racing cancels and expiries; replies that are lost; a
crash between the broker's acceptance and the next snapshot; a cancel that
returns while still pending; views of open orders that are old when they are
used; two reads (positions, then orders) taken for one; four stores written one
after the other; a shared file read, changed and written back by two processes;
two sleeves between their check and their order; reservations that expire, are
retried, swept or released by another; and the accounting over long sequences of
partial fills and re-emissions. `PROJECT.json` lists each of these hazards at its
line, with the properties that watch it.

## 2. Modules

| Module | Models | Lines it follows |
|---|---|---|
| `SetSums` | the sum of a function over a finite set | `cum_filled`, `open_qty`, `_active_sum` |
| `OrderStateBook` | the book, one action per method, called in any order | `order_state_machine.py:106-1160` |
| `OrderSession` | EXTENDS the book: drivers cut at each broker call, the broker, crashes, broker faults | `:1163-1457`, `alpaca_broker_port.py` |
| `AccountCashLedger` | the ledger, one action per writing transaction, with moving cash and time | `account_cash_ledger.py` |
| `SleeveEntries` | EXTENDS the ledger: sleeves entering, closing, crashing and reconciling on one account | `order_state_machine.py:1255-1457` with the ledger attached |
| `LivePersistence` | a live run: orders sent one by one, a plan, its commit write by write, crashes and repeated commits | `execution.py`, `live_commit.py`, `live_persistence.py`, `place_order` of the Alpaca and paper brokers |
| `AlpacaOrders` | what order statuses mean to the code, the broker's own moves, the quantity grid | `alpaca_broker.py`, `crypto.py` |
| `StageZeroBattery` | EXTENDS it: the battery for one pair, both probes call by call | `crypto_stage0_checks.py` |
| `CryptoStops` | EXTENDS the battery: placing and replacing stops call by call, the audit, the market | `alpaca_broker.py`, `coverage_report.py` |
| `StopSlot` | abstract: one slot for a stop, and what a call may claim | the docstrings' promise of `replace_crypto_stop_limit` |
| `OperatorAlerts` | posts of several processes over one file | `alerts.py` |
| `PreopenGate` | EXTENDS the alerts: overlapping runs of the gate, other traders, the open | `preopen_cancel_gate.py` |
| `IgvShortPlan` | plan, tick, spread order, crashes, torn files, lost replies, rolling expiries | `igv_short_state.py`, `igv_short_monitor.py`, `options_executor.py` |
| `MC*` | the instances TLC checks | |
| `SetSumsProofs`, `OrderStateBookProofs`, `OrderSessionProofs`, `SleeveEntriesProofs` (with the ledger's), `LivePersistenceProofs`, `CryptoStopsProofs`, `PreopenGateProofs`, `IgvShortPlanProofs` | the proofs | |

**OrderStateBook.** `target[i]` is `target_qty` (0: not registered);
`children[i][n]` is attempt `n`, whose client order id is the pair `(i, n)`; `cum`
holds the three audit counters. A method that raises before it changes anything
is a disabled action; `ApplyTerminalStatus` keeps the one case where the code
books fills and raises afterwards (a short "filled"). `Restore` is
`from_snapshot` of a snapshot just taken. `Reconcile` gets a broker's view that
agrees with the book or differs in one entry, which covers each kind of mismatch
of the code. The lifecycle state of a parent is derived, as in the code.

**OrderSession.** `orders` is the broker's side, keyed by client order id: an id
it has seen is refused. `driver` is the call in progress: its step, the children
it has still to visit, the view it read, and the snapshot it started from, to
which a `Crash` goes back. Between drivers the caller feeds acks and fills
(`ObserveAck`, `ObserveFill`). The constant `Faults` switches on what a broker
call may do wrong.

**AccountCashLedger.** A refusal, a retry and a passing recheck write nothing and
are stutters; their results are the operators `ReserveGrants` and `RecheckPasses`.
An expired row stays active and stops counting, as `is_expired` and `_active_sum`
say. `Sweep` is given any view of open orders and any in-flight set.

**SleeveEntries.** `stage[s]` says where sleeve `s` stands inside
`submit_remainder` or `reconcile_on_restart`; each ledger transaction and each
broker call is a step. A parent's book entry is reduced to its fills and open
quantity. The release in the book's terminal transitions is part of `Learn`; the
release that follows a reject is a step of its own, as in the code. No step waits for
another sleeve: an expired reservation is retried as the code grants it, a sweep works
on the view its sleeve read, time passes over working orders. A process may die
anywhere, in a reconcile too (`CrashSleeve`) and after the broker's acceptance
(`DiesAfterAccept`), and a submit may raise although the broker took the order
(`SubmitRaises`). Such an order is `stray[p]`: it rests, fills and closes with no child
behind it; its number is `reused` by the next child of a restored book, and the broker
refuses that one. `swept` and `unexplained` record history for the properties. The
module is a refinement of the ledger: `ImplementsLedger` is the ledger's own
specification.

**LivePersistence.** `job` is the run: its phase names the last thing done
(`submitting`, then `planned`, then one phase per write), `rows` the broker's
results, `committed` the mark the returned payload carries. `disk`, `journal`,
`lifecycle` and `snapshots` are the stores; a journal counts its rows per fill. The
live-state file maps a symbol to a quantity, 0 standing for no entry. An exception
of `place_order` loses the results so far (`PlaceRaises`); a crash inside the
commit leaves the caller with the payload it passed (`Crash`), which it may commit
again, as it may the returned one. One broker per behaviour, as the state file
is broker-scoped. The sells-first order of submission (`OfAction`) and the pass over
the mutations (`Replay`) are recursive functions of an index, which proofs can
unfold. `applied`, `missed` and `closed` record history for the
properties and decide nothing.

**StageZeroBattery and CryptoStops.** `battery.at` is the next call of the probe in
progress and `battery.seen` the status it was last seen in, which may be old when it
is used; `probe[k]` is the order at the broker. A call that raises may have reached
the broker (`ProbeRaises`, `ProbeCancelled`). Once the battery has passed, `caller`
is one call of `place_crypto_stop_limit` or `replace_crypto_stop_limit`: read the
position, submit; or request the cancel, wait, and then the same. `stop[s]` is the
stop at the broker; a stop may fill while its cancel is pending, other traders buy
and sell, and the position is only as true as its last read (`stop[s].read`).
`verdict` is what the call told its caller. An order's submission may be answered with
any status, fills included (`SubmitAnswers`). `auditor` is between its read of the
positions and its read of the open orders, `report` the last coverage report.

**StopSlot** has two variables and three actions: a stop enters the empty slot, the
slot empties, or a call says something. `CryptoStops` instantiates it with
`live <- LiveStops`, `claim <- Claim`.

**OperatorAlerts and PreopenGate.** `post[p]` carries the copy of the file its process
loaded; what it writes back is that copy with its own stamp, so stamps of overlapping
posts get lost as they do in the code. `gate[p]` is a run: what it was shown, what
is still to cancel, what it counts as cancelled or failed. An accepted cancel is
`pending_cancel` and may still fill at the open. `orphans` is history: cancels whose
reply was lost or whose run died before its append.

**IgvShortPlan.** `plan` is what the state file holds, `tick` the `run_once` in
progress with the loaded and the new state: the order goes out, then the alert, then
the file is saved, and a crash may fall between any two (`Crash`; in `Save` it may
tear the file, after which no tick can load it). `spread[e]` is what the broker was
sent for an expiry under the fixed client order id, `entered` and `faults` history.

Definitions marked *Faulty* in a comment are not part of any specification: they
are the defects against which each property is tried (`PROJECT.json`, "mutants"),
and no other definition uses them.

## 3. Runs

| Run | Bounds | Shows |
|---|---|---|
| `book` | one BUY, target up to 3 lots, 2 attempts, one tick | the accounting and the fences of the book |
| `session` | one BUY, 2 lots, 2 attempts, 2 crashes or failing broker calls | book against broker when broker calls answer truthfully or not at all; an overdue order is resolved, or stranded by a cancel that raised |
| `session_faults` | one exit (SELL), 2 lots, all four faults, 2 of them or crashes in any mix | what survives every fault: no booked fill the broker did not make, every close is learned |
| `sleeves` | an equity sleeve wanting 2 and a crypto sleeve wanting 1, an order placed by hand, cash up to 3, TTL 1 of 1 tick, one death or lost reply | what the ledger keeps of funding and coverage, headroom, halt, no leak, and that the sleeves implement the ledger |
| `persistence` | one symbol, up to 2 shares, 2 runs of up to 2 orders, one crash or exception, either broker | the cache against the broker, the four stores against each other |
| `stops` | probes of 2, position up to 3, 2 stops, grid and minimum 2, one failed audit | battery, stops and audit; the refinement of `StopSlot`; liveness of the report |
| `preopen` | 2 overlapping runs, a market buy, a market sell, a limit buy, a listing of at most 2 orders, 7 nights, cooldown 1 of 1 tick, 2 attempts | gate, ledger and alerts |
| `igv` | 2 contracts, 7 prices around the plan's levels, 2 expiries, 2 crashes or lost replies | one entry, and file against broker |
| `igv_unclosed`, `rivals`, `lost_reply`, `stale_sweep` | the smallest instance that shows it | the disagreements of section 6 |

*Why the bounds are enough.* Parents do not read each other's quantities except in
`register_intent`, so one parent meets everything the accounting can do and
`rivals` takes two. Three lots are the least in which a child can be partly
filled twice and leave a remainder, two attempts the least for a re-emission;
the accounting beyond is proved. In the session runs a second attempt next to
the first is what every overfill needs. Two crashes allow a crash during the
recovery from one. Two sleeves with three units of cash are the least in which one
sleeve's unit is the other's shortage, one tick is enough for a row to expire under an
entry or a working order, and one death brings a reconcile, with any number of deaths
inside it. Two deaths, or a death and a lost reply, are left to the proofs, which put no
bound on them. Two live runs
of two orders buy in one and sell in the other, put a good fill before and after
a refused one, and repeat a commit; symbols do not meet in the stores. A probe of
two units can be partly filled; a position of three on a grid of two leaves a rest
that no stop covers, and two stops are what an overlap needs. Two gate runs race
each other, each may die and the other come later; three orders against a listing of
two make a page that is cut. Seven prices lie in, on and between the plan's levels,
two expiries allow a second entry. What the proofs cover (section 4) does not
depend on these sizes at all.

Clocks are bounded by `MaxTime` and `MaxClock`, attempts by `MaxAttempts` and
`Attempts`, crashes and faults by `MaxFaults` and `MaxFailures`, runs
by `MaxRuns`, quantities by `MaxQty` and `MaxHeld`, orders by `MaxIntents`,
`MaxOrders` and `ListLimit` (the code's 200), expiries by `LastExpiry`. Deadlock is
not checked in `sleeves`, `persistence`, `stops`, `preopen` and `igv`: with the bounds
used up, the plan ended or a battery failed nothing is left to do.

### The properties

* `EconomicInvariant`: filled plus working shares never exceed the target.
  `GrossAccountsForEverySubmission`: the audit total is the sum of everything ever
  requested. `AtMostOneOpenChild`, `ClosedChildIsFinal`: the shape and history of
  attempts. `FencedExposureNeverGrows`: a restored book, and the BUY side of a halted
  one, take on nothing. `LifecycleFollowsDiagram`: the diagram of the module's
  docstring, with re-emission and late rejects made explicit.
* `NeverOverfilled`: the economic invariant said of the broker's orders.
  `ClosedMeansClosed`: a live order is never one the book thinks closed, and a
  closed one has the broker's fills. `EmitsOnlyWhenBrokerIsQuiet`: at each
  emission the broker works nothing else of the parent and the book knows every
  fill. `BookedFillsAreReal`: under every fault, no fill is invented.
  `OverdueIsResolved`, `BrokerCloseIsLearned`: liveness. The first excepts an order
  that a raising pass left STALE_PENDING (`Stranded`): every later pass skips it.
* `ReservesOnlyFreeCash`: the reserved total grows only inside the cash of that
  moment. It may exceed the cash later (cash can leave), so this is a statement
  about steps. `HaltStopsEveryEntry`.
* `OpenBuysAreFunded`: as long as cash leaves only through the orders, all working
  BUYs together cost no more than the account holds. It is the ledger's promise, and
  `stale_sweep` refutes it. What the code does keep is `CountedBuysAreFunded`: the
  working BUYs with an unexpired row can be paid for together, until cash leaves for
  something no such row stands for. `OnlyStaleSweepsUncover`: no crash, release,
  lost reply or sweep that was shown the order takes a working BUY's row.
  `NoReservationOutlivesItsEntry`. `RecheckHaltsForACause`: what may make a recheck
  halt the account. `ImplementsLedger`: the refinement.
* `CacheMirrorsBroker`: between runs the cached position is the broker's, for every
  symbol without a fill that came late, was lost with an exception, a dropped or a
  refused plan, or was in a commit that crashed. `CloseIsStamped`: a position
  closed at the broker has its sell date. `LogsTrailTheCache`: the journals never
  know a fill the cache does not. `AppliedOnceUnlessCrashed`: at most once more per
  crash; the code keeps no record of applied mutations, so it cannot be "once".
  `PlanIsAllOrNothing`.
* `RefinesStopSlot`: never two stops of a pair that could both fire, and "protected"
  only with a stop just put in place. `OversizedOnlyAfterExit`: a stop larger than
  the position has seen a sale after its placement read the position.
  `NakedPositionIsReported`: a position without any stop does not stay reported as
  covered or empty. `PassedProbeLeftNothing`: a passed probe is cancelled and bought
  nothing.
* `GateStopsTheHurtSide`: what the gap hurts and the run was shown is cancelled or
  reported as failed, and nothing the gap helps is touched.
  `LedgerNamesEveryCancel`: every cancel is in the ledger unless its run still
  writes, died or lost the reply. `StampsWereSent`, `DuplicateNeedsRace`: the alert
  file never holds back an alert for one that failed, and a duplicate within the
  cooldown needs an overlap or a death.
* `OneEntry`: never more than the planned size for an expiry, and without a fault
  one expiry only. `PlanMatchesBroker`: between ticks file and broker agree on
  whether the plan has entered.

### Fairness

`FairSessionSpec` assumes that a driver that was called goes on
(`WF(DriverStep)`: it is a loop in a running thread), and that the watchdog's
timer and the end-of-session sweep come again and again (`SF`: they are timers,
and are not enabled while another driver runs in the thread). Nothing is assumed
of the broker, of fills or of the clock. `DriverRaises` and `PortRefuses` are
driver steps too, so a broker that answers with an error is progress.

`StopsSpec` assumes that the audit, which the orchestrator runs on a schedule, takes
its next step again and again (`WF(AuditStep)`). A failed audit is such a step;
that only `MaxFailures` of them fail is the bound that makes one succeed. Nothing
makes the caller act on a report. The other modules state safety only.

### Assumptions of the models

* Quantities are whole lots, so the tolerance `1e-9` of the code decides nothing;
  one share costs one unit in `SleeveEntries`, the worst-case debit being an amount;
  IGV prices are tenths of a dollar and its hourly bars three facts about them.
* One thread per book. A crash loses the driver in progress and returns to the
  snapshot from before it. A restored sleeve reconciles before it does anything else.
* In `SleeveEntries` at most one order per parent is unknown to its book at a time;
  what becomes of it at the broker is free. `OrderSession`, where each attempt has its
  own order, has no such limit.
* The unreachable broker of the `session` run fails cancels and status reads outright.
  A cancel that returns while pending, a lost reply and a crash right after the accept
  are in `session_faults`, whose properties hold under them; the properties of
  `session` do not all (section 6).
* An alert has a key in `OperatorAlerts`; one without (`key=None`) is always sent and
  leaves no stamp, as one with cooldown 0 is sent. A process that runs under
  `RENQUANT_NO_NOTIFY` posts nothing and is no process of the model.
* `CryptoStops` has the caller the docstrings ask for: one call at a time, a stop is
  placed only when an audit that began after the last call found none at all, and
  replaced only when it is known from such an audit or from its own placement. A
  caller that took every "unprotected" at its word could leave two stops (section
  6). The functions themselves check none of this. A stop whose submit raised is
  booked by then or never.
* Ticks of the IGV plan do not overlap: one cron job. Nothing in the code locks the
  state file.
* No guard of a module stands for coordination the code lacks, but for the caller of
  `CryptoStops` above. Constants bound what happens; none removes a step of the code.

## 4. What is proved

TLAPS checks the following for all values of the constants, from the assumptions
named in the modules (`BookAssumption`, `SessionAssumption`, `LedgerAssumption`,
`SleeveAssumption`, `PersistenceAssumption`, `BatteryAssumption`,
`StopsAssumption`, `AlertsAssumption`, `GateAssumption`, `IgvAssumption`). Four
theorems take one hypothesis more, written as their ASSUME: `SessionCorresponds` and the three
properties that follow from it ask that `Faults \subseteq HarmlessFaults`, as the
`session` run has it. No theorem about another module has such a hypothesis.
Every state invariant and every
action property of the passing runs is the subject of a theorem; liveness is not.

**SetSumsProofs.** The library's induction theorems take an operator as a
parameter and cannot be instantiated by the installed provers, so
`NatSetInduction` derives an induction on finite sets from induction on
cardinality in set form, and `PartialSumsExist` shows that the recursive
definition of a sum has a solution. From these follow `SumChangeOne` (changing
one term moves the sum by the difference), `SumMonotone`, `SumAtLeastMember`,
`SumNat`, `SumRemove` and `SumAdd`, which the proofs of the book, the ledger and the
sleeves cite.

**OrderStateBookProofs.** `IInv` is the inductive invariant. The state
invariants of the book are not inductive by themselves: that a submission keeps
`EconomicInvariant` needs that no other child is open, and that a close keeps the
audit total needs each child's fills to stay inside its request. `IInv` joins, for
every parent, the types, well-formed children, one open child, and the two equations
of the accounting.
`SoundChangePreserves` reduces each child-changing method to one fact about the
child before and after, and `NextPreserves` has one step per action. From `IInv`:

* `BookInvariant`, `BookTypeOK`, `BookChildrenWellFormed`, `BookOneOpenChild`,
  `BookEconomicInvariant`, `BookGrossAccounts`: the state invariants;
* `BookClosedChildIsFinal`, `BookGrossMonotone`, `BookFencedExposure`: the action
  properties, by sorting steps into those that leave the children alone, mark
  some stale, register, submit or change one open child (`StepKinds`);
* `BookFollowsDiagram`: the derived lifecycle state moves only along the diagram.
  An open child decides its parent's state because the parent still has shares to
  fill (`OpenChildDecides`), a parent whose attempts are all closed is FILLED,
  REJECTED or CANCELED whichever came last, and attempts exist for registered
  parents only (`UsedAreRegistered`, which is added to `IInv`).

So the assertions of `_assert_invariants` can never fire.

**OrderSessionProofs.** `SessionInv` holds whatever the broker calls do: the book in
memory satisfies `IInv`, so does the snapshot a crash would bring back (`GoodBook`),
and both are `Behind` the broker, that is, hold no fill its orders do not have. The
snapshot has to be part of it, since a crash makes it the book, with whatever happened
at the broker meanwhile. From it, for any set of faults:

* `SessionTypeCorrect` and `SessionBooksRealFills`.

With crashes between the calls, and no fault but calls that fail outright
("unreachable"), `CorrInv` also holds: attempt by attempt, book and broker tell
one story (`Corr`: the attempt of a live order is open; a closed attempt has exactly
its order's fills; an unused number has no order; the requests are equal), an attempt
the driver has yet to send has no order, and the snapshot of a crash corresponds too,
except between the broker's accept and the return of the call (`CorrDriver`). From
`SessionCorresponds`:

* `SessionClosedMeansClosed` and `SessionNeverOverfilled`: the broker's fills and
  working shares of a parent are at most its target, by summing `Corr` over the
  attempts and the economic invariant of the book;
* `SessionEmitsWhenQuiet`: the action property, at the one step that emits.

The hypothesis cannot be dropped: `lost_reply` violates `NeverOverfilled`. All are
stated for `SessionSpec`, which `FairSessionSpec` strengthens by fairness alone.

**SleeveEntriesProofs.** First the ledger by itself: `LedgerTypeCorrect`,
`LedgerReservesOnlyFreeCash` (a reservation adds one term inside the headroom, every
other step only lowers terms: `ReserveFits`, `ReleasingShrinks`),
`LedgerHaltStopsEveryEntry`, `LedgerActiveRowStands`. Then the sleeves.
`SleevesImplementLedger`: every step of any number of sleeves is a step of the ledger
or a stutter. A sleeve's call is one of the ledger's own only if it asks for a
possible amount, so `SleeveInv` carries the accounting between a parent's book entry
and the broker's order for it (`ParentInv`: an open child stands for the whole rest of
the parent, and the broker's fills are part of it) and where each thread stands
(`StageInv`). `SleevesReserveOnlyFreeCash` then follows from the ledger's theorem
through the refinement, and so does `SleevesHaltTogether`. `RecallInv` is about a
crash inside a reconcile: the snapshot it goes back to differs from the book only in
children whose orders are closed, and the view a reconcile read holds every order of
its own sleeve that still works.

On top of `SleeveInv`, with deaths, lost replies, late retries and stale sweeps
anywhere and in any number:

* `SleeveTypeCorrect`, with `RestInv` for the rest of the shape (`ThreadsInv`: without
  a death no thread is behind a restart);
* `SleevesReleaseWhatEnds`: while no process has died, an active row has open
  quantity or an entry in progress behind it (`Held`), so what ends is released;
* `SleevesOnlyStaleSweepsUncover`, from `CoverInv`: every live order and every entry
  past its grant has an active row or was swept; an active row is worth at least what
  its parent still wants; a child that a restored snapshot would reopen has no row,
  since its close released it;
* `SleevesCountedBuysAreFunded`, from `FundedInv`: a parent whose row counts claims
  what it wants less what it has filled, and until cash leaves for something no
  counting row stands for the claims together are at most the account's cash. A grant
  raises the claims inside the headroom, a retry and an expiry never raise them, a fill
  lowers claim and cash by the same amount, and an order's rest is part of its
  parent's claim;
* `SleevesRecheckForACause`: a recheck halts the account only when cash has left for
  something no counting row stands for, or when a row still counts shares that are
  filled. Otherwise the counting rows are the claims, and the cash covers them.

**LivePersistenceProofs.** `PersistenceLogsTrail` and `PersistenceAppliedOnce` come
from `WriteInv`, which adds what the properties leave out: between two writes the
store already written is ahead by one for each fill of the plan (`AheadByOne`), and an
uncommitted plan was applied at most once per fault so far (`NotYetApplied`).
`QuietStep` covers the steps that write no store; the writes have a lemma each.

The other properties are about what the plan's mutations do together, and need the
replay unfolded. `BoundedRecursion` shows by induction on sets (as in
`SetSumsProofs`) that a recursion over 0..N which stays in a set has a solution; from
it `OfActionUnfolds`, `ReplayUnfolds` and `ReplayStep` (one more row is one more
mutation), `ReplayLeavesUntraded` (a symbol no row trades is left alone) and
`ReplayAppend`. `ApplyFacts` says what one mutation does. `Kept` is the state file
with the plan in hand replayed over it; the invariant `MirrorInv` says that `Kept`, not
the file, has the broker's position and the sell date of every symbol not `missed`, so
that sending an order keeps it, and the commit, which puts `Kept` on disk, keeps it.
`WholeInv`: the fills of a plan have been applied equally often, and none while the
plan is made. `PersistenceInv` joins these with the types (`RunInv`):

* `PersistenceTypeCorrect`, `PersistenceCacheMirrors`, `PersistenceCloseStamped`,
  `PersistencePlanWhole`, by `PersistenceInvariant`.

**CryptoStopsProofs.** `BatteryInv` adds to `PassedProbeLeftNothing` that a probe
past its confirmed cancel is cancelled, that a live order has something left to
fill (so a cancelled one never moves again), and that the second probe is untouched
while the first runs. `StopsInv` adds what a caller may rely on at each point of a
call (`CallerInv`: the stop it replaces is the only live one; after the confirmed
cancel there is none) and what a report is worth (`AuditInv`: a fresh one was made
while no call ran). With one lemma per group of steps, each of which shows the next
state in `StopsInv` and the step as one of `StopSlot` at once, follow
`StopsInvariant`, `StopsTypes`, `StopsProbesLeaveNothing`,
`StopsOversizedOnlyAfterExit` (`SnapFacts`: the grid never rounds up) and the
refinement `StopsImplementSlot`.

**PreopenGateProofs.** Stamps of the alert file do get lost when posts overlap; the
invariant says which cannot: `Covers` - a stamp of an undisturbed post, or a later
one like it, is in the file and in every copy of it that a post in progress holds.
With `AloneInv` (two posts in progress are both disturbed) this gives
`GateDuplicateNeedsRace` and `GateStampsWereSent`. `GateLedgerNamesEveryCancel`,
`GateStopsHurtSide` and `GateTypes` come from the part about runs and orders.

**IgvShortPlanProofs.** The state file and the tick are two copies of one plan, so
`TickInv` says for each point of a tick what it knows that the file does not,
`EnteredInv` that a file or tick which has entered has its order booked, `BookedInv`
that without a fault a booked order is known. `IgvOneEntry`, `IgvPlanMatchesBroker`.

## 5. What is only model-checked

Liveness under fairness (`OverdueIsResolved`, `BrokerCloseIsLearned`,
`NakedPositionIsReported`): it is out of the prover's reach, as is `ENABLED`. With it
stays what TLC alone can say: that the interesting states are reached, and that the
invariants fail for the defects of `PROJECT.json`.

Before their proofs the inductive invariants were checked by TLC as invariants of the
runs' instances: `PersistenceInv` in 2,306,075 states, `SessionInv` in the 218,396 of
`session_faults`, `CorrInv` in the 65,526 of `session`.

## 6. Disagreements between the code and its documentation

Four are runs that TLC must find violated; `PROJECT.json` quotes the lines.

* `rivals`: two BUY decisions for one name that are registered before either
  submits both get a position; the documentation promises one per session.
* `lost_reply`: a submit whose reply is lost is booked as a reject and its
  quantity sent again; the documentation says retries can never overfill.
* `igv_unclosed`: no load of the IGV plan keeps the recorded position, so every
  close action of an armed tick sends nothing, alerts "LIVE order submitted" and
  saves the plan as closed.

* `stale_sweep`: a restarting sleeve sweeps with open orders it read before another
  sleeve's order went out and releases that order's reservation, so its cash is
  granted and ordered a second time; the ledger's docstring says one transaction at a
  time closes this hole.

The models show more that a reader of the code should know; each is allowed for in
a property or an assumption, and the definition that carries it is named.

* A cancel that raises leaves an overdue order marked STALE_PENDING, which the
  watchdog skips ever after (`Stranded`); only the end of the session resolves it.
* With a cancel that returns while still pending the book closes a child whose order
  still works, and with a crash right after the broker's accept the restored book has no
  child for it. With the fault `slow_cancel` or `crash_after_accept` in the `session`
  run TLC finds `ClosedMeansClosed` violated, with the second `NeverOverfilled` too.
* A retry of an expired reservation that is still active is granted without a look at
  the headroom (`ReserveRetried`, `account_cash_ledger.py:787`), although another sleeve
  may have been granted that cash since. With `MaxFaults` 0 and one tick, so without
  crash, lost reply or sweep, TLC finds `OpenBuysAreFunded` violated in ten states.
  `CountedBuysAreFunded` is what is left.
* After a partial fill the account's cash has fallen and the reservation has not, so
  the recheck of another entry halts all sleeves (`RecheckHaltsForACause`).
* The paper broker calls a SELL of a symbol that is not held filled, with quantity
  zero; the commit refuses the whole plan for it, and its real fills reach no store
  (`missed` of `LivePersistence`).
* `submit_remainder` passes no limit price, while `alpaca_broker_port.py:132-139`
  refuses a limit BUY without one.
* `replace_crypto_stop_limit` reports a replacement that is still pending_new as
  "genuinely UNPROTECTED" (`alpaca_broker.py:1130`), though it will rest a moment
  later: the slot is taken although the claim says it is not (`SubmitAnswered`).
* A stage-0 probe that is still pending when its polls end is filed as a failure and
  never cancelled (`ProbeRejected`); it may rest and fill later.
* A fill that arrives after its run's rows were made, or with an exception of
  `place_order`, reaches no store: `CacheMirrorsBroker` excepts its symbol (`missed`).
* The pre-open gate counts an accepted cancel as cancelled; the order may still fill
  at the open. Orders beyond the listing's limit are not seen, and a run that dies
  says so to nobody (`GateDies`).
* An IGV entry is a DAY order: if it expires unfilled the plan stays IN_POSITION. A
  torn state file stops every later tick. A lost reply followed by the roll to the
  next expiry enters a second time (`OneEntry` excepts it).

## 7. Not modelled, and the plan

Not planned: network and file formats, logging, alert texts, price feeds, the
cost contract's arithmetic, the paper broker beyond `place_order`, the equity and
notional placements of `alpaca_broker.py` (single client calls and conversions),
the affordability caps of `order_math.py` (floating-point formulas over one call),
and the read-only wrapper: sequential code that unit tests reach. `ibkr_broker.py`
is a stub. `software_stops_liveness.py` compares one read of a heartbeat with the
clock and keeps no state; the process it watches is not in the repository.

Left, most important first:

1. The envelope's reserved cash and children smaller than the remainder
   (`submit_child` called directly, `order_state_machine.py:909`).
2. Overlapping ticks of the IGV plan, which nothing in the code prevents.
3. `order_math.py` over a fixed-point reference definition.

Theorems worth proving next: that the session, with a crash seen as a restore of an
earlier snapshot, implements an abstract order book per parent; `OneEntry` for
overlapping ticks once item 2 is modelled; and the two session properties under
"slow_cancel", for the weaker form of `ClosedMeansClosed` that still holds there.
