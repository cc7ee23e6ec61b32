---------------------------- MODULE IgvShortPlan ----------------------------
(***************************************************************************)
(* The IGV short plan: the plan's machine (igv_short_state.py), the cron   *)
(* tick that drives it (igv_short_monitor.py) and the spread order it      *)
(* sends (options_executor.py).                                            *)
(*                                                                         *)
(* A tick loads the state file, steps the plan on one market snapshot,     *)
(* executes at most one action, alerts, and saves the file: four points    *)
(* between which it may die.  Ticks do not overlap (one cron job).  Prices *)
(* are tenths of a dollar.  Of the hourly bars the plan looks at three     *)
(* facts: whether they dipped below the breakdown level, and whether they  *)
(* reject at either zone.  A tick that finds the kill switch, a closed     *)
(* market or a terminal plan changes nothing and is a stutter.             *)
(***************************************************************************)
EXTENDS Integers, FiniteSets

CONSTANTS
    Contracts,     \* cfg["contracts"], the size of the entry
    MAX_CONTRACTS, \* the ceiling of options_executor.py
    Prices,        \* the prices the market may show
    EnablePathB,   \* enable_path_b
    LastExpiry,    \* expiries are 1, 2, ..; a fixed cfg["expiry"] is LastExpiry = 1
    MaxFaults      \* bound on crashes and lost replies

ASSUME IgvAssumption ==
    /\ Contracts \in Nat \ {0}
    /\ MAX_CONTRACTS \in Nat \ {0}
    /\ Prices \subseteq Nat
    /\ EnablePathB \in BOOLEAN
    /\ LastExpiry \in Nat \ {0}
    /\ MaxFaults \in Nat

VARIABLES
    plan,     \* the state file, as load_state reads it
    torn,     \* the file was being written when the process died
    tick,     \* the run_once in progress
    spread,   \* per expiry, what the broker was sent and has filled
    nearest,  \* the expiry resolve_put_spread finds
    entered,  \* history: an armed tick saved the plan as entered
    faults    \* history: crashes and lost replies so far

ivars == <<plan, torn, tick, spread, nearest, entered, faults>>

Expiries == 1..LastExpiry

\* PlanConfig.
breakdown_level  == 948
standby_level    == 1000
void_level       == 1015
tp_half_at       == 930
tp_most_at       == 900
sl_half_at       == 1005

Market == [price: Prices, dipped: BOOLEAN, rejectsA: BOOLEAN, rejectsB: BOOLEAN,
           closedHigh: BOOLEAN]

States == {"WATCH", "IN_POSITION", "VOIDED", "CLOSED"}

PlanState == [state: States, broke: BOOLEAN, contracts: 0..Contracts,
              tp_half_done: BOOLEAN, sl_half_done: BOOLEAN]

FreshPlan == [state |-> "WATCH", broke |-> FALSE, contracts |-> 0,
              tp_half_done |-> FALSE, sl_half_done |-> FALSE]

Terminal == {"VOIDED", "CLOSED"}

Closes == {"CLOSE_HALF", "CLOSE_MOST", "CLOSE_ALL"}

Kinds == {"none", "VOID", "ENTER"} \union Closes

\* The notes of an alert: what it says became of the order.
Notes == {"none", "no order", "submitted", "voided", "skipped", "error"}

Phases == {"idle", "execute", "alert", "save"}

Idle == [at |-> "idle", old |-> FreshPlan, new |-> FreshPlan, kind |-> "none",
         armed |-> FALSE, note |-> "none"]

\* The orders igv-open-* and igv-close-* of one expiry: contracts asked for and filled.
NoSpread == [opening |-> 0, held |-> 0, closing |-> 0, working |-> FALSE]

\* What load_state gives execute as the recorded position: from_dict keeps the fields
\* of PlanState and "_position" is not one, so nothing that a tick saved is found.
NoPosition == [expiry |-> 0, contracts |-> 0]

LoadedPosition == NoPosition

-----------------------------------------------------------------------------
(* step(): which new state and action a market gives.                      *)

\* What a tick sees of breakdowns arms path B, whatever else it decides.
Armed(s, m) == [s EXCEPT !.broke = @ \/ m.price < breakdown_level \/ m.dipped]

Voids(s, m) == s.state = "WATCH" /\ m.price >= void_level

Enters(s, m) ==
    /\ s.state = "WATCH" /\ m.price < standby_level
    /\ \/ m.rejectsA
       \/ EnablePathB /\ Armed(s, m).broke /\ m.rejectsB

Watches(s, m) == s.state = "WATCH" /\ ~Voids(s, m) /\ ~Enters(s, m)

InPosition(s) == s.state = "IN_POSITION"

ExitsAll(s, m) == InPosition(s) /\ m.closedHigh

CutsHalf(s, m) ==
    InPosition(s) /\ ~m.closedHigh /\ m.price >= sl_half_at /\ ~s.sl_half_done

TakesMost(s, m) == InPosition(s) /\ ~m.closedHigh /\ m.price <= tp_most_at

TakesHalf(s, m) ==
    /\ InPosition(s) /\ ~m.closedHigh
    /\ m.price <= tp_half_at /\ m.price > tp_most_at /\ ~s.tp_half_done

\* The new state and the action of step().
StepOf(s, m) ==
    IF Voids(s, m)         THEN [new |-> [s EXCEPT !.state = "VOIDED"], kind |-> "VOID"]
    ELSE IF Enters(s, m)   THEN [new |-> [Armed(s, m) EXCEPT !.state = "IN_POSITION"],
                                 kind |-> "ENTER"]
    ELSE IF Watches(s, m)  THEN [new |-> Armed(s, m), kind |-> "none"]
    ELSE IF ExitsAll(s, m) THEN [new |-> [s EXCEPT !.state = "CLOSED"],
                                 kind |-> "CLOSE_ALL"]
    ELSE IF CutsHalf(s, m) THEN [new |-> [s EXCEPT !.sl_half_done = TRUE],
                                 kind |-> "CLOSE_HALF"]
    ELSE IF TakesMost(s, m) THEN [new |-> [s EXCEPT !.state = "CLOSED"],
                                  kind |-> "CLOSE_MOST"]
    ELSE IF TakesHalf(s, m) THEN [new |-> [s EXCEPT !.tp_half_done = TRUE],
                                  kind |-> "CLOSE_HALF"]
    ELSE [new |-> s, kind |-> "none"]

-----------------------------------------------------------------------------
(* run_once.                                                               *)

\* The file is loaded and stepped on a market; armed is read from the config and the
\* environment at each tick.
TickBegins ==
    /\ tick.at = "idle" /\ ~torn
    /\ plan.state \notin Terminal
    /\ \E m \in Market, armed \in BOOLEAN :
          LET next == StepOf(plan, m) IN
             tick' = [at |-> IF next.kind = "none" THEN "save" ELSE "execute",
                      old |-> plan, new |-> next.new, kind |-> next.kind,
                      armed |-> armed, note |-> "none"]
    /\ UNCHANGED <<plan, torn, spread, nearest, entered, faults>>

\* execute returned or raised: what the tick goes on with.
Outcome(new, note) == tick' = [tick EXCEPT !.at = "alert", !.new = new, !.note = note]

\* A VOID sends nothing and is not executed.
VoidTick ==
    /\ tick.at = "execute" /\ tick.kind = "VOID"
    /\ Outcome(tick.new, "voided")
    /\ UNCHANGED <<plan, torn, spread, nearest, entered, faults>>

\* decide_entry_debit: no quote or too dear.  The entry is dropped, what it saw of the
\* breakdown is kept.
EntryAborted ==
    /\ tick.at = "execute" /\ tick.kind = "ENTER"
    /\ Outcome([tick.new EXCEPT !.state = "WATCH"], "skipped")
    /\ UNCHANGED <<plan, torn, spread, nearest, entered, faults>>

\* Faulty: the order error is alerted but the new state is kept and saved.
KeepsAfterError == tick.new

\* After an order error an armed tick goes back to the loaded state; a dry run keeps
\* the new one.
AfterError == IF tick.armed THEN tick.old ELSE tick.new

\* Faulty: the client order id carries the time, so the broker sees a new one each tick.
TimedCoidIsNew(e) == TRUE

\* igv-open-<plan>-<expiry>: the broker refuses an id it has seen.
CoidIsNew(e) == spread[e].opening = 0

\* _check_caps and what the broker asks of a new order.
OrderIsPlaced == Contracts <= MAX_CONTRACTS /\ CoidIsNew(nearest)

\* The order the broker books for an entry.
Booked == [spread EXCEPT ![nearest].opening = @ + Contracts, ![nearest].working = TRUE]

\* The entry is priced and, when armed, sent; the new state takes its size.
EntrySent ==
    /\ tick.at = "execute" /\ tick.kind = "ENTER"
    /\ tick.armed => OrderIsPlaced
    /\ spread' = IF tick.armed THEN Booked ELSE spread
    /\ Outcome([tick.new EXCEPT !.contracts = Contracts],
               IF tick.armed THEN "submitted" ELSE "no order")
    /\ UNCHANGED <<plan, torn, nearest, entered, faults>>

\* The strikes are not listed, a cap or the broker refuses, or the call fails before
\* anything reached the broker.
EntryFails ==
    /\ tick.at = "execute" /\ tick.kind = "ENTER"
    /\ Outcome(AfterError, "error")
    /\ UNCHANGED <<plan, torn, spread, nearest, entered, faults>>

\* The broker booked the order and the reply was lost: the same exception.
EntryReplyLost ==
    /\ tick.at = "execute" /\ tick.kind = "ENTER" /\ tick.armed
    /\ OrderIsPlaced
    /\ faults < MaxFaults
    /\ spread' = Booked
    /\ Outcome(AfterError, "error")
    /\ faults' = faults + 1
    /\ UNCHANGED <<plan, torn, nearest, entered>>

\* The contracts a close action asks for.
ToClose(kind) ==
    IF LoadedPosition.contracts = 0 THEN 0
    ELSE IF kind = "CLOSE_HALF" /\ LoadedPosition.contracts > 1
    THEN LoadedPosition.contracts \div 2
    ELSE LoadedPosition.contracts

\* A close action works on the recorded position; without one it only alerts.
CloseTick ==
    /\ tick.at = "execute" /\ tick.kind \in Closes
    /\ spread' = [e \in Expiries |->
                    IF e = LoadedPosition.expiry /\ tick.armed
                    THEN [spread[e] EXCEPT !.closing = @ + ToClose(tick.kind)]
                    ELSE spread[e]]
    /\ Outcome(tick.new, IF tick.armed THEN "submitted" ELSE "no order")
    /\ UNCHANGED <<plan, torn, nearest, entered, faults>>

\* Every action is alerted (force), whatever became of its order; then the state is saved.
AlertGoesOut ==
    /\ tick.at = "alert"
    /\ tick' = [tick EXCEPT !.at = "save"]
    /\ UNCHANGED <<plan, torn, spread, nearest, entered, faults>>

\* save_state.
Save ==
    /\ tick.at = "save"
    /\ plan' = tick.new
    /\ entered' = (entered \/ (tick.armed /\ tick.kind = "ENTER"
                               /\ tick.new.state = "IN_POSITION"))
    /\ tick' = Idle
    /\ UNCHANGED <<torn, spread, nearest, faults>>

\* The tick dies.  write_text empties the file before it writes it, so a death in Save
\* may leave a file that no later tick can parse.
Crash ==
    /\ tick.at # "idle"
    /\ faults < MaxFaults
    /\ torn' \in {FALSE, tick.at = "save"}
    /\ tick' = Idle
    /\ faults' = faults + 1
    /\ UNCHANGED <<plan, spread, nearest, entered>>

-----------------------------------------------------------------------------
(* The broker and the calendar.                                            *)

\* The spread order is filled contract by contract..
Fills(e) ==
    /\ spread[e].working /\ spread[e].held < spread[e].opening
    /\ spread' = [spread EXCEPT ![e].held = @ + 1]
    /\ UNCHANGED <<plan, torn, tick, nearest, entered, faults>>

\* ..and what is open of it ends with the day.
DayEnds(e) ==
    /\ spread[e].working
    /\ spread' = [spread EXCEPT ![e].working = FALSE]
    /\ UNCHANGED <<plan, torn, tick, nearest, entered, faults>>

\* The nearest listed expiry passes.
ExpiryRolls ==
    /\ nearest < LastExpiry
    /\ nearest' = nearest + 1
    /\ UNCHANGED <<plan, torn, tick, spread, entered, faults>>

Init ==
    /\ plan = FreshPlan
    /\ torn = FALSE
    /\ tick = Idle
    /\ spread = [e \in Expiries |-> NoSpread]
    /\ nearest = 1
    /\ entered = FALSE
    /\ faults = 0

Next ==
    \/ TickBegins \/ VoidTick \/ EntryAborted \/ EntrySent \/ EntryFails
    \/ EntryReplyLost \/ CloseTick \/ AlertGoesOut \/ Save \/ Crash
    \/ \E e \in Expiries : Fills(e) \/ DayEnds(e)
    \/ ExpiryRolls

IgvSpec == Init /\ [][Next]_ivars

-----------------------------------------------------------------------------
(* Properties.                                                             *)

IgvTypeOK ==
    /\ plan \in PlanState
    /\ torn \in BOOLEAN
    /\ tick \in [at: Phases, old: PlanState, new: PlanState, kind: Kinds,
                 armed: BOOLEAN, note: Notes]
    /\ spread \in [Expiries -> [opening: Nat, held: Nat, closing: Nat, working: BOOLEAN]]
    /\ nearest \in Expiries
    /\ entered \in BOOLEAN
    /\ faults \in 0..MaxFaults

\* One entry of the planned size: the broker never books more than Contracts for one
\* expiry however often ticks die and replies are lost (open_put_spread's fixed client
\* order id), and without a fault it books one expiry only.
OneEntry ==
    /\ \A e \in Expiries : spread[e].opening <= Contracts
    /\ faults = 0 =>
          \A e, f \in Expiries : spread[e].opening > 0 /\ spread[f].opening > 0 => e = f

\* Between ticks the file and the broker agree on whether the plan has entered: an
\* entry the file took from an armed tick was booked, and its size is recorded; a booked
\* one is in the file unless a crash or a lost reply came between them (run_once's two
\* ways back, to WATCH and to the loaded state).
PlanMatchesBroker ==
    tick.at = "idle" =>
        /\ entered => /\ \E e \in Expiries : spread[e].opening > 0
                      /\ plan.contracts = Contracts
        /\ faults = 0 /\ (\E e \in Expiries : spread[e].opening > 0)
              => entered /\ plan.state \in {"IN_POSITION", "CLOSED"}

\* doc/igv-short-automation.md: a stop or a target in position closes the spread.  An
\* armed tick whose alert says "LIVE order submitted" for a close action has asked the
\* broker to close what it holds.
ArmedCloseIsSent ==
    [][ tick.at = "execute" /\ tick.kind \in Closes /\ tick'.note = "submitted" =>
            \A e \in Expiries :
                spread[e].held > 0 => spread'[e].closing > spread[e].closing ]_ivars
=============================================================================
