------------------------- MODULE IgvShortPlanProofs -------------------------
(***************************************************************************)
(* The short plan enters once, and its file and the broker agree on it,    *)
(* for every size, market and number of crashes and lost replies.  The     *)
(* state file and the tick are two copies of one plan, so the invariant    *)
(* says of each point of a tick what it may know that the file does not.   *)
(***************************************************************************)
EXTENDS IgvShortPlan, TLAPS

Booking == \E e \in Expiries : spread[e].opening > 0

\* A tick on its way to the broker comes from a plan that waits; a tick whose order is out
\* carries a plan that has entered.
Entering == tick.at = "execute" /\ tick.kind = "ENTER"

HasEntered == tick.armed /\ tick.kind = "ENTER" /\ tick.new.state = "IN_POSITION"

TickInv ==
    /\ tick.at # "idle" => tick.old = plan
    /\ tick.at = "idle" => tick = Idle
    /\ tick.at # "idle" /\ tick.kind = "ENTER" => plan.state = "WATCH"
    /\ Entering => tick.new.state = "IN_POSITION"
    /\ tick.at # "idle" => plan.state \in {"WATCH", "IN_POSITION"}
    /\ tick.at # "idle" /\ tick.kind # "ENTER" =>
          (plan.state = "WATCH" <=> tick.new.state \in {"WATCH", "VOIDED"})
    /\ tick.at # "idle" /\ tick.kind # "ENTER" => tick.new.contracts = plan.contracts

\* The file has entered only with an order booked and its size recorded, and so has a tick
\* that is about to say so.
EnteredInv ==
    /\ entered => Booking /\ plan.contracts = Contracts
                  /\ plan.state \in {"IN_POSITION", "CLOSED"}
    /\ tick.at \in {"alert", "save"} /\ HasEntered =>
          Booking /\ tick.new.contracts = Contracts

\* Without a fault an order at the broker is known to the file or to the tick.
BookedInv ==
    /\ \A e \in Expiries : spread[e].opening \in {0, Contracts}
    /\ faults = 0 /\ Booking /\ ~entered => tick.at \in {"alert", "save"} /\ HasEntered
    /\ faults = 0 => \A e, f \in Expiries :
                        spread[e].opening > 0 /\ spread[f].opening > 0 => e = f

IgvInv == IgvTypeOK /\ TickInv /\ EnteredInv /\ BookedInv

-----------------------------------------------------------------------------
\* A flag of the plan is set, and nothing else of it.
LEMMA FlagSet ==
  ASSUME NEW s \in PlanState, NEW b \in BOOLEAN
  PROVE  \A t \in {[s EXCEPT !.broke = b], [s EXCEPT !.sl_half_done = b],
                   [s EXCEPT !.tp_half_done = b]} :
            t \in PlanState /\ t.state = s.state /\ t.contracts = s.contracts
BY DEF PlanState

\* What a step of the plan gives, whatever the market shows.
LEMMA StepIsPlan ==
  ASSUME NEW s \in PlanState, NEW m \in Market
  PROVE  /\ StepOf(s, m).new \in PlanState
         /\ StepOf(s, m).kind \in Kinds
         /\ StepOf(s, m).new.contracts = s.contracts
         /\ StepOf(s, m).kind = "ENTER" =>
               s.state = "WATCH" /\ StepOf(s, m).new.state = "IN_POSITION"
         /\ StepOf(s, m).kind # "ENTER" /\ s.state = "WATCH" =>
               StepOf(s, m).new.state \in {"WATCH", "VOIDED"}
         /\ s.state \in {"IN_POSITION", "CLOSED"} =>
               StepOf(s, m).new.state \in {"IN_POSITION", "CLOSED"}
         /\ s.state # "WATCH" /\ StepOf(s, m).new.state = "VOIDED" => s.state = "VOIDED"
<1>1. Armed(s, m).state = s.state /\ Armed(s, m).contracts = s.contracts
      /\ Armed(s, m) \in PlanState
  BY FlagSet, Zenon DEF Armed, PlanState
<1>2. CASE Voids(s, m)
  <2>1. StepOf(s, m) = [new |-> [s EXCEPT !.state = "VOIDED"], kind |-> "VOID"]
    BY <1>2 DEF StepOf
  <2> QED BY <1>2, <2>1 DEF Voids, PlanState, States, Kinds, Closes
<1>3. CASE ~Voids(s, m) /\ Enters(s, m)
  <2>1. StepOf(s, m) = [new |-> [Armed(s, m) EXCEPT !.state = "IN_POSITION"], kind |-> "ENTER"]
    BY <1>3 DEF StepOf, Watches
  <2> QED BY <1>1, <1>3, <2>1 DEF Enters, PlanState, States, Kinds, Closes
<1>4. CASE Watches(s, m)
  <2>1. StepOf(s, m) = [new |-> Armed(s, m), kind |-> "none"]
    BY <1>4 DEF StepOf, Watches
  <2> QED BY <1>1, <1>4, <2>1 DEF Watches, PlanState, States, Kinds, Closes
<1>5. CASE s.state # "WATCH"
  <2> DEFINE closes(kind) == [new |-> [s EXCEPT !.state = "CLOSED"], kind |-> kind]
             cuts == [new |-> [s EXCEPT !.sl_half_done = TRUE], kind |-> "CLOSE_HALF"]
             takes == [new |-> [s EXCEPT !.tp_half_done = TRUE], kind |-> "CLOSE_HALF"]
  <2>1. \/ s.state = "IN_POSITION" /\ StepOf(s, m) = closes("CLOSE_ALL")
        \/ StepOf(s, m) = cuts
        \/ s.state = "IN_POSITION" /\ StepOf(s, m) = closes("CLOSE_MOST")
        \/ StepOf(s, m) = takes
        \/ StepOf(s, m) = [new |-> s, kind |-> "none"]
    BY <1>5 DEF StepOf, Voids, Enters, Watches, ExitsAll, TakesMost, InPosition
  <2>2. CASE s.state = "IN_POSITION" /\ StepOf(s, m) = closes("CLOSE_ALL")
    BY <2>2 DEF PlanState, States, Kinds, Closes
  <2>6. CASE s.state = "IN_POSITION" /\ StepOf(s, m) = closes("CLOSE_MOST")
    BY <2>6 DEF PlanState, States, Kinds, Closes
  <2>3. CASE StepOf(s, m) = cuts \/ StepOf(s, m) = takes
    <3>1. StepOf(s, m).kind = "CLOSE_HALF"
      BY <2>3
    <3>2. PICK b \in BOOLEAN : StepOf(s, m).new \in {[s EXCEPT !.broke = b],
                [s EXCEPT !.sl_half_done = b], [s EXCEPT !.tp_half_done = b]}
      <4>1. StepOf(s, m).new \in {[s EXCEPT !.sl_half_done = TRUE],
                                  [s EXCEPT !.tp_half_done = TRUE]}
        BY <2>3
      <4> QED BY <4>1, Zenon
    <3>3. StepOf(s, m).new \in PlanState /\ StepOf(s, m).new.state = s.state
          /\ StepOf(s, m).new.contracts = s.contracts
      BY <3>2, FlagSet, Zenon
    <3> QED BY <1>5, <3>1, <3>3 DEF PlanState, States, Kinds, Closes
  <2>5. CASE StepOf(s, m) = [new |-> s, kind |-> "none"]
    BY <1>5, <2>5 DEF PlanState, States, Kinds, Closes
  <2> QED BY <2>1, <2>2, <2>3, <2>5, <2>6
<1> QED BY <1>2, <1>3, <1>4, <1>5 DEF Watches

-----------------------------------------------------------------------------
LEMMA IgvInitInv == Init => IgvInv
<1> SUFFICES ASSUME Init PROVE IgvInv
  OBVIOUS
<1>1. FreshPlan \in PlanState
  BY IgvAssumption DEF FreshPlan, PlanState, States
<1>2. tick = Idle /\ Idle.at = "idle" /\ Idle.kind = "none"
      /\ Idle \in [at: Phases, old: PlanState, new: PlanState, kind: Kinds,
                   armed: BOOLEAN, note: Notes]
  BY <1>1 DEF Init, Idle, Phases, Kinds, Closes, Notes
<1>3. \A e \in Expiries : spread[e].opening = 0
  BY DEF Init, NoSpread
<1>4. NoSpread \in [opening: Nat, held: Nat, closing: Nat, working: BOOLEAN]
  BY DEF NoSpread
<1>5. spread \in [Expiries -> [opening: Nat, held: Nat, closing: Nat, working: BOOLEAN]]
  BY <1>4 DEF Init
<1>6. nearest \in Expiries /\ faults \in 0..MaxFaults
  BY IgvAssumption DEF Init, Expiries
<1>7. IgvTypeOK
  BY <1>1, <1>2, <1>5, <1>6 DEF Init, IgvTypeOK
<1> QED BY <1>2, <1>3, <1>7 DEF Init, IgvInv, TickInv, EnteredInv, BookedInv, Entering,
           HasEntered, Booking

\* What the invariant says of the parts of a tick.
LEMMA TickParts ==
  ASSUME IgvInv
  PROVE  /\ plan \in PlanState /\ tick.old \in PlanState /\ tick.new \in PlanState
         /\ tick.at \in Phases /\ tick.kind \in Kinds /\ tick.armed \in BOOLEAN
         /\ tick.note \in Notes /\ nearest \in Expiries /\ faults \in Nat
BY IgvAssumption DEF IgvInv, IgvTypeOK

\* The outcome of an execution is an alert about what the tick now holds.
LEMMA OutcomeFields ==
  ASSUME IgvInv, NEW new \in PlanState, NEW note \in Notes, Outcome(new, note)
  PROVE  /\ tick' \in [at: Phases, old: PlanState, new: PlanState, kind: Kinds,
                       armed: BOOLEAN, note: Notes]
         /\ tick'.at = "alert" /\ tick'.old = tick.old /\ tick'.new = new
         /\ tick'.kind = tick.kind /\ tick'.armed = tick.armed
BY DEF IgvInv, IgvTypeOK, Outcome, Phases

LEMMA BeginStep == ASSUME IgvInv, TickBegins PROVE IgvInv'
<1>1. PICK m \in Market, armed \in BOOLEAN :
        tick' = [at |-> IF StepOf(plan, m).kind = "none" THEN "save" ELSE "execute",
                 old |-> plan, new |-> StepOf(plan, m).new, kind |-> StepOf(plan, m).kind,
                 armed |-> armed, note |-> "none"]
  BY DEF TickBegins
<1>2. plan \in PlanState /\ plan.state \in {"WATCH", "IN_POSITION"} /\ tick.at = "idle"
  BY DEF TickBegins, Terminal, IgvInv, IgvTypeOK, PlanState, States
<1> DEFINE new == StepOf(plan, m).new
           kind == StepOf(plan, m).kind
<1>3. /\ new \in PlanState /\ kind \in Kinds /\ new.contracts = plan.contracts
      /\ kind = "ENTER" => plan.state = "WATCH" /\ new.state = "IN_POSITION"
      /\ kind # "ENTER" => (plan.state = "WATCH" <=> new.state \in {"WATCH", "VOIDED"})
  BY <1>2, StepIsPlan
<1>4. /\ tick'.at = (IF kind = "none" THEN "save" ELSE "execute")
      /\ tick'.old = plan /\ tick'.new = new /\ tick'.kind = kind
  BY <1>1
<1> HIDE DEF new, kind
<1>5. tick' \in [at: Phases, old: PlanState, new: PlanState, kind: Kinds,
                 armed: BOOLEAN, note: Notes]
  BY <1>1, <1>2, <1>3 DEF Phases, Notes, new, kind
<1>6. UNCHANGED <<plan, torn, spread, nearest, entered, faults>>
  BY DEF TickBegins
<1>7. IgvTypeOK'
  BY <1>5, <1>6 DEF IgvInv, IgvTypeOK
<1>8. TickInv'
  BY <1>2, <1>3, <1>4, <1>6 DEF TickInv, Entering
<1>9. EnteredInv' /\ BookedInv'
  BY <1>2, <1>4, <1>6 DEF IgvInv, EnteredInv, BookedInv, HasEntered, Booking
<1> QED BY <1>7, <1>8, <1>9 DEF IgvInv

\* An execution that books nothing goes on with a plan that has entered no more than the
\* tick had.
LEMMA UnbookedStep ==
  ASSUME IgvInv, tick.at = "execute", NEW new \in PlanState, NEW note \in Notes,
         Outcome(new, note), UNCHANGED <<plan, torn, spread, nearest, entered, faults>>,
         tick.kind # "ENTER" => new = tick.new,
         tick.kind = "ENTER" => new.state # "IN_POSITION" \/ ~tick.armed
  PROVE  IgvInv'
<1>1. IgvTypeOK'
  BY OutcomeFields DEF IgvInv, IgvTypeOK
<1>2. TickInv'
  BY OutcomeFields, TickParts DEF IgvInv, TickInv, Entering
<1>3. EnteredInv'
  BY OutcomeFields DEF IgvInv, EnteredInv, HasEntered, Booking
<1>4. BookedInv'
  BY OutcomeFields DEF IgvInv, BookedInv, HasEntered, Booking
<1> QED BY <1>1, <1>2, <1>3, <1>4 DEF IgvInv

\* An order the broker takes: it is the first of its expiry, and without a fault the first
\* of all.
LEMMA BookedFields ==
  ASSUME IgvInv, Entering, OrderIsPlaced, spread' = Booked
  PROVE  /\ spread' \in [Expiries -> [opening: Nat, held: Nat, closing: Nat,
                                      working: BOOLEAN]]
         /\ spread'[nearest].opening = Contracts /\ Contracts > 0
         /\ \A e \in Expiries \ {nearest} : spread'[e].opening = spread[e].opening
         /\ ~entered
         /\ faults = 0 => ~Booking
<1>1. nearest \in Expiries /\ spread[nearest].opening = 0 /\ Contracts \in Nat \ {0}
  BY IgvAssumption DEF OrderIsPlaced, CoidIsNew, IgvInv, IgvTypeOK
<1>2. plan.state = "WATCH" /\ tick.at = "execute"
  BY DEF IgvInv, TickInv, Entering
<1>3. ~entered
  BY <1>2 DEF IgvInv, EnteredInv
<1>4. faults = 0 => ~Booking
  BY <1>2, <1>3 DEF IgvInv, BookedInv
<1>5. spread \in [Expiries -> [opening: Nat, held: Nat, closing: Nat, working: BOOLEAN]]
  BY DEF IgvInv, IgvTypeOK
<1>6. spread' = [spread EXCEPT ![nearest] =
                   [spread[nearest] EXCEPT !.opening = @ + Contracts, !.working = TRUE]]
  BY <1>1, <1>5 DEF Booked
<1> DEFINE was == spread[nearest]
<1>7. was \in [opening: Nat, held: Nat, closing: Nat, working: BOOLEAN]
  BY <1>1, <1>5
<1>8. spread'[nearest] = [was EXCEPT !.opening = was.opening + Contracts, !.working = TRUE]
  BY <1>1, <1>5, <1>6
<1> HIDE DEF was
<1>9. was.opening + Contracts \in Nat /\ was.opening + Contracts = Contracts
  BY <1>1, <1>7 DEF was
<1>10. spread'[nearest] \in [opening: Nat, held: Nat, closing: Nat, working: BOOLEAN]
       /\ spread'[nearest].opening = Contracts
  BY <1>7, <1>8, <1>9
<1>11. \A e \in Expiries \ {nearest} : spread'[e] = spread[e]
  BY <1>1, <1>5, <1>6
<1>12. spread' = [e \in Expiries |-> spread'[e]]
  BY <1>5, <1>6
<1>13. spread' \in [Expiries -> [opening: Nat, held: Nat, closing: Nat, working: BOOLEAN]]
  BY <1>5, <1>10, <1>11, <1>12
<1> QED BY <1>1, <1>3, <1>4, <1>10, <1>11, <1>13

LEMMA SentStep == ASSUME IgvInv, EntrySent PROVE IgvInv'
<1> DEFINE new == [tick.new EXCEPT !.contracts = Contracts]
           note == IF tick.armed THEN "submitted" ELSE "no order"
<1>1. Entering /\ Outcome(new, note) /\ UNCHANGED <<plan, torn, nearest, entered, faults>>
  BY DEF EntrySent, Entering
<1>2. new \in PlanState /\ new.state = "IN_POSITION" /\ new.contracts = Contracts
      /\ note \in Notes
  <2>1. Contracts \in 0..Contracts /\ tick.new \in PlanState
    BY TickParts, IgvAssumption
  <2>2. new \in PlanState /\ new.state = tick.new.state /\ new.contracts = Contracts
    BY <2>1 DEF PlanState
  <2>3. note \in Notes
    BY DEF Notes
  <2> QED BY <1>1, <2>2, <2>3 DEF IgvInv, TickInv
<1> HIDE DEF new, note
<1>3. plan.state = "WATCH" /\ ~entered
  BY <1>1 DEF IgvInv, TickInv, EnteredInv, Entering
<1>4. CASE tick.armed
  <2>1. OrderIsPlaced /\ spread' = Booked
    BY <1>4 DEF EntrySent
  <2>2. Booking' /\ nearest \in Expiries
    BY <1>1, <2>1, BookedFields, TickParts DEF Booking
  <2>3. IgvTypeOK' /\ TickInv'
    BY <1>1, <1>2, <2>1, BookedFields, OutcomeFields DEF IgvInv, IgvTypeOK, TickInv, Entering
  <2>4. EnteredInv'
    BY <1>1, <1>2, <1>3, <2>2, OutcomeFields DEF EnteredInv
  <2>5. BookedInv'
    BY <1>1, <1>2, <1>4, <2>1, BookedFields, OutcomeFields
       DEF IgvInv, BookedInv, HasEntered, Entering, Booking
  <2> QED BY <2>3, <2>4, <2>5 DEF IgvInv
<1>5. CASE ~tick.armed
  <2>1. spread' = spread
    BY <1>5 DEF EntrySent
  <2>2. IgvTypeOK' /\ TickInv'
    BY <1>1, <1>2, <2>1, OutcomeFields DEF IgvInv, IgvTypeOK, TickInv, Entering
  <2> QED BY <1>1, <1>2, <1>3, <1>5, <2>1, <2>2, OutcomeFields
          DEF IgvInv, EnteredInv, BookedInv, HasEntered, Entering, Booking
<1> QED BY <1>4, <1>5

LEMMA ReplyLostStep == ASSUME IgvInv, EntryReplyLost PROVE IgvInv'
<1>1. Entering /\ Outcome(plan, "error") /\ OrderIsPlaced /\ spread' = Booked
      /\ UNCHANGED <<plan, torn, nearest, entered>> /\ faults' = faults + 1
  BY DEF EntryReplyLost, Entering, AfterError, IgvInv, TickInv
<1>2. plan \in PlanState /\ "error" \in Notes
  BY TickParts DEF Notes
<1>6. faults' \in 1..MaxFaults
  BY <1>1, TickParts, IgvAssumption DEF EntryReplyLost
<1>3. IgvTypeOK'
  BY <1>1, <1>2, <1>6, BookedFields, OutcomeFields DEF IgvInv, IgvTypeOK
<1>4. TickInv' /\ EnteredInv'
  BY <1>1, <1>2, BookedFields, OutcomeFields
     DEF IgvInv, TickInv, EnteredInv, Entering, HasEntered, Booking
<1>5. BookedInv'
  BY <1>1, <1>6, BookedFields DEF IgvInv, BookedInv
<1> QED BY <1>3, <1>4, <1>5 DEF IgvInv

LEMMA ExecuteStep ==
  ASSUME IgvInv, VoidTick \/ EntryAborted \/ EntryFails \/ CloseTick
  PROVE  IgvInv'
<1>1. CASE VoidTick
  <2>1. "voided" \in Notes
    BY DEF Notes
  <2> QED BY <1>1, <2>1, TickParts, UnbookedStep DEF VoidTick
<1>2. CASE EntryAborted
  <2> DEFINE new == [tick.new EXCEPT !.state = "WATCH"]
  <2>1. new \in PlanState /\ new.state = "WATCH" /\ "skipped" \in Notes
    BY TickParts DEF Notes, PlanState, States
  <2> QED BY <1>2, <2>1, UnbookedStep DEF EntryAborted
<1>3. CASE EntryFails
  <2>1. tick.at = "execute" /\ tick.kind = "ENTER" /\ Outcome(AfterError, "error")
    BY <1>3 DEF EntryFails
  <2>2. AfterError \in PlanState /\ "error" \in Notes
        /\ (tick.armed => AfterError.state = "WATCH")
    BY <2>1, TickParts DEF AfterError, Notes, IgvInv, TickInv
  <2> QED BY <1>3, <2>1, <2>2, UnbookedStep DEF EntryFails
<1>4. CASE CloseTick
  <2>1. spread' = spread
    <3>1. \A e \in Expiries : e # LoadedPosition.expiry
      BY DEF LoadedPosition, NoPosition, Expiries
    <3>2. spread' = [e \in Expiries |-> spread[e]]
      BY <1>4, <3>1 DEF CloseTick
    <3> QED BY <3>2 DEF IgvInv, IgvTypeOK
  <2>2. (IF tick.armed THEN "submitted" ELSE "no order") \in Notes
    BY DEF Notes
  <2>3. tick.kind # "ENTER"
    BY <1>4 DEF CloseTick, Closes
  <2> QED BY <1>4, <2>1, <2>2, <2>3, TickParts, UnbookedStep DEF CloseTick
<1> QED BY <1>1, <1>2, <1>3, <1>4

LEMMA AlertStep == ASSUME IgvInv, AlertGoesOut PROVE IgvInv'
<1>1. tick.at = "alert" /\ tick' = [tick EXCEPT !.at = "save"]
      /\ UNCHANGED <<plan, torn, spread, nearest, entered, faults>>
  BY DEF AlertGoesOut
<1>2. /\ tick' \in [at: Phases, old: PlanState, new: PlanState, kind: Kinds,
                    armed: BOOLEAN, note: Notes]
      /\ tick'.at = "save" /\ tick'.old = tick.old /\ tick'.new = tick.new
      /\ tick'.kind = tick.kind /\ tick'.armed = tick.armed
  BY <1>1 DEF IgvInv, IgvTypeOK, Phases
<1>3. IgvTypeOK' /\ TickInv'
  BY <1>1, <1>2 DEF IgvInv, IgvTypeOK, TickInv, Entering
<1> QED BY <1>1, <1>2, <1>3 DEF IgvInv, EnteredInv, BookedInv, HasEntered, Booking

LEMMA IdleTick ==
  ASSUME IgvInv, tick' = Idle
  PROVE  /\ tick'.at = "idle" /\ tick'.kind = "none"
         /\ tick' \in [at: Phases, old: PlanState, new: PlanState, kind: Kinds,
                       armed: BOOLEAN, note: Notes]
<1>1. FreshPlan \in PlanState
  BY IgvAssumption DEF FreshPlan, PlanState, States
<1> QED BY <1>1 DEF Idle, Phases, Kinds, Closes, Notes

LEMMA SaveStep == ASSUME IgvInv, Save PROVE IgvInv'
<1>1. tick.at = "save" /\ tick' = Idle /\ plan' = tick.new
      /\ UNCHANGED <<torn, spread, nearest, faults>> /\ (entered' <=> entered \/ HasEntered)
  BY DEF Save, HasEntered, IgvInv, IgvTypeOK
<1>2. entered' \in BOOLEAN
  BY DEF Save, IgvInv, IgvTypeOK
<1>3. IgvTypeOK' /\ TickInv'
  BY <1>1, <1>2, IdleTick, TickParts DEF IgvInv, IgvTypeOK, TickInv, Entering
<1>4. EnteredInv'
  <2>1. CASE entered
    <3>1. Booking /\ plan.contracts = Contracts /\ plan.state \in {"IN_POSITION", "CLOSED"}
      BY <2>1 DEF IgvInv, EnteredInv
    <3>2. tick.new.contracts = Contracts /\ tick.new.state \in {"IN_POSITION", "CLOSED"}
      BY <1>1, <3>1, TickParts DEF IgvInv, TickInv, PlanState, States
    <3> QED BY <1>1, <3>1, <3>2, IdleTick DEF EnteredInv, Booking
  <2>2. CASE HasEntered
    BY <1>1, <2>2, IdleTick DEF IgvInv, EnteredInv, Booking, HasEntered
  <2>3. CASE ~entered /\ ~HasEntered
    BY <1>1, <2>3, IdleTick DEF EnteredInv
  <2> QED BY <2>1, <2>2, <2>3
<1>5. BookedInv'
  BY <1>1, IdleTick DEF IgvInv, BookedInv, Booking
<1> QED BY <1>3, <1>4, <1>5 DEF IgvInv

LEMMA CrashStep == ASSUME IgvInv, Crash PROVE IgvInv'
<1>1. tick' = Idle /\ UNCHANGED <<plan, spread, nearest, entered>>
  BY DEF Crash
<1>3. torn' \in BOOLEAN
  BY DEF Crash
<1>4. faults' \in 1..MaxFaults
  BY TickParts, IgvAssumption DEF Crash
<1>2. IgvTypeOK' /\ TickInv'
  BY <1>1, <1>3, <1>4, IdleTick DEF IgvInv, IgvTypeOK, TickInv, Entering
<1> QED BY <1>1, <1>2, <1>4, IdleTick DEF IgvInv, EnteredInv, BookedInv, Booking

\* Fills, the end of the day and the calendar touch no entry.
LEMMA OutsideStep ==
  ASSUME IgvInv, (\E e \in Expiries : Fills(e) \/ DayEnds(e)) \/ ExpiryRolls
                 \/ UNCHANGED ivars
  PROVE  IgvInv'
<1>1. UNCHANGED <<plan, torn, tick, entered, faults>>
  BY DEF Fills, DayEnds, ExpiryRolls, ivars
<1>2. /\ spread' \in [Expiries -> [opening: Nat, held: Nat, closing: Nat, working: BOOLEAN]]
      /\ \A e \in Expiries : spread'[e].opening = spread[e].opening
  <2>1. spread \in [Expiries -> [opening: Nat, held: Nat, closing: Nat, working: BOOLEAN]]
    BY DEF IgvInv, IgvTypeOK
  <2>2. CASE spread' = spread
    BY <2>1, <2>2
  <2>3. ASSUME NEW e \in Expiries, Fills(e) \/ DayEnds(e)
        PROVE  /\ spread' \in [Expiries -> [opening: Nat, held: Nat, closing: Nat,
                                            working: BOOLEAN]]
               /\ \A d \in Expiries : spread'[d].opening = spread[d].opening
    <3> DEFINE was == spread[e]
               filled == [was EXCEPT !.held = @ + 1]
               off == FALSE
               ended == [was EXCEPT !.working = off]
    <3>1. was \in [opening: Nat, held: Nat, closing: Nat, working: BOOLEAN]
      BY <2>1
    <3>2. spread' = [spread EXCEPT ![e] = filled] \/ spread' = [spread EXCEPT ![e] = ended]
      BY <2>1, <2>3 DEF Fills, DayEnds
    <3> HIDE DEF was
    <3>3. /\ filled \in [opening: Nat, held: Nat, closing: Nat, working: BOOLEAN]
          /\ ended \in [opening: Nat, held: Nat, closing: Nat, working: BOOLEAN]
          /\ filled.opening = was.opening /\ ended.opening = was.opening
      <4>1. off \in BOOLEAN
        OBVIOUS
      <4> HIDE DEF off
      <4> QED BY <3>1, <4>1
    <3> HIDE DEF filled, ended
    <3>4. PICK x \in {filled, ended} : spread' = [spread EXCEPT ![e] = x]
      BY <3>2
    <3>5. x \in [opening: Nat, held: Nat, closing: Nat, working: BOOLEAN]
          /\ x.opening = spread[e].opening
      BY <3>3, <3>4 DEF was
    <3> QED BY <2>1, <3>4, <3>5
  <2> QED BY <2>2, <2>3 DEF ExpiryRolls, ivars
<1>3. nearest' \in Expiries
  BY IgvAssumption DEF Fills, DayEnds, ExpiryRolls, ivars, IgvInv, IgvTypeOK, Expiries
<1>4. IgvTypeOK' /\ TickInv'
  BY <1>1, <1>2, <1>3 DEF IgvInv, IgvTypeOK, TickInv, Entering
<1> QED BY <1>1, <1>2, <1>4 DEF IgvInv, EnteredInv, BookedInv, HasEntered, Booking

LEMMA IgvStepInv == IgvInv /\ [Next]_ivars => IgvInv'
BY BeginStep, ExecuteStep, SentStep, ReplyLostStep, AlertStep, SaveStep, CrashStep,
   OutsideStep DEF Next

-----------------------------------------------------------------------------
\* What links the file, the tick and the broker holds in every reachable state.
THEOREM IgvInvariant == IgvSpec => []IgvInv
BY IgvInitInv, IgvStepInv, PTL DEF IgvSpec

\* However often ticks die and replies are lost, the broker books one entry of the planned
\* size per expiry, and without a fault one entry at all.
THEOREM IgvOneEntry == IgvSpec => []OneEntry
<1>1. IgvInv => OneEntry
  BY IgvAssumption DEF IgvInv, BookedInv, OneEntry
<1> QED BY <1>1, IgvInvariant, PTL

\* Between ticks the file and the broker agree on whether the plan has entered.
THEOREM IgvPlanMatchesBroker == IgvSpec => []PlanMatchesBroker
<1>1. IgvInv => PlanMatchesBroker
  BY DEF IgvInv, EnteredInv, BookedInv, PlanMatchesBroker, Booking
<1> QED BY <1>1, IgvInvariant, PTL
=============================================================================
