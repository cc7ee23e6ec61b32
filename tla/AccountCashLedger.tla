------------------------- MODULE AccountCashLedger --------------------------
(***************************************************************************)
(* The account-wide cash ledger of account_cash_ledger.py: one SQLite file *)
(* shared by the processes of every sleeve.  Each method is one BEGIN      *)
(* IMMEDIATE transaction and therefore one action; the callers interleave  *)
(* between transactions in any way, and the broker's cash moves whenever   *)
(* it likes.                                                               *)
(*                                                                         *)
(* Amounts are whole units of the worst-case debit reserve_entry computes  *)
(* (notional plus costs); the evidence columns of a row (account, sleeve   *)
(* tag, timestamps of release, cost stamps) decide nothing and are left    *)
(* out.                                                                    *)
(***************************************************************************)
EXTENDS SetSums

CONSTANTS
    Parents,    \* the parent_intent_ids BUY entries reserve for
    Strangers,  \* ids of open buys no sleeve ever reserved for (manual orders)
    MaxCash,    \* bound on the broker's cash
    MaxAmount,  \* bound on one reservation
    Ttl,        \* ttl_seconds, in ticks
    MaxClock    \* bound on the clock

ASSUME LedgerAssumption ==
    /\ IsFiniteSet(Parents)
    /\ Parents \cap Strangers = {}
    /\ MaxCash \in Nat
    /\ MaxAmount \in Nat \ {0}
    /\ Ttl \in Nat \ {0}
    /\ MaxClock \in Nat

VARIABLES
    rows,          \* cash_reservations, one row per parent ever reserved for
    halt_reason,   \* ledger_control: NotHalted, or why the account is halted
    broker_cash,   \* what broker_cash_fn returns
    clock

lvars == <<rows, halt_reason, broker_cash, clock>>

NotHalted == "none"

HaltReasons == {"recheck_mismatch", "unknown_open_buy", "reconcile_mismatch"}

Row == [status: {"none", "active", "released"}, amount: 0..MaxAmount,
        expires_at: 0..(MaxClock + Ttl)]

NoRow == [status |-> "none", amount |-> 0, expires_at |-> 0]

Amount == 1..MaxAmount

IsHalted == halt_reason # NotHalted

Active == {p \in Parents : rows[p].status = "active"}

\* is_expired: such a row stays active but no longer counts.
IsExpired(row, t) == row.status = "active" /\ t >= row.expires_at

Counting(row, t) ==
    IF row.status = "active" /\ row.expires_at > t THEN row.amount ELSE 0

\* Faulty: a reservation counts only from the instant after it was granted.
ActiveSumBefore ==
    SumOver([p \in Parents |-> IF rows[p].expires_at < clock + Ttl
                               THEN Counting(rows[p], clock) ELSE 0], Parents)

ActiveSum == SumOver([p \in Parents |-> Counting(rows[p], clock)], Parents)

\* _halt_in_txn: the first reason is kept.
HaltWith(reason) ==
    halt_reason' = IF IsHalted THEN halt_reason ELSE reason

Released(ps) ==
    [p \in Parents |-> IF p \in ps /\ rows[p].status = "active"
                       THEN [rows[p] EXCEPT !.status = "released"]
                       ELSE rows[p]]

-----------------------------------------------------------------------------
(* The results of the methods, as their callers see them.                  *)

\* reserve: a retry of an active row is granted as it stands.
ReserveRetried(p) == ~IsHalted /\ p \in Active

\* Faulty: what other parents have reserved is not counted.
HeadroomAlone(amount) == broker_cash - amount >= 0

HasHeadroom(amount) == broker_cash - ActiveSum - amount >= 0

\* Faulty: a halt is not looked at.
FreshUnderHalt(p, amount) == p \notin Active /\ HasHeadroom(amount)

ReserveFresh(p, amount) == ~IsHalted /\ p \notin Active /\ HasHeadroom(amount)

ReserveGrants(p, amount) == ReserveRetried(p) \/ ReserveFresh(p, amount)

\* Faulty: reservations that use up the cash exactly fail the recheck.
RecheckStrictly == ~IsHalted /\ broker_cash - ActiveSum > 0

RecheckPasses == ~IsHalted /\ broker_cash - ActiveSum >= 0

-----------------------------------------------------------------------------
LedgerInit ==
    /\ rows = [p \in Parents |-> NoRow]
    /\ halt_reason = NotHalted
    /\ broker_cash \in 0..MaxCash
    /\ clock = 0

\* reserve, when it writes.  A retry and a refusal write nothing.
Reserve(p, amount) ==
    /\ ReserveFresh(p, amount)
    /\ rows' = [rows EXCEPT ![p] = [status |-> "active", amount |-> amount,
                                    expires_at |-> clock + Ttl]]
    /\ UNCHANGED <<halt_reason, broker_cash, clock>>

Release(p) ==
    /\ p \in Active
    /\ rows' = Released({p})
    /\ UNCHANGED <<halt_reason, broker_cash, clock>>

\* recheck_before_submit, when it fails for want of cash.
RecheckFails ==
    /\ ~IsHalted /\ ~RecheckPasses
    /\ HaltWith("recheck_mismatch")
    /\ UNCHANGED <<rows, broker_cash, clock>>

\* sweep: orphans are released; an open buy without a row that was active when
\* the sweep began halts the account.
Sweep(broker_open, local_inflight) ==
    /\ rows' = Released(Parents \ (broker_open \cup local_inflight))
    /\ IF broker_open \subseteq Active THEN UNCHANGED halt_reason
                                       ELSE HaltWith("unknown_open_buy")
    /\ UNCHANGED <<broker_cash, clock>>

Halt(reason) ==
    /\ HaltWith(reason)
    /\ UNCHANGED <<rows, broker_cash, clock>>

\* clear_halt, by the operator.
ClearHalt ==
    /\ halt_reason' = NotHalted
    /\ UNCHANGED <<rows, broker_cash, clock>>

CashMoves(cash) ==
    /\ broker_cash' = cash
    /\ UNCHANGED <<rows, halt_reason, clock>>

ClockTicks ==
    /\ clock < MaxClock
    /\ clock' = clock + 1
    /\ UNCHANGED <<rows, halt_reason, broker_cash>>

LedgerNext ==
    \/ \E p \in Parents, amount \in Amount : Reserve(p, amount)
    \/ \E p \in Parents : Release(p)
    \/ RecheckFails
    \/ \E broker_open \in SUBSET (Parents \cup Strangers),
          local_inflight \in SUBSET Parents : Sweep(broker_open, local_inflight)
    \/ Halt("reconcile_mismatch")
    \/ ClearHalt
    \/ \E cash \in 0..MaxCash : CashMoves(cash)
    \/ ClockTicks

LedgerSpec == LedgerInit /\ [][LedgerNext]_lvars

-----------------------------------------------------------------------------
(* Properties. *)

\* The tables hold what their columns allow.
LedgerTypeOK ==
    /\ rows \in [Parents -> Row]
    /\ halt_reason \in HaltReasons \cup {NotHalted}
    /\ broker_cash \in 0..MaxCash
    /\ clock \in 0..MaxClock

\* The account's reserved total grows only inside the cash the broker has at
\* that moment: no retry, re-activation, expiry or interleaving of sleeves
\* promises the same cash twice.
ReservesOnlyFreeCash ==
    [][ActiveSum' > ActiveSum => ActiveSum' <= broker_cash]_lvars

\* While the account is halted no sleeve gains a reservation, and the first
\* reason stays until the operator clears it.
HaltStopsEveryEntry ==
    [][IsHalted => /\ \A p \in Parents : p \notin Active => p \notin Active'
                   /\ halt_reason' \in {halt_reason, NotHalted}]_lvars

\* An active reservation is not enlarged, extended or shrunk: it stands as
\* granted until it is released, and release never touches another one's.
ActiveRowStands ==
    [][\A p \in Parents :
         p \in Active => \/ rows'[p] = rows[p]
                         \/ rows'[p] = [rows[p] EXCEPT !.status = "released"]]_lvars
=============================================================================
