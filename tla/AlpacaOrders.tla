---------------------------- MODULE AlpacaOrders ----------------------------
(***************************************************************************)
(* What alpaca_broker.py reads into the status of a broker order, and the  *)
(* grid of crypto quantities (crypto.py).  Quantities are natural numbers  *)
(* of a unit the increment is a multiple of.                               *)
(***************************************************************************)
EXTENDS Integers

\* The statuses that occur in the models; "none" is an order that was never sent.
OrderStatuses == {"none", "pending_new", "new", "pending_cancel", "partially_filled",
                  "canceled", "filled", "rejected", "expired"}

\* An order the broker may still fill.
LiveStatuses == {"pending_new", "new", "pending_cancel", "partially_filled"}

\* _is_resting_order_status: accepted and held are new under another name.
IsRestingOrderStatus(status) == status = "new"

\* _TERMINAL_NON_CANCEL_STATUSES: the wait for a cancel gives up on these.
TerminalNonCancelStatuses == {"filled", "partially_filled", "rejected", "expired"}

\* Faulty: rounded up onto the grid.
SnapUp(qty, inc) == ((qty + inc - 1) \div inc) * inc

\* snap_qty_to_increment: floored onto the grid.
Snap(qty, inc) == (qty \div inc) * inc

\* What a read of an order may make of a wait for its cancel: confirmed, given up, or
\* still waiting; a timeout gives up whatever the status is.
CancelConfirmed(status) == status = "canceled"

\* cancel_order_by_id at the broker: the status after a request it took.
AfterCancelRequest(status) ==
    IF status \in LiveStatuses THEN "pending_cancel" ELSE status

\* What the broker may answer to a submit: the order is pending, rests, is refused, or has
\* filled at once, whole or in part.
SubmitAnswers(qty) ==
    [status: {"pending_new", "new", "rejected"}, filled: {0}]
      \union [status: {"partially_filled"}, filled: 1..(qty - 1)]
      \union [status: {"filled"}, filled: {qty}]

\* A broker's own step of one order: it starts to rest or is refused, a requested cancel
\* takes effect, or it goes away by itself, also half filled.
BrokerMoves(status) ==
    {to \in OrderStatuses :
        <<status, to>> \in {<<"pending_new", "new">>, <<"pending_new", "rejected">>,
                           <<"pending_cancel", "canceled">>}
                            \union ({"new", "partially_filled"} \X {"canceled", "expired"})}
=============================================================================
