-------------------------- MODULE MCOrderStateBook --------------------------
(* Decisions about one name: a single BUY, or two rival BUYs. *)
EXTENDS OrderStateBook

CONSTANTS buy, rival, name

OneIntent == {buy}
TwoBuys == {buy, rival}
SameName(intents) == [i \in intents |-> name]
OneSymbol == SameName(OneIntent)
TwoBuysSymbol == SameName(TwoBuys)
=============================================================================
