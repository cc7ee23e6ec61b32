--------------------------- MODULE MCSleeveEntries --------------------------
(* An equity sleeve and a crypto sleeve, one entry each, one account. *)
EXTENDS SleeveEntries

CONSTANTS equity, crypto, p1, p2, manual

TwoSleeves == {equity, crypto}
TwoParents == {p1, p2}
OneStranger == {manual}
OneEach == [p \in TwoParents |-> IF p = p1 THEN equity ELSE crypto]
TwoAndOne == [p \in TwoParents |-> IF p = p1 THEN 2 ELSE 1]
=============================================================================
