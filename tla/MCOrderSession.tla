--------------------------- MODULE MCOrderSession ---------------------------
(* One decision and its broker; the runs differ in the faults they allow.  *)
EXTENDS OrderSession

CONSTANTS intent, name

OneIntent == {intent}
OneSymbol == [i \in OneIntent |-> name]
=============================================================================
