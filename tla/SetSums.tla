------------------------------ MODULE SetSums -------------------------------
(***************************************************************************)
(* The sum of a function over a finite set.  The order book and the cash   *)
(* ledger both decide by sums of quantities, and their proofs need to know *)
(* how a sum moves when one of its terms does.  The sum is a recursive     *)
(* function over the subsets of S, so that SetSumsProofs can reason about  *)
(* it by induction on finite sets.                                         *)
(***************************************************************************)
EXTENDS Integers, FiniteSets

Some(T) == CHOOSE x \in T : TRUE

PartialSums(f, S) ==
    LET s[T \in SUBSET S] ==
          IF T = {} THEN 0 ELSE f[Some(T)] + s[T \ {Some(T)}]
    IN  s

\* The sum of f[x] for x \in S.
SumOver(f, S) == PartialSums(f, S)[S]

\* The equation PartialSums(f, S) solves (SetSumsProofs!PartialSumsExist).
IsPartialSums(s, f, S) ==
    s = [T \in SUBSET S |-> IF T = {} THEN 0 ELSE f[Some(T)] + s[T \ {Some(T)}]]

\* f and g are integer-valued on S and agree there except perhaps at k.
DifferOnlyAt(f, g, k, S) ==
    \A x \in S : f[x] \in Int /\ g[x] \in Int /\ (x # k => g[x] = f[x])
=============================================================================
