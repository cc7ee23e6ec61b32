---------------------------- MODULE SetSumsProofs ---------------------------
(***************************************************************************)
(* Facts about SumOver: that the recursion has a solution, and how a sum   *)
(* moves with its terms.  The induction over finite sets is done with sets *)
(* of sets, from the well-foundedness of strict inclusion.                 *)
(***************************************************************************)
EXTENDS SetSums, FiniteSetTheorems, TLAPS

\* G holds of a subset of S whenever it holds of all its strict subsets.
Hereditary(G, S) ==
    \A T \in SUBSET S : (\A U \in SUBSET T : U # T => U \in G) => T \in G

\* What holds of a finite set whenever it holds of its strict subsets holds of
\* every subset (from the well-foundedness of strict inclusion).
LEMMA StrongSetInduction ==
  ASSUME NEW S, IsFiniteSet(S), NEW G, Hereditary(G, S)
  PROVE  \A T \in SUBSET S : T \in G
<1> DEFINE R == StrictSubsetOrdering(S)
           D == FiniteSubsetsOf(S)
           B == {T \in SUBSET S : T \notin G}
<1>1. IsWellFoundedOn(R, D)
  BY FS_StrictSubsetOrderingWellFounded
<1>2. D = SUBSET S
  BY FS_FiniteSubsetsOfFinite
<1>3. SUFFICES ASSUME B # {} PROVE FALSE
  OBVIOUS
<1>4. PICK T \in B : \A U \in B : ~ (<<U, T>> \in R)
  <2> B \subseteq D BY <1>2
  <2> HIDE DEF R, D, B
  <2> QED BY <1>1, <1>3, WFMin
<1>5. \A U \in SUBSET T : U # T => U \in G
  <2> SUFFICES ASSUME NEW U \in SUBSET T, U # T, U \notin G PROVE FALSE
    OBVIOUS
  <2>1. U \in B
    OBVIOUS
  <2>2. <<U, T>> \in R
    BY DEF StrictSubsetOrdering
  <2> QED BY <2>1, <2>2, <1>4
<1> QED BY <1>5 DEF Hereditary

\* Induction over the natural numbers, for a set G of them.
LEMMA NatSetInduction ==
  ASSUME NEW G, 0 \in G, \A n \in Nat : n \in G => n + 1 \in G
  PROVE  \A n \in Nat : n \in G
<1> SUFFICES ASSUME NEW n \in Nat PROVE n \in G
  OBVIOUS
<1> DEFINE H == {T \in SUBSET (0..n) : \A m \in 0..n : T = 0..m => m \in G}
<1>1. IsFiniteSet(0..n)
  BY FS_Interval
<1>2. Hereditary(H, 0..n)
  <2> SUFFICES ASSUME NEW T \in SUBSET (0..n),
                      \A U \in SUBSET T : U # T => U \in H,
                      NEW m \in 0..n, T = 0..m
               PROVE  m \in G
    BY DEF Hereditary
  <2>1. CASE m = 0
    BY <2>1
  <2>2. CASE m # 0
    <3>1. m - 1 \in 0..n /\ 0..(m-1) \in SUBSET T /\ 0..(m-1) # T
      BY <2>2
    <3>2. 0..(m-1) \in H
      BY <3>1
    <3>3. m - 1 \in G
      BY <3>1, <3>2
    <3>4. (m - 1) + 1 \in G
      BY <3>1, <3>3
    <3> QED BY <3>4
  <2> QED BY <2>1, <2>2
<1>3. \A T \in SUBSET (0..n) : T \in H
  <2> HIDE DEF H
  <2> QED BY <1>1, <1>2, StrongSetInduction
<1>4. n \in 0..n /\ 0..n \in SUBSET (0..n)
  OBVIOUS
<1>5. 0..n \in H
  BY <1>3, <1>4
<1> QED BY <1>4, <1>5

\* Some function solves the equation of PartialSums on a finite set, so the
\* CHOOSE hidden in its recursive definition picks a solution.
LEMMA PartialSumsExist ==
  ASSUME NEW f, NEW S, IsFiniteSet(S)
  PROVE  \E s : IsPartialSums(s, f, S)
<1> DEFINE Small(k) == {T \in SUBSET S : Cardinality(T) <= k}
           Good(s, k) == s = [T \in Small(k) |->
                               IF T = {} THEN 0 ELSE f[Some(T)] + s[T \ {Some(T)}]]
           G == {k \in Nat : \E s : Good(s, k)}
<1>0. \A T \in SUBSET S : IsFiniteSet(T) /\ Cardinality(T) \in Nat
  BY FS_Subset, FS_CardinalityType
<1>1. 0 \in G
  <2>1. \A T \in SUBSET S : Cardinality(T) <= 0 <=> T = {}
    BY <1>0, FS_EmptySet
  <2>2. Small(0) = {{}}
    BY <2>1
  <2>3. [T \in {{}} |-> 0] = [T \in {{}} |->
            IF T = {} THEN 0 ELSE f[Some(T)] + [U \in {{}} |-> 0][T \ {Some(T)}]]
    OBVIOUS
  <2>4. Good([T \in {{}} |-> 0], 0)
    BY <2>2, <2>3
  <2> QED BY <2>4
<1>2. \A k \in Nat : k \in G => k + 1 \in G
  <2> SUFFICES ASSUME NEW k \in Nat, k \in G
               PROVE  k + 1 \in G
    BY Zenon
  <2>0. PICK s : Good(s, k)
    OBVIOUS
  <2> DEFINE t == [T \in Small(k + 1) |->
                     IF T = {} THEN 0 ELSE f[Some(T)] + s[T \ {Some(T)}]]
  <2>1. ASSUME NEW T \in Small(k + 1), T # {}
        PROVE  s[T \ {Some(T)}] = t[T \ {Some(T)}]
    <3> DEFINE U == T \ {Some(T)}
    <3>1. Some(T) \in T
      BY <2>1 DEF Some
    <3>2. Cardinality(U) = Cardinality(T) - 1
      BY <3>1, <1>0, FS_RemoveElement
    <3>3. U \in Small(k) /\ U \in Small(k + 1)
      BY <3>2, <1>0
    <3>4. s[U] = IF U = {} THEN 0 ELSE f[Some(U)] + s[U \ {Some(U)}]
      <4> HIDE DEF U, Small
      <4> QED BY <2>0, <3>3
    <3>5. t[U] = IF U = {} THEN 0 ELSE f[Some(U)] + s[U \ {Some(U)}]
      <4> HIDE DEF U, Small
      <4> QED BY <3>3
    <3> QED BY <3>4, <3>5
  <2>2. t = [T \in Small(k + 1) |->
               IF T = {} THEN 0 ELSE f[Some(T)] + t[T \ {Some(T)}]]
    <3>1. \A T \in Small(k + 1) :
             (IF T = {} THEN 0 ELSE f[Some(T)] + s[T \ {Some(T)}])
             = (IF T = {} THEN 0 ELSE f[Some(T)] + t[T \ {Some(T)}])
      <4> HIDE DEF t, Small
      <4> QED BY <2>1
    <3> HIDE DEF Small
    <3> QED BY <3>1
  <2>3. Good(t, k + 1)
    BY <2>2
  <2>4. \E u : Good(u, k + 1)
    <3> HIDE DEF Good, t
    <3> QED BY <2>3
  <2>5. k + 1 \in Nat
    OBVIOUS
  <2> HIDE DEF Good
  <2> QED BY <2>4, <2>5
<1>3. Cardinality(S) \in G
  <2> HIDE DEF G
  <2> QED BY <1>0, <1>1, <1>2, NatSetInduction
<1>4. PICK s : Good(s, Cardinality(S))
  BY <1>3
<1>5. Small(Cardinality(S)) = SUBSET S
  BY FS_Subset, <1>0
<1>6. IsPartialSums(s, f, S)
  BY <1>4, <1>5 DEF IsPartialSums
<1> QED BY <1>6

\* PartialSums unfolds as it is written.
LEMMA PartialSumsEquation ==
  ASSUME NEW f, NEW S, IsFiniteSet(S), NEW T \in SUBSET S
  PROVE  PartialSums(f, S)[T] =
            IF T = {} THEN 0
            ELSE f[Some(T)] + PartialSums(f, S)[T \ {Some(T)}]
<1>1. PartialSums(f, S) = CHOOSE s : IsPartialSums(s, f, S)
  BY DEF PartialSums, IsPartialSums
<1>2. IsPartialSums(PartialSums(f, S), f, S)
  BY <1>1, PartialSumsExist
<1> DEFINE s == PartialSums(f, S)
<1>3. s = [U \in SUBSET S |->
             IF U = {} THEN 0 ELSE f[Some(U)] + s[U \ {Some(U)}]]
  BY <1>2 DEF IsPartialSums
<1> HIDE DEF s
<1>4. s[T] = IF T = {} THEN 0 ELSE f[Some(T)] + s[T \ {Some(T)}]
  BY <1>3
<1> QED BY <1>4 DEF s

\* A partial sum does not depend on the larger set it was taken in.
LEMMA PartialSumIsSum ==
  ASSUME NEW f, NEW S, IsFiniteSet(S), NEW W \in SUBSET S
  PROVE  PartialSums(f, S)[W] = SumOver(f, W)
<1> DEFINE G == {T \in SUBSET W : PartialSums(f, S)[T] = PartialSums(f, W)[T]}
<1>0. IsFiniteSet(W)
  BY FS_Subset
<1>1. Hereditary(G, W)
  <2> SUFFICES ASSUME NEW T \in SUBSET W,
                      \A U \in SUBSET T : U # T => U \in G
               PROVE  PartialSums(f, S)[T] = PartialSums(f, W)[T]
    BY DEF Hereditary
  <2>1. CASE T = {}
    BY <2>1, <1>0, T \in SUBSET S, T \in SUBSET W, PartialSumsEquation
  <2>2. CASE T # {}
    <3> DEFINE V == T \ {Some(T)}
    <3>1. V \in SUBSET T /\ V # T
      BY <2>2 DEF Some
    <3>2. PartialSums(f, S)[V] = PartialSums(f, W)[V]
      BY <3>1
    <3>3. PartialSums(f, S)[T] = f[Some(T)] + PartialSums(f, S)[V]
      BY <2>2, T \in SUBSET S, PartialSumsEquation
    <3>4. PartialSums(f, W)[T] = f[Some(T)] + PartialSums(f, W)[V]
      <4> HIDE DEF G
      <4> QED BY ONLY <2>2, <1>0, T \in SUBSET W, PartialSumsEquation
    <3> QED BY <3>2, <3>3, <3>4
  <2> QED BY <2>1, <2>2
<1>2. W \in G
  <2> HIDE DEF G
  <2> QED BY <1>0, <1>1, StrongSetInduction
<1> QED BY <1>2 DEF SumOver

\* An empty sum is zero.
LEMMA SumEmpty == \A f : SumOver(f, {}) = 0
BY FS_EmptySet, PartialSumsEquation DEF SumOver

\* A sum is one of its terms and the sum of the others.
LEMMA SumPickSome ==
  ASSUME NEW f, NEW S, IsFiniteSet(S), S # {}
  PROVE  SumOver(f, S) = f[Some(S)] + SumOver(f, S \ {Some(S)})
<1>1. PartialSums(f, S)[S] = f[Some(S)] + PartialSums(f, S)[S \ {Some(S)}]
  BY PartialSumsEquation
<1>2. S \ {Some(S)} \in SUBSET S
  OBVIOUS
<1>3. PartialSums(f, S)[S \ {Some(S)}] = SumOver(f, S \ {Some(S)})
  BY <1>2, PartialSumIsSum
<1> QED BY <1>1, <1>3 DEF SumOver

\* A finite sum of integers is an integer.
LEMMA SumType ==
  ASSUME NEW S, IsFiniteSet(S), NEW f, \A x \in S : f[x] \in Int
  PROVE  SumOver(f, S) \in Int
<1> DEFINE G == {T \in SUBSET S : SumOver(f, T) \in Int}
<1>1. Hereditary(G, S)
  <2> SUFFICES ASSUME NEW T \in SUBSET S,
                      \A U \in SUBSET T : U # T => U \in G
               PROVE  SumOver(f, T) \in Int
    BY DEF Hereditary
  <2>0. CASE T = {}
    BY <2>0, SumEmpty
  <2> SUFFICES ASSUME T # {} PROVE SumOver(f, T) \in Int
    BY <2>0
  <2>1. Some(T) \in T
    BY DEF Some
  <2>2. SumOver(f, T \ {Some(T)}) \in Int
    BY <2>1
  <2>3. IsFiniteSet(T)
    BY FS_Subset
  <2> QED BY <2>1, <2>2, <2>3, SumPickSome
<1>2. S \in G
  <2> HIDE DEF G
  <2> QED BY <1>1, StrongSetInduction
<1> QED BY <1>2

\* Any one term can be taken out of a finite sum.
LEMMA SumRemove ==
  ASSUME NEW S, IsFiniteSet(S), NEW f, \A x \in S : f[x] \in Int,
         NEW x \in S
  PROVE  SumOver(f, S) = f[x] + SumOver(f, S \ {x})
<1> DEFINE G == {T \in SUBSET S :
                   \A y \in T : SumOver(f, T) = f[y] + SumOver(f, T \ {y})}
<1>1. Hereditary(G, S)
  <2> SUFFICES ASSUME NEW T \in SUBSET S,
                      \A U \in SUBSET T : U # T => U \in G,
                      NEW y \in T
               PROVE  SumOver(f, T) = f[y] + SumOver(f, T \ {y})
    BY DEF Hereditary
  <2> DEFINE z == Some(T)
  <2>1. z \in T
    BY DEF Some
  <2>2. IsFiniteSet(T) /\ IsFiniteSet(T \ {y, z})
    BY FS_Subset
  <2>3. SumOver(f, T) = f[z] + SumOver(f, T \ {z})
    BY <2>2, SumPickSome
  <2>4. CASE y = z
    BY <2>3, <2>4
  <2>5. CASE y # z
    <3>1. T \ {z} \in G /\ T \ {y} \in G
      <4> HIDE DEF G, z
      <4> QED BY <2>1
    <3>4. (T \ {z}) \ {y} = T \ {y, z} /\ (T \ {y}) \ {z} = T \ {y, z}
      OBVIOUS
    <3>2. SumOver(f, T \ {z}) = f[y] + SumOver(f, T \ {y, z})
      BY <3>1, <2>5, <3>4
    <3>3. SumOver(f, T \ {y}) = f[z] + SumOver(f, T \ {y, z})
      BY <3>1, <2>1, <2>5, <3>4
    <3>5. SumOver(f, T \ {y, z}) \in Int /\ f[y] \in Int /\ f[z] \in Int
      BY <2>1, <2>2, SumType
    <3> HIDE DEF z, G
    <3> QED BY <2>3, <3>2, <3>3, <3>5
  <2> QED BY <2>4, <2>5
<1>2. S \in G
  <2> HIDE DEF G
  <2> QED BY <1>1, StrongSetInduction
<1> QED BY <1>2

\* Larger terms make a larger sum.
LEMMA SumMonotone ==
  ASSUME NEW S, IsFiniteSet(S), NEW f, NEW g,
         \A x \in S : f[x] \in Int /\ g[x] \in Int /\ f[x] <= g[x]
  PROVE  SumOver(f, S) <= SumOver(g, S)
<1> DEFINE G == {T \in SUBSET S : SumOver(f, T) <= SumOver(g, T)}
<1>1. Hereditary(G, S)
  <2> SUFFICES ASSUME NEW T \in SUBSET S,
                      \A U \in SUBSET T : U # T => U \in G
               PROVE  SumOver(f, T) <= SumOver(g, T)
    BY DEF Hereditary
  <2>0. CASE T = {}
    BY <2>0, SumEmpty
  <2> SUFFICES ASSUME T # {} PROVE SumOver(f, T) <= SumOver(g, T)
    BY <2>0
  <2> DEFINE z == Some(T)
             V == T \ {z}
  <2>1. z \in T /\ z \in S
    BY DEF Some
  <2>2. IsFiniteSet(T) /\ IsFiniteSet(V)
    BY FS_Subset
  <2>3. SumOver(f, V) <= SumOver(g, V)
    BY <2>1
  <2>4. SumOver(f, V) \in Int /\ SumOver(g, V) \in Int
    BY <2>2, SumType
  <2>5. SumOver(f, T) = f[z] + SumOver(f, V) /\ SumOver(g, T) = g[z] + SumOver(g, V)
    BY <2>2, SumPickSome
  <2>6. f[z] \in Int /\ g[z] \in Int /\ f[z] <= g[z]
    BY <2>1
  <2> HIDE DEF z, V
  <2> QED BY <2>3, <2>4, <2>5, <2>6
<1>2. S \in G
  <2> HIDE DEF G
  <2> QED BY <1>1, StrongSetInduction
<1> QED BY <1>2

\* Equal terms make an equal sum.
LEMMA SumEqual ==
  ASSUME NEW S, IsFiniteSet(S), NEW f, NEW g,
         \A x \in S : f[x] \in Int /\ g[x] = f[x]
  PROVE  SumOver(g, S) = SumOver(f, S)
<1>1. SumOver(f, S) <= SumOver(g, S) /\ SumOver(g, S) <= SumOver(f, S)
  BY SumMonotone
<1>2. SumOver(f, S) \in Int /\ SumOver(g, S) \in Int
  BY SumType
<1> QED BY <1>1, <1>2

\* When one term changes, the sum changes by the same amount.
LEMMA SumChangeOne ==
  ASSUME NEW S, IsFiniteSet(S), NEW f, NEW g, NEW k, k \in S,
         DifferOnlyAt(f, g, k, S)
  PROVE  SumOver(g, S) = SumOver(f, S) + g[k] - f[k]
<1>0. /\ \A x \in S : f[x] \in Int /\ g[x] \in Int
      /\ \A x \in S \ {k} : g[x] = f[x]
  BY DEF DifferOnlyAt
<1>1. IsFiniteSet(S \ {k})
  BY FS_Subset
<1>2. SumOver(g, S \ {k}) = SumOver(f, S \ {k})
  BY <1>0, <1>1, SumEqual
<1>3. SumOver(f, S) = f[k] + SumOver(f, S \ {k})
  BY <1>0, SumRemove
<1>4. SumOver(g, S) = g[k] + SumOver(g, S \ {k})
  BY <1>0, SumRemove
<1>5. SumOver(f, S \ {k}) \in Int
  BY <1>0, <1>1, SumType
<1>6. f[k] \in Int /\ g[k] \in Int
  BY <1>0
<1> QED BY <1>2, <1>3, <1>4, <1>5, <1>6

\* A finite sum of natural numbers is a natural number.
LEMMA SumNat ==
  ASSUME NEW S, IsFiniteSet(S), NEW f, \A x \in S : f[x] \in Nat
  PROVE  SumOver(f, S) \in Nat
<1> DEFINE G == {T \in SUBSET S : SumOver(f, T) \in Nat}
<1>1. Hereditary(G, S)
  <2> SUFFICES ASSUME NEW T \in SUBSET S,
                      \A U \in SUBSET T : U # T => U \in G
               PROVE  SumOver(f, T) \in Nat
    BY DEF Hereditary
  <2>0. CASE T = {}
    BY <2>0, SumEmpty
  <2> SUFFICES ASSUME T # {} PROVE SumOver(f, T) \in Nat
    BY <2>0
  <2>1. Some(T) \in T
    BY DEF Some
  <2>2. SumOver(f, T \ {Some(T)}) \in Nat
    BY <2>1
  <2>3. IsFiniteSet(T)
    BY FS_Subset
  <2> QED BY <2>1, <2>2, <2>3, SumPickSome
<1>2. S \in G
  <2> HIDE DEF G
  <2> QED BY <1>1, StrongSetInduction
<1> QED BY <1>2

\* A sum of natural numbers is at least each of its terms.
LEMMA SumAtLeastMember ==
  ASSUME NEW S, IsFiniteSet(S), NEW f, \A x \in S : f[x] \in Nat, NEW k \in S
  PROVE  f[k] <= SumOver(f, S)
<1>1. IsFiniteSet(S \ {k})
  BY FS_Subset
<1>2. SumOver(f, S \ {k}) \in Nat
  BY <1>1, SumNat
<1>3. SumOver(f, S) = f[k] + SumOver(f, S \ {k})
  BY SumRemove
<1> QED BY <1>2, <1>3

\* A finite sum of zeros is zero.
LEMMA SumZero ==
  ASSUME NEW S, IsFiniteSet(S), NEW f, \A x \in S : f[x] = 0
  PROVE  SumOver(f, S) = 0
<1> DEFINE G == {T \in SUBSET S : SumOver(f, T) = 0}
<1>1. Hereditary(G, S)
  <2> SUFFICES ASSUME NEW T \in SUBSET S,
                      \A U \in SUBSET T : U # T => U \in G
               PROVE  SumOver(f, T) = 0
    BY DEF Hereditary
  <2>0. CASE T = {}
    BY <2>0, SumEmpty
  <2> SUFFICES ASSUME T # {} PROVE SumOver(f, T) = 0
    BY <2>0
  <2>1. Some(T) \in T
    BY DEF Some
  <2>2. SumOver(f, T \ {Some(T)}) = 0
    BY <2>1
  <2>3. IsFiniteSet(T)
    BY FS_Subset
  <2> QED BY <2>1, <2>2, <2>3, SumPickSome
<1>2. S \in G
  <2> HIDE DEF G
  <2> QED BY <1>1, StrongSetInduction
<1> QED BY <1>2

\* The sum of two functions is the sum of their sums.
LEMMA SumAdd ==
  ASSUME NEW S, IsFiniteSet(S), NEW f, NEW g, NEW h,
         \A x \in S : f[x] \in Int /\ g[x] \in Int /\ h[x] = f[x] + g[x]
  PROVE  SumOver(h, S) = SumOver(f, S) + SumOver(g, S)
<1> DEFINE G == {T \in SUBSET S : SumOver(h, T) = SumOver(f, T) + SumOver(g, T)}
<1>1. Hereditary(G, S)
  <2> SUFFICES ASSUME NEW T \in SUBSET S,
                      \A U \in SUBSET T : U # T => U \in G
               PROVE  SumOver(h, T) = SumOver(f, T) + SumOver(g, T)
    BY DEF Hereditary
  <2>0. CASE T = {}
    BY <2>0, SumEmpty
  <2> SUFFICES ASSUME T # {} PROVE SumOver(h, T) = SumOver(f, T) + SumOver(g, T)
    BY <2>0
  <2> DEFINE z == Some(T)
             V == T \ {z}
  <2>1. z \in T /\ z \in S
    BY DEF Some
  <2>2. IsFiniteSet(T) /\ IsFiniteSet(V)
    BY FS_Subset
  <2>3. SumOver(h, V) = SumOver(f, V) + SumOver(g, V)
    BY <2>1
  <2>4. SumOver(f, V) \in Int /\ SumOver(g, V) \in Int
    BY <2>2, SumType
  <2>5. /\ SumOver(f, T) = f[z] + SumOver(f, V)
        /\ SumOver(g, T) = g[z] + SumOver(g, V)
        /\ SumOver(h, T) = h[z] + SumOver(h, V)
    BY <2>2, SumPickSome
  <2>6. f[z] \in Int /\ g[z] \in Int /\ h[z] = f[z] + g[z]
    BY <2>1
  <2> HIDE DEF z, V
  <2> QED BY <2>3, <2>4, <2>5, <2>6
<1>2. S \in G
  <2> HIDE DEF G
  <2> QED BY <1>1, StrongSetInduction
<1> QED BY <1>2
=============================================================================
