----------------------------- MODULE Summation -----------------------------
(***************************************************************************)
(* What the proofs need to know of the sums that the specifications take   *)
(* with SumFunctionOnSet (a fold over a recursively defined function): the *)
(* sum of no values is 0, and every element can be taken off a sum.        *)
(*                                                                         *)
(* The induction theorems of the library have an operator as a parameter;  *)
(* here induction is over a set instead, and rests on the theorem WFMin.   *)
(***************************************************************************)
EXTENDS Integers, Functions, FiniteSetTheorems, WellFoundedInduction, TLAPS

\* Every set of naturals that is not empty has a least element.
LEMMA LeastNatural ==
    ASSUME NEW T, T \subseteq Nat, T # {}
    PROVE  \E n \in T : \A m \in T : n <= m
<1>1. \E R : IsWellFoundedOn(R, Nat) /\ \A x, y \in Nat : x < y => <<x, y>> \in R
  <2> DEFINE R == OpToRel(<, Nat)
  <2>1. IsWellFoundedOn(R, Nat)
    BY NatLessThanWellFounded
  <2>2. \A x, y \in Nat : x < y => <<x, y>> \in R
    BY DEF OpToRel
  <2> HIDE DEF R
  <2> QED
    BY <2>1, <2>2
<1>2. PICK R : IsWellFoundedOn(R, Nat) /\ \A x, y \in Nat : x < y => <<x, y>> \in R
  BY <1>1
<1>3. IsWellFoundedOn(R, Nat)
  BY <1>2
<1>4. \A x, y \in Nat : x < y => <<x, y>> \in R
  BY <1>2
<1>5. PICK n \in T : \A y \in T : ~ (<<y, n>> \in R)
  BY <1>3, WFMin
<1>6. \A y \in T : ~ (y < n)
  BY <1>4, <1>5
<1> QED
  BY <1>6

\* Induction over the naturals, for a set.
LEMMA NatSetInduction ==
    ASSUME NEW S, 0 \in S, \A n \in Nat : n \in S => n + 1 \in S
    PROVE  \A n \in Nat : n \in S
<1> DEFINE T == Nat \ S
<1> SUFFICES ASSUME T # {} PROVE FALSE
  OBVIOUS
<1>1. PICK n \in T : \A m \in T : n <= m
  BY LeastNatural
<1>2. n # 0 /\ n - 1 \in Nat /\ n - 1 \notin T
  BY <1>1
<1> QED
  BY <1>1, <1>2

---------------------------------------------------------------------------
(* The function that a fold runs through *)

Pick(s) == CHOOSE x \in s : TRUE
SumBody(f, g, s) == IF s = {} THEN 0 ELSE f[Pick(s)] + g[s \ {Pick(s)}]
IsSumOver(f, S, g) == g = [s \in SUBSET S |-> SumBody(f, g, s)]
SumOver(f, S) == CHOOSE g : IsSumOver(f, S, g)

LEMMA SumIsFold ==
    ASSUME NEW f, NEW S
    PROVE  SumFunctionOnSet(f, S) = SumOver(f, S)[S]
  BY DEF SumFunctionOnSet, FoldFunctionOnSet, MapThenFoldSet, SumOver, IsSumOver,
         SumBody, Pick

\* What is picked from a set that is not empty is in it.
LEMMA PickIn ==
    ASSUME NEW s, s # {}
    PROVE  Pick(s) \in s
  BY DEF Pick

\* The cardinality of a finite set without what is picked from it.
LEMMA PickOff ==
    ASSUME NEW s, IsFiniteSet(s), NEW n \in Nat, Cardinality(s) = n + 1
    PROVE  /\ s # {} /\ Pick(s) \in s
           /\ IsFiniteSet(s \ {Pick(s)}) /\ Cardinality(s \ {Pick(s)}) = n
<1>1. s # {}
  BY FS_EmptySet
<1>2. Pick(s) \in s
  BY <1>1, PickIn
<1> QED
  BY <1>1, <1>2, FS_RemoveElement

\* Two such functions agree where both are defined.
LEMMA SumOversAgree ==
    ASSUME NEW f, NEW S, NEW T, NEW g, NEW h, IsFiniteSet(S),
           IsSumOver(f, S, g), IsSumOver(f, T, h),
           NEW U, U \subseteq S, U \subseteq T
    PROVE  g[U] = h[U]
<1> DEFINE N == {n \in Nat : \A V \in SUBSET U : Cardinality(V) = n => g[V] = h[V]}
<1>0. \A V \in SUBSET U : IsFiniteSet(V) /\ Cardinality(V) \in Nat
  BY FS_Subset, FS_CardinalityType
<1>1. \A V \in SUBSET U : g[V] = SumBody(f, g, V) /\ h[V] = SumBody(f, h, V)
  BY DEF IsSumOver
<1>2. 0 \in N
  <2>1. \A V \in SUBSET U : Cardinality(V) = 0 => V = {}
    BY <1>0, FS_EmptySet
  <2> QED
    BY <1>1, <2>1 DEF SumBody
<1>3. ASSUME NEW n \in Nat, n \in N PROVE n + 1 \in N
  <2> SUFFICES ASSUME NEW V \in SUBSET U, Cardinality(V) = n + 1 PROVE g[V] = h[V]
    OBVIOUS
  <2>1. V # {} /\ Cardinality(V \ {Pick(V)}) = n
    BY <1>0, PickOff
  <2>2. g[V \ {Pick(V)}] = h[V \ {Pick(V)}]
    BY <1>3, <2>1
  <2> QED
    BY <1>1, <2>1, <2>2 DEF SumBody
<1>4. \A n \in Nat : n \in N
  <2> HIDE DEF N
  <2> QED
    BY <1>2, <1>3, NatSetInduction
<1> QED
  BY <1>0, <1>4

\* There is such a function for every finite set.
LEMMA SumOverExists ==
    ASSUME NEW f
    PROVE  \A S : IsFiniteSet(S) => IsSumOver(f, S, SumOver(f, S))
<1> DEFINE Ok(S) == IsSumOver(f, S, SumOver(f, S))
           N == {n \in Nat : \A S : IsFiniteSet(S) /\ Cardinality(S) <= n => Ok(S)}
<1>1. ASSUME NEW S, NEW g, IsSumOver(f, S, g) PROVE Ok(S)
  BY <1>1 DEF SumOver
<1>2. 0 \in N
  <2> SUFFICES ASSUME NEW S, IsFiniteSet(S), Cardinality(S) <= 0 PROVE Ok(S)
    BY DEF N
  <2>1. S = {}
    BY FS_EmptySet, FS_CardinalityType
  <2>2. IsSumOver(f, S, [s \in SUBSET S |-> 0])
    BY <2>1 DEF IsSumOver, SumBody
  <2> HIDE DEF Ok
  <2> QED
    BY <1>1, <2>2
<1>3. ASSUME NEW n \in Nat, n \in N PROVE n + 1 \in N
  <2> SUFFICES ASSUME NEW S, IsFiniteSet(S), Cardinality(S) <= n + 1 PROVE Ok(S)
    BY DEF N
  <2> DEFINE G(s) == SumOver(f, s)[s]
             g == [s \in SUBSET S |-> IF s = {} THEN 0 ELSE f[Pick(s)] + G(s \ {Pick(s)})]
  <2>1. ASSUME NEW s \in SUBSET S, s # {}
        PROVE  LET T == s \ {Pick(s)}
               IN  /\ T \in SUBSET S /\ IsFiniteSet(T) /\ Ok(T)
                   /\ \A U \in SUBSET T : Ok(U)
    <3> DEFINE T == s \ {Pick(s)}
    <3>1. Pick(s) \in s
      BY <2>1, PickIn
    <3>2. IsFiniteSet(s) /\ Cardinality(s) <= Cardinality(S) /\ Cardinality(s) \in Nat
          /\ Cardinality(S) \in Nat
      BY FS_Subset, FS_CardinalityType
    <3>3. IsFiniteSet(T) /\ Cardinality(T) = Cardinality(s) - 1
      BY <3>1, <3>2, FS_RemoveElement
    <3>4. Cardinality(T) <= n
      BY <3>2, <3>3
    <3>5. \A U \in SUBSET T : IsFiniteSet(U) /\ Cardinality(U) <= n
      <4> SUFFICES ASSUME NEW U \in SUBSET T PROVE IsFiniteSet(U) /\ Cardinality(U) <= n
        OBVIOUS
      <4>1. IsFiniteSet(U) /\ Cardinality(U) <= Cardinality(T) /\ Cardinality(U) \in Nat
            /\ Cardinality(T) \in Nat
        BY <3>3, FS_Subset, FS_CardinalityType
      <4> QED
        BY <3>4, <4>1
    <3>6. \A U \in SUBSET T : Ok(U)
      BY <1>3, <3>5 DEF N
    <3> QED
      BY <3>3, <3>6
  <2>2. ASSUME NEW s \in SUBSET S, s # {} PROVE g[s \ {Pick(s)}] = G(s \ {Pick(s)})
    <3> DEFINE T == s \ {Pick(s)}
    <3>1. T \in SUBSET S /\ IsFiniteSet(T) /\ Ok(T)
      BY <2>1, <2>2
    <3>2. G(T) = SumBody(f, SumOver(f, T), T)
      BY <3>1 DEF IsSumOver
    <3>3. CASE T = {}
      BY <3>1, <3>2, <3>3 DEF SumBody
    <3>4. CASE T # {}
      <4> DEFINE U == T \ {Pick(T)}
      <4>1. U \subseteq T /\ Ok(U)
        BY <2>1, <3>1, <3>4
      <4>2. SumOver(f, T)[U] = SumOver(f, U)[U]
        BY <3>1, <4>1, SumOversAgree
      <4> QED
        BY <3>1, <3>2, <3>4, <4>2 DEF SumBody
    <3> QED
      BY <3>3, <3>4
  <2>3. IsSumOver(f, S, g)
    <3>1. \A s \in SUBSET S : g[s] = SumBody(f, g, s)
      BY <2>2 DEF SumBody
    <3> HIDE DEF G
    <3> QED
      BY <3>1 DEF IsSumOver
  <2> HIDE DEF Ok, g
  <2> QED
    BY <1>1, <2>3
<1>4. \A n \in Nat : n \in N
  <2> HIDE DEF N
  <2> QED
    BY <1>2, <1>3, NatSetInduction
<1> QED
  <2> SUFFICES ASSUME NEW S, IsFiniteSet(S) PROVE Ok(S)
    OBVIOUS
  <2>1. Cardinality(S) \in Nat
    BY FS_CardinalityType
  <2> QED
    BY <1>4, <2>1

---------------------------------------------------------------------------
(* Sums *)

LEMMA SumOfNothing ==
    ASSUME NEW f
    PROVE  SumFunctionOnSet(f, {}) = 0
<1>1. IsSumOver(f, {}, SumOver(f, {}))
  BY SumOverExists, FS_EmptySet
<1> QED
  BY <1>1, SumIsFold DEF IsSumOver, SumBody

\* One step of the fold.
LEMMA SumPicked ==
    ASSUME NEW f, NEW S, IsFiniteSet(S), S # {}
    PROVE  SumFunctionOnSet(f, S) = f[Pick(S)] + SumFunctionOnSet(f, S \ {Pick(S)})
<1> DEFINE T == S \ {Pick(S)}
<1>1. IsFiniteSet(T)
  BY FS_RemoveElement
<1>2. IsSumOver(f, S, SumOver(f, S)) /\ IsSumOver(f, T, SumOver(f, T))
  BY <1>1, SumOverExists
<1>3. SumOver(f, S)[T] = SumOver(f, T)[T]
  BY <1>2, SumOversAgree
<1>4. SumOver(f, S)[S] = SumBody(f, SumOver(f, S), S)
  BY <1>2 DEF IsSumOver
<1> QED
  BY <1>3, <1>4, SumIsFold DEF SumBody

\* The sum of integers is an integer, that of naturals a natural.
LEMMA SumType ==
    ASSUME NEW f, NEW S, IsFiniteSet(S), \A x \in S : f[x] \in Int
    PROVE  /\ SumFunctionOnSet(f, S) \in Int
           /\ (\A x \in S : f[x] >= 0) => SumFunctionOnSet(f, S) >= 0
<1> DEFINE Sum(T) == SumFunctionOnSet(f, T)
           N == {n \in Nat : \A T \in SUBSET S : Cardinality(T) = n =>
                    Sum(T) \in Int /\ ((\A x \in S : f[x] >= 0) => Sum(T) >= 0)}
<1>0. \A V \in SUBSET S : IsFiniteSet(V) /\ Cardinality(V) \in Nat
  BY FS_Subset, FS_CardinalityType
<1>1. 0 \in N
  <2>1. \A V \in SUBSET S : Cardinality(V) = 0 => V = {}
    BY <1>0, FS_EmptySet
  <2>2. Sum({}) = 0
    BY SumOfNothing
  <2> HIDE DEF Sum
  <2> QED
    BY <2>1, <2>2
<1>2. ASSUME NEW n \in Nat, n \in N PROVE n + 1 \in N
  <2> SUFFICES ASSUME NEW V \in SUBSET S, Cardinality(V) = n + 1
               PROVE  Sum(V) \in Int /\ ((\A x \in S : f[x] >= 0) => Sum(V) >= 0)
    OBVIOUS
  <2>1. V # {} /\ Pick(V) \in V /\ Cardinality(V \ {Pick(V)}) = n /\ IsFiniteSet(V)
    BY <1>0, PickOff
  <2>2. Sum(V) = f[Pick(V)] + Sum(V \ {Pick(V)})
    BY <2>1, SumPicked
  <2> HIDE DEF Sum
  <2> QED
    BY <1>2, <2>1, <2>2
<1>3. \A n \in Nat : n \in N
  <2> HIDE DEF N
  <2> QED
    BY <1>1, <1>2, NatSetInduction
<1> HIDE DEF Sum
<1>4. Sum(S) \in Int /\ ((\A x \in S : f[x] >= 0) => Sum(S) >= 0)
  BY <1>0, <1>3
<1> QED
  BY <1>4 DEF Sum

\* A sum depends on the values only.
LEMMA SumSame ==
    ASSUME NEW f, NEW g, NEW S, IsFiniteSet(S), \A x \in S : f[x] = g[x]
    PROVE  SumFunctionOnSet(f, S) = SumFunctionOnSet(g, S)
<1> DEFINE Sum(h, T) == SumFunctionOnSet(h, T)
           N == {n \in Nat : \A T \in SUBSET S : Cardinality(T) = n => Sum(f, T) = Sum(g, T)}
<1>0. \A V \in SUBSET S : IsFiniteSet(V) /\ Cardinality(V) \in Nat
  BY FS_Subset, FS_CardinalityType
<1>1. 0 \in N
  <2>1. \A V \in SUBSET S : Cardinality(V) = 0 => V = {}
    BY <1>0, FS_EmptySet
  <2>2. Sum(f, {}) = 0 /\ Sum(g, {}) = 0
    BY SumOfNothing
  <2> HIDE DEF Sum
  <2> QED
    BY <2>1, <2>2
<1>2. ASSUME NEW n \in Nat, n \in N PROVE n + 1 \in N
  <2> SUFFICES ASSUME NEW V \in SUBSET S, Cardinality(V) = n + 1 PROVE Sum(f, V) = Sum(g, V)
    OBVIOUS
  <2>1. V # {} /\ Pick(V) \in V /\ Cardinality(V \ {Pick(V)}) = n /\ IsFiniteSet(V)
    BY <1>0, PickOff
  <2>2. /\ Sum(f, V) = f[Pick(V)] + Sum(f, V \ {Pick(V)})
        /\ Sum(g, V) = g[Pick(V)] + Sum(g, V \ {Pick(V)})
    BY <2>1, SumPicked
  <2> HIDE DEF Sum
  <2>3. Sum(f, V \ {Pick(V)}) = Sum(g, V \ {Pick(V)})
    BY <1>2, <2>1
  <2>4. f[Pick(V)] = g[Pick(V)]
    BY <2>1
  <2> QED
    BY <2>2, <2>3, <2>4
<1>3. \A n \in Nat : n \in N
  <2> HIDE DEF N
  <2> QED
    BY <1>1, <1>2, NatSetInduction
<1> HIDE DEF Sum
<1>4. Sum(f, S) = Sum(g, S)
  BY <1>0, <1>3
<1> QED
  BY <1>4 DEF Sum

\* Every element can be taken off, not only the one that is picked.
LEMMA SumTakeOff ==
    ASSUME NEW f, NEW S, IsFiniteSet(S), \A x \in S : f[x] \in Int, NEW a \in S
    PROVE  SumFunctionOnSet(f, S) = f[a] + SumFunctionOnSet(f, S \ {a})
<1> DEFINE Sum(T) == SumFunctionOnSet(f, T)
           N == {n \in Nat : \A T \in SUBSET S : Cardinality(T) = n =>
                    \A x \in T : Sum(T) = f[x] + Sum(T \ {x})}
<1>0. \A V \in SUBSET S : IsFiniteSet(V) /\ Cardinality(V) \in Nat
  BY FS_Subset, FS_CardinalityType
<1>1. 0 \in N
  <2>1. \A V \in SUBSET S : Cardinality(V) = 0 => V = {}
    BY <1>0, FS_EmptySet
  <2> QED
    BY <2>1
<1>2. ASSUME NEW n \in Nat, n \in N PROVE n + 1 \in N
  <2> SUFFICES ASSUME NEW V \in SUBSET S, Cardinality(V) = n + 1, NEW x \in V
               PROVE  Sum(V) = f[x] + Sum(V \ {x})
    OBVIOUS
  <2> DEFINE c == Pick(V)
  <2>1. V # {} /\ c \in V /\ IsFiniteSet(V) /\ Cardinality(V \ {c}) = n
    BY <1>0, PickOff
  <2>2. Sum(V) = f[c] + Sum(V \ {c})
    BY <2>1, SumPicked
  <2>3. CASE c = x
    BY <2>2, <2>3
  <2>4. CASE c # x
    <3>1. Cardinality(V \ {x}) = n
      <4>1. Cardinality(V \ {x}) = Cardinality(V) - 1
        BY <2>1, FS_RemoveElement
      <4> QED
        BY <4>1
    <3> HIDE DEF Sum, c
    <3>2. Sum(V \ {c}) = f[x] + Sum((V \ {c}) \ {x})
      BY <1>2, <2>1, <2>4
    <3>3. Sum(V \ {x}) = f[c] + Sum((V \ {x}) \ {c})
      BY <1>2, <2>1, <2>4, <3>1
    <3>4. (V \ {c}) \ {x} = (V \ {x}) \ {c}
      OBVIOUS
    <3>5. Sum((V \ {c}) \ {x}) \in Int
      <4>1. (V \ {c}) \ {x} \in SUBSET S
        OBVIOUS
      <4> QED
        BY <1>0, <4>1, SumType DEF Sum
    <3>6. f[c] \in Int /\ f[x] \in Int
      BY <2>1
    <3>7. f[c] + (f[x] + Sum((V \ {c}) \ {x})) = f[x] + (f[c] + Sum((V \ {c}) \ {x}))
      BY <3>5, <3>6
    <3> QED
      BY <2>2, <3>2, <3>3, <3>4, <3>7
  <2> QED
    BY <2>3, <2>4
<1>3. \A n \in Nat : n \in N
  <2> HIDE DEF N
  <2> QED
    BY <1>1, <1>2, NatSetInduction
<1> HIDE DEF Sum
<1>4. Sum(S) = f[a] + Sum(S \ {a})
  BY <1>0, <1>3
<1> QED
  BY <1>4 DEF Sum

\* The sum after the value of one element has changed.
LEMMA SumChanged ==
    ASSUME NEW f, NEW g, NEW S, IsFiniteSet(S), NEW a \in S,
           \A x \in S : f[x] \in Int /\ g[x] \in Int,
           \A x \in S \ {a} : f[x] = g[x]
    PROVE  SumFunctionOnSet(g, S) = SumFunctionOnSet(f, S) - f[a] + g[a]
<1> DEFINE rest == SumFunctionOnSet(f, S \ {a})
<1>1. IsFiniteSet(S \ {a})
  BY FS_RemoveElement
<1>2. SumFunctionOnSet(f, S) = f[a] + rest
  BY SumTakeOff
<1>3. SumFunctionOnSet(g, S) = g[a] + SumFunctionOnSet(g, S \ {a})
  BY SumTakeOff
<1>4. SumFunctionOnSet(g, S \ {a}) = rest
  BY <1>1, SumSame
<1>5. rest \in Int
  BY <1>1, SumType
<1> HIDE DEF rest
<1>6. \A x, y, z \in Int : y + z = (x + z) - x + y
  OBVIOUS
<1>7. f[a] \in Int /\ g[a] \in Int
  OBVIOUS
<1>8. g[a] + rest = (f[a] + rest) - f[a] + g[a]
  BY <1>5, <1>6, <1>7
<1> QED
  BY <1>2, <1>3, <1>4, <1>8, Zenon

\* A sum of naturals does not grow when an element is left out.
LEMMA SumWithout ==
    ASSUME NEW f, NEW S, IsFiniteSet(S), \A x \in S : f[x] \in Nat, NEW a
    PROVE  /\ SumFunctionOnSet(f, S \ {a}) =
                SumFunctionOnSet(f, S) - (IF a \in S THEN f[a] ELSE 0)
           /\ SumFunctionOnSet(f, S) \in Nat /\ SumFunctionOnSet(f, S \ {a}) \in Nat
<1>1. IsFiniteSet(S \ {a})
  BY FS_RemoveElement
<1>2. SumFunctionOnSet(f, S) \in Nat /\ SumFunctionOnSet(f, S \ {a}) \in Nat
  <2>1. /\ SumFunctionOnSet(f, S) \in Int
        /\ (\A x \in S : f[x] >= 0) => SumFunctionOnSet(f, S) >= 0
    BY SumType
  <2>2. /\ SumFunctionOnSet(f, S \ {a}) \in Int
        /\ (\A x \in S \ {a} : f[x] >= 0) => SumFunctionOnSet(f, S \ {a}) >= 0
    BY <1>1, SumType
  <2> QED
    BY <2>1, <2>2
<1>3. CASE a \in S
  <2>1. SumFunctionOnSet(f, S) = f[a] + SumFunctionOnSet(f, S \ {a})
    BY <1>3, SumTakeOff
  <2>2. f[a] \in Nat
    BY <1>3
  <2>3. \A x, y, z \in Nat : x = y + z => z = x - y
    OBVIOUS
  <2>4. SumFunctionOnSet(f, S \ {a}) = SumFunctionOnSet(f, S) - f[a]
    BY <1>2, <2>1, <2>2, <2>3
  <2> QED
    BY <1>2, <1>3, <2>4
<1>4. CASE a \notin S
  <2>1. S \ {a} = S
    BY <1>4
  <2>2. \A x \in Nat : x = x - 0
    OBVIOUS
  <2>3. SumFunctionOnSet(f, S) = SumFunctionOnSet(f, S) - 0
    BY <1>2, <2>2
  <2> QED
    BY <1>2, <1>4, <2>1, <2>3, Zenon
<1> QED
  BY <1>3, <1>4, <1>2
=============================================================================
