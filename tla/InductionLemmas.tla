--------------------------- MODULE InductionLemmas ---------------------------
(***************************************************************************)
(* Induction over the natural numbers for sets instead of predicates.  The *)
(* induction theorems of the library quantify over operators, which no     *)
(* first-order prover instantiates; that a nonempty set of numbers has a   *)
(* least element is a first-order fact.                                    *)
(***************************************************************************)
EXTENDS FiniteSetTheorems, TLAPS

\* A set of natural numbers that is not empty has a least element.
LEMMA LeastElement ==
  ASSUME NEW S \in SUBSET Nat, S # {}
  PROVE  \E x \in S : \A y \in S : x <= y
<1>1. PICK x \in S : \A y \in S : ~ (<<y, x>> \in OpToRel(<, Nat))
  BY NatLessThanWellFounded, WFMin
<1>2. \A y \in S : ~ (y < x)
  BY <1>1 DEF OpToRel
<1> QED
  BY <1>2

\* A set with zero in it, and with the successor of every number in it, has
\* all natural numbers in it.
LEMMA NatSetInduction ==
  ASSUME NEW S, 0 \in S, \A n \in Nat : n \in S => n + 1 \in S
  PROVE  Nat \subseteq S
<1> DEFINE T == Nat \ S
<1> SUFFICES ASSUME T # {} PROVE FALSE
  OBVIOUS
<1>1. PICK x \in T : \A y \in T : x <= y
  BY LeastElement
<1>2. x # 0 /\ x - 1 \in Nat
  OBVIOUS
<1>3. x - 1 \in S
  BY <1>1, <1>2
<1> QED
  BY <1>2, <1>3

\* The elements of a finite set of numbers can be listed in their order.
LEMMA IncreasingEnumeration ==
  ASSUME NEW S \in SUBSET Nat, IsFiniteSet(S)
  PROVE  \E t \in [1 .. Cardinality(S) -> S] :
           \A a, b \in 1 .. Cardinality(S) : a < b => t[a] < t[b]
<1> DEFINE
      Increases(t, U, m) == /\ t \in [1 .. m -> U]
                            /\ \A a, b \in 1 .. m : a < b => t[a] < t[b]
      I == {m \in Nat : \A U \in SUBSET Nat :
                          IsFiniteSet(U) /\ Cardinality(U) = m
                            => \E t : Increases(t, U, m)}
<1>1. 0 \in I
  <2> SUFFICES ASSUME NEW U \in SUBSET Nat PROVE \E t : Increases(t, U, 0)
    OBVIOUS
  <2> DEFINE t == [a \in 1 .. 0 |-> a]
  <2>1. Increases(t, U, 0)
    OBVIOUS
  <2> QED
    BY <2>1
<1>2. ASSUME NEW m \in Nat, m \in I PROVE m + 1 \in I
  <2> SUFFICES ASSUME NEW U \in SUBSET Nat, IsFiniteSet(U), Cardinality(U) = m + 1
               PROVE  \E t : Increases(t, U, m + 1)
    OBVIOUS
  <2>1. U # {}
    BY FS_EmptySet
  <2>2. PICK x \in U : \A y \in U : x <= y
    BY <2>1, LeastElement
  <2>3. IsFiniteSet(U \ {x}) /\ Cardinality(U \ {x}) = m
    <3>1. Cardinality(U \ {x}) = Cardinality(U) - 1 /\ IsFiniteSet(U \ {x})
      BY FS_RemoveElement, Zenon
    <3> QED
      BY <3>1
  <2>4. PICK t : Increases(t, U \ {x}, m)
    BY <1>2, <2>3
  <2> DEFINE g == [a \in 1 .. m + 1 |-> IF a = 1 THEN x ELSE t[a - 1]]
  <2>5. g \in [1 .. m + 1 -> U]
    BY <2>4
  <2>6. ASSUME NEW a \in 1 .. m + 1, NEW b \in 1 .. m + 1, a < b
        PROVE  g[a] < g[b]
    <3>1. b - 1 \in 1 .. m /\ t[b - 1] \in U \ {x} /\ g[b] = t[b - 1]
      BY <2>4, <2>6
    <3>2. CASE a = 1
      <4>1. x \in Nat /\ t[b - 1] \in Nat /\ x <= t[b - 1] /\ t[b - 1] # x
        BY <2>2, <3>1
      <4>2. g[a] = x
        BY <3>2
      <4> QED
        BY <3>1, <4>1, <4>2
    <3>3. CASE a # 1
      BY <2>4, <2>6, <3>1, <3>3
    <3> QED
      BY <3>2, <3>3
  <2> HIDE DEF g
  <2>7. Increases(g, U, m + 1)
    BY <2>5, <2>6
  <2> QED
    BY <2>7
<1>3. Nat \subseteq I
  <2> HIDE DEF I
  <2> QED
    BY <1>1, <1>2, NatSetInduction
<1>4. Cardinality(S) \in Nat
  BY FS_CardinalityType
<1>5. \E t : Increases(t, S, Cardinality(S))
  BY <1>3, <1>4
<1> QED
  BY <1>5
=============================================================================
