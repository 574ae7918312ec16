---------------------------- MODULE Ranks_proofs ----------------------------
(***************************************************************************)
(* Nth counts through a finite set of numbers in their order, without a    *)
(* gap or a repetition; and what it counts when the set gets a new greatest *)
(* member, or loses its smallest.                                          *)
(***************************************************************************)
EXTENDS Ranks, FunctionTheorems, FiniteSetTheorems, TLAPS

Numbers(S) == IsFiniteSet(S) /\ S \subseteq Nat

LEMMA RankRange ==
  ASSUME NEW S, Numbers(S), NEW t \in S
  PROVE  Rank(S, t) \in 1 .. Cardinality(S)
<1> DEFINE B == {u \in S : u <= t}
<1>1. IsFiniteSet(B) /\ Cardinality(B) <= Cardinality(S)
  BY FS_Subset DEF Numbers
<1>2. Cardinality(B) \in Nat /\ Cardinality(S) \in Nat
  BY <1>1, FS_CardinalityType DEF Numbers
<1>3. B # {}
  BY DEF Numbers
<1>4. Cardinality(B) # 0
  BY <1>1, <1>3, FS_EmptySet
<1> QED
  BY <1>1, <1>2, <1>4 DEF Rank

LEMMA RankGrows ==
  ASSUME NEW S, Numbers(S), NEW t \in S, NEW u \in S, t < u
  PROVE  Rank(S, t) < Rank(S, u)
<1> DEFINE A == {v \in S : v <= t}
           B == {v \in S : v <= u}
<1>0. t \in Nat /\ u \in Nat /\ \A v \in S : v \in Nat
  BY DEF Numbers
<1>1. A \subseteq B /\ A # B
  <2>1. u \in B /\ u \notin A
    BY <1>0
  <2>2. \A v \in S : v <= t => v <= u
    BY <1>0
  <2> QED
    BY <2>1, <2>2
<1>2. IsFiniteSet(B)
  BY FS_Subset DEF Numbers
<1>3. Cardinality(A) <= Cardinality(B) /\ Cardinality(A) # Cardinality(B)
  BY <1>1, <1>2, FS_Subset
<1>4. Cardinality(A) \in Nat /\ Cardinality(B) \in Nat
  BY <1>1, <1>2, FS_Subset, FS_CardinalityType
<1> QED
  BY <1>3, <1>4 DEF Rank

LEMMA RankTells ==
  ASSUME NEW S, Numbers(S), NEW t \in S, NEW u \in S, Rank(S, t) = Rank(S, u)
  PROVE  t = u
<1>1. t \in Nat /\ u \in Nat
  BY DEF Numbers
<1>2. ~(t < u) /\ ~(u < t)
  BY RankGrows, RankRange
<1> QED
  BY <1>1, <1>2

LEMMA NthIs ==
  ASSUME NEW S, Numbers(S), NEW t \in S
  PROVE  Nth(S, Rank(S, t)) = t
<1>1. \A u \in S : Rank(S, u) = Rank(S, t) => u = t
  BY RankTells
<1> QED
  BY <1>1 DEF Nth

LEMMA NthExists ==
  ASSUME NEW S, Numbers(S), NEW i \in 1 .. Cardinality(S)
  PROVE  Nth(S, i) \in S /\ Rank(S, Nth(S, i)) = i
<1> DEFINE f == [t \in S |-> Rank(S, t)]
           I == 1 .. Cardinality(S)
<1>0. Cardinality(S) \in Nat
  BY FS_CardinalityType DEF Numbers
<1>1. IsFiniteSet(I) /\ Cardinality(I) = Cardinality(S)
  BY <1>0, FS_Interval
<1>2. f \in [S -> I] /\ \A t, u \in S : f[t] = f[u] => t = u
  BY RankRange, RankTells
<1>3. f \in Injection(S, I)
  BY <1>2 DEF Injection, IsInjective
<1>4. f \in Surjection(S, I)
  <2> HIDE DEF f, I
  <2> QED
    BY <1>1, <1>3, FS_Injection
<1>5. \E t \in S : Rank(S, t) = i
  BY <1>4 DEF Surjection
<1> QED
  BY <1>5 DEF Nth

\* A finite set of numbers has a greatest member.
LEMMA Greatest ==
  ASSUME NEW S, Numbers(S), S # {}
  PROVE  \E m \in S : \A n \in S : n <= m
<1> DEFINE k == Cardinality(S)
           m == Nth(S, k)
<1>1. PICK t \in S : TRUE
  OBVIOUS
<1>2. k \in Nat /\ Rank(S, t) \in 1 .. k
  BY RankRange, FS_CardinalityType DEF Numbers
<1>3. k \in 1 .. k
  BY <1>2
<1>4. m \in S /\ Rank(S, m) = k
  BY <1>3, NthExists
<1> HIDE DEF m
<1>5. ASSUME NEW n \in S
      PROVE  n <= m
  <2>1. n \in Nat /\ m \in Nat
    BY <1>4 DEF Numbers
  <2>2. Rank(S, n) \in 1 .. k
    BY RankRange
  <2>3. m < n => Rank(S, m) < Rank(S, n)
    BY <1>4, RankGrows
  <2> QED
    BY <1>2, <1>4, <2>1, <2>2, <2>3
<1> QED
  BY <1>4, <1>5

(* A number above all the others comes last.                               *)
LEMMA NthOfLonger ==
  ASSUME NEW S, Numbers(S), NEW x \in Nat, \A t \in S : t < x
  PROVE  /\ Cardinality(S \cup {x}) = Cardinality(S) + 1
         /\ \A i \in 1 .. Cardinality(S) : Nth(S \cup {x}, i) = Nth(S, i)
         /\ Nth(S \cup {x}, Cardinality(S) + 1) = x
<1> DEFINE T == S \cup {x}
<1>0. \A t \in S : t \in Nat
  BY DEF Numbers
<1>1. x \notin S
  BY <1>0
<1>2. Numbers(T) /\ Cardinality(T) = Cardinality(S) + 1
  BY <1>1, FS_AddElement DEF Numbers
<1>3. ASSUME NEW i \in 1 .. Cardinality(S)
      PROVE  Nth(T, i) = Nth(S, i)
  <2> DEFINE t == Nth(S, i)
  <2>1. t \in S /\ Rank(S, t) = i
    BY NthExists
  <2>2. {u \in T : u <= t} = {u \in S : u <= t}
    <3>1. ~(x <= t)
      BY <1>0, <2>1
    <3> QED
      BY <3>1
  <2>3. Rank(T, t) = i
    BY <2>1, <2>2 DEF Rank
  <2> QED
    BY <1>2, <2>1, <2>3, NthIs
<1>4. Nth(T, Cardinality(S) + 1) = x
  <2>1. {u \in T : u <= x} = T
    BY <1>0
  <2>2. Rank(T, x) = Cardinality(S) + 1
    BY <1>2, <2>1 DEF Rank
  <2> QED
    BY <1>2, <2>2, NthIs
<1> QED
  BY <1>2, <1>3, <1>4

(* Without the smallest number, each of the others moves up by one.        *)
LEMMA NthOfShorter ==
  ASSUME NEW S, Numbers(S), NEW x \in S, \A t \in S : x <= t
  PROVE  /\ Cardinality(S) \in Nat \ {0}
         /\ Cardinality(S \ {x}) = Cardinality(S) - 1
         /\ Nth(S, 1) = x
         /\ \A i \in 1 .. Cardinality(S) - 1 : Nth(S \ {x}, i) = Nth(S, i + 1)
<1> DEFINE T == S \ {x}
<1>0. x \in Nat /\ \A t \in S : t \in Nat
  BY DEF Numbers
<1>1. /\ Numbers(T) /\ Cardinality(T) = Cardinality(S) - 1
      /\ Cardinality(S) \in Nat /\ Cardinality(T) \in Nat
  BY FS_RemoveElement, FS_CardinalityType DEF Numbers
<1>2. Nth(S, 1) = x
  <2>1. {u \in S : u <= x} = {x}
    <3>1. \A u \in S : u <= x <=> u = x
      BY <1>0
    <3> QED
      BY <3>1
  <2>2. Rank(S, x) = 1
    BY <2>1, FS_Singleton DEF Rank
  <2> QED
    BY <2>2, NthIs
<1>3. ASSUME NEW i \in 1 .. Cardinality(S) - 1
      PROVE  Nth(T, i) = Nth(S, i + 1)
  <2> DEFINE t == Nth(T, i)
             B == {u \in T : u <= t}
  <2>1. t \in T /\ Rank(T, t) = i
    BY <1>1, NthExists
  <2>2. {u \in S : u <= t} = B \cup {x}
    BY <2>1
  <2>3. IsFiniteSet(B)
    BY <1>1, FS_Subset DEF Numbers
  <2>4. Cardinality(B \cup {x}) = Cardinality(B) + 1
    BY <2>3, FS_AddElement
  <2>5. Rank(S, t) = i + 1
    BY <2>1, <2>2, <2>4 DEF Rank
  <2> QED
    BY <2>1, <2>5, NthIs
<1> QED
  BY <1>1, <1>2, <1>3
=============================================================================
