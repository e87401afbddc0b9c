------------------------------ MODULE NatLemmas ------------------------------
(***************************************************************************)
(* Facts about natural numbers the proofs share: induction, powers of two, *)
(* remainders, greatest members of finite sets.                            *)
(***************************************************************************)
EXTENDS Integers, FiniteSetsExt, FiniteSetTheorems, FunctionTheorems,
        WellFoundedInduction, TLAPS

-----------------------------------------------------------------------------
(* Induction.                                                              *)

LessThan == {p \in Nat \X Nat : p[1] < p[2]}

(* Induction over the naturals, of a set: what holds of 0 and of n + 1      *)
(* whenever of n, holds of all.                                             *)
LEMMA SetInduction ==
    ASSUME NEW S, 0 \in S, \A n \in S \cap Nat : n + 1 \in S
    PROVE  Nat \subseteq S
<1> DEFINE T == Nat \ S
<1>1. SUFFICES ASSUME T # {} PROVE FALSE
  OBVIOUS
<1>2. IsWellFoundedOn(LessThan, Nat)
  BY NatLessThanWellFounded DEF OpToRel, LessThan
<1>3. \E x \in T : \A y \in T : ~(<<y, x>> \in LessThan)
  BY <1>1, <1>2, WFMin
<1>4. PICK x \in T : \A y \in T : ~(y < x)
  BY <1>3 DEF LessThan
<1>5. x - 1 \in Nat /\ x - 1 < x /\ x = (x - 1) + 1
  BY <1>4
<1>6. x - 1 \in S
  BY <1>4, <1>5
<1> QED BY <1>4, <1>5, <1>6

-----------------------------------------------------------------------------
(* Powers of two, which count the subsets of 1..n.                         *)

(* A set of n has 2^n subsets.                                             *)
LEMMA SubsetsOf ==
    ASSUME NEW n \in Nat
    PROVE  IsFiniteSet(SUBSET (1..n)) /\ Cardinality(SUBSET (1..n)) = 2^n
<1>1. IsFiniteSet(1..n) /\ Cardinality(1..n) = n
  BY FS_Interval, SMT
<1> QED BY <1>1, FS_SUBSET

LEMMA PowerOfTwo == ASSUME NEW n \in Nat PROVE 2^n \in Nat \ {0}
<1>1. Cardinality(SUBSET (1..n)) \in Nat
  BY SubsetsOf, FS_CardinalityType
<1>2. Cardinality(SUBSET (1..n)) # 0
  <2>1. {} \in SUBSET (1..n)
    OBVIOUS
  <2> QED BY <2>1, SubsetsOf, FS_EmptySet
<1> QED BY <1>1, <1>2, SubsetsOf

LEMMA PowerGrows ==
    ASSUME NEW m \in Nat, NEW n \in Nat, m <= n
    PROVE  2^m <= 2^n
<1>1. SUBSET (1..m) \in SUBSET (SUBSET (1..n))
  BY SMT
<1>2. IsFiniteSet(SUBSET (1..n)) /\ Cardinality(SUBSET (1..n)) = 2^n
      /\ Cardinality(SUBSET (1..m)) = 2^m
  BY SubsetsOf
<1>3. Cardinality(SUBSET (1..m)) <= Cardinality(SUBSET (1..n))
  BY <1>1, <1>2, FS_Subset
<1> QED BY <1>2, <1>3

LEMMA PowerZero == 2^0 = 1
<1>1. 1..0 = {}
  BY SMT
<1>2. SUBSET (1..0) = {{}}
  BY <1>1
<1> QED BY <1>2, SubsetsOf, FS_Singleton

(* Half of the subsets of 1..n+1 have n+1 in them. *)
LEMMA PowerDoubles == ASSUME NEW n \in Nat PROVE 2^(n + 1) = 2 * 2^n
<1> DEFINE A == SUBSET (1..n)
           B == {X \in SUBSET (1..(n + 1)) : n + 1 \in X}
           f == [X \in A |-> X \cup {n + 1}]
<1>1. f \in Bijection(A, B)
  <2>1. ASSUME NEW X \in A PROVE f[X] \in B /\ n + 1 \notin X
    OBVIOUS
  <2>2. ASSUME NEW X \in A, NEW Y \in A, f[X] = f[Y] PROVE X = Y
    <3>1. X \cup {n + 1} = Y \cup {n + 1} /\ n + 1 \notin X /\ n + 1 \notin Y
      BY <2>1, <2>2
    <3> QED BY <3>1
  <2>3. ASSUME NEW Y \in B PROVE \E X \in A : f[X] = Y
    <3>1. Y \ {n + 1} \in A
      OBVIOUS
    <3>2. f[Y \ {n + 1}] = Y
      BY <3>1
    <3> QED BY <3>1, <3>2
  <2>4. f \in [A -> B]
    BY <2>1
  <2> QED BY <2>2, <2>3, <2>4, Fun_IsBij
<1>2. IsFiniteSet(A) /\ Cardinality(A) = 2^n
  BY SubsetsOf
<1>3. IsFiniteSet(B) /\ Cardinality(B) = 2^n
  BY <1>1, <1>2, FS_Bijection DEF ExistsBijection
<1>4. A \cup B = SUBSET (1..(n + 1)) /\ A \cap B = {}
  OBVIOUS
<1>5. Cardinality(A \cup B) = Cardinality(A) + Cardinality(B) - Cardinality(A \cap B)
  BY <1>2, <1>3, FS_Union
<1>6. Cardinality(SUBSET (1..(n + 1))) = 2^(n + 1)
  BY SubsetsOf
<1>7. Cardinality(A \cap B) = 0
  BY <1>4, FS_EmptySet
<1>8. 2^(n + 1) = 2^n + 2^n - 0
  BY <1>2, <1>3, <1>4, <1>5, <1>6, <1>7
<1> DEFINE p == 2^n
<1>9. p \in Nat
  BY PowerOfTwo
<1>10. 2^(n + 1) = p + p - 0
  BY <1>8
<1> HIDE DEF p
<1>11. 2^(n + 1) = 2 * p
  BY <1>9, <1>10
<1> QED BY <1>11 DEF p

-----------------------------------------------------------------------------
(* Remainders of numbers within one modulus of 0.                          *)

(* Remainders, of what is in range and of what is just below it.           *)
LEMMA RemainderIs ==
    ASSUME NEW m \in Nat \ {0}, NEW x \in Int
    PROVE  /\ x % m \in 0..m-1
           /\ x \in 0..m-1 => x % m = x
           /\ x \in -m..-1 => x % m = x + m
BY SMT

-----------------------------------------------------------------------------
(* Greatest indexes.                                                       *)

(* The greatest member of a set.                                           *)
LEMMA MaxIs ==
    ASSUME NEW I \in SUBSET Nat, NEW m \in I, \A i \in I : i <= m
    PROVE  Max(I) = m
<1>1. \A x \in I : (\A y \in I : x >= y) => x = m
  OBVIOUS
<1>2. \A y \in I : m >= y
  OBVIOUS
<1> QED BY <1>1, <1>2 DEF Max

(* A set of indexes has a greatest one. *)
LEMMA MaxIn ==
    ASSUME NEW n \in Nat, NEW I \in SUBSET (1..n), I # {}
    PROVE  Max(I) \in I /\ \A i \in I : i <= Max(I)
<1> DEFINE Bounded == {k \in Nat : \A J \in SUBSET (1..k) :
                           J # {} => \E m \in J : \A i \in J : i <= m}
<1>1. 0 \in Bounded
  <2>1. 1..0 = {}
    OBVIOUS
  <2> QED BY <2>1
<1>2. ASSUME NEW k \in Bounded PROVE k + 1 \in Bounded
  <2> SUFFICES ASSUME NEW J \in SUBSET (1..(k + 1)), J # {}
               PROVE  \E m \in J : \A i \in J : i <= m
    OBVIOUS
  <2>1. CASE k + 1 \in J
    <3>1. \A i \in J : i <= k + 1
      OBVIOUS
    <3> QED BY <2>1, <3>1
  <2>2. CASE k + 1 \notin J
    <3>1. J \in SUBSET (1..k)
      BY <2>2
    <3> QED BY <3>1
  <2> QED BY <2>1, <2>2
<1>3. n \in Bounded
  BY <1>1, <1>2, SetInduction
<1>4. PICK m \in I : \A i \in I : i <= m
  BY <1>3
<1> QED BY <1>4, MaxIs

LEMMA IndexNotZero ==
    ASSUME NEW n \in Nat
    PROVE  \A I \in SUBSET (1..n) : I # {} => Max(I) # 0
<1>1. SUFFICES ASSUME NEW I \in SUBSET (1..n), I # {} PROVE Max(I) # 0
  OBVIOUS
<1>2. Max(I) \in I
  BY <1>1, MaxIn
<1> QED BY <1>2
=============================================================================
