------------------------------ MODULE DataLemmas ------------------------------
(***************************************************************************)
(* Facts about data the proofs share: induction over the naturals, up and  *)
(* down, and sequences that are appended to.                               *)
(*                                                                         *)
(* Induction is stated about sets: a theorem that takes a predicate cannot *)
(* be used, one that takes the set of the numbers that satisfy it can.     *)
(***************************************************************************)
EXTENDS Integers, Sequences, FiniteSetTheorems, TLAPS

\* Every set of naturals that is not empty has a least element: the sets
\* 0 .. n - 1 are finite, and strict inclusion of finite sets is well-founded.
LEMMA LeastNat ==
    ASSUME NEW T \in SUBSET Nat, T # {}
    PROVE  \E m \in T : \A n \in T : m <= n
<1> DEFINE Below(n) == 0 .. n - 1
           F == {Below(n) : n \in T}
           R == StrictSubsetOrdering(Nat)
<1>1. F \subseteq FiniteSubsetsOf(Nat)
  <2>1. ASSUME NEW n \in T  PROVE Below(n) \in FiniteSubsetsOf(Nat)
    <3>1. n - 1 \in Int /\ 0 \in Int /\ Below(n) \subseteq Nat
      OBVIOUS
    <3>2. IsFiniteSet(Below(n))
      BY <3>1, FS_Interval
    <3> QED
      BY <3>1, <3>2 DEF FiniteSubsetsOf
  <2> QED
    BY <2>1
<1>2. F # {}
  OBVIOUS
<1>3. PICK x \in F : \A y \in F : ~(<<y, x>> \in R)
  <2> HIDE DEF F, R
  <2>1. IsWellFoundedOn(StrictSubsetOrdering(Nat), FiniteSubsetsOf(Nat))
    BY FS_StrictSubsetOrderingWellFounded
  <2>2. IsWellFoundedOn(R, FiniteSubsetsOf(Nat))
    BY <2>1 DEF R
  <2> QED
    BY <1>1, <1>2, <2>2, WFMin
<1>4. PICK m \in T : x = Below(m)
  OBVIOUS
<1>5. ASSUME NEW n \in T  PROVE m <= n
  <2> SUFFICES ASSUME n < m PROVE FALSE
    OBVIOUS
  <2>1. ~(<<Below(n), Below(m)>> \in R)
    BY <1>3, <1>4
  <2>2. /\ Below(n) \in SUBSET Nat /\ Below(m) \in SUBSET Nat
        /\ Below(n) \subseteq Below(m) /\ n \in Below(m) /\ n \notin Below(n)
    OBVIOUS
  <2> HIDE DEF Below
  <2> QED
    BY <2>1, <2>2 DEF StrictSubsetOrdering, R
<1> QED
  BY <1>5

\* A set that has 0 and with each natural the next one has them all.
LEMMA NaturalsFromZero ==
    ASSUME NEW T, 0 \in T, \A n \in Nat : n \in T => n + 1 \in T
    PROVE  Nat \subseteq T
<1> SUFFICES ASSUME NEW k \in Nat, k \notin T PROVE FALSE
  OBVIOUS
<1>1. {n \in Nat : n \notin T} \in SUBSET Nat /\ {n \in Nat : n \notin T} # {}
  OBVIOUS
<1>2. PICK m \in {n \in Nat : n \notin T} : \A n \in {i \in Nat : i \notin T} : m <= n
  BY <1>1, LeastNat
<1>3. m # 0 /\ m - 1 \in Nat /\ m \in Nat /\ m \notin T
  BY <1>2
<1>4. m - 1 \in T
  BY <1>2, <1>3
<1> QED
  BY <1>3, <1>4

\* A set of naturals below a bound has a greatest element.
LEMMA GreatestNat ==
    ASSUME NEW n \in Nat, NEW T \in SUBSET (0 .. n), T # {}
    PROVE  \E m \in T : \A k \in T : k <= m
<1> DEFINE R == {n - k : k \in T}
<1>1. R \in SUBSET Nat /\ R # {}
  <2>1. \A k \in T : n - k \in Nat
    OBVIOUS
  <2>2. R \subseteq Nat
    BY <2>1
  <2>3. PICK k \in T : TRUE
    OBVIOUS
  <2>4. n - k \in R
    OBVIOUS
  <2> QED
    BY <2>2, <2>4
<1>2. PICK r \in R : \A s \in R : r <= s
  <2> HIDE DEF R
  <2> QED
    BY <1>1, LeastNat
<1>3. PICK m \in T : r = n - m
  OBVIOUS
<1>4. ASSUME NEW k \in T  PROVE k <= m
  <2>1. n - k \in R
    OBVIOUS
  <2>2. n - m <= n - k
    BY <1>2, <1>3, <2>1
  <2> QED
    BY <2>2
<1> QED
  BY <1>4

\* A set that has a number when it has the numbers after it has them all.
LEMMA Downwards ==
    ASSUME NEW n \in Nat, NEW T,
           \A i \in 1 .. n : (\A j \in i + 1 .. n : j \in T) => i \in T
    PROVE  1 .. n \subseteq T
<1> DEFINE U == {i \in 1 .. n : i \notin T}
<1> SUFFICES ASSUME U # {}  PROVE FALSE
  OBVIOUS
<1>1. U \in SUBSET (0 .. n)
  OBVIOUS
<1>2. PICK i \in U : \A j \in U : j <= i
  <2> HIDE DEF U
  <2> QED
    BY <1>1, GreatestNat
<1>3. \A j \in i + 1 .. n : j \in T
  <2> SUFFICES ASSUME NEW j \in i + 1 .. n, j \notin T  PROVE FALSE
    OBVIOUS
  <2>1. j \in U /\ i < j
    OBVIOUS
  <2> HIDE DEF U
  <2> QED
    BY <1>1, <1>2, <2>1
<1> QED
  BY <1>3

-----------------------------------------------------------------------------
\* A sequence of whatever its elements are.
IsSequence(s) == s \in Seq({s[i] : i \in DOMAIN s})

LEMMA SequenceAppended ==
    ASSUME NEW s, IsSequence(s), NEW e
    PROVE  LET a == Append(s, e)
           IN  /\ IsSequence(a)
               /\ DOMAIN a = 1 .. Len(s) + 1
               /\ DOMAIN s = 1 .. Len(s)
               /\ Len(s) \in Nat
               /\ \A i \in DOMAIN s : a[i] = s[i]
               /\ a[Len(s) + 1] = e
<1> DEFINE S == {s[i] : i \in DOMAIN s}
           T == S \cup {e}
           a == Append(s, e)
<1>1. s \in Seq(S)
  BY DEF IsSequence
<1>2. s \in Seq(T)
  <2> HIDE DEF S
  <2> QED
    BY <1>1
<1> HIDE DEF T
<1>3. e \in T
  BY DEF T
<1>4. /\ a \in Seq(T)
      /\ Len(s) \in Nat
      /\ Len(a) = Len(s) + 1
      /\ DOMAIN s = 1 .. Len(s)
      /\ DOMAIN a = 1 .. Len(s) + 1
      /\ \A i \in 1 .. Len(s) : a[i] = s[i]
      /\ a[Len(s) + 1] = e
  BY <1>2, <1>3
<1> HIDE DEF a
<1>5. a \in Seq({a[i] : i \in DOMAIN a})
  <2> DEFINE A == {a[i] : i \in DOMAIN a}
  <2>1. \A i \in 1 .. Len(a) : a[i] \in A
    BY <1>4
  <2> HIDE DEF A
  <2>2. a \in Seq(A)
    BY <1>4, <2>1
  <2> QED
    BY <2>2 DEF A
<1> QED
  BY <1>4, <1>5 DEF a, IsSequence
=============================================================================
