------------------------------ MODULE NatFacts ------------------------------
(***************************************************************************)
(* Facts about natural numbers that the proofs of the other modules rest   *)
(* on.  Induction is stated over a set, because a set, unlike a predicate, *)
(* can be supplied by the provers: the least-number principle follows from *)
(* the well-foundedness of <.                                              *)
(***************************************************************************)
EXTENDS Integers, TLAPS, WellFoundedInduction, FiniteSetsExt

\* A non-empty set of naturals has a least element.
LEMMA LeastNat ==
    ASSUME NEW T, T \subseteq Nat, T # {}
    PROVE  \E x \in T : \A y \in T : x <= y
<1>1. IsWellFoundedOn(OpToRel(<, Nat), Nat)
  BY NatLessThanWellFounded
<1>2. PICK x \in T : \A y \in T : ~ (<<y, x>> \in OpToRel(<, Nat))
  BY <1>1, WFMin
<1>3. \A y \in T : ~ (y < x)
  <2> TAKE y \in T
  <2>1. x \in Nat /\ y \in Nat
    OBVIOUS
  <2>2. y < x => <<y, x>> \in OpToRel(<, Nat)
    BY <2>1 DEF OpToRel
  <2> QED BY <1>2, <2>2
<1>4. \A y \in T : x <= y
  BY <1>3
<1> QED BY <1>4

\* A set that holds m and, with every number below n, its successor, holds
\* everything from m to n.
LEMMA IntervalInduction ==
    ASSUME NEW S, NEW m \in Nat, NEW n \in Nat,
           m \in S,
           \A k \in m .. n - 1 : k \in S => k + 1 \in S
    PROVE  \A k \in m .. n : k \in S
<1> DEFINE Missing == {k \in m .. n : k \notin S}
<1> SUFFICES ASSUME Missing # {} PROVE FALSE
  OBVIOUS
<1>1. Missing \subseteq Nat
  OBVIOUS
<1>2. PICK x \in Missing : \A y \in Missing : x <= y
  <2> HIDE DEF Missing
  <2> QED BY <1>1, LeastNat
<1>3. x \in m .. n /\ x \notin S /\ x # m
  OBVIOUS
<1>4. x - 1 \in m .. n - 1
  BY <1>3
<1>5. x - 1 \notin Missing
  BY <1>2, <1>4
<1>6. x - 1 \in S
  BY <1>4, <1>5
<1> QED BY <1>3, <1>4, <1>6

\* The mirror image: from n down to m.
LEMMA DownwardInduction ==
    ASSUME NEW S, NEW m \in Nat, NEW n \in Nat,
           n \in S,
           \A k \in m + 1 .. n : k \in S => k - 1 \in S
    PROVE  \A k \in m .. n : k \in S
<1> DEFINE Up == {j \in 0 .. n : n - j \in S}
<1>1. 0 \in Up
  OBVIOUS
<1>2. CASE m <= n
  <2>1. \A j \in 0 .. (n - m) - 1 : j \in Up => j + 1 \in Up
    <3> SUFFICES ASSUME NEW j \in 0 .. (n - m) - 1, j \in Up PROVE j + 1 \in Up
      OBVIOUS
    <3>1. n - j \in m + 1 .. n /\ n - j \in S
      BY <1>2
    <3>2. (n - j) - 1 \in S
      BY <3>1
    <3>3. (n - j) - 1 = n - (j + 1) /\ j + 1 \in 0 .. n
      BY <1>2
    <3> QED BY <3>2, <3>3
  <2>2. n - m \in Nat
    BY <1>2
  <2>3. \A j \in 0 .. n - m : j \in Up
    <3> HIDE DEF Up
    <3> QED BY <1>1, <2>1, <2>2, IntervalInduction
  <2> SUFFICES ASSUME NEW k \in m .. n PROVE k \in S
    OBVIOUS
  <2>4. n - k \in 0 .. n - m /\ n - (n - k) = k
    BY <1>2
  <2> QED BY <2>3, <2>4
<1>3. CASE n < m
  BY <1>3
<1> QED BY <1>2, <1>3

\* Division: the quotient of a number below b * c by b is below c, and a
\* multiple of b gives back its factor.
LEMMA DivBound ==
    ASSUME NEW a \in Nat, NEW b \in Nat \ {0}, NEW c \in Nat, a < b * c
    PROVE  a \div b \in 0 .. c - 1
<1> DEFINE q == a \div b
<1>1. q \in Nat /\ a = b * q + (a % b) /\ a % b \in 0 .. b - 1
  BY SMT
<1>2. ASSUME q >= c PROVE FALSE
  <2> HIDE DEF q
  <2>1. b * q >= b * c
    BY <1>1, <1>2, SMT
  <2>2. b * q \in Nat /\ b * c \in Nat
    BY <1>1, SMT
  <2>3. a >= b * q
    BY <1>1, <2>2, SMT
  <2> QED BY <2>1, <2>2, <2>3
<1> QED BY <1>1, <1>2

LEMMA DivMultiple ==
    ASSUME NEW b \in Nat \ {0}, NEW c \in Nat
    PROVE  (b * c) \div b = c
<1> DEFINE q == (b * c) \div b
           r == (b * c) % b
<1>1. b * c \in Nat
  BY SMT
<1>2. q \in Nat /\ b * c = b * q + r /\ r \in 0 .. b - 1
  BY <1>1, SMT
<1> HIDE DEF q, r
<1>3. b * q \in Nat
  BY <1>2, SMT
<1>4. ASSUME q <= c - 1 PROVE FALSE
  <2>1. b * q <= b * (c - 1)
    BY <1>2, <1>4, SMT
  <2>2. b * (c - 1) = b * c - b
    BY SMT
  <2> QED BY <2>1, <2>2, <1>1, <1>2, <1>3
<1>5. ASSUME q >= c + 1 PROVE FALSE
  <2>1. b * q >= b * (c + 1)
    BY <1>2, <1>5, SMT
  <2>2. b * (c + 1) = b * c + b
    BY SMT
  <2> QED BY <2>1, <2>2, <1>1, <1>2, <1>3
<1>6. q = c
  BY <1>2, <1>4, <1>5
<1> QED BY <1>6 DEF q

\* Division with remainder, and that a multiple leaves none.
LEMMA DivMod ==
    ASSUME NEW a \in Nat, NEW b \in Nat \ {0}
    PROVE  /\ a \div b \in Nat /\ a % b \in 0 .. b - 1
           /\ a = b * (a \div b) + (a % b)
BY SMT

LEMMA ModMultiple ==
    ASSUME NEW b \in Nat \ {0}, NEW c \in Nat
    PROVE  b * c \in Nat /\ (b * c) % b = 0
<1>1. b * c \in Nat
  BY SMT
<1>2. b * c = b * ((b * c) \div b) + ((b * c) % b) /\ (b * c) % b \in 0 .. b - 1
  BY <1>1, DivMod
<1>3. b * c = b * c + ((b * c) % b)
  BY <1>2, DivMultiple
<1> QED BY <1>1, <1>2, <1>3

-----------------------------------------------------------------------------
(* The greatest and the least of a set.                                    *)

LEMMA MaxIs ==
    ASSUME NEW S, S \subseteq Int, NEW x \in S, \A y \in S : y <= x
    PROVE  Max(S) = x
<1>1. \A z \in S : (\A y \in S : z >= y) => z = x
  OBVIOUS
<1>2. \A y \in S : x >= y
  OBVIOUS
<1> QED BY <1>1, <1>2 DEF Max

LEMMA MinIs ==
    ASSUME NEW S, S \subseteq Int, NEW x \in S, \A y \in S : x <= y
    PROVE  Min(S) = x
<1>1. \A z \in S : (\A y \in S : z =< y) => z = x
  OBVIOUS
<1> QED BY <1>1 DEF Min

LEMMA MaxOfInterval ==
    ASSUME NEW m \in Nat, NEW n \in Nat, NEW S, S \subseteq m .. n, S # {}
    PROVE  Max(S) \in S /\ \A y \in S : y <= Max(S)
<1> DEFINE Below == {k \in 0 .. n : n - k \in S}
<1>1. PICK z \in S : TRUE
  OBVIOUS
<1>2. n - z \in Below
  <2>1. z \in m .. n /\ n - z \in 0 .. n /\ n - (n - z) = z
    BY <1>1
  <2> QED BY <2>1, <1>1
<1>3. PICK d \in Below : \A e \in Below : d <= e
  <2>1. Below \subseteq Nat /\ Below # {}
    BY <1>2
  <2> HIDE DEF Below
  <2> QED BY <2>1, LeastNat
<1>4. \A y \in S : y <= n - d
  <2> TAKE y \in S
  <2>1. y \in m .. n /\ n - y \in 0 .. n /\ n - (n - y) = y
    OBVIOUS
  <2>2. d <= n - y
    BY <2>1, <1>3
  <2> QED BY <2>1, <2>2, <1>3
<1>5. n - d \in S /\ S \subseteq Int
  BY <1>3
<1>6. Max(S) = n - d
  BY <1>4, <1>5, MaxIs
<1> QED BY <1>4, <1>5, <1>6
=============================================================================
