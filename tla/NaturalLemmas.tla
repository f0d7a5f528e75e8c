---------------------------- MODULE NaturalLemmas ----------------------------
(***************************************************************************)
(* Facts about natural numbers that several proofs use.  Induction is by   *)
(* the least element of a set of natural numbers: the set of the           *)
(* counterexamples of what is to be shown.                                 *)
(***************************************************************************)
EXTENDS Integers, WellFoundedInduction, TLAPS

(* A set of natural numbers has a least element.                           *)
LEMMA LeastNatural ==
  ASSUME NEW T \in SUBSET Nat, T # {}
  PROVE  \E m \in T : \A k \in T : m <= k
<1>1. IsWellFoundedOn(OpToRel(<, Nat), Nat)
  BY NatLessThanWellFounded
<1>2. PICK m \in T : \A y \in T : <<y, m>> \notin OpToRel(<, Nat)
  BY <1>1, WFMin
<1>3. ASSUME NEW y \in T PROVE ~(y < m)
  <2>1. <<y, m>> \in Nat \X Nat /\ <<y, m>>[1] = y /\ <<y, m>>[2] = m
    OBVIOUS
  <2>2. <<y, m>> \notin {ss \in Nat \X Nat : ss[1] < ss[2]}
    BY <1>2, Zenon DEF OpToRel
  <2> QED BY <2>1, <2>2
<1> QED BY <1>3

(* Induction for the members of a set: what holds for 0 and goes on from   *)
(* each number to the next one holds for all.                              *)
LEMMA InductionInSet ==
  ASSUME NEW S, 0 \in S, \A n \in Nat : n \in S => n + 1 \in S
  PROVE  Nat \subseteq S
<1> DEFINE T == {n \in Nat : n \notin S}
<1> SUFFICES ASSUME T # {} PROVE FALSE
  OBVIOUS
<1>1. PICK m \in T : \A k \in T : m <= k
  BY LeastNatural
<1>2. m \in Nat /\ m \notin S
  OBVIOUS
<1>3. m - 1 \in Nat
  BY <1>2
<1>4. m - 1 \in S
  BY <1>1, <1>3
<1> QED BY <1>2, <1>3, <1>4

-----------------------------------------------------------------------------
(* The sums of a sequence of numbers, as a recursive function.             *)

Sums(step, n) ==
  {f \in [0 .. n -> Nat] : f[0] = 0 /\ \A i \in 1 .. n : f[i] = f[i - 1] + step[i]}

(* They exist up to every n ...                                            *)
LEMMA SumsExist ==
  ASSUME NEW step \in [Nat -> Nat]
  PROVE  \A n \in Nat : Sums(step, n) # {}
<1> DEFINE S == {n \in Nat : Sums(step, n) # {}}
<1>1. 0 \in S
  <2>1. [i \in 0 .. 0 |-> 0] \in Sums(step, 0)
    BY DEF Sums
  <2> QED BY <2>1
<1>2. ASSUME NEW n \in Nat, n \in S PROVE n + 1 \in S
  <2>1. PICK f \in Sums(step, n) : TRUE
    BY <1>2
  <2>2. /\ f \in [0 .. n -> Nat] /\ f[0] = 0
        /\ \A i \in 1 .. n : f[i] = f[i - 1] + step[i]
    BY <2>1 DEF Sums
  <2> DEFINE g == [i \in 0 .. n + 1 |-> IF i = n + 1 THEN f[n] + step[n + 1] ELSE f[i]]
  <2> HIDE DEF S
  <2>3. g \in [0 .. n + 1 -> Nat]
    <3>1. ASSUME NEW i \in 0 .. n + 1 PROVE g[i] \in Nat
      <4>1. CASE i = n + 1
        BY <2>2, <4>1, SMTT(30)
      <4>2. CASE i # n + 1
        <5>1. i \in 0 .. n
          BY <4>2
        <5> QED BY <2>2, <4>2, <5>1
      <4> QED BY <4>1, <4>2
    <3> QED BY <3>1
  <2>6. g[0] = 0
    BY <2>2
  <2>4. ASSUME NEW i \in 1 .. n + 1 PROVE g[i] = g[i - 1] + step[i]
    <3>1. i - 1 \in 0 .. n /\ g[i - 1] = f[i - 1]
      OBVIOUS
    <3>2. CASE i = n + 1
      BY <3>1, <3>2
    <3>3. CASE i # n + 1
      <4>1. i \in 1 .. n
        BY <3>3
      <4> QED BY <2>2, <3>1, <3>3, <4>1
    <3> QED BY <3>2, <3>3
  <2>5. g \in Sums(step, n + 1)
    BY <2>3, <2>4, <2>6 DEF Sums
  <2> QED BY <2>5 DEF S
<1> HIDE DEF S
<1>3. Nat \subseteq S
  BY <1>1, <1>2, InductionInSet
<1> QED BY <1>3 DEF S

(* ... and are the same wherever they end.                                 *)
LEMMA SumsUnique ==
  ASSUME NEW step \in [Nat -> Nat], NEW m \in Nat, NEW n \in Nat, m <= n,
         NEW f \in Sums(step, m), NEW g \in Sums(step, n)
  PROVE  f[m] = g[m]
<1> DEFINE S == {i \in Nat : i <= m => f[i] = g[i]}
<1>0. /\ f \in [0 .. m -> Nat] /\ f[0] = 0
      /\ \A i \in 1 .. m : f[i] = f[i - 1] + step[i]
      /\ g \in [0 .. n -> Nat] /\ g[0] = 0
      /\ \A i \in 1 .. n : g[i] = g[i - 1] + step[i]
  BY DEF Sums
<1>1. 0 \in S
  BY <1>0
<1>2. ASSUME NEW i \in Nat, i \in S PROVE i + 1 \in S
  <2> SUFFICES ASSUME i + 1 <= m PROVE f[i + 1] = g[i + 1]
    OBVIOUS
  <2>1. f[i] = g[i]
    BY <1>2
  <2> HIDE DEF S
  <2>3. i + 1 \in 1 .. m /\ i + 1 \in 1 .. n
    OBVIOUS
  <2>2. f[i + 1] = f[(i + 1) - 1] + step[i + 1] /\ g[i + 1] = g[(i + 1) - 1] + step[i + 1]
    BY <1>0, <2>3
  <2> QED BY <2>1, <2>2
<1> HIDE DEF S
<1>3. Nat \subseteq S
  BY <1>1, <1>2, InductionInSet
<1> QED BY <1>3 DEF S

(* A recursive definition of sums defines a function.                      *)
LEMMA SumRecursion ==
  ASSUME NEW step \in [Nat -> Nat]
  PROVE  \E g : g = [n \in Nat |-> IF n = 0 THEN 0 ELSE g[n - 1] + step[n]]
<1> DEFINE Some(n) == CHOOSE f \in Sums(step, n) : TRUE
           g == [n \in Nat |-> Some(n)[n]]
<1>1. \A n \in Nat : Some(n) \in Sums(step, n)
  BY SumsExist
<1>2. ASSUME NEW n \in Nat PROVE g[n] = IF n = 0 THEN 0 ELSE g[n - 1] + step[n]
  <2>1. CASE n = 0
    BY <1>1, <2>1 DEF Sums
  <2>2. CASE n # 0
    <3>0. n - 1 \in Nat /\ n \in 1 .. n
      BY <2>2
    <3>1. Some(n)[n] = Some(n)[n - 1] + step[n]
      BY <1>1, <3>0 DEF Sums
    <3> HIDE DEF Some
    <3>2. Some(n - 1)[n - 1] = Some(n)[n - 1]
      BY <1>1, <3>0, SumsUnique
    <3>3. g[n] = Some(n)[n] /\ g[n - 1] = Some(n - 1)[n - 1]
      BY <3>0
    <3> QED BY <2>2, <3>1, <3>2, <3>3
  <2> QED BY <2>1, <2>2
<1> HIDE DEF Some
<1>3. g = [n \in Nat |-> IF n = 0 THEN 0 ELSE g[n - 1] + step[n]]
  BY <1>2
<1> QED BY <1>3

(* Its values are natural numbers.                                         *)
LEMMA SumRecursionType ==
  ASSUME NEW step \in [Nat -> Nat],
         NEW g, g = [n \in Nat |-> IF n = 0 THEN 0 ELSE g[n - 1] + step[n]]
  PROVE  g \in [Nat -> Nat]
<1> DEFINE S == {n \in Nat : g[n] \in Nat}
<1>1. 0 \in S
  OBVIOUS
<1>2. ASSUME NEW n \in Nat, n \in S PROVE n + 1 \in S
  <2>1. g[n + 1] = g[(n + 1) - 1] + step[n + 1]
    OBVIOUS
  <2> QED BY <1>2, <2>1
<1> HIDE DEF S
<1>3. Nat \subseteq S
  BY <1>1, <1>2, InductionInSet
<1>4. \A n \in Nat : g[n] \in Nat
  BY <1>3 DEF S
<1>5. DOMAIN g = Nat /\ g = [n \in DOMAIN g |-> g[n]]
  OBVIOUS
<1> QED BY <1>4, <1>5

-----------------------------------------------------------------------------
(* Arithmetic that the provers find only in isolation.                     *)

(* A multiple has no remainder, the number after it the remainder of 1.    *)
LEMMA MultipleRemainder ==
  ASSUME NEW m \in Nat \ {0}, NEW k \in Nat
  PROVE  m * k \in Nat /\ (m * k) % m = 0
OBVIOUS

(* Rounding down to a multiple.                                            *)
LEMMA RoundedDown ==
  ASSUME NEW t \in Nat, NEW r \in Nat \ {0}
  PROVE  (t \div r) * r \in Nat /\ (t \div r) * r <= t
OBVIOUS

(* Products grow with their factors.                                       *)
LEMMA ProductMonotonic ==
  ASSUME NEW c \in Nat, NEW i \in Nat, NEW k \in Nat, i <= k
  PROVE  c * i \in Nat /\ c * i <= c * k
OBVIOUS

(* The next multiple.                                                      *)
LEMMA ProductNext ==
  ASSUME NEW c \in Nat, NEW i \in Nat
  PROVE  c * (i + 1) = c * i + c
OBVIOUS
=============================================================================
