-------------------------- MODULE FileParser_proofs --------------------------
(***************************************************************************)
(* Proofs about FileParser, for every script.  The reference cuts the      *)
(* whole text without comments; the parser sees one character at a time.   *)
(* The lemmas say what the reference makes of one more character.          *)
(***************************************************************************)
EXTENDS FileParser, NaturalLemmas, FiniteSetTheorems, SequenceTheorems

-----------------------------------------------------------------------------
(* The n-th member of a set of positions.                                  *)

(* Every number up to the cardinality has a member.                        *)
Counted(S) == \A n \in 1 .. Cardinality(S) : Nth(S, n) \in S

(* A set of positions with a member behind all others.                     *)
LEMMA NthAdded ==
  ASSUME NEW m \in Nat, NEW S \in SUBSET (1 .. m), Counted(S)
  PROVE  /\ IsFiniteSet(S) /\ Cardinality(S) \in Nat
         /\ Cardinality(S \cup {m + 1}) = Cardinality(S) + 1
         /\ \A n \in 1 .. Cardinality(S) : Nth(S \cup {m + 1}, n) = Nth(S, n)
         /\ Nth(S \cup {m + 1}, Cardinality(S) + 1) = m + 1
         /\ Counted(S \cup {m + 1})
<1> DEFINE T == S \cup {m + 1}
           c == Cardinality(S)
           Below(R, k) == {j \in R : j < k}
<1>1. IsFiniteSet(S) /\ c \in Nat
  <2>1. IsFiniteSet(1 .. m)
    BY FS_Interval
  <2> QED BY <2>1, FS_Subset, FS_CardinalityType
<1>2. m + 1 \notin S /\ \A k \in S : k < m + 1 /\ k \in Nat
  OBVIOUS
<1>3. Cardinality(T) = c + 1
  BY <1>1, <1>2, FS_AddElement
<1>4. Below(T, m + 1) = S
  <2>1. ~(m + 1 < m + 1)
    OBVIOUS
  <2>2. \A j : j \in Below(T, m + 1) <=> j \in S
    BY <1>2, <2>1
  <2> QED BY <2>2
<1>5. \A k \in S : Below(T, k) = Below(S, k)
  BY <1>2
<1>6. ASSUME NEW k \in S
      PROVE  Cardinality(Below(S, k)) \in Nat /\ Cardinality(Below(S, k)) < c
  <2>1. Below(S, k) \in SUBSET S /\ Below(S, k) # S
    BY <1>2
  <2>2. IsFiniteSet(Below(S, k)) /\ Cardinality(Below(S, k)) <= c
        /\ Cardinality(Below(S, k)) # c
    BY <1>1, <2>1, FS_Subset
  <2>3. Cardinality(Below(S, k)) \in Nat
    BY <2>2, FS_CardinalityType
  <2> QED BY <1>1, <2>2, <2>3
<1>7. ASSUME NEW n \in 1 .. c PROVE Nth(T, n) = Nth(S, n)
  <2>1. \A k : (k \in T /\ Cardinality(Below(T, k)) = n - 1)
                 <=> (k \in S /\ Cardinality(Below(S, k)) = n - 1)
    <3>1. c # n - 1
      BY <1>1
    <3> QED BY <1>2, <1>4, <1>5, <3>1
  <2> HIDE DEF T
  <2> QED BY <2>1 DEF Nth
<1>8. Nth(T, c + 1) = m + 1
  <2>1. \A k \in T : Cardinality(Below(T, k)) = (c + 1) - 1 <=> k = m + 1
    <3>1. (c + 1) - 1 = c
      BY <1>1
    <3>2. ASSUME NEW k \in S PROVE Cardinality(Below(T, k)) # c /\ k # m + 1
      BY <1>5, <1>6, <1>1, <1>2
    <3> QED BY <1>4, <3>1, <3>2
  <2>2. m + 1 \in T
    OBVIOUS
  <2> HIDE DEF T, c
  <2> QED BY <2>1, <2>2 DEF Nth
<1>9. Counted(T)
  <2> SUFFICES ASSUME NEW n \in 1 .. c + 1 PROVE Nth(T, n) \in T
    BY <1>3 DEF Counted
  <2>1. CASE n = c + 1
    BY <1>8, <2>1
  <2>2. CASE n # c + 1
    <3>1. n \in 1 .. c
      BY <1>1, <2>2
    <3> QED BY <1>7, <3>1 DEF Counted
  <2> QED BY <2>1, <2>2
<1> QED BY <1>1, <1>3, <1>7, <1>8, <1>9

-----------------------------------------------------------------------------
(* What one more character does to the reference.                          *)

(* Facts about a sequence with one more element, used by the following.    *)
LEMMA Longer ==
  ASSUME NEW A, NEW s \in Seq(A), NEW c \in A
  PROVE  /\ Len(s) \in Nat /\ Append(s, c) \in Seq(A)
         /\ Len(Append(s, c)) = Len(s) + 1
         /\ \A k \in 1 .. Len(s) : Append(s, c)[k] = s[k]
         /\ Append(s, c)[Len(s) + 1] = c
  OBVIOUS

(* The sequence with that element more is the only one.                    *)
LEMMA LongerOnly ==
  ASSUME NEW A, NEW s \in Seq(A), NEW c \in A, NEW f \in Seq(A),
         Len(f) = Len(s) + 1, \A k \in 1 .. Len(s) : f[k] = s[k], f[Len(s) + 1] = c
  PROVE  f = Append(s, c)
<1> DEFINE g == Append(s, c)
<1>1. g \in Seq(A) /\ Len(g) = Len(s) + 1 /\ Len(s) \in Nat
      /\ (\A k \in 1 .. Len(s) : g[k] = s[k]) /\ g[Len(s) + 1] = c
  BY Longer
<1> HIDE DEF g
<1>2. \A k \in 1 .. Len(s) + 1 : f[k] = g[k]
  BY <1>1
<1>3. f = g
  BY <1>1, <1>2
<1> QED BY <1>3 DEF g

(* The number of occurrences of a character.                               *)
LEMMA CountMore ==
  ASSUME NEW A, NEW s \in Seq(A), NEW c \in A, NEW d
  PROVE  /\ Count(s, d) \in Nat
         /\ c = d => Count(Append(s, c), d) = Count(s, d) + 1
         /\ c # d => Count(Append(s, c), d) = Count(s, d)
<1> DEFINE S == {k \in 1 .. Len(s) : s[k] = d}
           T == {k \in 1 .. Len(Append(s, c)) : Append(s, c)[k] = d}
           m == Len(s)
<1>1. IsFiniteSet(S) /\ Cardinality(S) \in Nat
  <2>1. IsFiniteSet(1 .. m)
    BY Longer, FS_Interval
  <2> QED BY <2>1, FS_Subset, FS_CardinalityType
<1>2. T = IF c = d THEN S \cup {m + 1} ELSE S
  <2>1. \A k : k \in T <=> k \in S \/ (k = m + 1 /\ c = d)
    BY Longer
  <2> HIDE DEF S, T
  <2> QED BY <2>1
<1>3. m + 1 \notin S
  BY Longer
<1>4. Cardinality(T) = Cardinality(S) + (IF c = d THEN 1 ELSE 0)
  <2>1. IF c = d THEN T = S \cup {m + 1} ELSE T = S
    BY <1>2
  <2> HIDE DEF S, T, m
  <2>2. CASE c = d
    <3>1. Cardinality(S \cup {m + 1}) = Cardinality(S) + 1
      BY <1>1, <1>3, FS_AddElement
    <3> QED BY <2>1, <2>2, <3>1
  <2>3. CASE c # d
    BY <1>1, <2>1, <2>3
  <2> QED BY <2>2, <2>3
<1>5. Count(s, d) = Cardinality(S) /\ Count(Append(s, c), d) = Cardinality(T)
  BY Zenon DEF Count
<1> HIDE DEF S, T
<1>6. (c = d => Cardinality(T) = Cardinality(S) + 1) /\ (c # d => Cardinality(T) = Cardinality(S))
  BY <1>1, <1>4
<1> QED BY <1>1, <1>5, <1>6, Zenon

(* A number of occurrences is a number.                                    *)
LEMMA CountIsNat ==
  ASSUME NEW A, NEW s \in Seq(A), NEW d
  PROVE  Count(s, d) \in Nat
<1>1. Len(s) \in Nat
  OBVIOUS
<1>2. IsFiniteSet(1 .. Len(s))
  BY <1>1, FS_Interval
<1>3. IsFiniteSet({k \in 1 .. Len(s) : s[k] = d})
  BY <1>2, FS_Subset
<1> QED BY <1>3, FS_CardinalityType DEF Count

(* The positions of the semicolons.                                        *)
LEMMA EndsMore ==
  ASSUME NEW A, NEW s \in Seq(A), NEW c \in A
  PROVE  /\ Ends(s) \in SUBSET (1 .. Len(s))
         /\ Ends(Append(s, c)) = IF c = Semicolon THEN Ends(s) \cup {Len(s) + 1} ELSE Ends(s)
<1> DEFINE t == Append(s, c)
           m == Len(s)
<1>1. m \in Nat /\ Len(t) = m + 1 /\ (\A k \in 1 .. m : t[k] = s[k]) /\ t[m + 1] = c
  BY Longer
<1>2. Ends(s) = {k \in 1 .. m : s[k] = Semicolon}
  BY DEF Ends
<1>5. Ends(t) = {k \in 1 .. m + 1 : t[k] = Semicolon}
  BY <1>1 DEF Ends
<1> HIDE DEF t, m
<1>3. \A k : k \in Ends(t) <=> k \in Ends(s) \/ (k = m + 1 /\ c = Semicolon)
  <2>1. \A k : k \in 1 .. m + 1 <=> k \in 1 .. m \/ k = m + 1
    BY <1>1
  <2>2. m + 1 \notin 1 .. m
    BY <1>1
  <2> QED BY <1>1, <1>2, <1>5, <2>1, <2>2, Zenon
<1>4. Ends(t) = IF c = Semicolon THEN Ends(s) \cup {m + 1} ELSE Ends(s)
  BY <1>3
<1> QED BY <1>2, <1>4 DEF t, m

(* Whether a character is in a comment depends on what was read before.    *)
LEMMA CommentedMore ==
  ASSUME NEW A, NEW s \in Seq(A), NEW c \in A
  PROVE  /\ \A k \in 1 .. Len(s) : Commented(Append(s, c), k) <=> Commented(s, k)
         /\ Commented(Append(s, c), Len(s) + 1) <=>
              c = "#" \/ (Commented(s, Len(s)) /\ c # "nl")
<1> DEFINE t == Append(s, c)
           m == Len(s)
<1>1. m \in Nat /\ (\A k \in 1 .. m : t[k] = s[k]) /\ t[m + 1] = c
  BY Longer
<1> HIDE DEF t, m
<1>2. ASSUME NEW k \in 1 .. m PROVE Commented(t, k) <=> Commented(s, k)
  <2>1. \A j \in 1 .. k : t[j] = s[j]
    BY <1>1
  <2>2. \A h \in 1 .. k : \A j \in h .. k : j \in 1 .. k
    BY <1>1
  <2>3. ASSUME Commented(t, k) PROVE Commented(s, k)
    <3>1. PICK h \in 1 .. k : t[h] = "#" /\ \A j \in h .. k : t[j] # "nl"
      BY <2>3 DEF Commented
    <3> QED BY <2>1, <2>2, <3>1 DEF Commented
  <2>4. ASSUME Commented(s, k) PROVE Commented(t, k)
    <3>1. PICK h \in 1 .. k : s[h] = "#" /\ \A j \in h .. k : s[j] # "nl"
      BY <2>4 DEF Commented
    <3> QED BY <2>1, <2>2, <3>1 DEF Commented
  <2> QED BY <2>3, <2>4
<1>3. ASSUME Commented(t, m + 1) PROVE c = "#" \/ (Commented(s, m) /\ c # "nl")
  <2>1. PICK h \in 1 .. m + 1 : t[h] = "#" /\ \A j \in h .. m + 1 : t[j] # "nl"
    BY <1>3 DEF Commented
  <2>2. CASE h = m + 1
    BY <1>1, <2>1, <2>2
  <2>3. CASE h # m + 1
    <3>1. h \in 1 .. m
      BY <1>1, <2>3
    <3>2. s[h] = "#" /\ \A j \in h .. m : s[j] # "nl"
      BY <1>1, <2>1, <3>1
    <3>3. t[m + 1] # "nl"
      BY <1>1, <2>1
    <3> QED BY <1>1, <3>1, <3>2, <3>3 DEF Commented
  <2> QED BY <2>2, <2>3
<1>4. ASSUME c = "#" PROVE Commented(t, m + 1)
  <2>1. m + 1 \in 1 .. m + 1 /\ (\A j \in m + 1 .. m + 1 : j = m + 1)
    BY <1>1
  <2> QED BY <1>1, <1>4, <2>1 DEF Commented
<1>5. ASSUME Commented(s, m), c # "nl" PROVE Commented(t, m + 1)
  <2>1. PICK h \in 1 .. m : s[h] = "#" /\ \A j \in h .. m : s[j] # "nl"
    BY <1>5 DEF Commented
  <2>2. h \in 1 .. m + 1 /\ t[h] = "#"
    BY <1>1, <2>1
  <2>3. ASSUME NEW j \in h .. m + 1 PROVE t[j] # "nl"
    <3>1. j = m + 1 \/ j \in h .. m
      BY <1>1
    <3> QED BY <1>1, <1>5, <2>1, <3>1
  <2> QED BY <2>2, <2>3 DEF Commented
<1> QED BY <1>2, <1>3, <1>4, <1>5 DEF t, m

(* The text without comments.                                              *)
LEMMA PlainMore ==
  ASSUME NEW A, NEW s \in Seq(A), NEW c \in A, Counted(Kept(s))
  PROVE  /\ Plain(s) \in Seq(A)
         /\ Counted(Kept(Append(s, c)))
         /\ Plain(Append(s, c)) =
              IF Commented(Append(s, c), Len(s) + 1) THEN Plain(s) ELSE Append(Plain(s), c)
<1> DEFINE t == Append(s, c)
           m == Len(s)
           S == Kept(s)
           n == Cardinality(S)
<1>1. m \in Nat /\ Len(t) = m + 1 /\ (\A k \in 1 .. m : t[k] = s[k] /\ s[k] \in A)
      /\ t[m + 1] = c
  BY Longer
<1>2. S \in SUBSET (1 .. m)
  BY DEF Kept
<1>3. /\ n \in Nat
      /\ Cardinality(S \cup {m + 1}) = n + 1
      /\ \A i \in 1 .. n : Nth(S \cup {m + 1}, i) = Nth(S, i)
      /\ Nth(S \cup {m + 1}, n + 1) = m + 1
      /\ Counted(S \cup {m + 1})
  <2> HIDE DEF m, S
  <2> QED BY <1>1, <1>2, NthAdded DEF S
<1>4. \A i \in 1 .. n : Nth(S, i) \in 1 .. m
  BY <1>2 DEF Counted
<1>5. Kept(t) = IF Commented(t, m + 1) THEN S ELSE S \cup {m + 1}
  <2>1. \A k \in 1 .. m : Commented(t, k) <=> Commented(s, k)
    BY CommentedMore
  <2> HIDE DEF t, m
  <2>2. \A k : k \in Kept(t) <=> k \in S \/ (k = m + 1 /\ ~Commented(t, m + 1))
    BY <1>1, <2>1 DEF Kept, m
  <2> HIDE DEF S
  <2> QED BY <2>2
<1>6. Plain(s) = [i \in 1 .. n |-> s[Nth(S, i)]]
  BY DEF Plain
<1> HIDE DEF t, m, S, n
<1>7. Plain(s) \in Seq(A) /\ Len(Plain(s)) = n
  <2>1. \A i \in 1 .. n : s[Nth(S, i)] \in A
    BY <1>1, <1>4
  <2> QED BY <1>3, <1>6, <2>1
<1>8. CASE Commented(t, m + 1)
  <2>1. Plain(t) = [i \in 1 .. n |-> t[Nth(S, i)]]
    BY <1>5, <1>8 DEF Plain, n
  <2>2. \A i \in 1 .. n : t[Nth(S, i)] = s[Nth(S, i)]
    BY <1>1, <1>4
  <2> QED BY <1>5, <1>6, <1>7, <1>8, <2>1, <2>2 DEF t, m, S
<1>9. CASE ~Commented(t, m + 1)
  <2> DEFINE T == S \cup {m + 1}
  <2>1. Plain(t) = [i \in 1 .. n + 1 |-> t[Nth(T, i)]]
    BY <1>3, <1>5, <1>9 DEF Plain
  <2>2. ASSUME NEW i \in 1 .. n PROVE t[Nth(T, i)] = Plain(s)[i]
    <3>1. Nth(T, i) = Nth(S, i) /\ Nth(S, i) \in 1 .. m
      BY <1>3, <1>4
    <3> QED BY <1>1, <1>6, <3>1
  <2>3. t[Nth(T, n + 1)] = c
    BY <1>1, <1>3
  <2> HIDE DEF T
  <2>4. Plain(t) = Append(Plain(s), c)
    <3> DEFINE P == Plain(s)
           Q == Plain(t)
    <3>1. P \in Seq(A) /\ Len(P) = n
      BY <1>7
    <3>2. \A i \in 1 .. n + 1 : t[Nth(T, i)] \in A
      <4>1. ASSUME NEW i \in 1 .. n PROVE Plain(s)[i] \in A
        BY <1>7
      <4> QED BY <1>3, <2>2, <2>3, <4>1
    <3>3. Q \in Seq(A) /\ Len(Q) = n + 1
      BY <1>3, <2>1, <3>2
    <3>4. (\A i \in 1 .. n : Q[i] = P[i]) /\ Q[n + 1] = c
      BY <1>3, <2>1, <2>2, <2>3
    <3> HIDE DEF P, Q
    <3>5. Q = Append(P, c)
      BY <3>1, <3>3, <3>4, LongerOnly
    <3> QED BY <3>5 DEF P, Q
  <2> QED BY <1>3, <1>5, <1>7, <1>9, <2>4 DEF t, m
<1> QED BY <1>8, <1>9

(* The last position of a set.                                             *)
LEMMA MaxOf ==
  ASSUME NEW m \in Nat, NEW S \in SUBSET (0 .. m), S # {}
  PROVE  Max(S) \in S /\ \A k \in S : k <= Max(S)
<1> DEFINE T == {n \in Nat : \A k \in S : k <= n}
<1>1. m \in T
  OBVIOUS
<1>2. PICK n \in T : \A k \in T : n <= k
  BY <1>1, LeastNatural
<1>3. n \in S
  <2> SUFFICES ASSUME n \notin S PROVE FALSE
    OBVIOUS
  <2>1. \A k \in S : k <= n - 1
    OBVIOUS
  <2>2. n - 1 \in Nat
    <3>1. PICK k \in S : TRUE
      OBVIOUS
    <3>2. k \in Nat /\ k <= n - 1
      BY <2>1
    <3> QED BY <3>2
  <2> QED BY <1>2, <2>1, <2>2
<1>4. \E x \in S : \A y \in S : x >= y
  BY <1>3
<1>5. Max(S) \in S /\ \A y \in S : Max(S) >= y
  BY <1>4, Zenon DEF Max
<1> QED BY <1>5

(* Where the text before position k begins.                                *)
From(t, k) == Max({j \in 1 .. k - 1 : t[j] \in Separators} \union {0}) + 1

(* It begins at the earliest with the first character.                     *)
LEMMA FromIn ==
  ASSUME NEW t, NEW k \in Nat \ {0}
  PROVE  From(t, k) \in 1 .. k
<1> DEFINE S == {j \in 1 .. k - 1 : t[j] \in Separators} \union {0}
<1>1. k - 1 \in Nat /\ S \in SUBSET (0 .. k - 1) /\ S # {}
  OBVIOUS
<1> HIDE DEF S
<1>2. Max(S) \in 0 .. k - 1
  <2> DEFINE m == k - 1
  <2>1. m \in Nat /\ S \in SUBSET (0 .. m)
    BY <1>1
  <2> HIDE DEF m
  <2>2. Max(S) \in S
    BY <1>1, <2>1, MaxOf
  <2> QED BY <2>1, <2>2 DEF m
<1> QED BY <1>2 DEF From, S

(* A part of a sequence.                                                   *)
LEMMA Part ==
  ASSUME NEW A, NEW s \in Seq(A), NEW i \in Nat \ {0}, NEW j \in 0 .. Len(s), i <= j + 1
  PROVE  /\ SubSeq(s, i, j) \in Seq(A)
         /\ Len(SubSeq(s, i, j)) = j - i + 1
         /\ \A k \in 1 .. j - i + 1 : SubSeq(s, i, j)[k] = s[i + k - 1]
<1>1. \A k \in i .. j : s[k] \in A
  OBVIOUS
<1> QED BY <1>1, SubSeqProperties

(* Where two sequences agree their parts are the same.                     *)
LEMMA SamePart ==
  ASSUME NEW A, NEW s \in Seq(A), NEW t \in Seq(A), NEW i \in Nat \ {0},
         NEW j \in 0 .. Len(s), j <= Len(t), i <= j + 1, \A k \in i .. j : s[k] = t[k]
  PROVE  SubSeq(s, i, j) = SubSeq(t, i, j)
<1> DEFINE x == SubSeq(s, i, j)
           y == SubSeq(t, i, j)
<1>1. /\ x \in Seq(A) /\ Len(x) = j - i + 1
      /\ \A k \in 1 .. j - i + 1 : x[k] = s[i + k - 1]
  BY Part
<1>2. /\ y \in Seq(A) /\ Len(y) = j - i + 1
      /\ \A k \in 1 .. j - i + 1 : y[k] = t[i + k - 1]
  <2>1. j \in 0 .. Len(t)
    OBVIOUS
  <2> QED BY <2>1, Part
<1> HIDE DEF x, y
<1>3. ASSUME NEW k \in 1 .. j - i + 1 PROVE x[k] = y[k]
  <2>1. i + k - 1 \in i .. j
    OBVIOUS
  <2> QED BY <1>1, <1>2, <2>1
<1>4. x = y
  BY <1>1, <1>2, <1>3
<1> QED BY <1>4 DEF x, y

(* A part that goes on to the next element.                                *)
LEMMA PartMore ==
  ASSUME NEW A, NEW s \in Seq(A), NEW i \in Nat \ {0}, NEW j \in 0 .. Len(s) - 1, i <= j + 1
  PROVE  SubSeq(s, i, j + 1) = Append(SubSeq(s, i, j), s[j + 1])
<1> DEFINE x == SubSeq(s, i, j)
           e == j + 1
           y == SubSeq(s, i, e)
<1>1. /\ x \in Seq(A) /\ Len(x) = j - i + 1
      /\ \A k \in 1 .. j - i + 1 : x[k] = s[i + k - 1]
  <2>1. j \in 0 .. Len(s)
    OBVIOUS
  <2> QED BY <2>1, Part
<1>2. /\ y \in Seq(A) /\ Len(y) = e - i + 1
      /\ \A k \in 1 .. e - i + 1 : y[k] = s[i + k - 1]
  <2>1. e \in 0 .. Len(s) /\ i <= e + 1
    OBVIOUS
  <2> HIDE DEF e
  <2> QED BY <2>1, Part
<1>3. s[e] \in A /\ e \in Nat
  OBVIOUS
<1>6. e = j + 1
  OBVIOUS
<1> HIDE DEF x, y, e
<1>4. Len(y) = Len(x) + 1 /\ (\A k \in 1 .. Len(x) : y[k] = x[k]) /\ y[Len(x) + 1] = s[e]
  <2>1. i + (Len(x) + 1) - 1 = e
    BY <1>1, <1>6
  <2> QED BY <1>1, <1>2, <1>6, <2>1
<1>5. y = Append(x, s[e])
  BY <1>1, <1>2, <1>3, <1>4, LongerOnly
<1> QED BY <1>5 DEF x, y, e

(* The text since the last separator.                                      *)
LEMMA TextMore ==
  ASSUME NEW A, NEW s \in Seq(A), NEW c \in A
  PROVE  /\ \A k \in 1 .. Len(s) + 1 : Text(Append(s, c), k) = Text(s, k)
         /\ c \in Separators => Text(Append(s, c), Len(s) + 2) = <<>>
         /\ c \notin Separators =>
              Text(Append(s, c), Len(s) + 2) = Append(Text(s, Len(s) + 1), c)
<1> DEFINE t == Append(s, c)
           m == Len(s)
<1>1. /\ m \in Nat /\ t \in Seq(A) /\ Len(t) = m + 1 /\ m = Len(s)
      /\ (\A k \in 1 .. m : t[k] = s[k]) /\ t[m + 1] = c
  BY Longer
<1>2. \A q, k : Text(q, k) = SubSeq(q, From(q, k), k - 1)
  BY DEF Text, From
<1> HIDE DEF t, m
<1>3. ASSUME NEW k \in 1 .. m + 1
      PROVE  /\ From(t, k) = From(s, k) /\ From(s, k) \in 1 .. k
             /\ SubSeq(t, From(s, k), k - 1) = SubSeq(s, From(s, k), k - 1)
  <2>1. {j \in 1 .. k - 1 : t[j] \in Separators} = {j \in 1 .. k - 1 : s[j] \in Separators}
    BY <1>1
  <2>2. From(t, k) = From(s, k) /\ From(s, k) \in 1 .. k
    <3>1. k \in Nat \ {0}
      BY <1>1
    <3> QED BY <2>1, <3>1, FromIn, Zenon DEF From
  <2> DEFINE i == From(s, k)
             e == k - 1
  <2>3. /\ i \in Nat \ {0} /\ e \in 0 .. Len(s) /\ e <= Len(t) /\ i <= e + 1
        /\ \A j \in i .. e : t[j] = s[j]
    <3>1. i \in 1 .. k
      BY <2>2
    <3> HIDE DEF i
    <3> QED BY <1>1, <3>1
  <2> HIDE DEF i, e
  <2>4. SubSeq(t, i, e) = SubSeq(s, i, e)
    BY <1>1, <2>3, SamePart
  <2> QED BY <2>2, <2>4 DEF i, e
<1>4. \A k \in 1 .. m + 1 : Text(t, k) = Text(s, k)
  BY <1>2, <1>3
<1>5. ASSUME c \in Separators PROVE Text(t, m + 2) = <<>>
  <2> DEFINE S == {j \in 1 .. (m + 2) - 1 : t[j] \in Separators} \union {0}
             n == m + 1
  <2>1. n \in S /\ n \in Nat /\ S \in SUBSET (0 .. n)
    BY <1>1, <1>5
  <2>2. Max(S) = n
    <3> HIDE DEF S, n
    <3>1. Max(S) \in S /\ n <= Max(S)
      BY <2>1, MaxOf
    <3>2. Max(S) \in 0 .. n
      BY <2>1, <3>1
    <3> QED BY <2>1, <3>1, <3>2
  <2>3. From(t, m + 2) = m + 2
    BY <1>1, <2>2 DEF From
  <2> QED BY <1>1, <1>2, <2>3, SubSeqEmpty
<1>6. ASSUME c \notin Separators PROVE Text(t, m + 2) = Append(Text(s, m + 1), c)
  <2>1. {j \in 1 .. (m + 2) - 1 : t[j] \in Separators}
          = {j \in 1 .. (m + 1) - 1 : t[j] \in Separators}
    BY <1>1, <1>6
  <2>2. From(t, m + 2) = From(t, m + 1)
    BY <2>1, Zenon DEF From
  <2> DEFINE i == From(s, m + 1)
  <2>3. i \in 1 .. m + 1 /\ From(t, m + 2) = i /\ SubSeq(t, i, m) = SubSeq(s, i, m)
        /\ (m + 2) - 1 = m + 1 /\ (m + 1) - 1 = m
    <3>1. m + 1 \in 1 .. m + 1 /\ (m + 1) - 1 = m /\ (m + 2) - 1 = m + 1
      BY <1>1
    <3> DEFINE k == m + 1
    <3>2. /\ From(t, k) = From(s, k) /\ From(s, k) \in 1 .. k
          /\ SubSeq(t, From(s, k), k - 1) = SubSeq(s, From(s, k), k - 1)
      BY <1>3, <3>1, Zenon
    <3> QED BY <2>2, <3>1, <3>2
  <2> HIDE DEF i
  <2>4. SubSeq(t, i, m + 1) = Append(SubSeq(t, i, m), t[m + 1])
    <3>1. i \in Nat \ {0} /\ m \in 0 .. Len(t) - 1 /\ i <= m + 1
      BY <1>1, <2>3
    <3> QED BY <1>1, <3>1, PartMore
  <2>5. Text(t, m + 2) = SubSeq(t, i, m + 1) /\ Text(s, m + 1) = SubSeq(s, i, m)
    <3>1. Text(t, m + 2) = SubSeq(t, From(t, m + 2), (m + 2) - 1)
      BY <1>2, Zenon
    <3>2. Text(s, m + 1) = SubSeq(s, From(s, m + 1), (m + 1) - 1)
      BY <1>2, Zenon
    <3> QED BY <2>3, <3>1, <3>2 DEF i
  <2> QED BY <1>1, <2>3, <2>4, <2>5
<1> QED BY <1>4, <1>5, <1>6 DEF t, m

(* The text without comments is made of characters of the script.          *)
LEMMA PlainTyped ==
  ASSUME NEW A, NEW s \in Seq(A), Counted(Kept(s))
  PROVE  Plain(s) \in Seq(A)
<1> DEFINE S == Kept(s)
           n == Cardinality(S)
<1>1. S \in SUBSET (1 .. Len(s)) /\ Len(s) \in Nat
  BY DEF Kept
<1>2. n \in Nat
  <2>1. IsFiniteSet(1 .. Len(s))
    BY <1>1, FS_Interval
  <2> QED BY <1>1, <2>1, FS_Subset, FS_CardinalityType
<1>3. Plain(s) = [i \in 1 .. n |-> s[Nth(S, i)]]
  BY DEF Plain
<1>4. \A i \in 1 .. n : s[Nth(S, i)] \in A
  BY <1>1 DEF Counted
<1> HIDE DEF S, n
<1> QED BY <1>2, <1>3, <1>4

(* Nothing follows a separator at the end.                                 *)
LEMMA TextEmpty ==
  ASSUME NEW A, NEW s \in Seq(A), s # <<>>, s[Len(s)] \in Separators
  PROVE  Text(s, Len(s) + 1) = <<>>
<1> DEFINE n == Len(s)
           S == {j \in 1 .. (n + 1) - 1 : s[j] \in Separators} \union {0}
<1>1. n \in Nat /\ n >= 1
  OBVIOUS
<1>2. n \in S /\ S \in SUBSET (0 .. n)
  <2>1. (n + 1) - 1 = n
    BY <1>1
  <2> HIDE DEF n
  <2> QED BY <1>1, <2>1 DEF n
<1>3. Max(S) = n
  <2> HIDE DEF S, n
  <2>1. Max(S) \in S /\ n <= Max(S)
    BY <1>1, <1>2, MaxOf
  <2>2. Max(S) \in 0 .. n
    BY <1>2, <2>1
  <2> QED BY <1>1, <2>1, <2>2
<1>4. Text(s, n + 1) = SubSeq(s, Max(S) + 1, (n + 1) - 1)
  BY Zenon DEF Text
<1> HIDE DEF S, n
<1>5. Text(s, n + 1) = <<>>
  BY <1>1, <1>3, <1>4, SubSeqEmpty
<1> QED BY <1>5 DEF n

-----------------------------------------------------------------------------
(* The inductive invariant: the parser against the reference for what it   *)
(* has read.                                                               *)

Seen == SubSeq(file, 1, pos)
Script == Plain(Seen)
Between == state \in {"reading", "done", "blocks"}

States == {"reading", "timestamp", "keyword", "parameters", "compiling", "done", "syntax",
           "refused", "blocks"}

Types ==
  /\ file \in Seq(Characters) /\ pos \in 0 .. Len(file)
  /\ state \in States /\ comment \in BOOLEAN
  /\ delivered \in Seq({delivered[i] : i \in DOMAIN delivered})

(* What depends on the characters alone.                                   *)
CharInv ==
  /\ Counted(Kept(Seen)) /\ Counted(Ends(Script))
  /\ comment <=> Commented(Seen, pos)
  /\ lineNbr = 1 + Count(Seen, "nl")
  /\ openControlBlocks = Count(Script, BraceOpen) - Count(Script, BraceClose)

(* The buffer holds what follows the last separator; while an instruction  *)
(* is parsed, what precedes its semicolon.                                 *)
BufferInv ==
  /\ Between => instructionBuffer = Text(Script, Len(Script) + 1)
  /\ ~Between =>
       /\ Script # <<>> /\ Script[Len(Script)] = Semicolon
       /\ instructionBuffer = Text(Script, Len(Script))
       /\ Nth(Ends(Script), Cardinality(Ends(Script))) = Len(Script)

(* What was compiled are the instructions before that.                     *)
DeliveredInv ==
  /\ Len(delivered) + (IF Between THEN 0 ELSE 1) = Cardinality(Ends(Script))
  /\ \A n \in 1 .. Len(delivered) : delivered[n].text = Text(Script, Nth(Ends(Script), n))

(* The last closing brace is wrong.                                        *)
BraceWrong(t) ==
  /\ t # <<>> /\ t[Len(t)] = BraceClose
  /\ Count(t, BraceClose) > Count(t, BraceOpen) \/ ~Consists(Text(t, Len(t)), Blanks)

BlockInv ==
  /\ state = "reading" => ~BraceWrong(Script)
  /\ state = "blocks" => BlocksWrong(Script)
  /\ state = "done" => ~BlocksWrong(Script)

ScriptInv == Types /\ CharInv /\ BufferInv /\ DeliveredInv /\ BlockInv

(* The end of a non-empty sequence.                                        *)
LEMMA LastOfLonger ==
  ASSUME NEW A, NEW s \in Seq(A), NEW c \in A
  PROVE  Append(s, c) # <<>> /\ Append(s, c)[Len(Append(s, c))] = c
<1>1. Len(Append(s, c)) = Len(s) + 1 /\ Len(s) \in Nat /\ Append(s, c)[Len(s) + 1] = c
  BY Longer
<1>2. Len(Append(s, c)) # Len(<<>>)
  BY <1>1
<1> QED BY <1>1, <1>2

(* The invariant before the first character.                               *)
LEMMA ScriptInit == Init => ScriptInv
<1> SUFFICES ASSUME Init PROVE ScriptInv
  OBVIOUS
<1>1. file \in Seq(Characters) /\ pos = 0 /\ Len(file) \in Nat
  BY ScriptAssumption DEF Init
<1>2. Seen = <<>>
  BY <1>1, SubSeqEmpty DEF Seen
<1>3. Kept(<<>>) = {} /\ Ends(<<>>) = {} /\ \A d : Count(<<>>, d) = 0
  <2>1. Len(<<>>) = 0 /\ 1 .. 0 = {}
    OBVIOUS
  <2>2. Kept(<<>>) = {} /\ Ends(<<>>) = {} /\ \A d : {k \in 1 .. Len(<<>>) : <<>>[k] = d} = {}
    BY <2>1, Zenon DEF Kept, Ends
  <2> QED BY <2>2, FS_EmptySet, Zenon DEF Count
<1>4. Cardinality({}) = 0 /\ Counted({})
  BY FS_EmptySet DEF Counted
<1>5. Script = <<>>
  <2> DEFINE f == [n \in 1 .. 0 |-> <<>>[Nth({}, n)]]
  <2>1. Plain(<<>>) = f
    BY <1>3, <1>4, Zenon DEF Plain
  <2>2. f \in Seq({}) /\ Len(f) = 0
    OBVIOUS
  <2> HIDE DEF f
  <2>3. f = <<>>
    BY <2>2
  <2> QED BY <1>2, <2>1, <2>3, Zenon DEF Script
<1>6. Types
  <2>1. <<>> \in Seq({<<>>[i] : i \in DOMAIN <<>>})
    OBVIOUS
  <2>2. delivered = <<>> /\ state = "reading" /\ comment = FALSE
    BY DEF Init
  <2>3. delivered \in Seq({delivered[i] : i \in DOMAIN delivered})
    BY <2>1, <2>2, Zenon
  <2>4. state \in States /\ comment \in BOOLEAN
    BY <2>2, Zenon DEF States
  <2>5. pos \in 0 .. Len(file)
    BY <1>1
  <2> QED BY <1>1, <2>3, <2>4, <2>5, Zenon DEF Types
<1>7. CharInv
  <2>1. ~Commented(Seen, pos)
    BY <1>1 DEF Commented
  <2>2. comment = FALSE
    BY DEF Init
  <2>6. lineNbr = 1 /\ openControlBlocks = 0
    BY DEF Init
  <2>3. Counted(Kept(Seen)) /\ Counted(Ends(Script))
    BY <1>2, <1>3, <1>4, <1>5, Zenon
  <2>4. Count(Seen, "nl") = 0 /\ Count(Script, BraceOpen) = 0 /\ Count(Script, BraceClose) = 0
    BY <1>2, <1>3, <1>5, Zenon
  <2>5. /\ lineNbr = 1 + Count(Seen, "nl")
        /\ openControlBlocks = Count(Script, BraceOpen) - Count(Script, BraceClose)
    <3> DEFINE x == Count(Seen, "nl")
               y == Count(Script, BraceOpen)
               z == Count(Script, BraceClose)
    <3>1. x = 0 /\ y = 0 /\ z = 0
      BY <2>4, Zenon
    <3> HIDE DEF x, y, z
    <3>2. lineNbr = 1 + x /\ openControlBlocks = y - z
      BY <2>6, <3>1
    <3> QED BY <3>2, Zenon DEF x, y, z
  <2> QED BY <2>1, <2>2, <2>3, <2>5, Zenon DEF CharInv
<1>8. Text(<<>>, 1) = <<>>
  <2>1. From(<<>>, 1) \in 1 .. 1
    BY FromIn
  <2>2. Text(<<>>, 1) = SubSeq(<<>>, From(<<>>, 1), 1 - 1)
    BY Zenon DEF Text, From
  <2> QED BY <2>1, <2>2, SubSeqEmpty
<1>9. BufferInv /\ DeliveredInv /\ BlockInv
  <2>1. Len(<<>>) + 1 = 1
    OBVIOUS
  <2> QED BY <1>3, <1>4, <1>5, <1>8, <2>1
        DEF Init, BufferInv, DeliveredInv, BlockInv, BraceWrong, Between
<1> QED BY <1>6, <1>7, <1>9 DEF ScriptInv

(* A character is read: what it does to the reference, to comments and to  *)
(* the line number.                                                        *)
LEMMA ReadMore ==
  ASSUME ScriptInv, NEW c, Read(c)
  PROVE  /\ c \in Characters /\ Script \in Seq(Characters)
         /\ file' \in Seq(Characters) /\ pos' \in 0 .. Len(file') /\ comment' \in BOOLEAN
         /\ Script' = IF CommentAfter(c) THEN Script ELSE Append(Script, c)
         /\ Counted(Kept(Seen'))
         /\ comment' <=> Commented(Seen', pos')
         /\ lineNbr' = 1 + Count(Seen', "nl")
<1>1. /\ file \in Seq(Characters) /\ pos \in Nat /\ pos + 1 \in 1 .. Len(file)
      /\ c = file[pos + 1] /\ pos' = pos + 1 /\ file' = file /\ comment \in BOOLEAN
  BY DEF ScriptInv, Types, Read, Getc
<1>2. c \in Characters /\ pos' \in 0 .. Len(file')
  BY <1>1
<1>3. Seen \in Seq(Characters) /\ Len(Seen) = pos
  <2>1. pos \in 0 .. Len(file) /\ 1 <= pos + 1
    BY <1>1
  <2> QED BY <1>1, <2>1, Part DEF Seen
<1>4. Seen' = Append(Seen, c)
  <2>1. pos \in 0 .. Len(file) - 1 /\ 1 <= pos + 1
    BY <1>1
  <2>2. SubSeq(file, 1, pos + 1) = Append(SubSeq(file, 1, pos), file[pos + 1])
    BY <1>1, <2>1, PartMore
  <2> QED BY <1>1, <2>2 DEF Seen
<1>5. /\ Counted(Kept(Seen)) /\ (comment <=> Commented(Seen, Len(Seen)))
      /\ lineNbr = 1 + Count(Seen, "nl")
  BY <1>3, Zenon DEF ScriptInv, CharInv
<1>6. Commented(Seen', pos') <=> CommentAfter(c)
  <2>1. Commented(Append(Seen, c), Len(Seen) + 1) <=>
          c = "#" \/ (Commented(Seen, Len(Seen)) /\ c # "nl")
    BY <1>2, <1>3, CommentedMore
  <2>2. pos' = Len(Seen) + 1
    BY <1>1, <1>3
  <2> QED BY <1>4, <1>5, <2>1, <2>2, Zenon DEF CommentAfter
<1>7. /\ Script \in Seq(Characters) /\ Counted(Kept(Seen'))
      /\ Plain(Seen') = IF Commented(Seen', pos') THEN Script ELSE Append(Script, c)
  <2>1. /\ Plain(Seen) \in Seq(Characters) /\ Counted(Kept(Append(Seen, c)))
        /\ Plain(Append(Seen, c)) =
             IF Commented(Append(Seen, c), Len(Seen) + 1) THEN Plain(Seen)
             ELSE Append(Plain(Seen), c)
    BY <1>2, <1>3, <1>5, PlainMore
  <2>2. pos' = Len(Seen) + 1
    BY <1>1, <1>3
  <2> QED BY <1>4, <2>1, <2>2, Zenon DEF Script
<1>8. Script' = IF CommentAfter(c) THEN Script ELSE Append(Script, c)
  BY <1>6, <1>7 DEF Script
<1>9. lineNbr' = 1 + Count(Seen', "nl")
  <2>1. Count(Seen, "nl") \in Nat
        /\ (c = "nl" => Count(Append(Seen, c), "nl") = Count(Seen, "nl") + 1)
        /\ (c # "nl" => Count(Append(Seen, c), "nl") = Count(Seen, "nl"))
    BY <1>2, <1>3, CountMore
  <2>2. lineNbr' = IF c = "nl" THEN lineNbr + 1 ELSE lineNbr
    BY DEF Read, LineAfter
  <2> QED BY <1>4, <1>5, <2>1, <2>2
<1>10. (comment' <=> Commented(Seen', pos')) /\ comment' \in BOOLEAN
  <2>1. comment' = CommentAfter(c) /\ CommentAfter(c) \in BOOLEAN
    BY <1>1 DEF Read, CommentAfter
  <2> QED BY <1>6, <2>1
<1> QED BY <1>1, <1>2, <1>7, <1>8, <1>9, <1>10

(* The separators are three characters.                                    *)
LEMMA SeparatorsDiffer ==
  /\ Semicolon # BraceOpen /\ Semicolon # BraceClose /\ BraceOpen # BraceClose
  BY Zenon DEF Semicolon, BraceOpen, BraceClose

(* A character of a comment: the reference does not see it.                *)
LEMMA SkipInv ==
  ASSUME ScriptInv, NEW c, Skip(c)
  PROVE  ScriptInv'
<1>1. Read(c) /\ CommentAfter(c) /\ state = "reading"
      /\ UNCHANGED <<instructionBuffer, openControlBlocks, state, delivered>>
  BY DEF Skip, Read, Getc
<1>2. /\ file' \in Seq(Characters) /\ pos' \in 0 .. Len(file') /\ comment' \in BOOLEAN
      /\ Script' = Script /\ Counted(Kept(Seen'))
      /\ (comment' <=> Commented(Seen', pos')) /\ lineNbr' = 1 + Count(Seen', "nl")
  BY <1>1, ReadMore
<1>3. Types'
  BY <1>1, <1>2, Zenon DEF ScriptInv, Types
<1>4. CharInv'
  BY <1>1, <1>2, Zenon DEF ScriptInv, CharInv
<1>5. BufferInv' /\ DeliveredInv'
  BY <1>1, <1>2, Zenon DEF ScriptInv, BufferInv, DeliveredInv, Between
<1>6. BlockInv'
  BY <1>1, <1>2 DEF ScriptInv, BlockInv
<1> QED BY <1>3, <1>4, <1>5, <1>6 DEF ScriptInv

(* Any other character: it is the next one of the reference.               *)
LEMMA PlainChar ==
  ASSUME ScriptInv, NEW c, Read(c), ~CommentAfter(c), state' \in States,
         c = BraceOpen => openControlBlocks' = openControlBlocks + 1,
         c = BraceClose => openControlBlocks' = openControlBlocks - 1,
         c \notin {BraceOpen, BraceClose} => openControlBlocks' = openControlBlocks
  PROVE  /\ Types' /\ CharInv'
         /\ c \in Characters /\ Script \in Seq(Characters) /\ Script' = Append(Script, c)
         /\ Len(Script) \in Nat /\ Len(Script') = Len(Script) + 1
         /\ Script' # <<>> /\ Script'[Len(Script')] = c
         /\ Ends(Script) \in SUBSET (1 .. Len(Script)) /\ Counted(Ends(Script))
         /\ Ends(Script') =
              IF c = Semicolon THEN Ends(Script) \cup {Len(Script) + 1} ELSE Ends(Script)
         /\ state = "reading" /\ delivered' = delivered
<1>1. /\ c \in Characters /\ Script \in Seq(Characters)
      /\ file' \in Seq(Characters) /\ pos' \in 0 .. Len(file') /\ comment' \in BOOLEAN
      /\ Script' = Append(Script, c) /\ Counted(Kept(Seen'))
      /\ (comment' <=> Commented(Seen', pos')) /\ lineNbr' = 1 + Count(Seen', "nl")
  BY ReadMore
<1>2. state = "reading" /\ delivered' = delivered
  BY DEF Read, Getc
<1>3. Types'
  BY <1>1, <1>2, Zenon DEF ScriptInv, Types
<1>4. /\ Len(Script) \in Nat /\ Len(Script') = Len(Script) + 1
      /\ Script' # <<>> /\ Script'[Len(Script')] = c
  BY <1>1, Longer, LastOfLonger
<1>5. /\ Ends(Script) \in SUBSET (1 .. Len(Script)) /\ Counted(Ends(Script))
      /\ Ends(Script') = IF c = Semicolon THEN Ends(Script) \cup {Len(Script) + 1} ELSE Ends(Script)
  <2>1. Counted(Ends(Script))
    BY DEF ScriptInv, CharInv
  <2> QED BY <1>1, <2>1, EndsMore
<1>6. Counted(Ends(Script'))
  <2>1. CASE c = Semicolon
    <3>1. Counted(Ends(Script) \cup {Len(Script) + 1})
      BY <1>4, <1>5, NthAdded
    <3> QED BY <1>5, <2>1, <3>1
  <2>2. CASE c # Semicolon
    BY <1>5, <2>2
  <2> QED BY <2>1, <2>2
<1>7. openControlBlocks' = Count(Script', BraceOpen) - Count(Script', BraceClose)
  <2> DEFINE a == Count(Script, BraceOpen)
             b == Count(Script, BraceClose)
             p == Count(Script', BraceOpen)
             q == Count(Script', BraceClose)
  <2>1. /\ Count(Script, BraceOpen) \in Nat
        /\ (c = BraceOpen => Count(Append(Script, c), BraceOpen) = Count(Script, BraceOpen) + 1)
        /\ (c # BraceOpen => Count(Append(Script, c), BraceOpen) = Count(Script, BraceOpen))
    BY <1>1, CountMore
  <2>2. /\ Count(Script, BraceClose) \in Nat
        /\ (c = BraceClose => Count(Append(Script, c), BraceClose) = Count(Script, BraceClose) + 1)
        /\ (c # BraceClose => Count(Append(Script, c), BraceClose) = Count(Script, BraceClose))
    BY <1>1, CountMore
  <2>3. a \in Nat /\ (c = BraceOpen => p = a + 1) /\ (c # BraceOpen => p = a)
    BY <1>1, <2>1, Zenon
  <2>4. b \in Nat /\ (c = BraceClose => q = b + 1) /\ (c # BraceClose => q = b)
    BY <1>1, <2>2, Zenon
  <2>5. openControlBlocks = a - b
    BY DEF ScriptInv, CharInv
  <2> HIDE DEF a, b, p, q
  <2>6. openControlBlocks' = p - q
    <3>1. CASE c = BraceOpen
      BY <2>3, <2>4, <2>5, <3>1, SeparatorsDiffer
    <3>2. CASE c = BraceClose
      BY <2>3, <2>4, <2>5, <3>2, SeparatorsDiffer
    <3>3. CASE c \notin {BraceOpen, BraceClose}
      BY <2>3, <2>4, <2>5, <3>3
    <3> QED BY <3>1, <3>2, <3>3
  <2> QED BY <2>6, Zenon DEF p, q
<1>8. CharInv'
  BY <1>1, <1>6, <1>7, Zenon DEF CharInv
<1> QED BY <1>1, <1>2, <1>3, <1>4, <1>5, <1>8

(* The instructions of the reference before that character stay what they  *)
(* are, and a semicolon ends another one.                                  *)
LEMMA DeliveredMore ==
  ASSUME ScriptInv, NEW c \in Characters, Script \in Seq(Characters),
         Script' = Append(Script, c), state = "reading", delivered' = delivered,
         Ends(Script') = IF c = Semicolon THEN Ends(Script) \cup {Len(Script) + 1}
                         ELSE Ends(Script),
         Between' <=> c # Semicolon
  PROVE  /\ DeliveredInv'
         /\ c = Semicolon =>
              Nth(Ends(Script'), Cardinality(Ends(Script'))) = Len(Script')
<1> DEFINE E == Ends(Script)
           m == Len(Script)
           d == Cardinality(E)
<1>1. Counted(E) /\ Len(delivered) + 0 = d
      /\ \A n \in 1 .. Len(delivered) : delivered[n].text = Text(Script, Nth(E, n))
  BY DEF ScriptInv, CharInv, DeliveredInv, Between
<1>2. m \in Nat /\ E \in SUBSET (1 .. m) /\ Len(Script') = m + 1
  BY Longer, EndsMore
<1>3. \A k \in 1 .. m + 1 : Text(Script', k) = Text(Script, k)
  <2>1. \A k \in 1 .. Len(Script) + 1 : Text(Append(Script, c), k) = Text(Script, k)
    BY TextMore
  <2> QED BY <2>1, Zenon
<1>4. Len(delivered) = d /\ d \in Nat
  <2>1. Len(delivered) \in Nat
    BY DEF ScriptInv, Types
  <2> QED BY <1>1, <2>1
<1>5. \A n \in 1 .. d : Text(Script', Nth(E, n)) = Text(Script, Nth(E, n))
  <2>1. \A n \in 1 .. d : Nth(E, n) \in 1 .. m
    BY <1>1, <1>2 DEF Counted
  <2>2. \A k \in 1 .. m : k \in 1 .. m + 1
    BY <1>2
  <2> HIDE DEF E, d, m
  <2> QED BY <1>3, <2>1, <2>2
<1>6. CASE c # Semicolon
  <2>1. Ends(Script') = E /\ Between'
    BY <1>6
  <2> HIDE DEF E, d, m
  <2>2. Cardinality(E) = d
    BY DEF d
  <2>3. Len(delivered') + 0 = d
    BY <1>4
  <2>4. \A n \in 1 .. d : delivered[n].text = Text(Script', Nth(E, n))
    BY <1>1, <1>4, <1>5
  <2> QED BY <1>4, <1>6, <2>1, <2>2, <2>3, <2>4, Zenon DEF DeliveredInv
<1>7. CASE c = Semicolon
  <2> DEFINE F == E \cup {m + 1}
  <2>1. Ends(Script') = F /\ ~Between'
    BY <1>7
  <2> HIDE DEF E, m
  <2>2. /\ Cardinality(F) = d + 1 /\ Nth(F, d + 1) = m + 1
        /\ \A n \in 1 .. d : Nth(F, n) = Nth(E, n)
    BY <1>1, <1>2, NthAdded DEF d
  <2> HIDE DEF F, d
  <2>3. Len(delivered') + 1 = Cardinality(F) /\ Len(delivered') = d
    BY <1>4, <2>2
  <2>4. \A n \in 1 .. d : delivered[n].text = Text(Script', Nth(F, n))
    BY <1>1, <1>4, <1>5, <2>2
  <2>5. DeliveredInv'
    BY <2>1, <2>3, <2>4, Zenon DEF DeliveredInv
  <2>6. Nth(Ends(Script'), Cardinality(Ends(Script'))) = Len(Script')
    BY <1>2, <2>1, <2>2
  <2> QED BY <2>5, <2>6
<1> QED BY <1>6, <1>7

(* What the actions for such a character have in common.                   *)
LEMMA PlainStep ==
  ASSUME ScriptInv, NEW c, Read(c), ~CommentAfter(c), state' \in States,
         c = BraceOpen => openControlBlocks' = openControlBlocks + 1,
         c = BraceClose => openControlBlocks' = openControlBlocks - 1,
         c \notin {BraceOpen, BraceClose} => openControlBlocks' = openControlBlocks,
         Between' <=> c # Semicolon
  PROVE  /\ Types' /\ CharInv' /\ DeliveredInv'
         /\ c = Semicolon =>
              Nth(Ends(Script'), Cardinality(Ends(Script'))) = Len(Script')
         /\ Script' \in Seq(Characters) /\ Script' # <<>> /\ Script'[Len(Script')] = c
         /\ Text(Script', Len(Script')) = instructionBuffer
         /\ c \in Separators => Text(Script', Len(Script') + 1) = <<>>
         /\ c \notin Separators =>
              Text(Script', Len(Script') + 1) = Append(instructionBuffer, c)
<1>1. /\ Types' /\ CharInv'
      /\ c \in Characters /\ Script \in Seq(Characters) /\ Script' = Append(Script, c)
      /\ Len(Script) \in Nat /\ Len(Script') = Len(Script) + 1
      /\ Script' # <<>> /\ Script'[Len(Script')] = c
      /\ Ends(Script') = IF c = Semicolon THEN Ends(Script) \cup {Len(Script) + 1}
                         ELSE Ends(Script)
      /\ state = "reading" /\ delivered' = delivered
  BY PlainChar
<1>2. /\ DeliveredInv'
      /\ c = Semicolon => Nth(Ends(Script'), Cardinality(Ends(Script'))) = Len(Script')
  BY <1>1, DeliveredMore
<1>3. /\ \A k \in 1 .. Len(Script) + 1 : Text(Append(Script, c), k) = Text(Script, k)
      /\ c \in Separators => Text(Append(Script, c), Len(Script) + 2) = <<>>
      /\ c \notin Separators =>
           Text(Append(Script, c), Len(Script) + 2) = Append(Text(Script, Len(Script) + 1), c)
  BY <1>1, TextMore
<1>4. instructionBuffer = Text(Script, Len(Script) + 1)
  BY <1>1 DEF ScriptInv, BufferInv, Between
<1>5. Len(Script') + 1 = Len(Script) + 2 /\ Len(Script) + 1 \in 1 .. Len(Script) + 1
  BY <1>1
<1>6. Text(Script', Len(Script')) = instructionBuffer
  BY <1>1, <1>3, <1>4, <1>5, Zenon
<1>7. /\ c \in Separators => Text(Script', Len(Script') + 1) = <<>>
      /\ c \notin Separators =>
           Text(Script', Len(Script') + 1) = Append(instructionBuffer, c)
  BY <1>1, <1>3, <1>4, <1>5, Zenon
<1>8. Script' \in Seq(Characters)
  BY <1>1, Longer
<1> QED BY <1>1, <1>2, <1>6, <1>7, <1>8

(* A character that is stored.                                             *)
LEMMA StoreInv ==
  ASSUME ScriptInv, NEW c, Store(c)
  PROVE  ScriptInv'
<1>1. /\ Read(c) /\ ~CommentAfter(c) /\ c \notin Separators /\ state = "reading"
      /\ instructionBuffer' = Append(instructionBuffer, c)
      /\ openControlBlocks' = openControlBlocks /\ state' = state
  BY DEF Store, Read, Getc
<1>2. c # Semicolon /\ c \notin {BraceOpen, BraceClose}
  BY <1>1 DEF Separators
<1>3. Between' /\ state' \in States
  BY <1>1 DEF Between, States
<1>4. /\ Types' /\ CharInv' /\ DeliveredInv'
      /\ Script'[Len(Script')] = c
      /\ Text(Script', Len(Script') + 1) = Append(instructionBuffer, c)
  BY <1>1, <1>2, <1>3, PlainStep
<1>5. BufferInv'
  BY <1>1, <1>3, <1>4, Zenon DEF BufferInv
<1>6. BlockInv'
  BY <1>1, <1>2, <1>4 DEF BlockInv, BraceWrong
<1> QED BY <1>4, <1>5, <1>6 DEF ScriptInv

(* A semicolon: the instruction in front of it is parsed.                  *)
LEMMA InstructionInv ==
  ASSUME ScriptInv, NEW c, Instruction(c)
  PROVE  ScriptInv'
<1>1. /\ Read(c) /\ ~CommentAfter(c) /\ c = Semicolon
      /\ instructionBuffer' = instructionBuffer
      /\ openControlBlocks' = openControlBlocks /\ state' = "timestamp"
  BY DEF Instruction
<1>2. c \notin {BraceOpen, BraceClose}
  BY <1>1, SeparatorsDiffer
<1>3. ~Between' /\ state' \in States
  BY <1>1 DEF Between, States
<1>4. /\ Types' /\ CharInv' /\ DeliveredInv'
      /\ Nth(Ends(Script'), Cardinality(Ends(Script'))) = Len(Script')
      /\ Script' # <<>> /\ Script'[Len(Script')] = c
      /\ Text(Script', Len(Script')) = instructionBuffer
  BY <1>1, <1>2, <1>3, PlainStep
<1>5. BufferInv'
  BY <1>1, <1>3, <1>4, Zenon DEF BufferInv
<1>6. BlockInv'
  BY <1>1 DEF BlockInv
<1> QED BY <1>4, <1>5, <1>6 DEF ScriptInv

(* The start of a block.                                                   *)
LEMMA BlockStartInv ==
  ASSUME ScriptInv, NEW c, BlockStart(c)
  PROVE  ScriptInv'
<1>1. /\ Read(c) /\ ~CommentAfter(c) /\ c = BraceOpen /\ state = "reading"
      /\ instructionBuffer' = <<>>
      /\ openControlBlocks' = openControlBlocks + 1 /\ state' = state
  BY DEF BlockStart, Read, Getc
<1>2. c # Semicolon /\ c # BraceClose /\ c \in Separators
  BY <1>1, SeparatorsDiffer DEF Separators
<1>3. Between' /\ state' \in States
  BY <1>1 DEF Between, States
<1>4. /\ Types' /\ CharInv' /\ DeliveredInv'
      /\ Script'[Len(Script')] = c /\ Text(Script', Len(Script') + 1) = <<>>
  BY <1>1, <1>2, <1>3, PlainStep
<1>5. BufferInv'
  BY <1>1, <1>3, <1>4, Zenon DEF BufferInv
<1>6. BlockInv'
  BY <1>1, <1>2, <1>4 DEF BlockInv, BraceWrong
<1> QED BY <1>4, <1>5, <1>6 DEF ScriptInv

(* The end of a block: the script is rejected if and only if the brace is  *)
(* wrong.                                                                  *)
LEMMA BlockEndInv ==
  ASSUME ScriptInv, NEW c, BlockEnd(c)
  PROVE  ScriptInv'
<1>1. /\ Read(c) /\ ~CommentAfter(c) /\ c = BraceClose
      /\ instructionBuffer' = <<>>
      /\ openControlBlocks' = openControlBlocks - 1
      /\ state' = IF ~OnlyBlanks \/ openControlBlocks' < 0 THEN "blocks" ELSE "reading"
  BY DEF BlockEnd
<1>2. c # Semicolon /\ c # BraceOpen /\ c \in Separators
  BY <1>1, SeparatorsDiffer DEF Separators
<1>3. Between' /\ state' \in States /\ state' \in {"reading", "blocks"}
  BY <1>1 DEF Between, States
<1>4. /\ Types' /\ CharInv' /\ DeliveredInv'
      /\ Script' \in Seq(Characters) /\ Script' # <<>> /\ Script'[Len(Script')] = c
      /\ Text(Script', Len(Script')) = instructionBuffer
      /\ Text(Script', Len(Script') + 1) = <<>>
  BY <1>1, <1>2, <1>3, PlainStep
<1>5. BufferInv'
  BY <1>1, <1>3, <1>4, Zenon DEF BufferInv
<1>6. state' = "blocks" <=> BraceWrong(Script')
  <2>1. OnlyBlanks <=> Consists(Text(Script', Len(Script')), Blanks)
    BY <1>4, Zenon DEF OnlyBlanks
  <2>2. openControlBlocks' < 0 <=> Count(Script', BraceClose) > Count(Script', BraceOpen)
    <3> DEFINE p == Count(Script', BraceOpen)
               q == Count(Script', BraceClose)
    <3>1. openControlBlocks' = p - q
      BY <1>4 DEF CharInv
    <3>2. p \in Nat /\ q \in Nat
      BY <1>4, CountIsNat
    <3> HIDE DEF p, q
    <3>3. openControlBlocks' < 0 <=> q > p
      BY <3>1, <3>2
    <3> QED BY <3>3, Zenon DEF p, q
  <2>3. state' = "blocks" <=> ~OnlyBlanks \/ openControlBlocks' < 0
    BY <1>1
  <2> QED BY <1>1, <1>4, <2>1, <2>2, <2>3, Zenon DEF BraceWrong
<1>7. BlockInv'
  <2>1. BraceWrong(Script') => BlocksWrong(Script)'
    BY Zenon DEF BraceWrong, BlocksWrong
  <2> QED BY <1>3, <1>6, <2>1 DEF BlockInv
<1> QED BY <1>4, <1>5, <1>7 DEF ScriptInv

(* The end of the file: all opened blocks have to be closed.               *)
LEMMA EndOfFileInv ==
  ASSUME ScriptInv, EndOfFile
  PROVE  ScriptInv'
<1>1. /\ state = "reading" /\ pos = Len(file)
      /\ state' = IF openControlBlocks > 0 THEN "blocks" ELSE "done"
      /\ UNCHANGED <<file, pos, instructionBuffer, comment, lineNbr, openControlBlocks,
                     delivered>>
  BY DEF EndOfFile
<1>2. Seen' = Seen /\ Script' = Script
  BY <1>1 DEF Seen, Script
<1>3. Between /\ Between' /\ state' \in {"done", "blocks"} /\ state' \in States
  BY <1>1 DEF Between, States
<1>4. Types'
  BY <1>1, <1>3, Zenon DEF ScriptInv, Types
<1>5. CharInv'
  BY <1>1, <1>2, Zenon DEF ScriptInv, CharInv
<1>6. BufferInv' /\ DeliveredInv'
  BY <1>1, <1>2, <1>3, Zenon DEF ScriptInv, BufferInv, DeliveredInv
<1>7. BlockInv'
  <2> DEFINE p == Count(Script, BraceOpen)
             q == Count(Script, BraceClose)
  <2>1. p \in Nat /\ q \in Nat /\ openControlBlocks = p - q
    <3>1. Seen \in Seq(Characters) /\ Counted(Kept(Seen))
      BY <1>1, Part DEF ScriptInv, Types, CharInv, Seen
    <3>2. Script \in Seq(Characters)
      BY <3>1, PlainTyped DEF Script
    <3> QED BY <3>2, CountIsNat DEF ScriptInv, CharInv
  <2>2. state' = IF p > q THEN "blocks" ELSE "done"
    <3> HIDE DEF p, q
    <3> QED BY <1>1, <2>1
  <2>3. ~BraceWrong(Script)
    BY <1>1 DEF ScriptInv, BlockInv
  <2>4. BlocksWrong(Script)' <=> p > q
    BY <1>1, <1>2, <2>3 DEF BlocksWrong, BraceWrong
  <2> HIDE DEF p, q
  <2> QED BY <2>2, <2>4 DEF BlockInv
<1> QED BY <1>4, <1>5, <1>6, <1>7 DEF ScriptInv

(* An instruction is parsed: nothing is read.                              *)
LEMMA ParsingInv ==
  ASSUME ScriptInv, Timestamp \/ Keyword \/ NextParameter \/ EndOfParameters \/ NotCompiled
  PROVE  ScriptInv'
<1>1. /\ UNCHANGED <<file, pos, comment, lineNbr, openControlBlocks, instructionBuffer,
                     delivered>>
      /\ state \in {"timestamp", "keyword", "parameters", "compiling"}
      /\ state' \in {"keyword", "parameters", "compiling", "syntax", "refused"}
  BY DEF Timestamp, Keyword, NextParameter, EndOfParameters, NotCompiled, fileVars
<1>2. Seen' = Seen /\ Script' = Script
  BY <1>1 DEF Seen, Script
<1>3. ~Between /\ ~Between' /\ state' \in States
  BY <1>1 DEF Between, States
<1>4. Types'
  BY <1>1, <1>3, Zenon DEF ScriptInv, Types
<1>5. CharInv'
  BY <1>1, <1>2, Zenon DEF ScriptInv, CharInv
<1>6. BufferInv' /\ DeliveredInv'
  BY <1>1, <1>2, <1>3, Zenon DEF ScriptInv, BufferInv, DeliveredInv
<1>7. BlockInv'
  BY <1>1 DEF BlockInv
<1> QED BY <1>4, <1>5, <1>6, <1>7 DEF ScriptInv

(* The packet is made: the instruction is the last one of the reference.   *)
LEMMA CompiledInv ==
  ASSUME ScriptInv, Compiled
  PROVE  ScriptInv'
<1> DEFINE r == [text |-> instructionBuffer, stamp |-> scan.stamp, list |-> scan.list]
           d == Len(delivered)
           E == Ends(Script)
<1>1. /\ UNCHANGED <<file, pos, comment, lineNbr, openControlBlocks>>
      /\ state = "compiling" /\ state' = "reading"
      /\ instructionBuffer' = <<>> /\ delivered' = Append(delivered, r)
  BY DEF Compiled, fileVars
<1>2. Seen' = Seen /\ Script' = Script
  BY <1>1 DEF Seen, Script
<1>3. ~Between /\ Between' /\ state' \in States
  BY <1>1 DEF Between, States
<1>4. /\ delivered' \in Seq({delivered'[i] : i \in DOMAIN delivered'})
      /\ d \in Nat /\ Len(delivered') = d + 1
      /\ (\A i \in 1 .. d : delivered'[i] = delivered[i]) /\ delivered'[d + 1] = r
  <2> DEFINE D == {delivered[i] : i \in DOMAIN delivered}
             A == D \cup {r}
             t == Append(delivered, r)
  <2>1. delivered \in Seq(D)
    BY DEF ScriptInv, Types
  <2> HIDE DEF D, r
  <2>2. delivered \in Seq(A) /\ r \in A
    BY <2>1
  <2> HIDE DEF A
  <2>3. /\ d \in Nat /\ t \in Seq(A) /\ Len(t) = d + 1
        /\ (\A k \in 1 .. d : t[k] = delivered[k]) /\ t[d + 1] = r
    BY <2>2, Longer
  <2>4. t \in Seq({t[i] : i \in DOMAIN t})
    <3> HIDE DEF t
    <3> QED BY <2>3
  <2> QED BY <1>1, <2>3, <2>4
<1>5. r.text = instructionBuffer
  OBVIOUS
<1> HIDE DEF r
<1>6. Types'
  BY <1>1, <1>3, <1>4, Zenon DEF ScriptInv, Types
<1>7. CharInv'
  BY <1>1, <1>2, Zenon DEF ScriptInv, CharInv
<1>8. /\ Script # <<>> /\ Script[Len(Script)] = Semicolon
      /\ instructionBuffer = Text(Script, Len(Script))
      /\ Nth(E, Cardinality(E)) = Len(Script) /\ d + 1 = Cardinality(E)
      /\ \A n \in 1 .. d : delivered[n].text = Text(Script, Nth(E, n))
  BY <1>3, Zenon DEF ScriptInv, BufferInv, DeliveredInv
<1>9. DeliveredInv'
  <2>1. Len(delivered') + 0 = Cardinality(E)
    BY <1>4, <1>8
  <2>2. ASSUME NEW n \in 1 .. d + 1 PROVE delivered'[n].text = Text(Script, Nth(E, n))
    <3>1. n = d + 1 \/ n \in 1 .. d
      BY <1>4
    <3>2. CASE n = d + 1
      BY <1>4, <1>5, <1>8, <3>2, Zenon
    <3>3. CASE n \in 1 .. d
      BY <1>4, <1>8, <3>3, Zenon
    <3> QED BY <3>1, <3>2, <3>3
  <2> HIDE DEF d
  <2> QED BY <1>2, <1>3, <1>4, <2>1, <2>2, Zenon DEF DeliveredInv
<1>10. BufferInv'
  <2>1. Seen \in Seq(Characters) /\ Counted(Kept(Seen))
    BY Part DEF ScriptInv, Types, CharInv, Seen
  <2>2. Script \in Seq(Characters)
    BY <2>1, PlainTyped DEF Script
  <2>3. Script[Len(Script)] \in Separators
    BY <1>8 DEF Separators
  <2>4. Text(Script, Len(Script) + 1) = <<>>
    BY <1>8, <2>2, <2>3, TextEmpty
  <2> QED BY <1>1, <1>2, <1>3, <2>4, Zenon DEF BufferInv
<1>11. BlockInv'
  BY <1>1, <1>2, <1>8, SeparatorsDiffer DEF BlockInv, BraceWrong
<1> QED BY <1>6, <1>7, <1>9, <1>10, <1>11 DEF ScriptInv

(* Every step keeps the invariant.                                         *)
LEMMA ScriptNext ==
  ASSUME ScriptInv, [Next]_vars
  PROVE  ScriptInv'
<1>1. ASSUME NEW k \in {pos + 1} \intersect DOMAIN file,
             \/ Skip(file[k]) \/ Store(file[k]) \/ Instruction(file[k])
             \/ BlockStart(file[k]) \/ BlockEnd(file[k])
      PROVE  ScriptInv'
  BY <1>1, SkipInv, StoreInv, InstructionInv, BlockStartInv, BlockEndInv
<1>2. CASE EndOfFile
  BY <1>2, EndOfFileInv
<1>3. CASE Timestamp \/ Keyword \/ NextParameter \/ EndOfParameters \/ NotCompiled
  BY <1>3, ParsingInv
<1>4. CASE Compiled
  BY <1>4, CompiledInv
<1>5. CASE UNCHANGED vars
  <2>1. UNCHANGED <<file, pos, instructionBuffer, comment, lineNbr, openControlBlocks, state,
                    delivered>>
    BY <1>5 DEF vars
  <2>2. Seen' = Seen /\ Script' = Script /\ (Between' <=> Between)
        /\ (BlocksWrong(Script)' <=> BlocksWrong(Script))
    BY <2>1 DEF Seen, Script, Between, BlocksWrong
  <2>3. Types' /\ CharInv' /\ BlockInv'
    BY <2>1, <2>2, Zenon DEF ScriptInv, Types, CharInv, BlockInv
  <2>4. BufferInv' /\ DeliveredInv'
    BY <2>1, <2>2, Zenon DEF ScriptInv, BufferInv, DeliveredInv
  <2> QED BY <2>3, <2>4 DEF ScriptInv
<1> QED BY <1>1, <1>2, <1>3, <1>4, <1>5, Zenon DEF Next

(* What the parser has read, buffered, counted and delivered always agrees *)
(* with the reference, applied to the characters read so far.              *)
THEOREM ScriptInvariance == Spec => []ScriptInv
<1>1. Init => ScriptInv
  BY ScriptInit
<1>2. ScriptInv /\ [Next]_vars => ScriptInv'
  BY ScriptNext
<1> QED BY <1>1, <1>2, PTL DEF Spec

(* For every script: the instruction that is parsed is the text without    *)
(* comments since the last separator, those compiled are the ones before   *)
(* it, in order, the line number is right, a script rejected for its blocks*)
(* has wrong ones and one read to its end has not.                         *)
THEOREM ScriptAlwaysRead == Spec => []ScriptRead
<1>1. ScriptInv => ScriptRead
  <2> SUFFICES ASSUME ScriptInv PROVE ScriptRead
    OBVIOUS
  <2>1. DeliveredInv /\ BlockInv
    BY DEF ScriptInv
  <2>2. ~Between => instructionBuffer = Text(Script, Len(Script))
    BY DEF ScriptInv, BufferInv
  <2>3. lineNbr = 1 + Count(Seen, "nl")
    BY DEF ScriptInv, CharInv
  <2> QED BY <2>1, <2>2, <2>3, Zenon
        DEF ScriptRead, DeliveredInv, BlockInv, Script, Seen, Between
<1> QED BY <1>1, ScriptInvariance, PTL

-----------------------------------------------------------------------------
(* The scanner of a text, for any set of characters.                       *)

(* The least position.                                                     *)
LEMMA MinOf ==
  ASSUME NEW S \in SUBSET Nat, S # {}
  PROVE  Min(S) \in S /\ \A k \in S : Min(S) <= k
<1>1. \E x \in S : \A y \in S : x <= y
  BY LeastNatural
<1> QED BY <1>1, Zenon DEF Min

(* A number that is the least one.                                         *)
LEMMA MinIs ==
  ASSUME NEW S \in SUBSET Nat, NEW q \in S, \A k \in S : q <= k
  PROVE  Min(S) = q
<1>1. Min(S) \in S /\ Min(S) <= q
  BY MinOf
<1>2. q <= Min(S) /\ q \in Nat /\ Min(S) \in Nat
  BY <1>1
<1> QED BY <1>1, <1>2

(* The end of the string is in no class of characters.                     *)
LEMMA ClassesEnd ==
  /\ "end" \notin Blanks /\ "end" \notin KeyChars /\ "end" \notin ValueChars
  /\ "end" \notin Letters /\ "end" \notin Digits /\ "end" \notin ValueStart
<1>1. "end" \notin Blanks
  BY Zenon DEF Blanks
<1>2. "end" \notin Letters /\ "end" \notin Digits
  BY TextAssumption, Zenon DEF Marks
<1> QED BY <1>1, <1>2, Zenon DEF KeyChars, ValueChars, ValueStart

(* cParseHelper::nextTokenEnd.                                             *)
LEMMA TokenEnd ==
  ASSUME NEW A, NEW t \in Seq(A), NEW p \in 1 .. Len(t) + 1, NEW accept, "end" \notin accept
  PROVE  /\ nextTokenEnd(t, p, accept) \in p .. Len(t) + 1
         /\ \A k \in p .. nextTokenEnd(t, p, accept) - 1 : t[k] \in accept
         /\ CharAt(t, nextTokenEnd(t, p, accept)) \notin accept
<1> DEFINE S == {q \in p .. Len(t) + 1 : CharAt(t, q) \notin accept}
           q == nextTokenEnd(t, p, accept)
<1>0. Len(t) \in Nat
  OBVIOUS
<1>1. Len(t) + 1 \in S
  BY <1>0 DEF CharAt
<1>2. S \in SUBSET Nat /\ S # {}
  BY <1>0, <1>1
<1>3. q = Min(S)
  BY DEF nextTokenEnd
<1> HIDE DEF q
<1>4. q \in S /\ \A k \in S : q <= k
  <2> HIDE DEF S
  <2> QED BY <1>2, <1>3, MinOf
<1>5. ASSUME NEW k \in p .. q - 1 PROVE t[k] \in accept
  <2>1. k \in p .. Len(t) + 1 /\ k < q /\ k <= Len(t)
    BY <1>0, <1>4
  <2>2. CharAt(t, k) \in accept
    BY <1>0, <1>4, <2>1
  <2> QED BY <2>1, <2>2 DEF CharAt
<1>6. q \in p .. Len(t) + 1 /\ CharAt(t, q) \notin accept
  BY <1>4
<1> QED BY <1>5, <1>6 DEF q

(* A position that is the end of the token.                                *)
LEMMA TokenEndIs ==
  ASSUME NEW A, NEW t \in Seq(A), NEW p \in 1 .. Len(t) + 1, NEW accept,
         NEW q \in p .. Len(t) + 1, \A k \in p .. q - 1 : t[k] \in accept,
         CharAt(t, q) \notin accept
  PROVE  nextTokenEnd(t, p, accept) = q
<1> DEFINE S == {x \in p .. Len(t) + 1 : CharAt(t, x) \notin accept}
<1>0. Len(t) \in Nat
  OBVIOUS
<1>1. q \in S /\ S \in SUBSET Nat
  BY <1>0
<1>2. ASSUME NEW k \in S PROVE q <= k
  <2>1. CASE k < q
    <3>1. k \in p .. q - 1 /\ k <= Len(t) /\ CharAt(t, k) \notin accept
      BY <1>0, <2>1
    <3> QED BY <3>1 DEF CharAt
  <2> QED BY <1>0, <2>1
<1>3. Min(S) = q
  <2> HIDE DEF S
  <2> QED BY <1>1, <1>2, MinIs
<1> QED BY <1>3 DEF nextTokenEnd

(* cParseHelper::nextTokenStart.                                           *)
LEMMA TokenStart ==
  ASSUME NEW A, NEW t \in Seq(A), NEW p \in 1 .. Len(t) + 1, NEW accept, "end" \notin accept,
         nextTokenStart(t, p, accept) # 0
  PROVE  /\ nextTokenStart(t, p, accept) \in p .. Len(t)
         /\ nextTokenStart(t, p, accept) = skipWhitespaces(t, p)
         /\ t[nextTokenStart(t, p, accept)] \in accept
         /\ t[nextTokenStart(t, p, accept)] \notin Blanks
         /\ \A k \in p .. nextTokenStart(t, p, accept) - 1 : t[k] \in Blanks
<1> DEFINE q == skipWhitespaces(t, p)
<1>1. /\ q \in p .. Len(t) + 1 /\ CharAt(t, q) \notin Blanks
      /\ \A k \in p .. q - 1 : t[k] \in Blanks
  BY ClassesEnd, TokenEnd DEF skipWhitespaces
<1>2. nextTokenStart(t, p, accept) = q /\ CharAt(t, q) \in accept
  BY DEF nextTokenStart
<1> HIDE DEF q
<1>3. q <= Len(t)
  BY <1>2 DEF CharAt
<1>4. CharAt(t, q) = t[q] /\ q \in p .. Len(t)
  BY <1>1, <1>3 DEF CharAt
<1> QED BY <1>1, <1>2, <1>4 DEF q

(* A position where the next token starts.                                 *)
LEMMA TokenStartIs ==
  ASSUME NEW A, NEW t \in Seq(A), NEW p \in 1 .. Len(t) + 1, NEW accept,
         NEW q \in p .. Len(t), \A k \in p .. q - 1 : t[k] \in Blanks,
         t[q] \notin Blanks, t[q] \in accept
  PROVE  nextTokenStart(t, p, accept) = q /\ skipWhitespaces(t, p) = q
<1>0. Len(t) \in Nat
  OBVIOUS
<1>1. CharAt(t, q) = t[q] /\ q \in p .. Len(t) + 1
  BY <1>0 DEF CharAt
<1>2. skipWhitespaces(t, p) = q
  BY <1>1, TokenEndIs DEF skipWhitespaces
<1> QED BY <1>1, <1>2 DEF nextTokenStart

(* strchr, if there is such a character.                                   *)
LEMMA StrchrIs ==
  ASSUME NEW A, NEW t \in Seq(A), NEW p \in Nat \ {0}, NEW c,
         NEW q \in p .. Len(t), t[q] = c, \A k \in p .. q - 1 : t[k] # c
  PROVE  strchr(t, p, c) = q
<1> DEFINE S == {x \in p .. Len(t) : t[x] = c}
<1>0. Len(t) \in Nat
  OBVIOUS
<1>1. q \in S /\ S \in SUBSET Nat /\ S # {}
  BY <1>0
<1>2. \A k \in S : q <= k
  BY <1>0
<1>3. Min(S) = q
  <2> HIDE DEF S
  <2> QED BY <1>1, <1>2, MinIs
<1>4. strchr(t, p, c) = IF S = {} THEN 0 ELSE Min(S)
  BY Zenon DEF strchr
<1> QED BY <1>1, <1>3, <1>4

(* What strchr finds.                                                      *)
LEMMA StrchrFinds ==
  ASSUME NEW A, NEW t \in Seq(A), NEW p \in Nat \ {0}, NEW c, strchr(t, p, c) # 0
  PROVE  /\ strchr(t, p, c) \in p .. Len(t) /\ t[strchr(t, p, c)] = c
         /\ \A k \in p .. strchr(t, p, c) - 1 : t[k] # c
<1> DEFINE S == {x \in p .. Len(t) : t[x] = c}
           q == strchr(t, p, c)
<1>0. Len(t) \in Nat
  OBVIOUS
<1>1. q = IF S = {} THEN 0 ELSE Min(S)
  BY Zenon DEF strchr
<1> HIDE DEF q
<1>2. S # {} /\ q = Min(S) /\ S \in SUBSET Nat
  BY <1>0, <1>1 DEF q
<1>3. q \in S /\ \A k \in S : q <= k
  <2> HIDE DEF S
  <2> QED BY <1>2, MinOf
<1>4. ASSUME NEW k \in p .. q - 1 PROVE t[k] # c
  <2>1. k \in p .. Len(t) /\ ~(q <= k)
    BY <1>0, <1>3
  <2> QED BY <1>3, <2>1
<1> QED BY <1>3, <1>4 DEF q

(* A part of a part.                                                       *)
LEMMA PartOfPart ==
  ASSUME NEW A, NEW t \in Seq(A), NEW i \in Nat \ {0}, NEW j \in 0 .. Len(t), i <= j + 1,
         NEW x \in Nat \ {0}, NEW y \in 0 .. j - i + 1, x <= y + 1
  PROVE  SubSeq(SubSeq(t, i, j), x, y) = SubSeq(t, i + x - 1, i + y - 1)
<1> DEFINE s == SubSeq(t, i, j)
           u == SubSeq(s, x, y)
           i2 == i + x - 1
           j2 == i + y - 1
           v == SubSeq(t, i2, j2)
<1>1. /\ s \in Seq(A) /\ Len(s) = j - i + 1
      /\ \A k \in 1 .. j - i + 1 : s[k] = t[i + k - 1]
  BY Part
<1> HIDE DEF s
<1>2. /\ u \in Seq(A) /\ Len(u) = y - x + 1
      /\ \A k \in 1 .. y - x + 1 : u[k] = s[x + k - 1]
  <2>1. y \in 0 .. Len(s)
    BY <1>1
  <2> QED BY <1>1, <2>1, Part
<1>3. i2 \in Nat \ {0} /\ j2 \in 0 .. Len(t) /\ i2 <= j2 + 1 /\ j2 - i2 + 1 = y - x + 1
  OBVIOUS
<1>4. i2 = i + x - 1
  OBVIOUS
<1> HIDE DEF i2, j2
<1>5. /\ v \in Seq(A) /\ Len(v) = y - x + 1
      /\ \A k \in 1 .. y - x + 1 : v[k] = t[i2 + k - 1]
  BY <1>3, Part
<1> HIDE DEF u, v
<1>6. ASSUME NEW k \in 1 .. y - x + 1 PROVE u[k] = v[k]
  <2>1. x + k - 1 \in 1 .. j - i + 1 /\ i + (x + k - 1) - 1 = i2 + k - 1
    BY <1>4
  <2>2. s[x + k - 1] = t[i + (x + k - 1) - 1]
    BY <1>1, <2>1
  <2> QED BY <1>2, <1>5, <2>1, <2>2
<1>7. u = v
  <2> DEFINE n == y - x + 1
  <2>1. /\ Len(u) = n /\ Len(v) = n /\ n \in Nat
        /\ \A k \in 1 .. n : u[k] = v[k]
    BY <1>2, <1>5, <1>6
  <2> HIDE DEF n
  <2> QED BY <1>2, <1>5, <2>1
<1> QED BY <1>7 DEF u, v, s, i2, j2

(* The characters of a part.                                               *)
LEMMA PartConsists ==
  ASSUME NEW A, NEW t \in Seq(A), NEW i \in Nat \ {0}, NEW j \in 0 .. Len(t), i <= j + 1,
         NEW chars
  PROVE  Consists(SubSeq(t, i, j), chars) <=> \A k \in i .. j : t[k] \in chars
<1> DEFINE s == SubSeq(t, i, j)
<1>1. /\ s \in Seq(A) /\ Len(s) = j - i + 1
      /\ \A k \in 1 .. j - i + 1 : s[k] = t[i + k - 1]
  BY Part
<1> HIDE DEF s
<1>2. ASSUME Consists(s, chars), NEW k \in i .. j PROVE t[k] \in chars
  <2>1. k - i + 1 \in 1 .. j - i + 1 /\ i + (k - i + 1) - 1 = k
    OBVIOUS
  <2>2. s[k - i + 1] = t[k] /\ s[k - i + 1] \in chars
    BY <1>1, <1>2, <2>1 DEF Consists
  <2> QED BY <2>2
<1>3. ASSUME \A k \in i .. j : t[k] \in chars, NEW k \in 1 .. Len(s) PROVE s[k] \in chars
  <2>1. i + k - 1 \in i .. j /\ k \in 1 .. j - i + 1
    BY <1>1
  <2> QED BY <1>1, <1>3, <2>1
<1>4. Consists(s, chars) <=> \A k \in i .. j : t[k] \in chars
  BY <1>2, <1>3 DEF Consists
<1> QED BY <1>4 DEF s

(* From i to j, only a to b are more than blanks around them.              *)
Inked(t, i, j, a, b) ==
  /\ a \in i .. j /\ b \in a .. j
  /\ t[a] \notin Blanks /\ t[b] \notin Blanks
  /\ \A k \in i .. a - 1 : t[k] \in Blanks
  /\ \A k \in b + 1 .. j : t[k] \in Blanks

(* The greatest position.                                                  *)
LEMMA MaxIs ==
  ASSUME NEW m \in Nat, NEW S \in SUBSET (0 .. m), NEW q \in S, \A k \in S : k <= q
  PROVE  Max(S) = q
<1>1. Max(S) \in S /\ q <= Max(S)
  BY MaxOf
<1>2. Max(S) <= q
  BY <1>1
<1>3. q \in 0 .. m /\ Max(S) \in 0 .. m
  BY <1>1
<1> QED BY <1>1, <1>2, <1>3

(* Trim drops the blanks.                                                  *)
LEMMA TrimIs ==
  ASSUME NEW A, NEW t \in Seq(A), NEW i \in Nat \ {0}, NEW j \in 0 .. Len(t), i <= j + 1,
         NEW a \in Nat, NEW b \in Nat, Inked(t, i, j, a, b)
  PROVE  Trim(SubSeq(t, i, j)) = SubSeq(t, a, b)
<1> DEFINE s == SubSeq(t, i, j)
           S == {k \in 1 .. Len(s) : s[k] \notin Blanks}
           n == j - i + 1
           x == a - i + 1
           y == b - i + 1
<1>0. a \in Nat /\ b \in Nat /\ a >= i /\ a <= b /\ b <= j /\ Len(t) \in Nat
  BY DEF Inked
<1>1. /\ s \in Seq(A) /\ Len(s) = n
      /\ \A k \in 1 .. n : s[k] = t[i + k - 1]
  BY Part
<1>2. /\ x \in 1 .. n /\ y \in 1 .. n /\ x <= y /\ i + x - 1 = a /\ i + y - 1 = b /\ n \in Nat
  BY <1>0
<1> HIDE DEF s
<1>3. S \in SUBSET (0 .. n) /\ S \in SUBSET Nat
  BY <1>1, <1>2
<1>4. x \in S /\ y \in S
  BY <1>1, <1>2 DEF Inked
<1>5. ASSUME NEW k \in S PROVE x <= k /\ k <= y
  <2>1. k \in 1 .. n /\ t[i + k - 1] \notin Blanks /\ i + k - 1 \in i .. j
    BY <1>1
  <2>2. ~(i + k - 1 \in i .. a - 1) /\ ~(i + k - 1 \in b + 1 .. j)
    BY <2>1 DEF Inked
  <2> QED BY <1>0, <2>1, <2>2
<1>6. Min(S) = x /\ Max(S) = y
  <2> HIDE DEF S, n, x, y
  <2>1. Min(S) = x
    BY <1>3, <1>4, <1>5, MinIs
  <2>2. Max(S) = y
    BY <1>2, <1>3, <1>4, <1>5, MaxIs
  <2> QED BY <2>1, <2>2
<1>7. Trim(s) = IF S = {} THEN <<>> ELSE SubSeq(s, Min(S), Max(S))
  BY Zenon DEF Trim
<1> HIDE DEF S
<1>8. Trim(s) = SubSeq(s, x, y)
  BY <1>4, <1>6, <1>7
<1>9. SubSeq(s, x, y) = SubSeq(t, i + x - 1, i + y - 1)
  <2>1. x \in Nat \ {0} /\ y \in 0 .. j - i + 1 /\ x <= y + 1
    BY <1>2
  <2> HIDE DEF x, y
  <2> QED BY <2>1, PartOfPart DEF s
<1> QED BY <1>2, <1>8, <1>9 DEF s

(* What is left after Trim was somewhere.                                  *)
LEMMA TrimFound ==
  ASSUME NEW A, NEW t \in Seq(A), NEW i \in Nat \ {0}, NEW j \in 0 .. Len(t), i <= j + 1,
         Trim(SubSeq(t, i, j)) # <<>>
  PROVE  \E a, b \in Nat : Inked(t, i, j, a, b)
<1> DEFINE s == SubSeq(t, i, j)
           T == {k \in 1 .. Len(s) : s[k] \notin Blanks}
           S == {k \in i .. j : t[k] \notin Blanks}
<1>0. Len(t) \in Nat
  OBVIOUS
<1>1. /\ s \in Seq(A) /\ Len(s) = j - i + 1
      /\ \A k \in 1 .. j - i + 1 : s[k] = t[i + k - 1]
  BY Part
<1>2. Trim(s) = IF T = {} THEN <<>> ELSE SubSeq(s, Min(T), Max(T))
  BY Zenon DEF Trim
<1>3. PICK k \in T : TRUE
  <2> HIDE DEF T
  <2> QED BY <1>2
<1> HIDE DEF s
<1>4. i + k - 1 \in S
  BY <1>1, <1>3
<1>5. S \in SUBSET (0 .. j) /\ S \in SUBSET Nat /\ S # {} /\ j \in Nat
  BY <1>0, <1>4
<1> DEFINE a == Min(S)
           b == Max(S)
<1>6. a \in S /\ b \in S /\ \A x \in S : a <= x /\ x <= b
  <2> HIDE DEF S
  <2> QED BY <1>5, MinOf, MaxOf
<1> HIDE DEF a, b
<1>7. a \in i .. j /\ b \in a .. j /\ t[a] \notin Blanks /\ t[b] \notin Blanks
  BY <1>0, <1>6
<1>8. ASSUME NEW x \in i .. a - 1 PROVE t[x] \in Blanks
  <2>1. x \in i .. j /\ ~(a <= x)
    BY <1>7
  <2> QED BY <1>6, <2>1
<1>9. ASSUME NEW x \in b + 1 .. j PROVE t[x] \in Blanks
  <2>1. x \in i .. j /\ ~(x <= b)
    BY <1>7
  <2> QED BY <1>6, <2>1
<1>10. a \in Nat /\ b \in Nat
  BY <1>7
<1> QED BY <1>7, <1>8, <1>9, <1>10 DEF Inked

(* The classes of characters, and what is in none of them.                 *)
LEMMA Classes ==
  /\ \A c \in KeyChars : c \notin Blanks /\ c # Comma /\ c # ")" /\ c # "=" /\ c # "(" /\ c # ":"
  /\ \A c \in ValueChars : c \notin Blanks /\ c # Comma /\ c # ")" /\ c # "q" /\ c # "<"
  /\ \A c \in Letters : c \in KeyChars /\ c \in ValueChars /\ c \notin Digits /\ c # "+"
  /\ \A c \in Digits : c \in ValueChars /\ c \notin Blanks /\ c # "+" /\ c # ":" /\ c # "("
  /\ \A c \in ValueStart : c # "q" /\ c # "<" => c \in ValueChars
  /\ \A c \in {Comma, ")", "=", "(", ":", "q", "<", ">", "+"} : c \notin Blanks
  /\ Comma # ")" /\ Comma # "=" /\ Comma # "(" /\ Comma # "end"
<1>1. \A c \in Letters \union Digits : c \notin Marks
  BY TextAssumption, Zenon
<1>2. /\ \A c \in Blanks : c \in Marks
      /\ Comma \in Marks /\ "=" \in Marks /\ "(" \in Marks /\ ")" \in Marks /\ "q" \in Marks
      /\ "<" \in Marks /\ ">" \in Marks /\ ":" \in Marks /\ "+" \in Marks
  BY Zenon DEF Marks
<1>3. \A c \in KeyChars : c \in Letters \union Digits \/ c = "-"
  BY Zenon DEF KeyChars
<1>4. \A c \in ValueChars : c \in Letters \union Digits \/ c \in {".", ":", "*", "[", "-", "]"}
  BY Zenon DEF ValueChars
<1>5. /\ "-" \notin Blanks /\ "-" # Comma /\ "-" # ")" /\ "-" # "=" /\ "-" # "(" /\ "-" # ":"
      /\ \A c \in {".", ":", "*", "[", "-", "]"} :
           c \notin Blanks /\ c # Comma /\ c # ")" /\ c # "q" /\ c # "<"
  BY Zenon DEF Blanks, Comma
<1>6. /\ \A c \in {Comma, ")", "=", "(", ":", "q", "<", ">", "+"} : c \notin Blanks
      /\ Comma # ")" /\ Comma # "=" /\ Comma # "(" /\ Comma # "end"
  BY Zenon DEF Blanks, Comma
<1>7. \A c \in ValueStart : c # "q" /\ c # "<" => c \in ValueChars
  BY Zenon DEF ValueStart, ValueChars
<1>8. /\ \A c \in Letters : c \in KeyChars /\ c \in ValueChars /\ c \notin Digits /\ c # "+"
      /\ \A c \in Digits : c \in ValueChars /\ c \notin Blanks /\ c # "+" /\ c # ":" /\ c # "("
  <2>1. \A c \in Letters : c \in KeyChars /\ c \in ValueChars
    BY Zenon DEF KeyChars, ValueChars
  <2>2. \A c \in Digits : c \in ValueChars
    BY Zenon DEF ValueChars
  <2>3. \A c \in Letters : c \notin Digits
    BY TextAssumption, Zenon
  <2> QED BY <1>1, <1>2, <2>1, <2>2, <2>3, Zenon
<1>9. \A c \in KeyChars : c \notin Blanks /\ c # Comma /\ c # ")" /\ c # "=" /\ c # "("
                          /\ c # ":"
  BY <1>1, <1>2, <1>3, <1>5, Zenon
<1>10. \A c \in ValueChars : c \notin Blanks /\ c # Comma /\ c # ")" /\ c # "q" /\ c # "<"
  BY <1>1, <1>2, <1>4, <1>5, Zenon
<1> QED BY <1>6, <1>7, <1>8, <1>9, <1>10, Zenon

(* Keys, tokens and enclosed values by their positions.                    *)
LEMMA KeyPart ==
  ASSUME NEW A, NEW t \in Seq(A), NEW a \in Nat \ {0}, NEW b \in a .. Len(t)
  PROVE  IsKey(SubSeq(t, a, b)) <=> t[a] \in Letters /\ \A k \in a .. b : t[k] \in KeyChars
<1> DEFINE s == SubSeq(t, a, b)
<1>1. b \in 0 .. Len(t) /\ a <= b + 1 /\ 1 \in 1 .. b - a + 1
  OBVIOUS
<1>2. s \in Seq(A) /\ Len(s) = b - a + 1 /\ \A k \in 1 .. b - a + 1 : s[k] = t[a + k - 1]
  BY <1>1, Part
<1>3. Consists(s, KeyChars) <=> \A k \in a .. b : t[k] \in KeyChars
  BY <1>1, PartConsists
<1> HIDE DEF s
<1>4. s[1] = t[a] /\ s # <<>>
  <2>1. s[1] = t[a + 1 - 1] /\ a + 1 - 1 = a
    BY <1>1, <1>2
  <2>2. Len(s) # 0
    BY <1>2
  <2> QED BY <2>1, <2>2
<1>5. IsKey(s) <=> t[a] \in Letters /\ \A k \in a .. b : t[k] \in KeyChars
  BY <1>3, <1>4, Zenon DEF IsKey
<1> QED BY <1>5 DEF s

(* Tokens ...                                                              *)
LEMMA TokenPart ==
  ASSUME NEW A, NEW t \in Seq(A), NEW a \in Nat \ {0}, NEW b \in a .. Len(t)
  PROVE  IsToken(SubSeq(t, a, b)) <=>
           t[a] \in ValueStart /\ \A k \in a .. b : t[k] \in ValueChars
<1> DEFINE s == SubSeq(t, a, b)
<1>1. b \in 0 .. Len(t) /\ a <= b + 1 /\ 1 \in 1 .. b - a + 1
  OBVIOUS
<1>2. s \in Seq(A) /\ Len(s) = b - a + 1 /\ \A k \in 1 .. b - a + 1 : s[k] = t[a + k - 1]
  BY <1>1, Part
<1>3. Consists(s, ValueChars) <=> \A k \in a .. b : t[k] \in ValueChars
  BY <1>1, PartConsists
<1> HIDE DEF s
<1>4. s[1] = t[a] /\ s # <<>>
  <2>1. s[1] = t[a + 1 - 1] /\ a + 1 - 1 = a
    BY <1>1, <1>2
  <2>2. Len(s) # 0
    BY <1>2
  <2> QED BY <2>1, <2>2
<1>5. IsToken(s) <=> t[a] \in ValueStart /\ \A k \in a .. b : t[k] \in ValueChars
  BY <1>3, <1>4, Zenon DEF IsToken
<1> QED BY <1>5 DEF s

(* ... and values between quotation marks or angle brackets.               *)
LEMMA EnclosedPart ==
  ASSUME NEW A, NEW t \in Seq(A), NEW a \in Nat \ {0}, NEW b \in a .. Len(t),
         NEW open, NEW close
  PROVE  IsEnclosed(SubSeq(t, a, b), open, close) <=>
           /\ a < b /\ t[a] = open /\ t[b] = close
           /\ \A k \in a + 1 .. b - 1 : t[k] # close
<1> DEFINE s == SubSeq(t, a, b)
           n == b - a + 1
<1>1. b \in 0 .. Len(t) /\ a <= b + 1 /\ n \in Nat /\ n >= 1
  OBVIOUS
<1>2. s \in Seq(A) /\ Len(s) = n /\ \A k \in 1 .. n : s[k] = t[a + k - 1]
  BY <1>1, Part
<1> HIDE DEF s
<1>3. s[1] = t[a] /\ s[n] = t[b]
  <2>1. a + 1 - 1 = a /\ a + n - 1 = b /\ 1 \in 1 .. n /\ n \in 1 .. n
    BY <1>1
  <2> HIDE DEF n
  <2>2. s[1] = t[a + 1 - 1] /\ s[n] = t[a + n - 1]
    BY <1>2, <2>1
  <2> QED BY <2>1, <2>2
<1>4. (\A k \in 2 .. n - 1 : s[k] # close) <=> (\A k \in a + 1 .. b - 1 : t[k] # close)
  <2>1. ASSUME \A k \in 2 .. n - 1 : s[k] # close, NEW k \in a + 1 .. b - 1
        PROVE  t[k] # close
    <3>1. k - a + 1 \in 2 .. n - 1 /\ k - a + 1 \in 1 .. n /\ a + (k - a + 1) - 1 = k
      OBVIOUS
    <3>2. s[k - a + 1] = t[k]
      BY <1>2, <3>1
    <3> QED BY <2>1, <3>1, <3>2
  <2>2. ASSUME \A k \in a + 1 .. b - 1 : t[k] # close, NEW k \in 2 .. n - 1
        PROVE  s[k] # close
    <3>1. a + k - 1 \in a + 1 .. b - 1 /\ k \in 1 .. n
      OBVIOUS
    <3> QED BY <1>2, <2>2, <3>1
  <2> QED BY <2>1, <2>2
<1>5. n >= 2 <=> a < b
  OBVIOUS
<1> HIDE DEF n
<1>6. IsEnclosed(s, open, close) <=>
        /\ a < b /\ t[a] = open /\ t[b] = close
        /\ \A k \in a + 1 .. b - 1 : t[k] # close
  BY <1>2, <1>3, <1>4, <1>5, Zenon DEF IsEnclosed
<1> QED BY <1>6 DEF s

-----------------------------------------------------------------------------
(* A key, and the character that follows it.                               *)
LEMMA KeyRun ==
  ASSUME NEW A, NEW t \in Seq(A), NEW p \in Nat \ {0}, NEW e \in p .. Len(t),
         NEW a \in Nat, NEW b \in Nat, Inked(t, p, e - 1, a, b), IsKey(SubSeq(t, a, b)),
         t[e] \notin Blanks, t[e] \notin KeyChars
  PROVE  nextKeyStart(t, p) = a /\ nextKeyEnd(t, a) = b + 1 /\ skipWhitespaces(t, b + 1) = e
<1>0. /\ Len(t) \in Nat /\ a \in p .. Len(t) /\ b \in a .. Len(t) /\ b < e /\ a \in Nat \ {0}
      /\ p \in 1 .. Len(t) + 1 /\ a \in 1 .. Len(t) + 1 /\ b + 1 \in 1 .. Len(t) + 1
      /\ b + 1 \in a .. Len(t) + 1 /\ (b + 1) - 1 = b
      /\ e \in b + 1 .. Len(t) + 1
  BY DEF Inked
<1>1. /\ t[a] \notin Blanks /\ (\A k \in p .. a - 1 : t[k] \in Blanks)
      /\ \A k \in b + 1 .. e - 1 : t[k] \in Blanks
  BY DEF Inked
<1>2. t[a] \in Letters /\ \A k \in a .. b : t[k] \in KeyChars
  BY <1>0, KeyPart
<1>3. nextKeyStart(t, p) = a
  BY <1>0, <1>1, <1>2, TokenStartIs DEF nextKeyStart
<1>4. CharAt(t, b + 1) \notin KeyChars
  <2>1. b + 1 <= Len(t)
    BY <1>0
  <2>2. CharAt(t, b + 1) = t[b + 1]
    BY <2>1 DEF CharAt
  <2>3. CASE b + 1 = e
    BY <2>2, <2>3
  <2>4. CASE b + 1 # e
    <3>1. t[b + 1] \in Blanks
      BY <1>0, <1>1, <2>4
    <3> QED BY <2>2, <3>1, Classes
  <2> QED BY <2>3, <2>4
<1>5. nextKeyEnd(t, a) = b + 1
  <2> DEFINE q == b + 1
  <2>1. /\ a \in 1 .. Len(t) + 1 /\ q \in a .. Len(t) + 1 /\ CharAt(t, q) \notin KeyChars
        /\ \A k \in a .. q - 1 : t[k] \in KeyChars
    BY <1>0, <1>2, <1>4
  <2> HIDE DEF q
  <2>2. nextKeyEnd(t, a) = q
    BY <2>1, TokenEndIs DEF nextKeyEnd
  <2> QED BY <2>2 DEF q
<1>6. skipWhitespaces(t, b + 1) = e
  <2> DEFINE q == b + 1
  <2>1. /\ q \in 1 .. Len(t) + 1 /\ e \in q .. Len(t) + 1
        /\ (\A k \in q .. e - 1 : t[k] \in Blanks) /\ CharAt(t, e) \notin Blanks
    BY <1>0, <1>1 DEF CharAt
  <2> HIDE DEF q
  <2>2. skipWhitespaces(t, q) = e
    BY <2>1, TokenEndIs DEF skipWhitespaces
  <2> QED BY <2>2 DEF q
<1> QED BY <1>3, <1>5, <1>6

(* What the scanner takes for a key is one.                                *)
LEMMA KeyScan ==
  ASSUME NEW A, NEW t \in Seq(A), NEW p \in 1 .. Len(t) + 1,
         NEW a \in Nat, NEW q \in Nat, NEW e \in Nat,
         a = nextKeyStart(t, p), a # 0, q = nextKeyEnd(t, a), e = skipWhitespaces(t, q)
  PROVE  /\ a \in p .. Len(t) /\ q \in a + 1 .. Len(t) + 1 /\ e \in q .. Len(t) + 1
         /\ Inked(t, p, e - 1, a, q - 1) /\ IsKey(SubSeq(t, a, q - 1))
         /\ \A k \in p .. e - 1 : t[k] \in KeyChars \/ t[k] \in Blanks
<1>0. Len(t) \in Nat /\ p \in Nat
  OBVIOUS
<1>1. /\ a \in p .. Len(t) /\ t[a] \in Letters /\ t[a] \notin Blanks
      /\ \A k \in p .. a - 1 : t[k] \in Blanks
  BY ClassesEnd, TokenStart DEF nextKeyStart
<1>2. a \in 1 .. Len(t) + 1 /\ a \in Nat \ {0}
  BY <1>0, <1>1
<1>3. /\ q \in a .. Len(t) + 1 /\ CharAt(t, q) \notin KeyChars
      /\ \A k \in a .. q - 1 : t[k] \in KeyChars
  BY <1>2, ClassesEnd, TokenEnd DEF nextKeyEnd
<1>4. q # a
  <2>1. CharAt(t, a) = t[a]
    BY <1>1 DEF CharAt
  <2> QED BY <1>1, <1>3, <2>1, Classes
<1>5. q \in a + 1 .. Len(t) + 1 /\ q \in 1 .. Len(t) + 1
  BY <1>0, <1>2, <1>3, <1>4
<1>6. /\ e \in q .. Len(t) + 1 /\ \A k \in q .. e - 1 : t[k] \in Blanks
  BY <1>5, ClassesEnd, TokenEnd DEF skipWhitespaces
<1> DEFINE b == q - 1
<1>7. /\ b \in a .. Len(t) /\ b + 1 = q /\ b \in a .. e - 1 /\ a \in p .. e - 1
      /\ \A k \in a .. b : t[k] \in KeyChars
  BY <1>0, <1>1, <1>3, <1>5, <1>6
<1> HIDE DEF b
<1>8. IsKey(SubSeq(t, a, b))
  BY <1>1, <1>2, <1>7, KeyPart
<1>9. Inked(t, p, e - 1, a, b)
  <2>1. t[b] \notin Blanks
    BY <1>7, Classes
  <2>2. \A k \in b + 1 .. e - 1 : t[k] \in Blanks
    BY <1>6, <1>7
  <2> QED BY <1>1, <1>7, <2>1, <2>2 DEF Inked
<1>10. ASSUME NEW k \in p .. e - 1 PROVE t[k] \in KeyChars \/ t[k] \in Blanks
  <2>1. k \in p .. a - 1 \/ k \in a .. b \/ k \in q .. e - 1
    BY <1>0, <1>1, <1>5, <1>6, <1>7
  <2> QED BY <1>1, <1>6, <1>7, <2>1
<1> QED BY <1>1, <1>5, <1>6, <1>8, <1>9, <1>10 DEF b

(* A value, and the character that follows it.                             *)
LEMMA ValueRun ==
  ASSUME NEW A, NEW t \in Seq(A), NEW p \in Nat \ {0}, NEW e \in p .. Len(t),
         NEW a \in Nat, NEW b \in Nat, Inked(t, p, e - 1, a, b), IsValue(SubSeq(t, a, b)),
         t[e] \in {Comma, ")"}
  PROVE  /\ nextValueStart(t, p) = a /\ ValueEnd(t, a) = b + 1
         /\ skipWhitespaces(t, b + 1) = e /\ b + 1 # 0 /\ a # 0
<1>0. /\ Len(t) \in Nat /\ a \in p .. Len(t) /\ b \in a .. Len(t) /\ b < e /\ a \in Nat \ {0}
      /\ p \in 1 .. Len(t) + 1 /\ a \in 1 .. Len(t) + 1 /\ b + 1 \in 1 .. Len(t) + 1
      /\ b + 1 \in a .. Len(t) + 1 /\ (b + 1) - 1 = b
      /\ e \in b + 1 .. Len(t) + 1 /\ b \in Nat
  BY DEF Inked
<1>1. /\ t[a] \notin Blanks /\ (\A k \in p .. a - 1 : t[k] \in Blanks)
      /\ \A k \in b + 1 .. e - 1 : t[k] \in Blanks
  BY DEF Inked
<1>2. t[e] \notin Blanks /\ t[e] \notin ValueChars
  BY Classes
<1>3. skipWhitespaces(t, b + 1) = e
  <2> DEFINE q == b + 1
  <2>1. /\ q \in 1 .. Len(t) + 1 /\ e \in q .. Len(t) + 1
        /\ (\A k \in q .. e - 1 : t[k] \in Blanks) /\ CharAt(t, e) \notin Blanks
    BY <1>0, <1>1, <1>2 DEF CharAt
  <2> HIDE DEF q
  <2>2. skipWhitespaces(t, q) = e
    BY <2>1, TokenEndIs DEF skipWhitespaces
  <2> QED BY <2>2 DEF q
<1>4. t[a] \in ValueStart /\ ValueEnd(t, a) = b + 1
  <2>1. CASE IsToken(SubSeq(t, a, b))
    <3>1. t[a] \in ValueStart /\ \A k \in a .. b : t[k] \in ValueChars
      BY <1>0, <2>1, TokenPart
    <3>2. CharAt(t, b + 1) \notin ValueChars
      <4>1. b + 1 <= Len(t)
        BY <1>0
      <4>2. CharAt(t, b + 1) = t[b + 1]
        BY <4>1 DEF CharAt
      <4>3. CASE b + 1 = e
        BY <1>2, <4>2, <4>3
      <4>4. CASE b + 1 # e
        <5>1. t[b + 1] \in Blanks
          BY <1>0, <1>1, <4>4
        <5> QED BY <4>2, <5>1, Classes
      <4> QED BY <4>3, <4>4
    <3>3. nextValueEnd(t, a) = b + 1
      <4> DEFINE q == b + 1
      <4>1. /\ a \in 1 .. Len(t) + 1 /\ q \in a .. Len(t) + 1
            /\ CharAt(t, q) \notin ValueChars /\ \A k \in a .. q - 1 : t[k] \in ValueChars
        BY <1>0, <3>1, <3>2
      <4> HIDE DEF q
      <4>2. nextValueEnd(t, a) = q
        BY <4>1, TokenEndIs DEF nextValueEnd
      <4> QED BY <4>2 DEF q
    <3>4. t[a] \notin {"q", "<"}
      <4>1. t[a] \in ValueChars
        BY <1>0, <3>1
      <4> QED BY <4>1, Classes
    <3> QED BY <3>1, <3>3, <3>4 DEF ValueEnd
  <2>2. ASSUME NEW open, NEW close, IsEnclosed(SubSeq(t, a, b), open, close),
               (open = "q" /\ close = "q") \/ (open = "<" /\ close = ">")
        PROVE  t[a] \in ValueStart /\ ValueEnd(t, a) = b + 1
    <3>1. /\ a < b /\ t[a] = open /\ t[b] = close
          /\ \A k \in a + 1 .. b - 1 : t[k] # close
      BY <1>0, <2>2, EnclosedPart
    <3>2. strchr(t, a + 1, close) = b
      <4> DEFINE p2 == a + 1
      <4>1. p2 \in Nat \ {0} /\ b \in p2 .. Len(t) /\ \A k \in p2 .. b - 1 : t[k] # close
        BY <1>0, <3>1
      <4> HIDE DEF p2
      <4>2. strchr(t, p2, close) = b
        BY <3>1, <4>1, StrchrIs
      <4> QED BY <4>2 DEF p2
    <3>3. t[a] \in {"q", "<"} /\ close = (IF t[a] = "q" THEN "q" ELSE ">")
      BY <2>2, <3>1
    <3>4. b # 0
      BY <1>0
    <3>5. ValueEnd(t, a) = b + 1
      BY <3>2, <3>3, <3>4 DEF ValueEnd
    <3>6. t[a] \in ValueStart
      BY <3>3, Zenon DEF ValueStart
    <3> QED BY <3>5, <3>6
  <2> QED BY <2>1, <2>2, Zenon DEF IsValue
<1>5. nextValueStart(t, p) = a
  BY <1>0, <1>1, <1>4, TokenStartIs DEF nextValueStart
<1> QED BY <1>0, <1>3, <1>4, <1>5

(* What the scanner takes for a value is one.                              *)
LEMMA ValueScan ==
  ASSUME NEW A, NEW t \in Seq(A), NEW p \in 1 .. Len(t) + 1,
         NEW a \in Nat, NEW q \in Nat, NEW e \in Nat,
         a = nextValueStart(t, p), a # 0, q = ValueEnd(t, a), q # 0,
         e = skipWhitespaces(t, q)
  PROVE  /\ a \in p .. Len(t) /\ q \in a + 1 .. Len(t) + 1 /\ e \in q .. Len(t) + 1
         /\ Inked(t, p, e - 1, a, q - 1) /\ IsValue(SubSeq(t, a, q - 1))
<1>0. Len(t) \in Nat /\ p \in Nat
  OBVIOUS
<1>1. /\ a \in p .. Len(t) /\ t[a] \in ValueStart /\ t[a] \notin Blanks
      /\ \A k \in p .. a - 1 : t[k] \in Blanks
  BY ClassesEnd, TokenStart DEF nextValueStart
<1>2. a \in 1 .. Len(t) + 1 /\ a \in Nat \ {0}
  BY <1>0, <1>1
<1> DEFINE b == q - 1
<1>3. q \in a + 1 .. Len(t) + 1 /\ IsValue(SubSeq(t, a, b)) /\ t[b] \notin Blanks
  <2>1. CASE t[a] \notin {"q", "<"}
    <3>1. q = nextValueEnd(t, a)
      BY <2>1 DEF ValueEnd
    <3>2. /\ q \in a .. Len(t) + 1 /\ CharAt(t, q) \notin ValueChars
          /\ \A k \in a .. q - 1 : t[k] \in ValueChars
      BY <1>2, <3>1, ClassesEnd, TokenEnd DEF nextValueEnd
    <3>3. t[a] \in ValueChars
      BY <1>1, <2>1, Classes
    <3>4. q # a
      <4>1. CharAt(t, a) = t[a]
        BY <1>1 DEF CharAt
      <4> QED BY <3>2, <3>3, <4>1
    <3>5. /\ q \in a + 1 .. Len(t) + 1 /\ b \in a .. Len(t)
          /\ \A k \in a .. b : t[k] \in ValueChars
      BY <1>0, <1>2, <3>2, <3>4
    <3> HIDE DEF b
    <3>6. IsToken(SubSeq(t, a, b))
      BY <1>1, <1>2, <3>5, TokenPart
    <3>7. t[b] \notin Blanks
      BY <3>5, Classes
    <3> QED BY <3>5, <3>6, <3>7, Zenon DEF IsValue
  <2>2. CASE t[a] \in {"q", "<"}
    <3> DEFINE close == IF t[a] = "q" THEN "q" ELSE ">"
               x == strchr(t, a + 1, close)
    <3>1. x # 0 /\ q = x + 1
      BY <2>2 DEF ValueEnd
    <3>2. x \in a + 1 .. Len(t) /\ t[x] = close /\ \A k \in a + 1 .. x - 1 : t[k] # close
      <4> DEFINE p2 == a + 1
      <4>1. p2 \in Nat \ {0}
        BY <1>2
      <4> HIDE DEF p2, close
      <4>2. strchr(t, p2, close) # 0 => 
              /\ strchr(t, p2, close) \in p2 .. Len(t) /\ t[strchr(t, p2, close)] = close
              /\ \A k \in p2 .. strchr(t, p2, close) - 1 : t[k] # close
        BY <4>1, StrchrFinds
      <4> QED BY <3>1, <4>2 DEF p2
    <3> HIDE DEF x
    <3>3. b = x /\ b \in a .. Len(t) /\ a < b /\ q \in a + 1 .. Len(t) + 1
      BY <1>0, <1>2, <3>1, <3>2
    <3> HIDE DEF b
    <3>4. IsEnclosed(SubSeq(t, a, b), t[a], close)
      <4> HIDE DEF close
      <4> QED BY <1>2, <3>2, <3>3, EnclosedPart
    <3>5. (t[a] = "q" /\ close = "q") \/ (t[a] = "<" /\ close = ">")
      BY <2>2
    <3>6. t[b] \notin Blanks
      BY <3>2, <3>3, <3>5, Classes
    <3> HIDE DEF close
    <3>7. IsValue(SubSeq(t, a, b))
      BY <3>4, <3>5, Zenon DEF IsValue
    <3> QED BY <3>3, <3>6, <3>7
  <2> QED BY <2>1, <2>2
<1>4. q \in 1 .. Len(t) + 1
  BY <1>0, <1>2, <1>3
<1>5. /\ e \in q .. Len(t) + 1 /\ \A k \in q .. e - 1 : t[k] \in Blanks
  BY <1>4, ClassesEnd, TokenEnd DEF skipWhitespaces
<1>6. b \in a .. Len(t) /\ b + 1 = q /\ b \in a .. e - 1 /\ a \in p .. e - 1
  BY <1>0, <1>1, <1>3, <1>5, SMTT(30)
<1>7. Inked(t, p, e - 1, a, b)
  <2>1. \A k \in b + 1 .. e - 1 : t[k] \in Blanks
    BY <1>5, <1>6
  <2> HIDE DEF b
  <2> QED BY <1>1, <1>3, <1>6, <2>1 DEF Inked
<1> QED BY <1>1, <1>3, <1>5, <1>7

(* Two parts on both sides of a character.                                 *)
LEMMA PartsAround ==
  ASSUME NEW A, NEW t \in Seq(A), NEW i \in Nat \ {0}, NEW j \in 0 .. Len(t), i <= j + 1
  PROVE  \A k \in 1 .. j - i + 1 :
           /\ Before(SubSeq(t, i, j), k) = SubSeq(t, i, i + k - 2)
           /\ Behind(SubSeq(t, i, j), k) = SubSeq(t, i + k, j)
           /\ SubSeq(t, i, j)[k] = t[i + k - 1] /\ Len(SubSeq(t, i, j)) = j - i + 1
<1> TAKE k \in 1 .. j - i + 1
<1> DEFINE s == SubSeq(t, i, j)
           n == j - i + 1
<1>1. s \in Seq(A) /\ Len(s) = n /\ \A x \in 1 .. n : s[x] = t[i + x - 1]
  BY Part
<1>2. SubSeq(s, 1, k - 1) = SubSeq(t, i, i + k - 2)
  <2> DEFINE y == k - 1
  <2>1. y \in 0 .. j - i + 1 /\ 1 <= y + 1 /\ i + 1 - 1 = i /\ i + y - 1 = i + k - 2
    OBVIOUS
  <2> HIDE DEF y
  <2>2. SubSeq(s, 1, y) = SubSeq(t, i + 1 - 1, i + y - 1)
    BY <2>1, PartOfPart
  <2> QED BY <2>1, <2>2 DEF y
<1>3. SubSeq(s, k + 1, n) = SubSeq(t, i + k, j)
  <2> DEFINE x == k + 1
  <2>1. x \in Nat \ {0} /\ n \in 0 .. j - i + 1 /\ x <= n + 1 /\ i + x - 1 = i + k
          /\ i + n - 1 = j
    OBVIOUS
  <2> HIDE DEF x, n
  <2>2. SubSeq(s, x, n) = SubSeq(t, i + x - 1, i + n - 1)
    BY <2>1, PartOfPart
  <2> QED BY <2>1, <2>2 DEF x
<1> QED BY <1>1, <1>2, <1>3 DEF Before, Behind

(* The two forms of a parameter, by their positions.                       *)
Flag(t, i, j, a, b) == Inked(t, i, j, a, b) /\ IsKey(SubSeq(t, a, b))
Assigned(t, i, j, e, a, b, c, d) ==
  /\ e \in i .. j /\ t[e] = "="
  /\ Inked(t, i, e - 1, a, b) /\ IsKey(SubSeq(t, a, b))
  /\ Inked(t, e + 1, j, c, d) /\ IsValue(SubSeq(t, c, d))
Par(name, value) == [parameter |-> name, value |-> value]

(* Keys and values are not empty.                                          *)
LEMMA NotEmpty == ~IsKey(<<>>) /\ ~IsValue(<<>>)
<1>1. ~IsKey(<<>>) /\ ~IsToken(<<>>)
  BY Zenon DEF IsKey, IsToken
<1>2. ~IsEnclosed(<<>>, "q", "q") /\ ~IsEnclosed(<<>>, "<", ">")
  <2>1. ~(Len(<<>>) >= 2)
    OBVIOUS
  <2> QED BY <2>1, Zenon DEF IsEnclosed
<1> QED BY <1>1, <1>2, Zenon DEF IsValue

(* The parameters of a piece of the text ...                               *)
LEMMA ItemHas ==
  ASSUME NEW A, NEW t \in Seq(A), NEW i \in Nat \ {0}, NEW j \in 0 .. Len(t), i <= j + 1
  PROVE  /\ \A a, b \in Nat : Flag(t, i, j, a, b) =>
              Par(SubSeq(t, a, b), BOOLVALUE) \in Item(SubSeq(t, i, j))
         /\ \A e, a, b, c, d \in Nat : Assigned(t, i, j, e, a, b, c, d) =>
              Par(SubSeq(t, a, b), SubSeq(t, c, d)) \in Item(SubSeq(t, i, j))
<1> DEFINE s == SubSeq(t, i, j)
<1>1. ASSUME NEW a \in Nat, NEW b \in Nat, Flag(t, i, j, a, b)
      PROVE  Par(SubSeq(t, a, b), BOOLVALUE) \in Item(s)
  <2>1. Trim(s) = SubSeq(t, a, b)
    BY <1>1, TrimIs DEF Flag
  <2>2. IsKey(Trim(s))
    BY <1>1, <2>1 DEF Flag
  <2> HIDE DEF s
  <2> QED BY <2>1, <2>2, Zenon DEF Item, Par
<1>2. ASSUME NEW e \in Nat, NEW a \in Nat, NEW b \in Nat, NEW c \in Nat, NEW d \in Nat,
             Assigned(t, i, j, e, a, b, c, d)
      PROVE  Par(SubSeq(t, a, b), SubSeq(t, c, d)) \in Item(s)
  <2> DEFINE k == e - i + 1
  <2>0. e \in i .. j /\ t[e] = "=" /\ Len(t) \in Nat
    BY <1>2 DEF Assigned
  <2>1. k \in 1 .. j - i + 1 /\ i + k - 2 = e - 1 /\ i + k = e + 1 /\ i + k - 1 = e
    BY <2>0
  <2>2. /\ Before(s, k) = SubSeq(t, i, e - 1) /\ Behind(s, k) = SubSeq(t, e + 1, j)
        /\ s[k] = "=" /\ k \in 1 .. Len(s)
    <3>1. \A x \in 1 .. j - i + 1 :
             /\ Before(SubSeq(t, i, j), x) = SubSeq(t, i, i + x - 2)
             /\ Behind(SubSeq(t, i, j), x) = SubSeq(t, i + x, j)
             /\ SubSeq(t, i, j)[x] = t[i + x - 1] /\ Len(SubSeq(t, i, j)) = j - i + 1
      BY PartsAround
    <3> HIDE DEF k
    <3> QED BY <2>0, <2>1, <3>1
  <2>3. Trim(Before(s, k)) = SubSeq(t, a, b)
    <3> DEFINE j2 == e - 1
    <3>1. j2 \in 0 .. Len(t) /\ i <= j2 + 1 /\ Inked(t, i, j2, a, b)
      BY <1>2, <2>0 DEF Assigned
    <3> HIDE DEF j2
    <3>2. Trim(SubSeq(t, i, j2)) = SubSeq(t, a, b)
      BY <3>1, TrimIs
    <3> QED BY <2>2, <3>2 DEF j2
  <2>4. Trim(Behind(s, k)) = SubSeq(t, c, d)
    <3> DEFINE i2 == e + 1
    <3>1. i2 \in Nat \ {0} /\ i2 <= j + 1 /\ Inked(t, i2, j, c, d)
      BY <1>2, <2>0 DEF Assigned
    <3> HIDE DEF i2
    <3>2. Trim(SubSeq(t, i2, j)) = SubSeq(t, c, d)
      BY <3>1, TrimIs
    <3> QED BY <2>2, <3>2 DEF i2
  <2>5. IsKey(Trim(Before(s, k))) /\ IsValue(Trim(Behind(s, k)))
    BY <1>2, <2>3, <2>4 DEF Assigned
  <2> HIDE DEF s, k
  <2>6. [parameter |-> Trim(Before(s, k)), value |-> Trim(Behind(s, k))] \in Item(s)
    BY <2>2, <2>5, Zenon DEF Item
  <2> QED BY <2>3, <2>4, <2>6 DEF Par
<1> QED BY <1>1, <1>2

(* ... and no others.                                                      *)
LEMMA ItemOf ==
  ASSUME NEW A, NEW t \in Seq(A), NEW i \in Nat \ {0}, NEW j \in 0 .. Len(t), i <= j + 1
  PROVE  \A x \in Item(SubSeq(t, i, j)) :
           \/ \E a, b \in Nat : Flag(t, i, j, a, b) /\ x = Par(SubSeq(t, a, b), BOOLVALUE)
           \/ \E e, a, b, c, d \in Nat : /\ Assigned(t, i, j, e, a, b, c, d)
                                         /\ x = Par(SubSeq(t, a, b), SubSeq(t, c, d))
<1>0. \A y \in 1 .. j - i + 1 :
         /\ Before(SubSeq(t, i, j), y) = SubSeq(t, i, i + y - 2)
         /\ Behind(SubSeq(t, i, j), y) = SubSeq(t, i + y, j)
         /\ SubSeq(t, i, j)[y] = t[i + y - 1] /\ Len(SubSeq(t, i, j)) = j - i + 1
  BY PartsAround
<1> TAKE x \in Item(SubSeq(t, i, j))
<1> DEFINE s == SubSeq(t, i, j)
<1>1. \/ IsKey(Trim(s)) /\ x = Par(Trim(s), BOOLVALUE)
      \/ \E k \in 1 .. Len(s) : /\ s[k] = "=" /\ IsKey(Trim(Before(s, k)))
                                /\ IsValue(Trim(Behind(s, k)))
                                /\ x = Par(Trim(Before(s, k)), Trim(Behind(s, k)))
  <2> HIDE DEF s
  <2> QED BY Zenon DEF Item, Par, s
<1>2. CASE IsKey(Trim(s)) /\ x = Par(Trim(s), BOOLVALUE)
  <2>1. PICK a, b \in Nat : Inked(t, i, j, a, b)
    BY <1>2, NotEmpty, TrimFound
  <2>2. Trim(s) = SubSeq(t, a, b)
    BY <2>1, TrimIs
  <2> HIDE DEF s
  <2> QED BY <1>2, <2>1, <2>2 DEF Flag
<1>3. ASSUME NEW k \in 1 .. Len(s), s[k] = "=", IsKey(Trim(Before(s, k))),
             IsValue(Trim(Behind(s, k))), x = Par(Trim(Before(s, k)), Trim(Behind(s, k)))
      PROVE  \E e, a, b, c, d \in Nat : /\ Assigned(t, i, j, e, a, b, c, d)
                                        /\ x = Par(SubSeq(t, a, b), SubSeq(t, c, d))
  <2> DEFINE e == i + k - 1
             j2 == e - 1
             i2 == e + 1
  <2>0. Len(s) = j - i + 1
    BY Part
  <2>1. k \in 1 .. j - i + 1
    BY <2>0
  <2>2. /\ e \in i .. j /\ j2 \in 0 .. Len(t) /\ i <= j2 + 1 /\ i2 \in Nat \ {0} /\ i2 <= j + 1
        /\ i + k - 2 = j2 /\ i + k = i2 /\ e \in Nat
    BY <2>1
  <2>3. Before(s, k) = SubSeq(t, i, j2) /\ Behind(s, k) = SubSeq(t, i2, j) /\ t[e] = "="
    <3>1. /\ Before(s, k) = SubSeq(t, i, i + k - 2)
          /\ Behind(s, k) = SubSeq(t, i + k, j) /\ s[k] = t[i + k - 1]
      BY <1>0, <2>1
    <3> QED BY <1>3, <2>2, <3>1
  <2> HIDE DEF s, j2, i2
  <2>4. PICK a, b \in Nat : Inked(t, i, j2, a, b)
    <3>1. Trim(SubSeq(t, i, j2)) # <<>>
      BY <1>3, <2>3, NotEmpty
    <3> QED BY <2>2, <3>1, TrimFound
  <2>5. PICK c, d \in Nat : Inked(t, i2, j, c, d)
    <3>1. Trim(SubSeq(t, i2, j)) # <<>>
      BY <1>3, <2>3, NotEmpty
    <3> QED BY <2>2, <3>1, TrimFound
  <2>6. Trim(Before(s, k)) = SubSeq(t, a, b) /\ Trim(Behind(s, k)) = SubSeq(t, c, d)
    <3>1. Trim(SubSeq(t, i, j2)) = SubSeq(t, a, b)
      BY <2>2, <2>4, TrimIs
    <3>2. Trim(SubSeq(t, i2, j)) = SubSeq(t, c, d)
      BY <2>2, <2>5, TrimIs
    <3> QED BY <2>3, <3>1, <3>2
  <2>7. Assigned(t, i, j, e, a, b, c, d)
    BY <1>3, <2>2, <2>3, <2>4, <2>5, <2>6 DEF Assigned, j2, i2
  <2> QED BY <1>3, <2>2, <2>6, <2>7
<1> HIDE DEF s
<1> QED BY <1>1, <1>2, <1>3

(* The positions in a turn of the loop in parseParameters, and its result. *)
KeyAt(t, p)    == nextKeyStart(t, p)
KeyEndAt(t, p) == nextKeyEnd(t, KeyAt(t, p))
EqualsAt(t, p) == skipWhitespaces(t, KeyEndAt(t, p))
NoValue(t, p)  == CharAt(t, EqualsAt(t, p)) \in {Comma, ")"}
ValueAt(t, p)  == nextValueStart(t, EqualsAt(t, p) + 1)
EndAt(t, p)    == IF NoValue(t, p) THEN EqualsAt(t, p) ELSE ValueEnd(t, ValueAt(t, p))
NextAt(t, p)   == skipWhitespaces(t, EndAt(t, p))
ParAt(t, p)    == Par(SubSeq(t, KeyAt(t, p), KeyEndAt(t, p) - 1),
                      IF NoValue(t, p) THEN BOOLVALUE
                      ELSE SubSeq(t, ValueAt(t, p), EndAt(t, p) - 1))
NoKey(t, p) ==
  \/ KeyAt(t, p) = 0
  \/ ~NoValue(t, p) /\ (CharAt(t, EqualsAt(t, p)) # "=" \/ ValueAt(t, p) = 0)
NoEnd(t, p) == EndAt(t, p) = 0 \/ CharAt(t, NextAt(t, p)) \notin {Comma, ")"}

(* parseParameter in terms of these positions.                             *)
LEMMA ParameterParsed ==
  ASSUME NEW t, NEW p
  PROVE  parseParameter(t, p) =
           IF NoKey(t, p) THEN [p |-> 0, par |-> [parameter |-> <<>>, value |-> <<>>]]
           ELSE IF NoEnd(t, p) THEN [p |-> 0, par |-> [parameter |-> <<>>, value |-> <<>>]]
           ELSE [p   |-> IF t[NextAt(t, p)] = Comma THEN NextAt(t, p) + 1 ELSE NextAt(t, p),
                 par |-> ParAt(t, p)]
  BY Zenon DEF parseParameter, NoKey, NoEnd, ParAt, Par, NextAt, EndAt, ValueAt, NoValue,
               EqualsAt, KeyEndAt, KeyAt

(* The scanner's positions are numbers.                                    *)
LEMMA Positions ==
  ASSUME NEW A, NEW t \in Seq(A), NEW p \in 1 .. Len(t) + 1
  PROVE  /\ nextKeyStart(t, p) \in 0 .. Len(t) /\ nextValueStart(t, p) \in 0 .. Len(t)
         /\ nextKeyEnd(t, p) \in p .. Len(t) + 1 /\ skipWhitespaces(t, p) \in p .. Len(t) + 1
         /\ nextValueEnd(t, p) \in p .. Len(t) + 1
<1>1. /\ nextKeyEnd(t, p) \in p .. Len(t) + 1 /\ skipWhitespaces(t, p) \in p .. Len(t) + 1
      /\ nextValueEnd(t, p) \in p .. Len(t) + 1
  BY ClassesEnd, TokenEnd DEF nextKeyEnd, skipWhitespaces, nextValueEnd
<1>2. nextKeyStart(t, p) # 0 => nextKeyStart(t, p) \in p .. Len(t)
  BY ClassesEnd, TokenStart DEF nextKeyStart
<1>3. nextValueStart(t, p) # 0 => nextValueStart(t, p) \in p .. Len(t)
  BY ClassesEnd, TokenStart DEF nextValueStart
<1>4. Len(t) \in Nat
  OBVIOUS
<1> QED BY <1>1, <1>2, <1>3, <1>4

(* So is the end of a value.                                               *)
LEMMA ValueEndPosition ==
  ASSUME NEW A, NEW t \in Seq(A), NEW p \in 1 .. Len(t)
  PROVE  ValueEnd(t, p) \in 0 .. Len(t) + 1
<1> DEFINE close == IF t[p] = "q" THEN "q" ELSE ">"
           p2 == p + 1
           x == strchr(t, p2, close)
<1>0. Len(t) \in Nat /\ p \in 1 .. Len(t) + 1 /\ p2 \in Nat \ {0}
  OBVIOUS
<1>1. nextValueEnd(t, p) \in 0 .. Len(t) + 1
  BY <1>0, Positions
<1>2. x # 0 => x + 1 \in 0 .. Len(t) + 1
  <2> HIDE DEF close, p2
  <2>1. strchr(t, p2, close) # 0 => strchr(t, p2, close) \in p2 .. Len(t)
    BY <1>0, StrchrFinds
  <2> QED BY <1>0, <2>1
<1>3. ValueEnd(t, p) \in {nextValueEnd(t, p), 0} \/ (x # 0 /\ ValueEnd(t, p) = x + 1)
  BY DEF ValueEnd
<1> HIDE DEF x
<1> QED BY <1>0, <1>1, <1>2, <1>3

(* A parameter that is accepted is one of the grammar's.                   *)
LEMMA ParameterScan ==
  ASSUME NEW A, NEW t \in Seq(A), NEW p \in 1 .. Len(t) + 1, ~NoKey(t, p), ~NoEnd(t, p)
  PROVE  /\ NextAt(t, p) \in p .. Len(t) /\ t[NextAt(t, p)] \in {Comma, ")"}
         /\ ParAt(t, p) \in Item(SubSeq(t, p, NextAt(t, p) - 1))
<1> DEFINE a == KeyAt(t, p)
           q == KeyEndAt(t, p)
           e == EqualsAt(t, p)
           n == NextAt(t, p)
           b == q - 1
<1>0. Len(t) \in Nat /\ Comma # "end"
  BY Classes
<1>1. a # 0 /\ a \in p .. Len(t) /\ a \in 1 .. Len(t) + 1 /\ a \in Nat /\ a = nextKeyStart(t, p)
  BY <1>0, Positions, TokenStart, ClassesEnd DEF KeyAt, NoKey, nextKeyStart
<1>2. q \in 1 .. Len(t) + 1 /\ q \in Nat /\ q = nextKeyEnd(t, a)
  <2> HIDE DEF a
  <2>1. nextKeyEnd(t, a) \in a .. Len(t) + 1
    BY <1>1, Positions
  <2> QED BY <1>0, <1>1, <2>1 DEF KeyEndAt, a
<1>3. e \in q .. Len(t) + 1 /\ e \in Nat /\ e = skipWhitespaces(t, q)
  <2> HIDE DEF q
  <2>1. skipWhitespaces(t, q) \in q .. Len(t) + 1
    BY <1>2, Positions
  <2> QED BY <1>0, <1>2, <2>1 DEF EqualsAt, q
<1>4. /\ q \in a + 1 .. Len(t) + 1 /\ Inked(t, p, e - 1, a, b) /\ IsKey(SubSeq(t, a, b))
  <2> HIDE DEF a, q, e
  <2> QED BY <1>1, <1>2, <1>3, KeyScan
<1>5. /\ b \in Nat /\ e - 1 \in 0 .. Len(t) /\ p <= (e - 1) + 1 /\ p \in Nat \ {0}
      /\ e \in p .. Len(t) + 1
  <2> HIDE DEF a, q, e
  <2> QED BY <1>0, <1>1, <1>2, <1>3, <1>4
<1>6. CASE NoValue(t, p)
  <2>1. CharAt(t, e) \in {Comma, ")"}
    BY <1>6 DEF NoValue
  <2>2. n = skipWhitespaces(t, e) /\ ParAt(t, p) = Par(SubSeq(t, a, b), BOOLVALUE)
    BY <1>6, Zenon DEF NextAt, EndAt, ParAt
  <2> HIDE DEF a, q, e, b, n
  <2>3. e \in p .. Len(t) /\ t[e] \in {Comma, ")"} /\ CharAt(t, e) \notin Blanks
    BY <1>0, <1>5, <2>1, Classes DEF CharAt
  <2>4. n = e
    <3>1. e \in 1 .. Len(t) + 1 /\ e \in e .. Len(t) + 1 /\ \A k \in e .. e - 1 : t[k] \in Blanks
      BY <1>0, <2>3
    <3> QED BY <2>2, <2>3, <3>1, TokenEndIs DEF skipWhitespaces
  <2>5. Flag(t, p, e - 1, a, b)
    BY <1>4 DEF Flag
  <2>6. Par(SubSeq(t, a, b), BOOLVALUE) \in Item(SubSeq(t, p, e - 1))
    <3> DEFINE j == e - 1
    <3> HIDE DEF j
    <3>1. \A x, y \in Nat : Flag(t, p, j, x, y) =>
              Par(SubSeq(t, x, y), BOOLVALUE) \in Item(SubSeq(t, p, j))
      BY <1>5, ItemHas DEF j
    <3> QED BY <1>1, <1>5, <2>5, <3>1 DEF j
  <2> QED BY <2>2, <2>3, <2>4, <2>6 DEF n
<1>7. CASE ~NoValue(t, p)
  <2> DEFINE v == ValueAt(t, p)
             w == EndAt(t, p)
             e2 == e + 1
             d == w - 1
  <2>1. CharAt(t, e) = "=" /\ v # 0 /\ w # 0 /\ CharAt(t, n) \in {Comma, ")"}
    BY <1>7 DEF NoKey, NoEnd
  <2>2. /\ v = nextValueStart(t, e2) /\ w = ValueEnd(t, v) /\ n = skipWhitespaces(t, w)
        /\ ParAt(t, p) = Par(SubSeq(t, a, b), SubSeq(t, v, d))
    BY <1>7, Zenon DEF ValueAt, EndAt, NextAt, ParAt
  <2> HIDE DEF a, q, e, b, n, v, w
  <2>3. e \in p .. Len(t) /\ t[e] = "=" /\ e2 \in 1 .. Len(t) + 1
    BY <1>0, <1>5, <2>1 DEF CharAt
  <2>4. v \in 1 .. Len(t) /\ w \in 1 .. Len(t) + 1
    <3> HIDE DEF e2
    <3>1. v \in 0 .. Len(t)
      BY <2>2, <2>3, Positions
    <3>2. v \in 1 .. Len(t)
      BY <1>0, <2>1, <3>1
    <3>3. w \in 0 .. Len(t) + 1
      BY <2>2, <3>2, ValueEndPosition
    <3> QED BY <1>0, <2>1, <3>2, <3>3
  <2>5. n \in w .. Len(t) + 1 /\ n \in Nat
    BY <1>0, <2>2, <2>4, Positions, SMTT(30)
  <2>6. /\ v \in e2 .. Len(t) /\ w \in v + 1 .. Len(t) + 1
        /\ Inked(t, e2, n - 1, v, d) /\ IsValue(SubSeq(t, v, d))
    <3>1. v \in Nat /\ w \in Nat /\ w # 0 /\ v # 0
      BY <2>1, <2>4
    <3> HIDE DEF e2
    <3> QED BY <2>2, <2>3, <2>5, <3>1, ValueScan
  <2>7. n \in p .. Len(t) /\ t[n] \in {Comma, ")"} /\ e \in p .. n - 1
    BY <1>0, <2>1, <2>3, <2>4, <2>5, <2>6 DEF CharAt
  <2> DEFINE j == n - 1
  <2>8. j \in 0 .. Len(t) /\ p <= j + 1 /\ d \in Nat /\ v \in Nat /\ Len(t) \in Nat
    BY <1>0, <2>4, <2>7
  <2>9. Assigned(t, p, j, e, a, b, v, d)
    BY <1>4, <2>3, <2>6, <2>7 DEF Assigned
  <2>10. Par(SubSeq(t, a, b), SubSeq(t, v, d)) \in Item(SubSeq(t, p, j))
    <3> HIDE DEF j, d
    <3>1. \A f, x, y, x2, y2 \in Nat : Assigned(t, p, j, f, x, y, x2, y2) =>
              Par(SubSeq(t, x, y), SubSeq(t, x2, y2)) \in Item(SubSeq(t, p, j))
      BY <1>5, <2>8, ItemHas
    <3> QED BY <1>1, <1>3, <1>5, <2>8, <2>9, <3>1
  <2> QED BY <2>2, <2>7, <2>10 DEF n
<1> QED BY <1>6, <1>7

(* A parameter of the grammar is accepted, and read up to its end.         *)
LEMMA ParameterRun ==
  ASSUME NEW A, NEW t \in Seq(A), NEW p \in Nat \ {0}, NEW n \in p .. Len(t),
         t[n] \in {Comma, ")"}
  PROVE  \A x \in Item(SubSeq(t, p, n - 1)) :
           ~NoKey(t, p) /\ ~NoEnd(t, p) /\ NextAt(t, p) = n /\ ParAt(t, p) = x
<1> DEFINE j == n - 1
<1>0. j \in 0 .. Len(t) /\ p <= j + 1 /\ Len(t) \in Nat /\ j + 1 = n
  OBVIOUS
<1> HIDE DEF j
<1>1. \A x \in Item(SubSeq(t, p, j)) :
           \/ \E a, b \in Nat : Flag(t, p, j, a, b) /\ x = Par(SubSeq(t, a, b), BOOLVALUE)
           \/ \E e, a, b, c, d \in Nat : /\ Assigned(t, p, j, e, a, b, c, d)
                                         /\ x = Par(SubSeq(t, a, b), SubSeq(t, c, d))
  BY <1>0, ItemOf
<1> SUFFICES ASSUME NEW x, x \in Item(SubSeq(t, p, j))
             PROVE  ~NoKey(t, p) /\ ~NoEnd(t, p) /\ NextAt(t, p) = n /\ ParAt(t, p) = x
  BY DEF j
<1>2. ASSUME NEW a \in Nat, NEW b \in Nat, Flag(t, p, j, a, b),
             x = Par(SubSeq(t, a, b), BOOLVALUE)
      PROVE  ~NoKey(t, p) /\ ~NoEnd(t, p) /\ NextAt(t, p) = n /\ ParAt(t, p) = x
  <2>1. /\ Inked(t, p, n - 1, a, b) /\ IsKey(SubSeq(t, a, b))
        /\ t[n] \notin Blanks /\ t[n] \notin KeyChars
    BY <1>2, Classes DEF Flag, j
  <2>2. nextKeyStart(t, p) = a /\ nextKeyEnd(t, a) = b + 1 /\ skipWhitespaces(t, b + 1) = n
    BY <2>1, KeyRun
  <2>3. KeyAt(t, p) = a /\ KeyEndAt(t, p) = b + 1 /\ EqualsAt(t, p) = n
    BY <2>2 DEF KeyAt, KeyEndAt, EqualsAt
  <2>4. CharAt(t, n) = t[n] /\ a # 0 /\ n # 0 /\ (b + 1) - 1 = b
    BY <2>1 DEF CharAt, Inked
  <2>5. NoValue(t, p) /\ EndAt(t, p) = n
    BY <2>3, <2>4, Zenon DEF NoValue, EndAt
  <2>6. skipWhitespaces(t, n) = n
    <3>1. /\ n \in 1 .. Len(t) + 1 /\ n \in n .. Len(t) + 1 /\ CharAt(t, n) \notin Blanks
          /\ \A k \in n .. n - 1 : t[k] \in Blanks
      BY <1>0, <2>1, <2>4
    <3> QED BY <3>1, TokenEndIs DEF skipWhitespaces
  <2>7. NextAt(t, p) = n
    BY <2>5, <2>6 DEF NextAt
  <2>8. ~NoKey(t, p)
    BY <2>3, <2>4, <2>5, Zenon DEF NoKey
  <2>9. ~NoEnd(t, p)
    BY <2>4, <2>5, <2>7, Zenon DEF NoEnd
  <2>10. ParAt(t, p) = x
    <3>1. SubSeq(t, KeyAt(t, p), KeyEndAt(t, p) - 1) = SubSeq(t, a, b)
      BY <2>3, <2>4
    <3> QED BY <1>2, <2>5, <3>1, Zenon DEF ParAt
  <2> QED BY <2>7, <2>8, <2>9, <2>10
<1>3. ASSUME NEW e \in Nat, NEW a \in Nat, NEW b \in Nat, NEW c \in Nat, NEW d \in Nat,
             Assigned(t, p, j, e, a, b, c, d), x = Par(SubSeq(t, a, b), SubSeq(t, c, d))
      PROVE  ~NoKey(t, p) /\ ~NoEnd(t, p) /\ NextAt(t, p) = n /\ ParAt(t, p) = x
  <2> DEFINE e2 == e + 1
  <2>1. /\ e \in p .. j /\ t[e] = "=" /\ Inked(t, p, e - 1, a, b) /\ IsKey(SubSeq(t, a, b))
        /\ Inked(t, e2, n - 1, c, d) /\ IsValue(SubSeq(t, c, d))
        /\ t[e] \notin Blanks /\ t[e] \notin KeyChars /\ t[e] # Comma /\ t[e] # ")"
    BY <1>3, Classes DEF Assigned, j
  <2>2. e \in p .. Len(t) /\ e2 \in Nat \ {0} /\ n \in e2 .. Len(t)
    BY <1>0, <2>1
  <2>3. nextKeyStart(t, p) = a /\ nextKeyEnd(t, a) = b + 1 /\ skipWhitespaces(t, b + 1) = e
    BY <2>1, <2>2, KeyRun
  <2>4. KeyAt(t, p) = a /\ KeyEndAt(t, p) = b + 1 /\ EqualsAt(t, p) = e
    BY <2>3 DEF KeyAt, KeyEndAt, EqualsAt
  <2>5. CharAt(t, e) = t[e] /\ a # 0 /\ (b + 1) - 1 = b /\ CharAt(t, n) = t[n] /\ (d + 1) - 1 = d
    BY <2>1, <2>2 DEF CharAt, Inked
  <2>6. ~NoValue(t, p)
    BY <2>1, <2>4, <2>5, Zenon DEF NoValue
  <2>7. /\ nextValueStart(t, e2) = c /\ ValueEnd(t, c) = d + 1
        /\ skipWhitespaces(t, d + 1) = n /\ d + 1 # 0 /\ c # 0
    <3> HIDE DEF e2
    <3> QED BY <2>1, <2>2, ValueRun
  <2>8. ValueAt(t, p) = c /\ EndAt(t, p) = d + 1
    BY <2>4, <2>6, <2>7, Zenon DEF ValueAt, EndAt
  <2>9. NextAt(t, p) = n
    BY <2>7, <2>8 DEF NextAt
  <2>10. ~NoKey(t, p)
    BY <2>1, <2>4, <2>5, <2>7, <2>8, Zenon DEF NoKey
  <2>11. ~NoEnd(t, p)
    BY <2>5, <2>7, <2>8, <2>9, Zenon DEF NoEnd
  <2>12. ParAt(t, p) = x
    <3>1. /\ SubSeq(t, KeyAt(t, p), KeyEndAt(t, p) - 1) = SubSeq(t, a, b)
          /\ SubSeq(t, ValueAt(t, p), EndAt(t, p) - 1) = SubSeq(t, c, d)
      BY <2>4, <2>5, <2>8
    <3> QED BY <1>3, <2>6, <3>1, Zenon DEF ParAt
  <2> QED BY <2>9, <2>10, <2>11, <2>12
<1> QED BY <1>1, <1>2, <1>3

(* The positions in parseTimestamp and in parseProtocollIdentifier.        *)
FirstAt(t)  == skipWhitespaces(t, 1)
FirstIn(t)  == CharAt(t, FirstAt(t))
DigitsAt(t) == IF FirstIn(t) = "+" THEN FirstAt(t) + 1 ELSE FirstAt(t)
DigitsTo(t) == nextTokenEnd(t, DigitsAt(t), Digits)
ColonAt(t)  == nextTokenStart(t, DigitsTo(t), {":"})
StampStart  == Digits \union {"+"}
OpenAt(t, p) == nextTokenStart(t, KeyEndAt(t, p), {"("})

(* parseTimestamp in terms of these positions ...                          *)
LEMMA TimestampParsed ==
  ASSUME NEW t
  PROVE  /\ FirstIn(t) \notin StampStart =>
              parseTimestamp(t) = [p |-> FirstAt(t), stamp |-> "none"]
         /\ FirstIn(t) \in StampStart /\ (DigitsTo(t) = DigitsAt(t) \/ ColonAt(t) = 0) =>
              parseTimestamp(t) = [p |-> 0, stamp |-> "none"]
         /\ FirstIn(t) \in StampStart /\ DigitsTo(t) # DigitsAt(t) /\ ColonAt(t) # 0 =>
              parseTimestamp(t) = [p |-> ColonAt(t) + 1,
                                   stamp |-> IF FirstIn(t) = "+" THEN "relative" ELSE "absolute"]
  BY Zenon DEF parseTimestamp, FirstAt, FirstIn, DigitsAt, DigitsTo, ColonAt, StampStart,
               nextCharIgnoreWhitspaces

(* ... and parseProtocollIdentifier.                                       *)
LEMMA KeywordParsed ==
  ASSUME NEW t, NEW p
  PROVE  parseProtocollIdentifier(t, p) =
           IF KeyAt(t, p) = 0 \/ OpenAt(t, p) = 0 THEN [p |-> 0, keyword |-> <<>>]
           ELSE [p |-> OpenAt(t, p), keyword |-> SubSeq(t, KeyAt(t, p), KeyEndAt(t, p) - 1)]
  BY Zenon DEF parseProtocollIdentifier, KeyAt, KeyEndAt, OpenAt, nextCharIgnoreWhitspaces

(* A time stamp by its positions.                                          *)
DigitsFrom(t, a) == IF t[a] = "+" THEN a + 1 ELSE a
LEMMA StampPart ==
  ASSUME NEW A, NEW t \in Seq(A), NEW a \in Nat \ {0}, NEW b \in a .. Len(t)
  PROVE  IsStamp(SubSeq(t, a, b)) <=>
           DigitsFrom(t, a) <= b /\ \A k \in DigitsFrom(t, a) .. b : t[k] \in Digits
<1> DEFINE s == SubSeq(t, a, b)
           n == b - a + 1
           a2 == a + 1
<1>0. Len(t) \in Nat /\ b \in 0 .. Len(t) /\ a <= b + 1 /\ a2 \in Nat \ {0} /\ a2 <= b + 1
  OBVIOUS
<1>1. s \in Seq(A) /\ Len(s) = n /\ s[1] = t[a] /\ s # <<>>
  <2>1. s \in Seq(A) /\ Len(s) = n /\ \A x \in 1 .. n : s[x] = t[a + x - 1]
    BY <1>0, Part
  <2>2. n >= 1 /\ 1 \in 1 .. n /\ a + 1 - 1 = a
    OBVIOUS
  <2>3. s[1] = t[a]
    BY <2>1, <2>2
  <2> HIDE DEF s, n
  <2> QED BY <2>1, <2>2, <2>3
<1>2. Consists(s, Digits) <=> \A k \in a .. b : t[k] \in Digits
  BY <1>0, PartConsists
<1>3. Behind(s, 1) = SubSeq(t, a2, b)
  <2>1. \A k \in 1 .. b - a + 1 :
           /\ Before(SubSeq(t, a, b), k) = SubSeq(t, a, a + k - 2)
           /\ Behind(SubSeq(t, a, b), k) = SubSeq(t, a + k, b)
           /\ SubSeq(t, a, b)[k] = t[a + k - 1] /\ Len(SubSeq(t, a, b)) = b - a + 1
    BY <1>0, PartsAround
  <2>2. 1 \in 1 .. b - a + 1
    OBVIOUS
  <2> QED BY <2>1, <2>2
<1>4. /\ SubSeq(t, a2, b) # <<>> <=> a2 <= b
      /\ Consists(SubSeq(t, a2, b), Digits) <=> \A k \in a2 .. b : t[k] \in Digits
  <2> HIDE DEF a2
  <2>1. SubSeq(t, a2, b) \in Seq(A) /\ Len(SubSeq(t, a2, b)) = b - a2 + 1
    BY <1>0, Part
  <2>2. SubSeq(t, a2, b) # <<>> <=> a2 <= b
    BY <1>0, <2>1
  <2>3. Consists(SubSeq(t, a2, b), Digits) <=> \A k \in a2 .. b : t[k] \in Digits
    BY <1>0, PartConsists
  <2> QED BY <2>2, <2>3
<1>5. CASE t[a] = "+"
  <2>1. DigitsFrom(t, a) = a2
    BY <1>5 DEF DigitsFrom
  <2> HIDE DEF s, a2
  <2>2. IsStamp(s) <=> SubSeq(t, a2, b) # <<>> /\ Consists(SubSeq(t, a2, b), Digits)
    BY <1>1, <1>3, <1>5, Zenon DEF IsStamp
  <2> QED BY <1>4, <2>1, <2>2 DEF s
<1>6. CASE t[a] # "+"
  <2>1. DigitsFrom(t, a) = a /\ a <= b
    BY <1>6 DEF DigitsFrom
  <2> HIDE DEF s, a2
  <2>2. IsStamp(s) <=> Consists(s, Digits)
    BY <1>1, <1>6, Zenon DEF IsStamp
  <2> QED BY <1>2, <2>1, <2>2 DEF s
<1> QED BY <1>5, <1>6

(* A time stamp and a key by their positions.                              *)
Stamped(t, o, c, a, b, x, y) ==
  /\ c \in 1 .. o - 1 /\ t[c] = ":"
  /\ Inked(t, 1, c - 1, a, b) /\ IsStamp(SubSeq(t, a, b))
  /\ Inked(t, c + 1, o - 1, x, y) /\ IsKey(SubSeq(t, x, y))
StampKind(c) == IF c = "+" THEN "relative" ELSE "absolute"

(* What such a heading looks like from its first character on.             *)
LEMMA StampedInk ==
  ASSUME NEW A, NEW t \in Seq(A), NEW o \in 1 .. Len(t)
  PROVE  \A c, a, b, x, y \in Nat : Stamped(t, o, c, a, b, x, y) =>
           /\ Trim(SubSeq(t, 1, o - 1)) = SubSeq(t, a, y) /\ SubSeq(t, a, y)[1] = t[a]
           /\ t[a] \in StampStart /\ ~IsKey(SubSeq(t, a, y))
           /\ DigitsFrom(t, a) <= b /\ \A k \in DigitsFrom(t, a) .. b : t[k] \in Digits
<1> TAKE c, a, b, x, y \in Nat
<1> HAVE Stamped(t, o, c, a, b, x, y)
<1> DEFINE j == o - 1
<1>1. /\ c \in 1 .. j /\ a \in 1 .. c - 1 /\ b \in a .. c - 1 /\ x \in c + 1 .. j /\ y \in x .. j
      /\ t[a] \notin Blanks /\ t[y] \notin Blanks
      /\ \A k \in 1 .. a - 1 : t[k] \in Blanks
      /\ \A k \in y + 1 .. j : t[k] \in Blanks
  BY DEF Stamped, Inked
<1>2. /\ Len(t) \in Nat /\ j \in 0 .. Len(t) /\ 1 <= j + 1 /\ a \in Nat \ {0} /\ b \in a .. Len(t)
      /\ y \in a .. Len(t) /\ a \in 1 .. j /\ y \in a .. j /\ 1 \in Nat \ {0}
      /\ y \in 0 .. Len(t) /\ a <= y + 1
  BY <1>1
<1>3. Inked(t, 1, j, a, y)
  BY <1>1, <1>2 DEF Inked
<1>4. Trim(SubSeq(t, 1, j)) = SubSeq(t, a, y)
  <2> HIDE DEF j
  <2> QED BY <1>2, <1>3, TrimIs
<1>5. SubSeq(t, a, y)[1] = t[a]
  <2>1. \A k \in 1 .. y - a + 1 : SubSeq(t, a, y)[k] = t[a + k - 1]
    BY <1>2, Part
  <2>2. 1 \in 1 .. y - a + 1 /\ a + 1 - 1 = a
    BY <1>2
  <2> QED BY <2>1, <2>2
<1>6. DigitsFrom(t, a) <= b /\ \A k \in DigitsFrom(t, a) .. b : t[k] \in Digits
  BY <1>2, StampPart DEF Stamped
<1>7. t[a] \in StampStart
  <2>1. CASE t[a] = "+"
    BY <2>1, Zenon DEF StampStart
  <2>2. CASE t[a] # "+"
    <3>1. DigitsFrom(t, a) = a /\ a \in a .. b
      BY <1>2, <2>2 DEF DigitsFrom
    <3>2. t[a] \in Digits
      BY <1>6, <3>1
    <3> QED BY <3>2, Zenon DEF StampStart
  <2> QED BY <2>1, <2>2
<1>8. t[a] \notin Letters
  BY <1>7, Classes, Zenon DEF StampStart
<1>9. ~IsKey(SubSeq(t, a, y))
  BY <1>2, <1>8, KeyPart
<1> QED BY <1>4, <1>5, <1>6, <1>7, <1>9

(* What can be read in front of the parenthesis ...                        *)
LEMMA HeadingHas ==
  ASSUME NEW A, NEW t \in Seq(A), NEW o \in 1 .. Len(t)
  PROVE  /\ \A a, b \in Nat : Flag(t, 1, o - 1, a, b) => "none" \in Heading(Before(t, o))
         /\ \A c, a, b, x, y \in Nat : Stamped(t, o, c, a, b, x, y) =>
              StampKind(t[a]) \in Heading(Before(t, o))
<1>ink. \A d, a, b, x, y \in Nat : Stamped(t, o, d, a, b, x, y) =>
        /\ Trim(SubSeq(t, 1, o - 1)) = SubSeq(t, a, y) /\ SubSeq(t, a, y)[1] = t[a]
        /\ t[a] \in StampStart /\ ~IsKey(SubSeq(t, a, y))
        /\ DigitsFrom(t, a) <= b /\ \A k \in DigitsFrom(t, a) .. b : t[k] \in Digits
  BY StampedInk
<1> DEFINE j == o - 1
           s == SubSeq(t, 1, j)
<1>0. /\ Len(t) \in Nat /\ j \in 0 .. Len(t) /\ 1 <= j + 1 /\ 1 \in Nat \ {0} /\ j - 1 + 1 = j
      /\ Before(t, o) = s /\ j \in Nat
  BY DEF Before
<1>1. \A k \in 1 .. j - 1 + 1 :
        /\ Before(SubSeq(t, 1, j), k) = SubSeq(t, 1, 1 + k - 2)
        /\ Behind(SubSeq(t, 1, j), k) = SubSeq(t, 1 + k, j)
        /\ SubSeq(t, 1, j)[k] = t[1 + k - 1] /\ Len(SubSeq(t, 1, j)) = j - 1 + 1
  <2> HIDE DEF j
  <2> QED BY <1>0, PartsAround
<1>2. ASSUME NEW a \in Nat, NEW b \in Nat, Flag(t, 1, o - 1, a, b)
      PROVE  "none" \in Heading(s)
  <2>1. Inked(t, 1, j, a, b) /\ IsKey(SubSeq(t, a, b))
    BY <1>2 DEF Flag
  <2>2. Trim(SubSeq(t, 1, j)) = SubSeq(t, a, b)
    <3> HIDE DEF j
    <3> QED BY <1>0, <2>1, TrimIs
  <2>3. IsKey(Trim(s))
    BY <2>1, <2>2
  <2> HIDE DEF s
  <2> QED BY <2>3, Zenon DEF Heading
<1>3. ASSUME NEW c \in Nat, NEW a \in Nat, NEW b \in Nat, NEW x \in Nat, NEW y \in Nat,
             Stamped(t, o, c, a, b, x, y)
      PROVE  StampKind(t[a]) \in Heading(s)
  <2>1. c \in 1 .. j /\ t[c] = ":" /\ c \in 1 .. j - 1 + 1
    BY <1>0, <1>3 DEF Stamped
  <2>2. /\ Before(s, c) = SubSeq(t, 1, c - 1) /\ Behind(s, c) = SubSeq(t, c + 1, j)
        /\ s[c] = ":" /\ c \in 1 .. Len(s)
    <3>1. 1 + c - 2 = c - 1 /\ 1 + c = c + 1 /\ 1 + c - 1 = c
      OBVIOUS
    <3> HIDE DEF j
    <3> QED BY <1>0, <1>1, <2>1, <3>1
  <2>3. Trim(SubSeq(t, 1, c - 1)) = SubSeq(t, a, b)
    <3> DEFINE j2 == c - 1
    <3>1. j2 \in 0 .. Len(t) /\ 1 <= j2 + 1 /\ Inked(t, 1, j2, a, b) /\ 1 \in Nat \ {0}
      BY <1>0, <1>3, <2>1 DEF Stamped
    <3> HIDE DEF j2
    <3>2. Trim(SubSeq(t, 1, j2)) = SubSeq(t, a, b)
      BY <3>1, TrimIs
    <3> QED BY <3>2 DEF j2
  <2>4. Trim(SubSeq(t, c + 1, j)) = SubSeq(t, x, y)
    <3> DEFINE i2 == c + 1
    <3>1. i2 \in Nat \ {0} /\ i2 <= j + 1 /\ Inked(t, i2, j, x, y)
      BY <1>0, <1>3, <2>1 DEF Stamped
    <3> HIDE DEF i2, j
    <3>2. Trim(SubSeq(t, i2, j)) = SubSeq(t, x, y)
      BY <1>0, <3>1, TrimIs
    <3> QED BY <3>2 DEF i2
  <2>5. IsStamp(SubSeq(t, a, b)) /\ IsKey(SubSeq(t, x, y))
    BY <1>3 DEF Stamped
  <2>6. IsStamp(Trim(Before(s, c))) /\ IsKey(Trim(Behind(s, c)))
    <3> HIDE DEF s, j
    <3> QED BY <2>2, <2>3, <2>4, <2>5, Zenon
  <2>7. ~IsKey(Trim(s)) /\ Trim(s)[1] = t[a]
    <3>1. /\ Trim(SubSeq(t, 1, o - 1)) = SubSeq(t, a, y) /\ SubSeq(t, a, y)[1] = t[a]
          /\ ~IsKey(SubSeq(t, a, y))
      BY <1>3, <1>ink
    <3> QED BY <3>1, Zenon DEF j, s
  <2> HIDE DEF s, j
  <2> QED BY <2>2, <2>6, <2>7, Zenon DEF Heading, StampKind
<1> QED BY <1>0, <1>2, <1>3

(* ... and nothing else.                                                   *)
LEMMA HeadingOf ==
  ASSUME NEW A, NEW t \in Seq(A), NEW o \in 1 .. Len(t)
  PROVE  \A h \in Heading(Before(t, o)) :
           \/ h = "none" /\ \E a, b \in Nat : Flag(t, 1, o - 1, a, b)
           \/ \E c, a, b, x, y \in Nat : /\ Stamped(t, o, c, a, b, x, y)
                                         /\ h = StampKind(t[a])
<1>ink. \A d, a, b, x, y \in Nat :
          Stamped(t, o, d, a, b, x, y) => Trim(SubSeq(t, 1, o - 1))[1] = t[a]
  <2>1. \A d, a, b, x, y \in Nat : Stamped(t, o, d, a, b, x, y) =>
          /\ Trim(SubSeq(t, 1, o - 1)) = SubSeq(t, a, y) /\ SubSeq(t, a, y)[1] = t[a]
          /\ t[a] \in StampStart /\ ~IsKey(SubSeq(t, a, y))
          /\ DigitsFrom(t, a) <= b /\ \A k \in DigitsFrom(t, a) .. b : t[k] \in Digits
    BY StampedInk
  <2> QED BY <2>1
<1> DEFINE j == o - 1
           s == SubSeq(t, 1, j)
<1>0. /\ Len(t) \in Nat /\ j \in 0 .. Len(t) /\ 1 <= j + 1 /\ 1 \in Nat \ {0} /\ j - 1 + 1 = j
      /\ Before(t, o) = s /\ j \in Nat
  BY DEF Before
<1>1. \A k \in 1 .. j - 1 + 1 :
        /\ Before(SubSeq(t, 1, j), k) = SubSeq(t, 1, 1 + k - 2)
        /\ Behind(SubSeq(t, 1, j), k) = SubSeq(t, 1 + k, j)
        /\ SubSeq(t, 1, j)[k] = t[1 + k - 1] /\ Len(SubSeq(t, 1, j)) = j - 1 + 1
  <2> HIDE DEF j
  <2> QED BY <1>0, PartsAround
<1>2. Len(s) = j
  <2> HIDE DEF j
  <2>1. Len(SubSeq(t, 1, j)) = j - 1 + 1
    BY <1>0, Part
  <2> QED BY <1>0, <2>1
<1> SUFFICES ASSUME NEW h, h \in Heading(s)
             PROVE  \/ h = "none" /\ \E a, b \in Nat : Flag(t, 1, j, a, b)
                    \/ \E c, a, b, x, y \in Nat : /\ Stamped(t, o, c, a, b, x, y)
                                                  /\ h = StampKind(t[a])
  BY <1>0
<1>3. \/ IsKey(Trim(s)) /\ h = "none"
      \/ \E c \in 1 .. Len(s) : /\ s[c] = ":" /\ IsStamp(Trim(Before(s, c)))
                                /\ IsKey(Trim(Behind(s, c))) /\ h = StampKind(Trim(s)[1])
  <2> HIDE DEF s
  <2> QED BY Zenon DEF Heading, StampKind
<1>4. CASE IsKey(Trim(s)) /\ h = "none"
  <2> HIDE DEF j
  <2>1. PICK a, b \in Nat : Inked(t, 1, j, a, b)
    BY <1>0, <1>4, NotEmpty, TrimFound
  <2>2. Trim(s) = SubSeq(t, a, b)
    BY <1>0, <2>1, TrimIs
  <2> HIDE DEF s
  <2> QED BY <1>4, <2>1, <2>2 DEF Flag
<1>5. ASSUME NEW c \in 1 .. Len(s), s[c] = ":", IsStamp(Trim(Before(s, c))),
             IsKey(Trim(Behind(s, c))), h = StampKind(Trim(s)[1])
      PROVE  \E d, a, b, x, y \in Nat : Stamped(t, o, d, a, b, x, y) /\ h = StampKind(t[a])
  <2> DEFINE j2 == c - 1
             i2 == c + 1
  <2>1. /\ c \in 1 .. j - 1 + 1 /\ c \in 1 .. j /\ j2 \in 0 .. Len(t) /\ 1 <= j2 + 1
        /\ i2 \in Nat \ {0} /\ i2 <= j + 1 /\ 1 + c - 2 = j2 /\ 1 + c = i2 /\ 1 + c - 1 = c
        /\ c \in Nat
    BY <1>0, <1>2
  <2>2. Before(s, c) = SubSeq(t, 1, j2) /\ Behind(s, c) = SubSeq(t, i2, j) /\ t[c] = ":"
    <3> HIDE DEF j, j2, i2
    <3> QED BY <1>1, <1>5, <2>1
  <2> HIDE DEF j2, i2, s
  <2>3. IsStamp(<<>>) = FALSE
    <3>1. ~(<<>> # <<>>)
      OBVIOUS
    <3> QED BY <3>1, Zenon DEF IsStamp
  <2>4. PICK a, b \in Nat : Inked(t, 1, j2, a, b)
    <3>1. Trim(SubSeq(t, 1, j2)) # <<>>
      BY <1>5, <2>2, <2>3
    <3> QED BY <1>0, <2>1, <3>1, TrimFound
  <2>5. PICK x, y \in Nat : Inked(t, i2, j, x, y)
    <3>1. Trim(SubSeq(t, i2, j)) # <<>>
      BY <1>5, <2>2, NotEmpty
    <3> HIDE DEF j
    <3> QED BY <1>0, <2>1, <3>1, TrimFound
  <2>6. Trim(Before(s, c)) = SubSeq(t, a, b) /\ Trim(Behind(s, c)) = SubSeq(t, x, y)
    <3>1. Trim(SubSeq(t, 1, j2)) = SubSeq(t, a, b)
      BY <1>0, <2>1, <2>4, TrimIs
    <3>2. Trim(SubSeq(t, i2, j)) = SubSeq(t, x, y)
      <4> HIDE DEF j
      <4> QED BY <1>0, <2>1, <2>5, TrimIs
    <3> QED BY <2>2, <3>1, <3>2
  <2>7. Stamped(t, o, c, a, b, x, y)
    BY <1>5, <2>1, <2>2, <2>4, <2>5, <2>6 DEF Stamped, j2, i2
  <2>8. Trim(SubSeq(t, 1, o - 1))[1] = t[a]
    <3>1. PICK d \in Nat : d = c
      BY <2>1
    <3>2. Stamped(t, o, d, a, b, x, y)
      BY <2>7, <3>1
    <3> HIDE DEF j
    <3> QED BY <3>2, <1>ink
  <2>9. Trim(s)[1] = t[a]
    BY <2>8, Zenon DEF s, j
  <2> QED BY <1>5, <2>1, <2>7, <2>9
<1> HIDE DEF s, j
<1> QED BY <1>3, <1>4, <1>5

(* A key in front of the parenthesis is found ...                          *)
LEMMA KeywordRun ==
  ASSUME NEW A, NEW t \in Seq(A), NEW p \in Nat \ {0}, NEW o \in p .. Len(t), t[o] = "(",
         NEW a \in Nat, NEW b \in Nat, Inked(t, p, o - 1, a, b), IsKey(SubSeq(t, a, b))
  PROVE  parseProtocollIdentifier(t, p).p = o
<1>1. t[o] \notin Blanks /\ t[o] \notin KeyChars
  BY Classes
<1>2. nextKeyStart(t, p) = a /\ nextKeyEnd(t, a) = b + 1 /\ skipWhitespaces(t, b + 1) = o
  BY <1>1, KeyRun
<1>3. CharAt(t, o) = "(" /\ a # 0 /\ o # 0
  BY DEF CharAt, Inked
<1>4. KeyAt(t, p) = a /\ KeyEndAt(t, p) = b + 1
  BY <1>2 DEF KeyAt, KeyEndAt
<1>5. nextTokenStart(t, b + 1, {"("}) = o
  BY <1>2, <1>3, Zenon DEF nextTokenStart
<1>6. OpenAt(t, p) = o
  BY <1>4, <1>5 DEF OpenAt
<1>7. parseProtocollIdentifier(t, p) =
        [p |-> o, keyword |-> SubSeq(t, KeyAt(t, p), KeyEndAt(t, p) - 1)]
  BY <1>3, <1>4, <1>6, KeywordParsed, Zenon
<1> QED BY <1>7

(* ... and what is found is a key.                                         *)
LEMMA KeywordScan ==
  ASSUME NEW A, NEW t \in Seq(A), NEW p \in 1 .. Len(t) + 1,
         parseProtocollIdentifier(t, p).p # 0
  PROVE  /\ parseProtocollIdentifier(t, p).p \in p .. Len(t)
         /\ t[parseProtocollIdentifier(t, p).p] = "("
         /\ \E a, b \in Nat : /\ Inked(t, p, parseProtocollIdentifier(t, p).p - 1, a, b)
                              /\ IsKey(SubSeq(t, a, b))
         /\ \A k \in p .. parseProtocollIdentifier(t, p).p - 1 : t[k] # "("
<1> DEFINE a == KeyAt(t, p)
           q == KeyEndAt(t, p)
           o == OpenAt(t, p)
           b == q - 1
<1>1. a # 0 /\ o # 0 /\ parseProtocollIdentifier(t, p).p = o
  <2>1. CASE a = 0 \/ o = 0
    <3>1. parseProtocollIdentifier(t, p) = [p |-> 0, keyword |-> <<>>]
      BY <2>1, KeywordParsed, Zenon
    <3> QED BY <3>1
  <2>2. CASE ~(a = 0 \/ o = 0)
    <3>1. parseProtocollIdentifier(t, p) =
            [p |-> OpenAt(t, p), keyword |-> SubSeq(t, KeyAt(t, p), KeyEndAt(t, p) - 1)]
      BY <2>2, KeywordParsed, Zenon
    <3> QED BY <2>2, <3>1
  <2> QED BY <2>1, <2>2
<1>2. Len(t) \in Nat /\ "end" \notin {"("}
  OBVIOUS
<1>3. a \in 1 .. Len(t) /\ a \in 1 .. Len(t) + 1 /\ a \in Nat /\ a = nextKeyStart(t, p)
  <2>1. nextKeyStart(t, p) \in 0 .. Len(t)
    BY Positions
  <2> QED BY <1>1, <1>2, <2>1 DEF KeyAt
<1>4. q \in 1 .. Len(t) + 1 /\ q \in Nat /\ q = nextKeyEnd(t, a)
  <2> HIDE DEF a
  <2>1. nextKeyEnd(t, a) \in a .. Len(t) + 1
    BY <1>3, Positions
  <2> QED BY <1>2, <1>3, <2>1 DEF KeyEndAt, a
<1>5. o = nextTokenStart(t, q, {"("})
  BY DEF OpenAt
<1> HIDE DEF a, q, o
<1>6. o = skipWhitespaces(t, q) /\ o \in q .. Len(t) /\ t[o] = "(" /\ o \in Nat
  BY <1>1, <1>2, <1>4, <1>5, TokenStart
<1>7. /\ a \in p .. Len(t) /\ q \in a + 1 .. Len(t) + 1 /\ o \in q .. Len(t) + 1
      /\ Inked(t, p, o - 1, a, q - 1) /\ IsKey(SubSeq(t, a, q - 1))
      /\ \A k \in p .. o - 1 : t[k] \in KeyChars \/ t[k] \in Blanks
  BY <1>1, <1>3, <1>4, <1>6, KeyScan
<1>8. b \in Nat /\ o \in p .. Len(t)
  BY <1>2, <1>3, <1>6, <1>7
<1>9. \A k \in p .. o - 1 : t[k] # "("
  BY <1>7, Classes
<1>10. \E x, y \in Nat : Inked(t, p, o - 1, x, y) /\ IsKey(SubSeq(t, x, y))
  <2>1. Inked(t, p, o - 1, a, b) /\ IsKey(SubSeq(t, a, b))
    BY <1>7
  <2> HIDE DEF b
  <2> QED BY <1>3, <1>8, <2>1
<1> QED BY <1>1, <1>6, <1>8, <1>9, <1>10

-----------------------------------------------------------------------------
(* The time stamp and the key of the grammar are found ...                 *)
LEMMA HeadingRun ==
  ASSUME NEW A, NEW t \in Seq(A), NEW o \in 1 .. Len(t), t[o] = "("
  PROVE  \A h \in Heading(Before(t, o)) :
           /\ parseTimestamp(t).p # 0 /\ parseTimestamp(t).stamp = h
           /\ parseProtocollIdentifier(t, parseTimestamp(t).p).p = o
<1>0. Len(t) \in Nat /\ 1 \in 1 .. Len(t) + 1 /\ 1 \in Nat \ {0}
  OBVIOUS
<1>of. \A h \in Heading(Before(t, o)) :
         \/ h = "none" /\ \E a, b \in Nat : Flag(t, 1, o - 1, a, b)
         \/ \E c, a, b, x, y \in Nat : Stamped(t, o, c, a, b, x, y) /\ h = StampKind(t[a])
  BY HeadingOf
<1>ink. \A d, a, b, x, y \in Nat : Stamped(t, o, d, a, b, x, y) =>
        /\ Trim(SubSeq(t, 1, o - 1)) = SubSeq(t, a, y) /\ SubSeq(t, a, y)[1] = t[a]
        /\ t[a] \in StampStart /\ ~IsKey(SubSeq(t, a, y))
        /\ DigitsFrom(t, a) <= b /\ \A k \in DigitsFrom(t, a) .. b : t[k] \in Digits
  BY StampedInk
<1>1. ASSUME NEW a \in Nat, NEW b \in Nat, Flag(t, 1, o - 1, a, b)
      PROVE  /\ parseTimestamp(t).p # 0 /\ parseTimestamp(t).stamp = "none"
             /\ parseProtocollIdentifier(t, parseTimestamp(t).p).p = o
  <2>1. Inked(t, 1, o - 1, a, b) /\ IsKey(SubSeq(t, a, b))
    BY <1>1 DEF Flag
  <2>2. /\ a \in 1 .. Len(t) /\ b \in a .. Len(t) /\ a \in Nat \ {0} /\ o \in a .. Len(t)
        /\ t[a] \notin Blanks /\ \A k \in 1 .. a - 1 : t[k] \in Blanks
    BY <1>0, <2>1 DEF Inked
  <2>3. t[a] \in Letters
    BY <2>1, <2>2, KeyPart
  <2>4. skipWhitespaces(t, 1) = a
    BY <1>0, <2>2, <2>3, TokenStartIs
  <2>5. FirstAt(t) = a /\ FirstIn(t) = t[a]
    BY <1>0, <2>2, <2>4 DEF FirstAt, FirstIn, CharAt
  <2>6. t[a] \notin StampStart
    BY <2>3, Classes, Zenon DEF StampStart
  <2>7. parseTimestamp(t) = [p |-> a, stamp |-> "none"]
    BY <2>5, <2>6, TimestampParsed, Zenon
  <2>8. Inked(t, a, o - 1, a, b)
    BY <2>1 DEF Inked
  <2>9. parseProtocollIdentifier(t, a).p = o
    BY <2>1, <2>2, <2>8, KeywordRun
  <2> QED BY <2>2, <2>7, <2>9
<1>2. ASSUME NEW c \in Nat, NEW a \in Nat, NEW b \in Nat, NEW x \in Nat, NEW y \in Nat,
             Stamped(t, o, c, a, b, x, y)
      PROVE  /\ parseTimestamp(t).p # 0 /\ parseTimestamp(t).stamp = StampKind(t[a])
             /\ parseProtocollIdentifier(t, parseTimestamp(t).p).p = o
  <2> DEFINE d == DigitsFrom(t, a)
             q == b + 1
             c2 == c + 1
  <2>1. /\ c \in 1 .. o - 1 /\ t[c] = ":" /\ Inked(t, 1, c - 1, a, b)
        /\ Inked(t, c2, o - 1, x, y) /\ IsKey(SubSeq(t, x, y))
    BY <1>2 DEF Stamped
  <2>2. /\ a \in 1 .. Len(t) /\ b \in a .. Len(t) /\ a \in Nat \ {0} /\ a < c
        /\ q \in a + 1 .. c /\ c \in q .. Len(t) /\ q \in 1 .. Len(t) + 1
        /\ c2 \in Nat \ {0} /\ o \in c2 .. Len(t)
        /\ t[a] \notin Blanks /\ \A k \in 1 .. a - 1 : t[k] \in Blanks
        /\ \A k \in q .. c - 1 : t[k] \in Blanks
    BY <1>0, <2>1 DEF Inked
  <2>3. d <= b /\ (\A k \in d .. b : t[k] \in Digits) /\ t[a] \in StampStart
    BY <1>2, <1>ink
  <2>4. d \in 1 .. Len(t) + 1 /\ q \in d + 1 .. Len(t) + 1 /\ q - 1 = b
        /\ q \in d .. Len(t) + 1 /\ q # d
    BY <1>0, <2>2, <2>3 DEF DigitsFrom
  <2>5. skipWhitespaces(t, 1) = a
    BY <1>0, <2>2, TokenStartIs
  <2>6. FirstAt(t) = a /\ FirstIn(t) = t[a]
    BY <1>0, <2>2, <2>5 DEF FirstAt, FirstIn, CharAt
  <2>7. DigitsAt(t) = d
    BY <2>6 DEF DigitsAt, DigitsFrom
  <2>8. CharAt(t, q) \notin Digits /\ t[c] \notin Blanks
    <3>1. CharAt(t, q) = t[q] /\ t[c] \notin Digits /\ t[c] \notin Blanks
      BY <1>0, <2>1, <2>2, Classes DEF CharAt
    <3>2. q = c \/ t[q] \in Blanks
      BY <2>2
    <3> QED BY <3>1, <3>2, Classes
  <2> HIDE DEF d, q
  <2>9. nextTokenEnd(t, d, Digits) = q
    BY <2>3, <2>4, <2>8, TokenEndIs
  <2>10. DigitsTo(t) = q
    BY <2>7, <2>9 DEF DigitsTo
  <2>11. nextTokenStart(t, q, {":"}) = c
    <3> DEFINE colon == {":"}
    <3>1. t[c] \in colon
      BY <2>1
    <3> HIDE DEF colon
    <3>2. nextTokenStart(t, q, colon) = c
      BY <2>2, <2>8, <3>1, TokenStartIs
    <3> QED BY <3>2 DEF colon
  <2>12. ColonAt(t) = c /\ c # 0
    BY <2>2, <2>10, <2>11 DEF ColonAt
  <2>13. parseTimestamp(t) = [p |-> c + 1, stamp |-> StampKind(t[a])]
    BY <2>3, <2>4, <2>6, <2>7, <2>10, <2>12, TimestampParsed, Zenon DEF StampKind
  <2> HIDE DEF c2
  <2>14. parseProtocollIdentifier(t, c2).p = o
    BY <2>1, <2>2, KeywordRun
  <2> QED BY <2>2, <2>13, <2>14 DEF c2
<1> QED BY <1>of, <1>1, <1>2

(* ... and what is found is a time stamp and a key.                        *)
LEMMA HeadingScan ==
  ASSUME NEW A, NEW t \in Seq(A), NEW P, P = parseTimestamp(t), P.p # 0
  PROVE  /\ P.p \in 1 .. Len(t) + 1
         /\ \A o \in 1 .. Len(t) :
              /\ o = parseProtocollIdentifier(t, P.p).p
              => /\ t[o] = "(" /\ P.stamp \in Heading(Before(t, o))
                 /\ \A k \in 1 .. o - 1 : t[k] # "("
<1> DEFINE f == FirstAt(t)
<1>0. Len(t) \in Nat /\ 1 \in 1 .. Len(t) + 1 /\ 1 \in Nat \ {0}
  OBVIOUS
<1>1. /\ f \in 1 .. Len(t) + 1 /\ (\A k \in 1 .. f - 1 : t[k] \in Blanks)
      /\ FirstIn(t) \notin Blanks
  <2>1. /\ nextTokenEnd(t, 1, Blanks) \in 1 .. Len(t) + 1
        /\ \A k \in 1 .. nextTokenEnd(t, 1, Blanks) - 1 : t[k] \in Blanks
        /\ CharAt(t, nextTokenEnd(t, 1, Blanks)) \notin Blanks
    BY <1>0, ClassesEnd, TokenEnd
  <2> QED BY <2>1 DEF FirstAt, FirstIn, skipWhitespaces
<1>2. \A c \in Blanks : c # "("
  BY Classes
<1> HIDE DEF f
<1>3. CASE FirstIn(t) \notin StampStart
  <2>1. parseTimestamp(t) = [p |-> f, stamp |-> "none"]
    BY <1>3, TimestampParsed, Zenon DEF f
  <2>2. P.p = f /\ P.stamp = "none"
    BY <2>1
  <2>3. ASSUME NEW o \in 1 .. Len(t), o = parseProtocollIdentifier(t, f).p
        PROVE  t[o] = "(" /\ "none" \in Heading(Before(t, o)) /\ \A k \in 1 .. o - 1 : t[k] # "("
    <3>1. /\ parseProtocollIdentifier(t, f).p \in f .. Len(t)
          /\ t[parseProtocollIdentifier(t, f).p] = "("
          /\ \E a, b \in Nat : /\ Inked(t, f, parseProtocollIdentifier(t, f).p - 1, a, b)
                               /\ IsKey(SubSeq(t, a, b))
          /\ \A k \in f .. parseProtocollIdentifier(t, f).p - 1 : t[k] # "("
      BY <1>1, <2>3, KeywordScan
    <3>2. PICK a, b \in Nat : Inked(t, f, o - 1, a, b) /\ IsKey(SubSeq(t, a, b))
      BY <2>3, <3>1, Zenon
    <3>3. Flag(t, 1, o - 1, a, b)
      BY <1>0, <1>1, <3>2 DEF Flag, Inked
    <3>4. \A x, y \in Nat : Flag(t, 1, o - 1, x, y) => "none" \in Heading(Before(t, o))
      BY HeadingHas
    <3>5. \A k \in 1 .. o - 1 : t[k] # "("
      BY <1>0, <1>1, <1>2, <2>3, <3>1
    <3> QED BY <2>3, <3>1, <3>3, <3>4, <3>5
  <2> QED BY <1>1, <2>2, <2>3
<1>4. CASE FirstIn(t) \in StampStart
  <2> DEFINE d == DigitsAt(t)
             q == DigitsTo(t)
             c == ColonAt(t)
             b == q - 1
             c2 == c + 1
  <2>1. q # d /\ c # 0 /\ P.p = c2 /\ P.stamp = StampKind(FirstIn(t))
    <3>1. CASE q = d \/ c = 0
      <4>1. parseTimestamp(t) = [p |-> 0, stamp |-> "none"]
        BY <1>4, <3>1, TimestampParsed, Zenon
      <4> QED BY <4>1
    <3>2. CASE ~(q = d \/ c = 0)
      <4>1. parseTimestamp(t) = [p |-> c + 1, stamp |-> StampKind(FirstIn(t))]
        BY <1>4, <3>2, TimestampParsed, Zenon DEF StampKind
      <4> QED BY <3>2, <4>1
    <3> QED BY <3>1, <3>2
  <2>2. FirstIn(t) # "end"
    BY <1>4, ClassesEnd, Zenon DEF StampStart
  <2>3. f \in 1 .. Len(t) /\ FirstIn(t) = t[f]
    BY <1>0, <1>1, <2>2 DEF FirstIn, CharAt, f
  <2>4. d = DigitsFrom(t, f) /\ d \in f .. f + 1 /\ d \in 1 .. Len(t) + 1
    BY <1>0, <2>3 DEF DigitsAt, DigitsFrom, f
  <2>5. /\ q \in d .. Len(t) + 1 /\ \A k \in d .. q - 1 : t[k] \in Digits
    <3> HIDE DEF d
    <3>1. /\ nextTokenEnd(t, d, Digits) \in d .. Len(t) + 1
          /\ \A k \in d .. nextTokenEnd(t, d, Digits) - 1 : t[k] \in Digits
      BY <2>4, ClassesEnd, TokenEnd
    <3> QED BY <3>1 DEF DigitsTo, d
  <2>6. c = nextTokenStart(t, q, {":"})
    BY DEF ColonAt
  <2> HIDE DEF d, q, c
  <2>7. q \in 1 .. Len(t) + 1 /\ q > d /\ b \in f .. Len(t) /\ b >= d /\ q \in Nat /\ b \in Nat
    BY <1>0, <2>1, <2>3, <2>4, <2>5
  <2>8. /\ c \in q .. Len(t) /\ t[c] = ":" /\ \A k \in q .. c - 1 : t[k] \in Blanks
    <3> DEFINE colon == {":"}
    <3>1. "end" \notin colon
      OBVIOUS
    <3> HIDE DEF colon
    <3>2. /\ c \in q .. Len(t) /\ t[c] \in colon /\ \A k \in q .. c - 1 : t[k] \in Blanks
      <4>1. /\ nextTokenStart(t, q, colon) \in q .. Len(t)
            /\ t[nextTokenStart(t, q, colon)] \in colon
            /\ \A k \in q .. nextTokenStart(t, q, colon) - 1 : t[k] \in Blanks
        BY <2>1, <2>6, <2>7, <3>1, TokenStart DEF colon
      <4> QED BY <2>6, <4>1 DEF colon
    <3> QED BY <3>2 DEF colon
  <2>9. IsStamp(SubSeq(t, f, b)) /\ Inked(t, 1, c - 1, f, b)
    <3>1. d <= b /\ \A k \in d .. b : t[k] \in Digits
      BY <2>5, <2>7
    <3>2. f \in Nat \ {0} /\ b \in f .. Len(t)
      BY <2>3, <2>7
    <3>3. IsStamp(SubSeq(t, f, b))
      <4> HIDE DEF b
      <4> QED BY <2>4, <3>1, <3>2, StampPart
    <3>4. t[b] \notin Blanks
      BY <2>7, <3>1, Classes
    <3>5. f \in 1 .. c - 1 /\ b \in f .. c - 1
      BY <2>3, <2>7, <2>8
    <3>6. \A k \in b + 1 .. c - 1 : t[k] \in Blanks
      BY <2>7, <2>8
    <3>7. t[f] \notin Blanks
      BY <1>1, <2>3
    <3>8. Inked(t, 1, c - 1, f, b)
      <4> HIDE DEF b
      <4> QED BY <1>1, <3>4, <3>5, <3>6, <3>7 DEF Inked
    <3> QED BY <3>3, <3>8
  <2>10. c2 \in 1 .. Len(t) + 1 /\ c \in Nat
    BY <1>0, <2>7, <2>8
  <2>11. ASSUME NEW o \in 1 .. Len(t), o = parseProtocollIdentifier(t, c2).p
        PROVE  /\ t[o] = "(" /\ StampKind(t[f]) \in Heading(Before(t, o))
               /\ \A k \in 1 .. o - 1 : t[k] # "("
    <3>1. /\ parseProtocollIdentifier(t, c2).p \in c2 .. Len(t)
          /\ t[parseProtocollIdentifier(t, c2).p] = "("
          /\ \E a, y \in Nat : /\ Inked(t, c2, parseProtocollIdentifier(t, c2).p - 1, a, y)
                               /\ IsKey(SubSeq(t, a, y))
          /\ \A k \in c2 .. parseProtocollIdentifier(t, c2).p - 1 : t[k] # "("
      <4> HIDE DEF c2
      <4> QED BY <2>10, <2>11, KeywordScan
    <3>2. PICK x, y \in Nat : Inked(t, c2, o - 1, x, y) /\ IsKey(SubSeq(t, x, y))
      BY <2>11, <3>1, Zenon
    <3>3. Stamped(t, o, c, f, b, x, y)
      <4>1. c \in 1 .. o - 1
        BY <2>7, <2>8, <2>10, <2>11, <3>1
      <4> QED BY <2>8, <2>9, <3>2, <4>1, Zenon DEF Stamped
    <3>4. \A c3, a3, b3, x3, y3 \in Nat : Stamped(t, o, c3, a3, b3, x3, y3) =>
              StampKind(t[a3]) \in Heading(Before(t, o))
      BY HeadingHas
    <3>5. \A k \in 1 .. o - 1 : t[k] # "("
      <4>1. ASSUME NEW k \in 1 .. o - 1
            PROVE  t[k] # "("
        <5>1. \/ k \in 1 .. f - 1 \/ k = f \/ k \in d .. q - 1 \/ k \in q .. c - 1 \/ k = c
              \/ k \in c2 .. o - 1
          BY <2>3, <2>4, <2>5, <2>7, <2>8
        <5>2. t[f] # "("
          BY <1>4, <2>3, Classes DEF StampStart
        <5>3. \A x4 \in Digits : x4 # "("
          BY Classes
        <5> QED BY <1>1, <1>2, <2>5, <2>8, <2>11, <3>1, <5>1, <5>2, <5>3
      <4> QED BY <4>1
    <3>6. f \in Nat
      BY <2>3
    <3>7. StampKind(t[f]) \in Heading(Before(t, o))
      <4> HIDE DEF b
      <4> QED BY <2>7, <2>10, <3>3, <3>4, <3>6
    <3> QED BY <2>11, <3>1, <3>5, <3>7
  <2> QED BY <2>1, <2>3, <2>10, <2>11
<1> QED BY <1>3, <1>4

(* No key starts here.                                                     *)
LEMMA NoKeyAt ==
  ASSUME NEW A, NEW t \in Seq(A), NEW p \in 1 .. Len(t) + 1,
         CharAt(t, p) \in {Comma, ")", "end"}
  PROVE  NoKey(t, p)
<1>1. CharAt(t, p) \notin Blanks /\ CharAt(t, p) \notin Letters
  BY Classes, ClassesEnd, Zenon
<1>2. Len(t) \in Nat /\ p \in p .. Len(t) + 1 /\ \A k \in p .. p - 1 : t[k] \in Blanks
  OBVIOUS
<1>3. skipWhitespaces(t, p) = p
  BY <1>1, <1>2, TokenEndIs DEF skipWhitespaces
<1>4. nextKeyStart(t, p) = 0
  BY <1>1, <1>3, Zenon DEF nextKeyStart, nextTokenStart
<1> QED BY <1>4, Zenon DEF NoKey, KeyAt

(* The pieces of a list up to the m-th, and their parameters.              *)
Sliced(t, m, cut, list) ==
  /\ \A k \in 0 .. m : cut[k] \in 1 .. Len(t)
  /\ \A j, k \in 0 .. m : j < k => cut[j] < cut[k]
  /\ \A k \in 1 .. m : /\ t[cut[k]] \in {Comma, ")"}
                       /\ list[k] \in Item(SubSeq(t, cut[k - 1] + 1, cut[k] - 1))

(* What parseParameter makes of such a piece.                              *)
LEMMA SliceRead ==
  ASSUME NEW A, NEW t \in Seq(A), NEW m \in Nat, NEW cut, NEW list, Sliced(t, m, cut, list)
  PROVE  \A k \in 1 .. m : /\ ~NoKey(t, cut[k - 1] + 1) /\ ~NoEnd(t, cut[k - 1] + 1)
                           /\ NextAt(t, cut[k - 1] + 1) = cut[k]
                           /\ ParAt(t, cut[k - 1] + 1) = list[k]
<1> TAKE k \in 1 .. m
<1> DEFINE p == cut[k - 1] + 1
           n == cut[k]
           x == list[k]
<1>1. k - 1 \in 0 .. m /\ k \in 0 .. m /\ k - 1 < k
  OBVIOUS
<1>2. cut[k - 1] \in 1 .. Len(t) /\ n \in 1 .. Len(t) /\ cut[k - 1] < n
  BY <1>1 DEF Sliced
<1>3. p \in Nat \ {0} /\ n \in p .. Len(t)
  BY <1>2
<1>4. t[n] \in {Comma, ")"} /\ x \in Item(SubSeq(t, p, n - 1))
  BY DEF Sliced
<1> HIDE DEF p, n, x
<1>5. \A y \in Item(SubSeq(t, p, n - 1)) :
        ~NoKey(t, p) /\ ~NoEnd(t, p) /\ NextAt(t, p) = n /\ ParAt(t, p) = y
  BY <1>3, <1>4, ParameterRun
<1>6. ~NoKey(t, p) /\ ~NoEnd(t, p) /\ NextAt(t, p) = n /\ ParAt(t, p) = x
  BY <1>4, <1>5, Zenon
<1> QED BY <1>6 DEF p, n, x

(* Two readings agree as far as both go.                                   *)
LEMMA SlicesAgree ==
  ASSUME NEW A, NEW t \in Seq(A), NEW m \in Nat, NEW cut, NEW list, Sliced(t, m, cut, list),
         NEW g \in Nat, NEW c, NEW l, Sliced(t, g, c, l), c[0] = cut[0]
  PROVE  \A k \in 0 .. m : k <= g => c[k] = cut[k] /\ (k > 0 => l[k] = list[k])
<1> DEFINE Wrong == {k \in 0 .. m : k <= g /\ ~(c[k] = cut[k] /\ (k > 0 => l[k] = list[k]))}
<1>1. SUFFICES ASSUME Wrong # {}
               PROVE  FALSE
  BY <1>1
<1>2. PICK w \in Wrong : \A k \in Wrong : w <= k
  <2>1. Wrong \in SUBSET Nat
    OBVIOUS
  <2> HIDE DEF Wrong
  <2>2. Min(Wrong) \in Wrong /\ \A k \in Wrong : Min(Wrong) <= k
    BY <1>1, <2>1, MinOf
  <2> QED BY <2>2
<1>3. w \in 0 .. m /\ w <= g /\ ~(c[w] = cut[w] /\ (w > 0 => l[w] = list[w]))
  OBVIOUS
<1>4. w \in 1 .. m /\ w \in 1 .. g
  BY <1>3
<1>5. c[w - 1] = cut[w - 1]
  <2>1. w - 1 \in 0 .. m /\ w - 1 <= g /\ ~(w <= w - 1)
    BY <1>4
  <2>2. w - 1 \notin Wrong
    BY <1>2, <2>1
  <2> QED BY <2>1, <2>2
<1> HIDE DEF Wrong
<1>6. NextAt(t, cut[w - 1] + 1) = cut[w] /\ ParAt(t, cut[w - 1] + 1) = list[w]
  BY <1>4, SliceRead
<1>7. NextAt(t, c[w - 1] + 1) = c[w] /\ ParAt(t, c[w - 1] + 1) = l[w]
  BY <1>4, SliceRead
<1> QED BY <1>3, <1>5, <1>6, <1>7

-----------------------------------------------------------------------------
(* A reading of the list: n pieces, the last of which is given or empty.   *)
ListReading(t, o, close, n, c, g, l) ==
  /\ n \in Nat \ {0} /\ g \in n - 1 .. n
  /\ c[0] = o /\ c[n] = close
  /\ \A k \in 0 .. n : c[k] \in 1 .. Len(t)
  /\ \A j, k \in 0 .. n : j < k => c[j] < c[k]
  /\ \A k \in 1 .. n - 1 : t[c[k]] = Comma
  /\ g = n - 1 => c[n] = c[n - 1] + 1
  /\ Sliced(t, g, c, l)
  /\ l = [k \in 1 .. g |-> l[k]]

(* All lists of the grammar are read in this way.                          *)
LEMMA ListRead ==
  ASSUME NEW A, NEW t \in Seq(A), NEW o \in 1 .. Len(t), NEW close \in 1 .. Len(t),
         t[close] = ")", NEW l \in Lists(t, o, close)
  PROVE  \E n, c, g : ListReading(t, o, close, n, c, g, l)
<1> DEFINE commas == {k \in o .. close : t[k] = Comma}
<1>1. PICK n \in 1 .. Cardinality(commas) + 1 :
        \E c \in Cuts(t, o, close, n) : l \in ItemLists(t, c, Given(t, c, n))
  <2> DEFINE N == 1 .. Cardinality(commas) + 1
             All(n) == UNION {ItemLists(t, c, Given(t, c, n)) : c \in Cuts(t, o, close, n)}
  <2>1. l \in UNION {All(n) : n \in N}
    BY Zenon DEF Lists
  <2>2. PICK n \in N : l \in All(n)
    <3> HIDE DEF N, All
    <3> QED BY <2>1, Zenon
  <2>3. \E c \in Cuts(t, o, close, n) : l \in ItemLists(t, c, Given(t, c, n))
    <3> HIDE DEF N
    <3> QED BY <2>2, Zenon
  <2> HIDE DEF All, commas
  <2> QED BY <2>2, <2>3
<1>2. PICK c \in Cuts(t, o, close, n) : l \in ItemLists(t, c, Given(t, c, n))
  BY <1>1
<1> DEFINE g == Given(t, c, n)
<1>3. n \in Nat \ {0}
  <2>1. Cardinality(commas) \in Nat
    <3>1. commas \in SUBSET (o .. close)
      OBVIOUS
    <3>2. IsFiniteSet(o .. close)
      BY FS_Interval
    <3> QED BY <3>1, <3>2, FS_Subset, FS_CardinalityType
  <2> HIDE DEF commas
  <2> QED BY <2>1
<1>4. /\ c \in [0 .. n -> {o, close} \union commas]
      /\ c[0] = o /\ c[n] = close
      /\ \A j, k \in 0 .. n : j < k => c[j] < c[k]
  BY DEF Cuts
<1>5. \A k \in 0 .. n : c[k] \in 1 .. Len(t)
  <2>1. \A x \in {o, close} \union commas : x \in 1 .. Len(t)
    OBVIOUS
  <2> HIDE DEF commas
  <2> QED BY <1>4, <2>1
<1>6. \A k \in 1 .. n - 1 : t[c[k]] = Comma
  <2> TAKE k \in 1 .. n - 1
  <2>1. k \in 0 .. n /\ 0 \in 0 .. n /\ n \in 0 .. n /\ 0 < k /\ k < n
    BY <1>3
  <2>2. c[k] \in {o, close} \union commas /\ c[0] < c[k] /\ c[k] < c[n]
    <3> HIDE DEF commas
    <3> QED BY <1>4, <2>1
  <2>3. c[k] \in commas
    <3>1. c[k] # o /\ c[k] # close
      BY <1>4, <2>2
    <3> HIDE DEF commas
    <3> QED BY <2>2, <3>1
  <2> QED BY <2>3
<1>7. g \in n - 1 .. n /\ (g = n - 1 => c[n] = c[n - 1] + 1)
  <2> DEFINE i == c[n - 1] + 1
             j == c[n] - 1
  <2>1. n - 1 \in 0 .. n /\ n \in 0 .. n /\ n - 1 < n
    BY <1>3
  <2>2. c[n - 1] \in 1 .. Len(t) /\ c[n] \in 1 .. Len(t) /\ c[n - 1] < c[n]
    BY <1>4, <1>5, <2>1
  <2>3. i \in Nat \ {0} /\ j \in 0 .. Len(t) /\ i <= j + 1
    BY <2>2
  <2>4. Piece(t, c, n) = SubSeq(t, i, j)
    BY DEF Piece
  <2> HIDE DEF i, j
  <2>5. Len(SubSeq(t, i, j)) = j - i + 1 /\ SubSeq(t, i, j) \in Seq(A)
    BY <2>3, Part
  <2>6. SubSeq(t, i, j) = <<>> => j - i + 1 = 0
    BY <2>5
  <2>7. CASE Piece(t, c, n) = <<>>
    <3>1. g = n - 1
      BY <2>7 DEF Given
    <3>2. j - i + 1 = 0
      BY <2>4, <2>6, <2>7
    <3>3. c[n] = c[n - 1] + 1
      BY <2>2, <3>2 DEF i, j
    <3> QED BY <1>3, <3>1, <3>3
  <2>8. CASE Piece(t, c, n) # <<>>
    <3>1. g = n
      BY <2>8 DEF Given
    <3> QED BY <1>3, <3>1
  <2> QED BY <2>7, <2>8
<1> HIDE DEF g
<1>8. l = [k \in 1 .. g |-> l[k]] /\ \A k \in 1 .. g : l[k] \in Item(Piece(t, c, k))
  <2>1. l \in [1 .. g -> UNION {Item(Piece(t, c, k)) : k \in 1 .. g}]
        /\ \A k \in 1 .. g : l[k] \in Item(Piece(t, c, k))
    BY <1>2, Zenon DEF ItemLists, g
  <2> QED BY <2>1
<1>9. Sliced(t, g, c, l)
  <2>1. g \in Nat /\ 0 .. g \subseteq 0 .. n /\ 1 .. g \subseteq 0 .. n
    BY <1>3, <1>7
  <2>2. \A k \in 1 .. g : t[c[k]] \in {Comma, ")"}
    <3> TAKE k \in 1 .. g
    <3>1. k \in 1 .. n - 1 \/ k = n
      BY <1>3, <1>7
    <3> QED BY <1>4, <1>6, <3>1
  <2>3. \A k \in 1 .. g : l[k] \in Item(SubSeq(t, c[k - 1] + 1, c[k] - 1))
    BY <1>8 DEF Piece
  <2>4. \A k \in 0 .. g : c[k] \in 1 .. Len(t)
    BY <1>5, <2>1
  <2>5. \A j, k \in 0 .. g : j < k => c[j] < c[k]
    BY <1>4, <2>1
  <2> QED BY <2>2, <2>3, <2>4, <2>5 DEF Sliced
<1>10. ListReading(t, o, close, n, c, g, l)
  <2> HIDE DEF commas
  <2> QED BY <1>3, <1>4, <1>5, <1>6, <1>7, <1>8, <1>9 DEF ListReading
<1> QED BY <1>10

(* The parameters read so far, from the parenthesis o up to p.             *)
ParametersRead(t, o, p, list, cut) ==
  /\ cut \in [0 .. Len(list) -> 1 .. Len(t)] /\ cut[0] = o
  /\ Sliced(t, Len(list), cut, list)
  /\ \A k \in 1 .. Len(list) - 1 : t[cut[k]] = Comma
  /\ p = IF t[cut[Len(list)]] = ")" THEN cut[Len(list)] ELSE cut[Len(list)] + 1

(* A reading of the grammar begins with the parameters read, and there it  *)
(* ends, or parseParameter goes on.                                        *)
LEMMA ReadingAgrees ==
  ASSUME NEW A, NEW t \in Seq(A), NEW o \in 1 .. Len(t), t[o] = "(", NEW S, NEW list \in Seq(S),
         NEW p, NEW cut, ParametersRead(t, o, p, list, cut),
         NEW close \in 1 .. Len(t), t[close] = ")",
         NEW n, NEW c, NEW g, NEW l, ListReading(t, o, close, n, c, g, l)
  PROVE  (close = p /\ l = list) \/ (~NoKey(t, p) /\ ~NoEnd(t, p))
<1> DEFINE m == Len(list)
<1>1. m \in Nat /\ n \in Nat \ {0} /\ g \in n - 1 .. n /\ g \in Nat
  BY DEF ListReading
<1>2. /\ cut[0] = o /\ Sliced(t, m, cut, list) /\ (\A k \in 1 .. m - 1 : t[cut[k]] = Comma)
      /\ p = (IF t[cut[m]] = ")" THEN cut[m] ELSE cut[m] + 1)
  BY DEF ParametersRead
<1>3. /\ c[0] = o /\ c[n] = close /\ Sliced(t, g, c, l)
      /\ \A j, k \in 0 .. n : j < k => c[j] < c[k]
      /\ \A k \in 1 .. n - 1 : t[c[k]] = Comma
      /\ g = n - 1 => c[n] = c[n - 1] + 1
      /\ l = [k \in 1 .. g |-> l[k]]
  BY DEF ListReading
<1>4. \A k \in 0 .. m : cut[k] \in 1 .. Len(t)
  BY <1>2 DEF Sliced
<1>5. list = [k \in 1 .. m |-> list[k]]
  OBVIOUS
<1>6. ")" # "(" /\ Comma # ")"
  BY Classes
<1> HIDE DEF m
<1>7. \A k \in 0 .. m : k <= g => c[k] = cut[k] /\ (k > 0 => l[k] = list[k])
  <2>1. /\ m \in Nat /\ g \in Nat /\ Sliced(t, m, cut, list) /\ Sliced(t, g, c, l)
        /\ c[0] = cut[0]
    BY <1>1, <1>2, <1>3
  <2> QED BY <2>1, SlicesAgree, SMTT(30)
<1>8. g >= m
  <2> SUFFICES ASSUME g < m
               PROVE  FALSE
    BY <1>1
  <2>1. g \in 0 .. m /\ g <= g /\ g + 1 \in 1 .. m /\ (g + 1) - 1 = g
    BY <1>1
  <2>2. c[g] = cut[g] /\ cut[g] \in 1 .. Len(t)
    BY <1>4, <1>7, <2>1
  <2>3. CASE g = n
    <3>1. g \in 1 .. m - 1
      BY <1>1, <2>3
    <3> QED BY <1>2, <1>3, <1>6, <2>2, <2>3, <3>1
  <2>4. CASE g = n - 1
    <3> DEFINE q == cut[g] + 1
    <3>1. c[n] = q
      BY <1>3, <2>2, <2>4
    <3>2. close = q /\ q \in 1 .. Len(t) + 1
      BY <1>3, <2>2, <3>1
    <3>3. ~NoKey(t, q)
      <4>1. \A k \in 1 .. m : ~NoKey(t, cut[k - 1] + 1)
        BY <1>1, <1>2, SliceRead
      <4> QED BY <2>1, <4>1
    <3> HIDE DEF q
    <3>4. CharAt(t, q) \in {Comma, ")", "end"}
      BY <3>2 DEF CharAt
    <3> QED BY <3>2, <3>3, <3>4, NoKeyAt
  <2> QED BY <1>1, <2>3, <2>4
<1>9. m \in 0 .. m /\ m <= g
  BY <1>1, <1>8
<1>10. c[m] = cut[m] /\ cut[m] \in 1 .. Len(t)
  BY <1>4, <1>7, <1>9
<1>11. ASSUME g = m
       PROVE  l = list
  <2>1. \A k \in 1 .. m : l[k] = list[k]
    BY <1>1, <1>7, <1>11
  <2> QED BY <1>3, <1>5, <1>11, <2>1
<1>12. CASE t[cut[m]] = ")"
  <2>1. p = cut[m] /\ m # 0
    BY <1>2, <1>6, <1>12
  <2>2. ~(m \in 1 .. n - 1)
    BY <1>3, <1>6, <1>10, <1>12
  <2>3. m = n /\ g = m
    BY <1>1, <1>8, <2>1, <2>2
  <2> QED BY <1>3, <1>10, <1>11, <2>1, <2>3
<1>13. CASE t[cut[m]] # ")"
  <2>1. p = cut[m] + 1
    BY <1>2, <1>13
  <2>2. CASE g > m
    <3>1. m + 1 \in 1 .. g /\ (m + 1) - 1 = m
      BY <1>1, <2>2
    <3>2. \A k \in 1 .. g : ~NoKey(t, c[k - 1] + 1) /\ ~NoEnd(t, c[k - 1] + 1)
      BY <1>1, <1>3, SliceRead
    <3> QED BY <1>10, <2>1, <3>1, <3>2
  <2>3. CASE g = m
    <3>1. n # m
      BY <1>3, <1>10, <1>13
    <3>2. g = n - 1
      BY <1>1, <2>3, <3>1
    <3>3. c[n] = c[m] + 1
      BY <1>3, <2>3, <3>2
    <3>4. close = p
      BY <1>3, <1>10, <2>1, <3>3
    <3> QED BY <1>11, <2>3, <3>4
  <2> QED BY <1>1, <1>8, <2>2, <2>3
<1> QED BY <1>12, <1>13

(* Cuts at commas.                                                         *)
CommaCuts(t, o, close, n, c) ==
  /\ \A k \in 0 .. n : c[k] \in o .. close
  /\ \A j, k \in 0 .. n : j < k => c[j] < c[k]
  /\ \A k \in 1 .. n - 1 : t[c[k]] = Comma

(* There are at least as many commas as cuts between the parentheses.      *)
LEMMA CutsBound ==
  ASSUME NEW A, NEW t \in Seq(A), NEW o \in 1 .. Len(t), NEW close \in 1 .. Len(t),
         NEW n \in Nat \ {0}, NEW c, CommaCuts(t, o, close, n, c)
  PROVE  n \in 1 .. Cardinality({k \in o .. close : t[k] = Comma}) + 1
<1> DEFINE commas == {k \in o .. close : t[k] = Comma}
           f == [k \in 1 .. n - 1 |-> c[k]]
<1>0. /\ \A k \in 0 .. n : c[k] \in o .. close
      /\ \A j, k \in 0 .. n : j < k => c[j] < c[k]
      /\ \A k \in 1 .. n - 1 : t[c[k]] = Comma
  BY DEF CommaCuts
<1>1. IsFiniteSet(commas) /\ Cardinality(commas) \in Nat
  <2>1. commas \in SUBSET (o .. close)
    OBVIOUS
  <2>2. IsFiniteSet(o .. close)
    BY FS_Interval
  <2> QED BY <2>1, <2>2, FS_Subset, FS_CardinalityType
<1>2. IsFiniteSet(1 .. n - 1) /\ Cardinality(1 .. n - 1) = n - 1
  BY FS_Interval
<1>3. f \in [1 .. n - 1 -> commas]
  <2>1. \A k \in 1 .. n - 1 : c[k] \in commas
    <3> TAKE k \in 1 .. n - 1
    <3>1. k \in 0 .. n
      OBVIOUS
    <3> QED BY <1>0, <3>1
  <2> HIDE DEF commas
  <2> QED BY <2>1
<1>4. \A x, y \in 1 .. n - 1 : x # y => f[x] # f[y]
  <2> SUFFICES ASSUME NEW x \in 1 .. n - 1, NEW y \in 1 .. n - 1, x # y
               PROVE  c[x] # c[y]
    OBVIOUS
  <2>1. x \in 0 .. n /\ y \in 0 .. n /\ (x < y \/ y < x)
    OBVIOUS
  <2>2. c[x] < c[y] \/ c[y] < c[x]
    BY <1>0, <2>1
  <2>3. c[x] \in Int /\ c[y] \in Int
    BY <1>0, <2>1
  <2> QED BY <2>2, <2>3
<1> HIDE DEF commas, f
<1>5. ~(Cardinality(commas) < Cardinality(1 .. n - 1))
  BY <1>1, <1>2, <1>3, <1>4, FS_PigeonHole
<1>6. n \in 1 .. Cardinality(commas) + 1
  BY <1>1, <1>2, <1>5
<1> QED BY <1>6 DEF commas

(* The parameters of a list are not empty.                                 *)
LEMMA NotVoid ==
  ASSUME NEW A, NEW t \in Seq(A), NEW m \in Nat, NEW cut, NEW list, Sliced(t, m, cut, list)
  PROVE  \A k \in 1 .. m : cut[k - 1] + 1 < cut[k]
<1> TAKE k \in 1 .. m
<1> DEFINE p == cut[k - 1] + 1
<1>1. k - 1 \in 0 .. m /\ k \in 0 .. m /\ k - 1 < k
  OBVIOUS
<1>2. /\ cut[k - 1] \in 1 .. Len(t) /\ cut[k] \in 1 .. Len(t) /\ cut[k - 1] < cut[k]
      /\ t[cut[k]] \in {Comma, ")"}
  BY <1>1 DEF Sliced
<1>3. ~NoKey(t, p)
  BY SliceRead
<1>4. p \in 1 .. Len(t) + 1 /\ p <= cut[k]
  BY <1>2
<1>5. p # cut[k]
  <2> SUFFICES ASSUME p = cut[k]
               PROVE  FALSE
    OBVIOUS
  <2>1. CharAt(t, p) \in {Comma, ")", "end"}
    BY <1>2 DEF CharAt
  <2> HIDE DEF p
  <2> QED BY <1>3, <1>4, <2>1, NoKeyAt
<1> QED BY <1>2, <1>4, <1>5

(* The parameters read are a list of the grammar, if it ends there.        *)
LEMMA ListMade ==
  ASSUME NEW A, NEW t \in Seq(A), NEW o \in 1 .. Len(t), NEW p \in 1 .. Len(t), t[p] = ")",
         NEW n \in Nat \ {0}, NEW c \in [0 .. n -> 1 .. Len(t)], c[0] = o, c[n] = p,
         \A j, k \in 0 .. n : j < k => c[j] < c[k], \A k \in 1 .. n - 1 : t[c[k]] = Comma,
         NEW g \in Nat, g = Given(t, c, n), NEW l, l = [k \in 1 .. g |-> l[k]],
         \A k \in 1 .. g : l[k] \in Item(Piece(t, c, k))
  PROVE  l \in Lists(t, o, p)
<1> DEFINE commas == {k \in o .. p : t[k] = Comma}
<1>1. \A k \in 0 .. n : c[k] \in o .. p
  <2> TAKE k \in 0 .. n
  <2>1. 0 \in 0 .. n /\ n \in 0 .. n /\ (k = 0 \/ 0 < k) /\ (k = n \/ k < n)
    OBVIOUS
  <2>2. c[k] \in 1 .. Len(t) /\ (c[k] = o \/ o < c[k]) /\ (c[k] = p \/ c[k] < p)
    BY <2>1
  <2> QED BY <2>2
<1>2. n \in 1 .. Cardinality(commas) + 1
  <2>1. CommaCuts(t, o, p, n, c)
    BY <1>1 DEF CommaCuts
  <2> QED BY <2>1, CutsBound
<1>3. c \in [0 .. n -> {o, p} \union commas]
  <2>1. \A k \in 0 .. n : c[k] \in {o, p} \union commas
    <3> TAKE k \in 0 .. n
    <3>1. k = 0 \/ k = n \/ k \in 1 .. n - 1
      OBVIOUS
    <3> QED BY <1>1, <3>1
  <2> HIDE DEF commas
  <2> QED BY <2>1
<1>4. c \in Cuts(t, o, p, n)
  <2> HIDE DEF commas
  <2> QED BY <1>3 DEF Cuts, commas
<1>5. l \in ItemLists(t, c, g)
  <2>1. \A k \in 1 .. g : l[k] \in UNION {Item(Piece(t, c, x)) : x \in 1 .. g}
    BY Zenon
  <2>2. l \in [1 .. g -> UNION {Item(Piece(t, c, x)) : x \in 1 .. g}]
    <3> DEFINE U == UNION {Item(Piece(t, c, x)) : x \in 1 .. g}
    <3>1. \A k \in 1 .. g : l[k] \in U
      BY <2>1
    <3> HIDE DEF U
    <3>2. l \in [1 .. g -> U]
      BY <3>1
    <3> QED BY <3>2 DEF U
  <2> QED BY <2>2, Zenon DEF ItemLists
<1>6. l \in UNION {ItemLists(t, x, Given(t, x, n)) : x \in Cuts(t, o, p, n)}
  BY <1>4, <1>5, Zenon
<1> DEFINE N == 1 .. Cardinality(commas) + 1
           All(i) == UNION {ItemLists(t, x, Given(t, x, i)) : x \in Cuts(t, o, p, i)}
<1>7. Lists(t, o, p) = UNION {All(i) : i \in N}
  BY Zenon DEF Lists
<1>8. n \in N /\ l \in All(n)
  BY <1>2, <1>6
<1> HIDE DEF N, All, commas
<1> QED BY <1>7, <1>8, Zenon

(* So are the parameters that parseParameters has read.                    *)
LEMMA ParametersMade ==
  ASSUME NEW A, NEW t \in Seq(A), NEW o \in 1 .. Len(t), t[o] = "(", NEW S, NEW list \in Seq(S),
         NEW p \in 1 .. Len(t), t[p] = ")", NEW cut, ParametersRead(t, o, p, list, cut)
  PROVE  list \in Lists(t, o, p)
<1> DEFINE m == Len(list)
<1>1. m \in Nat /\ list = [k \in 1 .. m |-> list[k]]
  OBVIOUS
<1>2. /\ cut \in [0 .. m -> 1 .. Len(t)] /\ cut[0] = o /\ Sliced(t, m, cut, list)
      /\ \A k \in 1 .. m - 1 : t[cut[k]] = Comma
      /\ p = (IF t[cut[m]] = ")" THEN cut[m] ELSE cut[m] + 1)
  BY DEF ParametersRead
<1> HIDE DEF m
<1>3. /\ \A j, k \in 0 .. m : j < k => cut[j] < cut[k]
      /\ \A k \in 1 .. m : t[cut[k]] \in {Comma, ")"}
      /\ \A k \in 1 .. m : list[k] \in Item(SubSeq(t, cut[k - 1] + 1, cut[k] - 1))
  BY <1>2 DEF Sliced
<1>4. \A k \in 1 .. m : cut[k - 1] + 1 < cut[k]
  BY <1>1, <1>2, NotVoid
<1>5. CASE t[cut[m]] = ")"
  <2>1. p = cut[m] /\ m \in Nat \ {0}
    BY <1>1, <1>2, <1>5
  <2>2. m - 1 \in 0 .. m /\ m \in 0 .. m /\ m \in 1 .. m
    BY <2>1
  <2>3. cut[m - 1] \in 1 .. Len(t) /\ cut[m] \in 1 .. Len(t) /\ cut[m - 1] + 1 < cut[m]
    BY <1>2, <1>4, <2>2
  <2>4. m = Given(t, cut, m)
    <3> DEFINE i == cut[m - 1] + 1
               j == cut[m] - 1
    <3>1. i \in Nat \ {0} /\ j \in 0 .. Len(t) /\ i <= j + 1 /\ j - i + 1 # 0
      BY <2>3, SMTT(30)
    <3>2. Piece(t, cut, m) = SubSeq(t, i, j)
      BY DEF Piece
    <3> HIDE DEF i, j
    <3>3. Len(SubSeq(t, i, j)) = j - i + 1 /\ SubSeq(t, i, j) \in Seq(A)
      BY <3>1, Part
    <3>4. Piece(t, cut, m) # <<>>
      <4>1. SubSeq(t, i, j) # <<>>
        BY <3>1, <3>3, SMTT(30)
      <4> QED BY <3>2, <4>1, Zenon
    <3> QED BY <3>4, Zenon DEF Given
  <2>5. \A k \in 1 .. m : list[k] \in Item(Piece(t, cut, k))
    BY <1>3 DEF Piece
  <2> QED BY <1>1, <1>2, <1>3, <2>1, <2>4, <2>5, ListMade
<1>6. CASE t[cut[m]] # ")"
  <2> DEFINE n == m + 1
             c == [k \in 0 .. n |-> IF k = n THEN p ELSE cut[k]]
  <2>1. p = cut[m] + 1 /\ n \in Nat \ {0} /\ m \in 0 .. m
    BY <1>1, <1>2, <1>6
  <2>2. cut[m] \in 1 .. Len(t)
    BY <1>2, <2>1
  <2>3. c \in [0 .. n -> 1 .. Len(t)] /\ c[0] = o /\ c[n] = p /\ \A k \in 0 .. m : c[k] = cut[k]
    <3>1. \A k \in 0 .. n : k = n \/ k \in 0 .. m
      BY <1>1
    <3>2. \A k \in 0 .. m : k \in 0 .. n /\ k # n
      BY <1>1
    <3>3. 0 \in 0 .. m /\ n \in 0 .. n
      BY <1>1
    <3> HIDE DEF n
    <3> QED BY <1>2, <3>1, <3>2, <3>3
  <2> HIDE DEF c
  <2>4. \A j, k \in 0 .. n : j < k => c[j] < c[k]
    <3> SUFFICES ASSUME NEW j \in 0 .. n, NEW k \in 0 .. n, j < k
                 PROVE  c[j] < c[k]
      OBVIOUS
    <3>1. j \in 0 .. m /\ (k \in 0 .. m \/ k = n) /\ (j = m \/ j < m)
      BY <1>1
    <3>2. cut[j] = cut[m] \/ cut[j] < cut[m]
      BY <1>3, <2>1, <3>1
    <3>3. cut[j] \in 1 .. Len(t)
      BY <1>2, <3>1
    <3>4. CASE k = n
      BY <2>1, <2>2, <2>3, <3>1, <3>2, <3>3, <3>4
    <3>5. CASE k \in 0 .. m
      BY <1>3, <2>3, <3>1, <3>5
    <3> QED BY <3>1, <3>4, <3>5
  <2>5. \A k \in 1 .. n - 1 : t[c[k]] = Comma
    <3> TAKE k \in 1 .. n - 1
    <3>1. k \in 0 .. m /\ (k \in 1 .. m - 1 \/ (k = m /\ k \in 1 .. m))
      BY <1>1
    <3>2. t[cut[k]] = Comma
      BY <1>2, <1>3, <1>6, <3>1
    <3> QED BY <2>3, <3>1, <3>2
  <2>6. Piece(t, c, n) = <<>>
    <3>1. n - 1 = m /\ c[n - 1] = cut[m] /\ c[n] = cut[m] + 1
      BY <1>1, <2>1, <2>3
    <3>2. Piece(t, c, n) = SubSeq(t, c[n - 1] + 1, c[n] - 1)
      BY DEF Piece
    <3>3. Piece(t, c, n) = SubSeq(t, cut[m] + 1, (cut[m] + 1) - 1)
      BY <3>1, <3>2
    <3> DEFINE i == cut[m] + 1
               j == (cut[m] + 1) - 1
    <3>4. i \in Nat \ {0} /\ j \in 0 .. Len(t) /\ i <= j + 1 /\ j - i + 1 = 0
      BY <2>2
    <3> HIDE DEF i, j
    <3>5. Len(SubSeq(t, i, j)) = j - i + 1 /\ SubSeq(t, i, j) \in Seq(A)
      BY <3>4, Part
    <3>6. SubSeq(t, i, j) = <<>>
      BY <3>4, <3>5
    <3> QED BY <3>3, <3>6 DEF i, j
  <2>7. m = Given(t, c, n)
    <3>1. Given(t, c, n) = n - 1
      BY <2>6, Zenon DEF Given
    <3> QED BY <1>1, <3>1
  <2>8. \A k \in 1 .. m : list[k] \in Item(Piece(t, c, k))
    <3> TAKE k \in 1 .. m
    <3>1. k \in 0 .. m /\ k - 1 \in 0 .. m
      BY <1>1
    <3>2. c[k] = cut[k] /\ c[k - 1] = cut[k - 1]
      BY <2>3, <3>1
    <3> QED BY <1>3, <3>2 DEF Piece
  <2> HIDE DEF n
  <2> QED BY <1>1, <2>1, <2>3, <2>4, <2>5, <2>7, <2>8, ListMade
<1> QED BY <1>5, <1>6

(* The parentheses of the instruction: the first one that opens, and the   *)
(* last character but blanks.                                              *)
Enclosed(t, o, close) ==
  /\ o \in 1 .. Len(t) /\ t[o] = "(" /\ (\A k \in 1 .. o - 1 : t[k] # "(")
  /\ close \in 1 .. Len(t) /\ t[close] = ")" /\ (\A k \in close + 1 .. Len(t) : t[k] \in Blanks)

(* They are the ones that the grammar takes.                               *)
LEMMA EnclosedBy ==
  ASSUME NEW A, NEW t \in Seq(A), NEW o, NEW close, Enclosed(t, o, close)
  PROVE  Opens(t) # {} /\ Min(Opens(t)) = o /\ Max(SolidIn(t)) = close
<1>0. Len(t) \in Nat
  OBVIOUS
<1>1. Opens(t) \in SUBSET Nat /\ o \in Opens(t) /\ \A k \in Opens(t) : o <= k
  BY DEF Opens, Enclosed
<1>2. SolidIn(t) \in SUBSET (0 .. Len(t)) /\ \A k \in SolidIn(t) : k <= close
  BY DEF SolidIn, Enclosed
<1>3. close \in SolidIn(t)
  BY Classes DEF SolidIn, Enclosed
<1>4. Min(Opens(t)) = o
  BY <1>1, MinIs
<1>5. Max(SolidIn(t)) = close
  <2> DEFINE m == Len(t)
  <2> HIDE DEF m
  <2> QED BY <1>0, <1>2, <1>3, MaxIs DEF m
<1> QED BY <1>1, <1>4, <1>5

(* The readings of the grammar are made of those of the heading and those  *)
(* of the list ...                                                         *)
LEMMA ReadingIs ==
  ASSUME NEW A, NEW t \in Seq(A), NEW o, NEW close, Enclosed(t, o, close)
  PROVE  Readings(t) = {[stamp |-> h, list |-> l] : h \in Heading(Before(t, o)),
                                                    l \in Lists(t, o, close)}
<1>1. Opens(t) # {} /\ Min(Opens(t)) = o /\ Max(SolidIn(t)) = close /\ t[close] = ")"
  BY EnclosedBy DEF Enclosed
<1> QED BY <1>1 DEF Readings

(* ... and there are none without parentheses.                             *)
LEMMA ReadingHas ==
  ASSUME NEW A, NEW t \in Seq(A), Readings(t) # {}
  PROVE  \E o, close \in 1 .. Len(t) : Enclosed(t, o, close)
<1> DEFINE o == Min(Opens(t))
           close == Max(SolidIn(t))
           m == Len(t)
<1>0. Len(t) \in Nat
  OBVIOUS
<1>1. Opens(t) # {} /\ t[close] = ")"
  BY DEF Readings
<1>2. Opens(t) \in SUBSET Nat
  BY DEF Opens
<1>3. o \in Opens(t) /\ \A k \in Opens(t) : o <= k
  BY <1>1, <1>2, MinOf
<1> HIDE DEF o
<1>4. o \in 1 .. Len(t) /\ t[o] = "(" /\ \A k \in 1 .. o - 1 : t[k] # "("
  BY <1>3 DEF Opens
<1>5. o \in SolidIn(t) /\ SolidIn(t) \in SUBSET (0 .. m)
  BY <1>4, Classes DEF SolidIn
<1>6. close \in SolidIn(t) /\ \A k \in SolidIn(t) : k <= close
  <2> HIDE DEF m
  <2> QED BY <1>0, <1>5, MaxOf DEF m
<1> HIDE DEF close
<1>7. close \in 1 .. Len(t) /\ \A k \in close + 1 .. Len(t) : t[k] \in Blanks
  BY <1>6 DEF SolidIn
<1>8. Enclosed(t, o, close)
  BY <1>1, <1>4, <1>7 DEF Enclosed, close
<1> QED BY <1>4, <1>7, <1>8

-----------------------------------------------------------------------------
(* The parameters that a text can have.                                    *)
Items(t) == UNION {Item(SubSeq(t, i, j)) : i \in 1 .. Len(t) + 1, j \in 0 .. Len(t)}

(* What is known while the parameters are read.                            *)
ParametersKnown(t, s) ==
  /\ s = [p |-> s.p, stamp |-> s.stamp, list |-> s.list]
  /\ s.list \in Seq(Items(t))
  /\ \E o \in 1 .. Len(t) :
       /\ t[o] = "(" /\ (\A k \in 1 .. o - 1 : t[k] # "(")
       /\ s.stamp \in Heading(Before(t, o))
       /\ \E cut \in [0 .. Len(s.list) -> 1 .. Len(t)] : ParametersRead(t, o, s.p, s.list, cut)

(* The heading has one reading.                                            *)
LEMMA OneHeading ==
  ASSUME NEW A, NEW t \in Seq(A), NEW o \in 1 .. Len(t), t[o] = "("
  PROVE  \A h, x \in Heading(Before(t, o)) : h = x
<1>1. \A h \in Heading(Before(t, o)) :
           /\ parseTimestamp(t).p # 0 /\ parseTimestamp(t).stamp = h
           /\ parseProtocollIdentifier(t, parseTimestamp(t).p).p = o
  BY HeadingRun
<1> QED BY <1>1, Zenon

(* Without time stamp or key the grammar knows no reading.                 *)
LEMMA NoHeading ==
  ASSUME NEW A, NEW t \in Seq(A),
         \/ parseTimestamp(t).p = 0
         \/ parseProtocollIdentifier(t, parseTimestamp(t).p).p = 0
  PROVE  Readings(t) = {}
<1> SUFFICES ASSUME Readings(t) # {}
             PROVE  FALSE
  OBVIOUS
<1>1. PICK o, close \in 1 .. Len(t) : Enclosed(t, o, close)
  BY ReadingHas
<1>2. PICK h \in Heading(Before(t, o)) : TRUE
  <2>1. Readings(t) = {[stamp |-> h, list |-> l] : h \in Heading(Before(t, o)),
                                                   l \in Lists(t, o, close)}
    BY <1>1, ReadingIs
  <2> QED BY <2>1
<1>3. t[o] = "("
  BY <1>1 DEF Enclosed
<1>4. \A x \in Heading(Before(t, o)) :
           /\ parseTimestamp(t).p # 0 /\ parseTimestamp(t).stamp = x
           /\ parseProtocollIdentifier(t, parseTimestamp(t).p).p = o
  BY <1>3, HeadingRun
<1>5. o # 0
  OBVIOUS
<1> QED BY <1>2, <1>4, <1>5, Zenon

(* The first parenthesis begins the list.                                  *)
LEMMA ParametersStart ==
  ASSUME NEW A, NEW t \in Seq(A), NEW P, P = parseTimestamp(t), P.p # 0,
         NEW o, o = parseProtocollIdentifier(t, P.p).p, o # 0
  PROVE  ParametersKnown(t, [p |-> o + 1, stamp |-> P.stamp, list |-> <<>>])
<1> DEFINE s == [p |-> o + 1, stamp |-> P.stamp, list |-> <<>>]
           cut == [k \in 0 .. 0 |-> o]
<1>1. /\ P.p \in 1 .. Len(t) + 1
      /\ \A x \in 1 .. Len(t) :
           /\ x = parseProtocollIdentifier(t, P.p).p
           => /\ t[x] = "(" /\ P.stamp \in Heading(Before(t, x))
              /\ \A k \in 1 .. x - 1 : t[k] # "("
  BY HeadingScan
<1>2. o \in 1 .. Len(t)
  <2> DEFINE q == P.p
  <2>1. q \in 1 .. Len(t) + 1 /\ parseProtocollIdentifier(t, q).p # 0
    BY <1>1
  <2> HIDE DEF q
  <2>2. parseProtocollIdentifier(t, q).p \in q .. Len(t)
    BY <2>1, KeywordScan
  <2> QED BY <2>1, <2>2 DEF q
<1>3. t[o] = "(" /\ P.stamp \in Heading(Before(t, o)) /\ \A k \in 1 .. o - 1 : t[k] # "("
  BY <1>1, <1>2
<1>4. cut \in [0 .. 0 -> 1 .. Len(t)] /\ cut[0] = o /\ Len(<<>>) = 0
  BY <1>2
<1> HIDE DEF cut
<1>5. Sliced(t, 0, cut, <<>>)
  <2>1. \A k \in 0 .. 0 : k = 0
    OBVIOUS
  <2>2. \A k \in 1 .. 0 : FALSE
    OBVIOUS
  <2>3. \A k \in 0 .. 0 : cut[k] \in 1 .. Len(t)
    BY <1>2, <1>4, <2>1
  <2>4. \A j, k \in 0 .. 0 : ~(j < k)
    OBVIOUS
  <2> QED BY <2>2, <2>3, <2>4, Zenon DEF Sliced
<1>6. ParametersRead(t, o, o + 1, <<>>, cut)
  <2>1. t[cut[0]] # ")"
    BY <1>3, <1>4
  <2>2. \A k \in 1 .. 0 - 1 : t[cut[k]] = Comma
    OBVIOUS
  <2> QED BY <1>4, <1>5, <2>1, <2>2 DEF ParametersRead
<1>7. s.p = o + 1 /\ s.stamp = P.stamp /\ s.list = <<>> /\ s.list \in Seq(Items(t))
  OBVIOUS
<1>8. s = [p |-> s.p, stamp |-> s.stamp, list |-> s.list]
  BY <1>7
<1> HIDE DEF s
<1>9. ParametersKnown(t, s)
  BY <1>2, <1>3, <1>4, <1>6, <1>7, <1>8 DEF ParametersKnown
<1> QED BY <1>9 DEF s

(* Where the parser stands.                                                *)
LEMMA KnownPosition ==
  ASSUME NEW A, NEW t \in Seq(A), NEW s, ParametersKnown(t, s)
  PROVE  s.p \in 1 .. Len(t) + 1
<1>1. Len(s.list) \in Nat /\ Len(t) \in Nat
  BY DEF ParametersKnown
<1>2. PICK o, cut : /\ cut \in [0 .. Len(s.list) -> 1 .. Len(t)]
                    /\ ParametersRead(t, o, s.p, s.list, cut)
  BY DEF ParametersKnown
<1> DEFINE m == Len(s.list)
           x == cut[m]
<1>3. x \in 1 .. Len(t)
  <2>1. m \in 0 .. m
    BY <1>1
  <2> HIDE DEF m
  <2> QED BY <1>2, <2>1 DEF m
<1>4. s.p = IF t[x] = ")" THEN x ELSE x + 1
  BY <1>2 DEF ParametersRead
<1> HIDE DEF x
<1> QED BY <1>1, <1>3, <1>4

(* A reading ends here as it was read, or parseParameter goes on.          *)
LEMMA ReadingGoesOn ==
  ASSUME NEW A, NEW t \in Seq(A), NEW s, ParametersKnown(t, s), NEW r \in Readings(t)
  PROVE  \/ /\ r = [stamp |-> s.stamp, list |-> s.list]
            /\ \E o \in 1 .. Len(t) : Enclosed(t, o, s.p)
         \/ ~NoKey(t, s.p) /\ ~NoEnd(t, s.p)
<1>1. PICK o, close \in 1 .. Len(t) : Enclosed(t, o, close)
  BY ReadingHas
<1>2. PICK i \in 1 .. Len(t) :
        /\ t[i] = "(" /\ (\A k \in 1 .. i - 1 : t[k] # "(")
        /\ s.stamp \in Heading(Before(t, i))
        /\ \E cut \in [0 .. Len(s.list) -> 1 .. Len(t)] : ParametersRead(t, i, s.p, s.list, cut)
  BY DEF ParametersKnown
<1>3. t[o] = "(" /\ t[close] = ")" /\ \A k \in 1 .. o - 1 : t[k] # "("
  BY <1>1 DEF Enclosed
<1>4. i = o
  <2>1. ~(i \in 1 .. o - 1) /\ ~(o \in 1 .. i - 1)
    BY <1>2, <1>3
  <2> QED BY <2>1
<1>5. PICK cut : ParametersRead(t, o, s.p, s.list, cut)
  BY <1>2, <1>4
<1>6. s.stamp \in Heading(Before(t, o))
  BY <1>2, <1>4
<1>7. PICK h \in Heading(Before(t, o)), l \in Lists(t, o, close) : r = [stamp |-> h, list |-> l]
  <2>1. Readings(t) = {[stamp |-> x, list |-> y] : x \in Heading(Before(t, o)),
                                                   y \in Lists(t, o, close)}
    BY <1>1, ReadingIs
  <2> QED BY <2>1
<1>8. h = s.stamp
  <2>1. \A x, y \in Heading(Before(t, o)) : x = y
    BY <1>3, OneHeading
  <2> QED BY <1>6, <1>7, <2>1, Zenon
<1>9. PICK n, c, g : ListReading(t, o, close, n, c, g, l)
  BY <1>3, ListRead
<1> DEFINE list == s.list
           p == s.p
<1>10. list \in Seq(Items(t)) /\ ParametersRead(t, o, p, list, cut)
  BY <1>5 DEF ParametersKnown
<1> HIDE DEF list, p
<1>11. (close = p /\ l = list) \/ (~NoKey(t, p) /\ ~NoEnd(t, p))
  BY <1>3, <1>9, <1>10, ReadingAgrees
<1> QED BY <1>1, <1>7, <1>8, <1>11 DEF list, p

(* The list that ends with the text is the only reading.                   *)
LEMMA ReadingFound ==
  ASSUME NEW A, NEW t \in Seq(A), "end" \notin A, NEW s, ParametersKnown(t, s), parseEnd(t, s.p)
  PROVE  Readings(t) = {[stamp |-> s.stamp, list |-> s.list]}
<1> DEFINE p == s.p
           p2 == p + 1
           q == skipWhitespaces(t, p2)
           list == s.list
<1>0. Len(t) \in Nat
  OBVIOUS
<1>1. p \in 1 .. Len(t) + 1
  BY KnownPosition
<1>2. CharAt(t, p) = ")" /\ CharAt(t, q) = "end"
  BY DEF parseEnd
<1>3. p \in 1 .. Len(t) /\ t[p] = ")" /\ p2 \in 1 .. Len(t) + 1
  <2> HIDE DEF p, q
  <2> QED BY <1>0, <1>1, <1>2 DEF CharAt
<1>4. q = Len(t) + 1 /\ \A k \in p2 .. q - 1 : t[k] \in Blanks
  <2> HIDE DEF p2, q
  <2>1. /\ nextTokenEnd(t, p2, Blanks) \in p2 .. Len(t) + 1
        /\ \A k \in p2 .. nextTokenEnd(t, p2, Blanks) - 1 : t[k] \in Blanks
    BY <1>3, ClassesEnd, TokenEnd
  <2>2. q \in p2 .. Len(t) + 1 /\ \A k \in p2 .. q - 1 : t[k] \in Blanks
    BY <2>1 DEF q, skipWhitespaces
  <2>3. q = Len(t) + 1
    <3> SUFFICES ASSUME q # Len(t) + 1
                 PROVE  FALSE
      OBVIOUS
    <3>1. q \in 1 .. Len(t)
      BY <1>0, <1>3, <2>2
    <3>2. t[q] \in A /\ CharAt(t, q) = t[q]
      BY <3>1 DEF CharAt
    <3> QED BY <1>2, <3>2
  <2> QED BY <2>2, <2>3
<1>5. PICK o \in 1 .. Len(t) :
        /\ t[o] = "(" /\ (\A k \in 1 .. o - 1 : t[k] # "(")
        /\ s.stamp \in Heading(Before(t, o))
        /\ \E cut \in [0 .. Len(s.list) -> 1 .. Len(t)] : ParametersRead(t, o, s.p, s.list, cut)
  BY DEF ParametersKnown
<1>6. Enclosed(t, o, p)
  <2>1. \A k \in p + 1 .. Len(t) : t[k] \in Blanks
    <3>1. q - 1 = Len(t)
      BY <1>0, <1>4
    <3> HIDE DEF q, p
    <3> QED BY <1>4, <3>1
  <2> HIDE DEF p
  <2> QED BY <1>3, <1>5, <2>1 DEF Enclosed
<1>7. list \in Lists(t, o, p)
  <2>1. PICK cut : ParametersRead(t, o, p, list, cut)
    BY <1>5
  <2>2. list \in Seq(Items(t))
    BY DEF ParametersKnown
  <2> HIDE DEF p, list
  <2> QED BY <1>3, <1>5, <2>1, <2>2, ParametersMade
<1>8. Readings(t) = {[stamp |-> h, list |-> l] : h \in Heading(Before(t, o)), l \in Lists(t, o, p)}
  <2> HIDE DEF p
  <2> QED BY <1>6, ReadingIs
<1>9. [stamp |-> s.stamp, list |-> list] \in Readings(t)
  <2> HIDE DEF p, list
  <2> QED BY <1>5, <1>7, <1>8
<1>10. NoKey(t, p)
  <2> HIDE DEF p
  <2> QED BY <1>1, <1>2, NoKeyAt
<1>11. \A r \in Readings(t) : r = [stamp |-> s.stamp, list |-> list]
  BY <1>10, ReadingGoesOn
<1> HIDE DEF list
<1> QED BY <1>9, <1>11 DEF list

(* A list that ends too early, or too late, has no reading ...             *)
LEMMA NoReadingAtEnd ==
  ASSUME NEW A, NEW t \in Seq(A), NEW s, ParametersKnown(t, s),
         CharAt(t, s.p) \in {"end", ")"}, ~parseEnd(t, s.p)
  PROVE  Readings(t) = {}
<1> DEFINE p == s.p
           p2 == p + 1
           m == Len(t) + 1
<1>0. Len(t) \in Nat
  OBVIOUS
<1>1. p \in 1 .. Len(t) + 1
  BY KnownPosition
<1>2. NoKey(t, p)
  <2>1. CharAt(t, p) \in {Comma, ")", "end"}
    OBVIOUS
  <2> HIDE DEF p
  <2> QED BY <1>1, <2>1, NoKeyAt
<1> SUFFICES ASSUME NEW r \in Readings(t)
             PROVE  FALSE
  OBVIOUS
<1>3. PICK o \in 1 .. Len(t) : Enclosed(t, o, p)
  BY <1>2, ReadingGoesOn
<1>4. p \in 1 .. Len(t) /\ t[p] = ")" /\ \A k \in p + 1 .. Len(t) : t[k] \in Blanks
  BY <1>3 DEF Enclosed
<1> HIDE DEF p
<1>5. CharAt(t, p) = ")"
  BY <1>4 DEF CharAt
<1>6. skipWhitespaces(t, p2) = m /\ CharAt(t, m) = "end"
  <2>1. CharAt(t, m) = "end"
    BY <1>0 DEF CharAt
  <2>2. /\ p2 \in 1 .. Len(t) + 1 /\ m \in p2 .. Len(t) + 1 /\ CharAt(t, m) \notin Blanks
        /\ \A k \in p2 .. m - 1 : t[k] \in Blanks
    BY <1>0, <1>4, <2>1, ClassesEnd
  <2> HIDE DEF p2, m
  <2> QED BY <2>1, <2>2, TokenEndIs DEF skipWhitespaces
<1>7. parseEnd(t, p)
  <2> HIDE DEF m
  <2> QED BY <1>5, <1>6, Zenon DEF parseEnd
<1> QED BY <1>7 DEF p

(* ... and neither has one with a parameter that is not accepted.          *)
LEMMA NoReadingGoesOn ==
  ASSUME NEW A, NEW t \in Seq(A), NEW s, ParametersKnown(t, s),
         CharAt(t, s.p) \notin {"end", ")"}, parseParameter(t, s.p).p = 0
  PROVE  Readings(t) = {}
<1> DEFINE p == s.p
           n == NextAt(t, p)
<1>0. Len(t) \in Nat
  OBVIOUS
<1>1. p \in 1 .. Len(t) + 1
  BY KnownPosition
<1> SUFFICES ASSUME NEW r \in Readings(t)
             PROVE  FALSE
  OBVIOUS
<1>2. ~\E o \in 1 .. Len(t) : Enclosed(t, o, p)
  BY DEF Enclosed, CharAt
<1>3. ~NoKey(t, p) /\ ~NoEnd(t, p)
  BY <1>2, ReadingGoesOn
<1> HIDE DEF p
<1>4. n \in p .. Len(t)
  BY <1>1, <1>3, ParameterScan
<1>5. parseParameter(t, p) = [p |-> IF t[n] = Comma THEN n + 1 ELSE n, par |-> ParAt(t, p)]
  BY <1>3, ParameterParsed, Zenon
<1>6. parseParameter(t, p).p = IF t[n] = Comma THEN n + 1 ELSE n
  BY <1>5
<1>7. parseParameter(t, p).p # 0
  <2> HIDE DEF n
  <2> QED BY <1>0, <1>1, <1>4, <1>6
<1> QED BY <1>7 DEF p

(* One more parameter.                                                     *)
LEMMA SlicedMore ==
  ASSUME NEW A, NEW t \in Seq(A), NEW o \in 1 .. Len(t), t[o] = "(", NEW list \in Seq(Items(t)),
         NEW p \in 1 .. Len(t) + 1, NEW cut, ParametersRead(t, o, p, list, cut),
         CharAt(t, p) # ")", ~NoKey(t, p), ~NoEnd(t, p)
  PROVE  /\ Append(list, ParAt(t, p)) \in Seq(Items(t))
         /\ \E c \in [0 .. Len(Append(list, ParAt(t, p))) -> 1 .. Len(t)] :
              ParametersRead(t, o, IF t[NextAt(t, p)] = Comma THEN NextAt(t, p) + 1
                                   ELSE NextAt(t, p), Append(list, ParAt(t, p)), c)
<1> DEFINE m == Len(list)
           n == NextAt(t, p)
           x == ParAt(t, p)
           l == Append(list, x)
           c == [k \in 0 .. m + 1 |-> IF k = m + 1 THEN n ELSE cut[k]]
           next == IF t[n] = Comma THEN n + 1 ELSE n
<1>0. Len(t) \in Nat /\ m \in Nat
  OBVIOUS
<1>1. /\ cut \in [0 .. m -> 1 .. Len(t)] /\ cut[0] = o /\ Sliced(t, m, cut, list)
      /\ \A k \in 1 .. m - 1 : t[cut[k]] = Comma
      /\ p = (IF t[cut[m]] = ")" THEN cut[m] ELSE cut[m] + 1)
  BY DEF ParametersRead
<1>2. n \in p .. Len(t) /\ t[n] \in {Comma, ")"} /\ x \in Item(SubSeq(t, p, n - 1))
  BY ParameterScan
<1>3. x \in Items(t)
  <2> DEFINE j == n - 1
  <2>1. p \in 1 .. Len(t) + 1 /\ j \in 0 .. Len(t) /\ x \in Item(SubSeq(t, p, j))
    <3> HIDE DEF n, x
    <3> QED BY <1>0, <1>2
  <2> HIDE DEF j, x, n
  <2> QED BY <2>1 DEF Items
<1> HIDE DEF n, x
<1>4. /\ l \in Seq(Items(t)) /\ Len(l) = m + 1
      /\ (\A k \in 1 .. m : l[k] = list[k]) /\ l[m + 1] = x
  BY <1>3, Longer
<1> HIDE DEF m, l
<1>5. m \in 0 .. m /\ cut[m] \in 1 .. Len(t) /\ p = cut[m] + 1 /\ t[cut[m]] # ")"
  <2>1. m \in 0 .. m
    BY <1>0
  <2>2. cut[m] \in 1 .. Len(t)
    BY <1>1, <2>1
  <2>3. t[cut[m]] # ")"
    <3> SUFFICES ASSUME t[cut[m]] = ")"
                 PROVE  FALSE
      OBVIOUS
    <3>1. p = cut[m]
      BY <1>1
    <3> QED BY <2>2, <3>1 DEF CharAt
  <2> QED BY <1>1, <2>1, <2>2, <2>3
<1>6. cut[m] < n /\ n \in 1 .. Len(t)
  BY <1>0, <1>2, <1>5
<1>7. /\ c \in [0 .. m + 1 -> 1 .. Len(t)] /\ (\A k \in 0 .. m : c[k] = cut[k])
      /\ c[m + 1] = n
  <2>1. \A k \in 0 .. m + 1 : k = m + 1 \/ k \in 0 .. m
    BY <1>0
  <2>2. (\A k \in 0 .. m : k \in 0 .. m + 1 /\ k # m + 1) /\ m + 1 \in 0 .. m + 1
    BY <1>0
  <2> DEFINE m1 == m + 1
  <2> HIDE DEF m1
  <2>3. /\ c \in [0 .. m1 -> 1 .. Len(t)] /\ (\A k \in 0 .. m : c[k] = cut[k]) /\ c[m1] = n
    BY <1>1, <1>6, <2>1, <2>2 DEF m1
  <2> QED BY <2>3 DEF m1
<1> HIDE DEF c
<1>8. Sliced(t, m + 1, c, l)
  <2>1. /\ \A j, k \in 0 .. m : j < k => cut[j] < cut[k]
        /\ \A k \in 1 .. m : /\ t[cut[k]] \in {Comma, ")"}
                             /\ list[k] \in Item(SubSeq(t, cut[k - 1] + 1, cut[k] - 1))
    BY <1>1 DEF Sliced
  <2>2. \A j, k \in 0 .. m + 1 : j < k => c[j] < c[k]
    <3> SUFFICES ASSUME NEW j \in 0 .. m + 1, NEW k \in 0 .. m + 1, j < k
                 PROVE  c[j] < c[k]
      OBVIOUS
    <3>1. j \in 0 .. m /\ (k \in 0 .. m \/ k = m + 1) /\ (j = m \/ j < m)
      BY <1>0
    <3>2. cut[j] = cut[m] \/ cut[j] < cut[m]
      BY <1>5, <2>1, <3>1
    <3>3. cut[j] \in 1 .. Len(t)
      BY <1>1, <3>1
    <3>4. CASE k = m + 1
      BY <1>5, <1>6, <1>7, <3>1, <3>2, <3>3, <3>4, SMTT(30)
    <3>5. CASE k \in 0 .. m
      BY <1>7, <2>1, <3>1, <3>5
    <3> QED BY <3>1, <3>4, <3>5
  <2>3. ASSUME NEW k \in 1 .. m + 1
        PROVE  /\ t[c[k]] \in {Comma, ")"}
               /\ l[k] \in Item(SubSeq(t, c[k - 1] + 1, c[k] - 1))
    <3>1. k - 1 \in 0 .. m /\ (k = m + 1 \/ (k \in 1 .. m /\ k \in 0 .. m)) /\ (m + 1) - 1 = m
      BY <1>0
    <3>2. CASE k = m + 1
      <4>1. c[k] = n /\ c[k - 1] = cut[m] /\ l[k] = x /\ cut[m] + 1 = p
        BY <1>4, <1>5, <1>7, <3>1, <3>2
      <4> QED BY <1>2, <4>1
    <3>3. CASE k \in 1 .. m /\ k \in 0 .. m
      <4>1. c[k] = cut[k] /\ c[k - 1] = cut[k - 1] /\ l[k] = list[k]
        BY <1>4, <1>7, <3>1, <3>3
      <4> QED BY <2>1, <3>3, <4>1
    <3> QED BY <3>1, <3>2, <3>3
  <2>4. \A k \in 0 .. m + 1 : c[k] \in 1 .. Len(t)
    BY <1>7
  <2> QED BY <2>2, <2>3, <2>4 DEF Sliced
<1>9. \A k \in 1 .. Len(l) - 1 : t[c[k]] = Comma
  <2> TAKE k \in 1 .. Len(l) - 1
  <2>1. k \in 0 .. m /\ (k \in 1 .. m - 1 \/ (k = m /\ k \in 1 .. m))
    BY <1>0, <1>4
  <2>2. \A i \in 1 .. m : t[cut[i]] \in {Comma, ")"}
    BY <1>1 DEF Sliced
  <2>3. t[cut[k]] = Comma
    BY <1>1, <1>5, <2>1, <2>2
  <2> QED BY <1>7, <2>1, <2>3
<1>10. next = IF t[c[Len(l)]] = ")" THEN c[Len(l)] ELSE c[Len(l)] + 1
  <2>1. c[Len(l)] = n /\ Comma # ")"
    BY <1>4, <1>7, Classes
  <2> QED BY <1>2, <2>1
<1>11. c[0] = o
  BY <1>0, <1>1, <1>7
<1> HIDE DEF next
<1>12. c \in [0 .. Len(l) -> 1 .. Len(t)] /\ ParametersRead(t, o, next, l, c)
  BY <1>4, <1>7, <1>8, <1>9, <1>10, <1>11 DEF ParametersRead
<1>13. \E d \in [0 .. Len(l) -> 1 .. Len(t)] : ParametersRead(t, o, next, l, d)
  BY <1>12
<1> QED BY <1>4, <1>13 DEF l, x, n, next

(* So the loop in parseParameters goes on.                                 *)
LEMMA ParametersStep ==
  ASSUME NEW A, NEW t \in Seq(A), NEW s, ParametersKnown(t, s),
         CharAt(t, s.p) \notin {"end", ")"}, NEW found, found = parseParameter(t, s.p),
         found.p # 0
  PROVE  ParametersKnown(t, [s EXCEPT !.p = found.p, !.list = Append(@, found.par)])
<1> DEFINE p == s.p
           n == NextAt(t, p)
           x == ParAt(t, p)
           list == s.list
           next == IF t[n] = Comma THEN n + 1 ELSE n
           r == [s EXCEPT !.p = found.p, !.list = Append(@, found.par)]
<1>1. p \in 1 .. Len(t) + 1 /\ list \in Seq(Items(t))
  BY KnownPosition DEF ParametersKnown
<1>2. PICK o \in 1 .. Len(t) :
        /\ t[o] = "(" /\ (\A k \in 1 .. o - 1 : t[k] # "(")
        /\ s.stamp \in Heading(Before(t, o))
        /\ \E cut \in [0 .. Len(s.list) -> 1 .. Len(t)] : ParametersRead(t, o, s.p, s.list, cut)
  BY DEF ParametersKnown
<1>3. ~NoKey(t, p) /\ ~NoEnd(t, p) /\ found.p = next /\ found.par = x
  <2>1. CASE NoKey(t, p) \/ NoEnd(t, p)
    <3>1. parseParameter(t, p) = [p |-> 0, par |-> [parameter |-> <<>>, value |-> <<>>]]
      BY <2>1, ParameterParsed, Zenon
    <3> QED BY <3>1
  <2>2. CASE ~(NoKey(t, p) \/ NoEnd(t, p))
    <3>1. parseParameter(t, p) = [p |-> next, par |-> x]
      BY <2>2, ParameterParsed, Zenon
    <3> QED BY <2>2, <3>1
  <2> QED BY <2>1, <2>2
<1>4. PICK cut : ParametersRead(t, o, p, list, cut)
  BY <1>2
<1>5. s = [p |-> p, stamp |-> s.stamp, list |-> list]
  BY DEF ParametersKnown
<1>6. CharAt(t, p) # ")"
  OBVIOUS
<1> HIDE DEF p, list
<1>7. /\ Append(list, x) \in Seq(Items(t))
      /\ \E c \in [0 .. Len(Append(list, x)) -> 1 .. Len(t)] :
           ParametersRead(t, o, next, Append(list, x), c)
  BY <1>1, <1>2, <1>3, <1>4, <1>6, SlicedMore
<1> HIDE DEF next, x
<1>8. r = [p |-> next, stamp |-> s.stamp, list |-> Append(list, x)]
  <2> DEFINE stamp == s.stamp
             y == Append(list, x)
  <2>1. r = [s EXCEPT !.p = next, !.list = y]
    BY <1>3 DEF list
  <2>2. s = [p |-> p, stamp |-> stamp, list |-> list]
    BY <1>5
  <2> HIDE DEF stamp, y, r
  <2>3. r = [p |-> next, stamp |-> stamp, list |-> y]
    BY <2>1, <2>2
  <2> QED BY <2>3 DEF stamp, y
<1>9. /\ r.p = next /\ r.stamp = s.stamp /\ r.list = Append(list, x)
      /\ r = [p |-> r.p, stamp |-> r.stamp, list |-> r.list]
  <2> HIDE DEF r
  <2> QED BY <1>8
<1> HIDE DEF r
<1>10. ParametersKnown(t, r)
  BY <1>2, <1>7, <1>9 DEF ParametersKnown
<1> QED BY <1>10 DEF r

-----------------------------------------------------------------------------
(* The inductive invariant: what is known of the instruction in each state *)
(* of cInstructionParser::parse.                                           *)
TextInv == file \in Seq(Characters) /\ instructionBuffer \in Seq(Characters)
StampInv ==
  state = "keyword" =>
    /\ parseTimestamp(instructionBuffer).p # 0
    /\ scan = [p |-> parseTimestamp(instructionBuffer).p,
               stamp |-> parseTimestamp(instructionBuffer).stamp, list |-> <<>>]
ParameterInv == state = "parameters" => ParametersKnown(instructionBuffer, scan)
GrammarInv == TextInv /\ StampInv /\ ParameterInv /\ GrammarFollowed

(* Nothing is read yet.                                                    *)
LEMMA GrammarInit == Init => GrammarInv
<1> SUFFICES ASSUME Init
             PROVE  GrammarInv
  OBVIOUS
<1>1. state = "reading"
  BY DEF Init
<1>2. TextInv
  BY ScriptAssumption DEF Init, TextInv
<1> QED BY <1>1, <1>2 DEF GrammarInv, StampInv, ParameterInv, GrammarFollowed

(* A character is read.                                                    *)
LEMMA ReadGrammar ==
  ASSUME GrammarInv, NEW k \in {pos + 1} \intersect DOMAIN file,
         \/ Skip(file[k]) \/ Store(file[k]) \/ Instruction(file[k])
         \/ BlockStart(file[k]) \/ BlockEnd(file[k])
  PROVE  GrammarInv'
<1>1. TextInv
  BY DEF GrammarInv
<1>2. file[k] \in Characters
  BY <1>1 DEF TextInv
<1>3. file' = file /\ state = "reading"
  BY DEF Skip, Store, Instruction, BlockStart, BlockEnd, Read, Getc
<1>4. state' \in {"reading", "timestamp", "blocks"}
  <2>1. CASE Skip(file[k]) \/ Store(file[k]) \/ BlockStart(file[k])
    BY <1>3, <2>1 DEF Skip, Store, BlockStart
  <2>2. CASE Instruction(file[k])
    BY <2>2 DEF Instruction
  <2>3. CASE BlockEnd(file[k])
    BY <2>3, Zenon DEF BlockEnd
  <2> QED BY <2>1, <2>2, <2>3
<1>5. instructionBuffer' \in {instructionBuffer, Append(instructionBuffer, file[k]), <<>>}
  BY Zenon DEF Skip, Store, Instruction, BlockStart, BlockEnd
<1>6. TextInv'
  <2>1. Append(instructionBuffer, file[k]) \in Seq(Characters) /\ <<>> \in Seq(Characters)
    BY <1>1, <1>2 DEF TextInv
  <2> QED BY <1>1, <1>3, <1>5, <2>1, Zenon DEF TextInv
<1> QED BY <1>4, <1>6 DEF GrammarInv, StampInv, ParameterInv, GrammarFollowed

(* The time stamp.                                                         *)
LEMMA TimestampGrammar ==
  ASSUME GrammarInv, Timestamp
  PROVE  GrammarInv'
<1> DEFINE t == instructionBuffer
           found == parseTimestamp(t)
<1>1. /\ state' = (IF found.p = 0 THEN "syntax" ELSE "keyword")
      /\ scan' = [NoScan EXCEPT !.p = found.p, !.stamp = found.stamp]
      /\ file' = file /\ instructionBuffer' = instructionBuffer
  BY DEF Timestamp, fileVars
<1>2. TextInv'
  BY <1>1 DEF GrammarInv, TextInv
<1>3. t \in Seq(Characters)
  BY DEF GrammarInv, TextInv
<1>4. scan' = [p |-> found.p, stamp |-> found.stamp, list |-> <<>>]
  <2> HIDE DEF found
  <2> QED BY <1>1 DEF NoScan
<1>5. CASE found.p = 0
  <2>1. Readings(t) = {}
    <3> HIDE DEF t
    <3> QED BY <1>3, <1>5, NoHeading
  <2>2. state' = "syntax"
    BY <1>1, <1>5
  <2> QED BY <1>1, <1>2, <2>1, <2>2 DEF GrammarInv, StampInv, ParameterInv, GrammarFollowed
<1>6. CASE found.p # 0
  <2>1. state' = "keyword"
    BY <1>1, <1>6
  <2>2. StampInv'
    BY <1>1, <1>4, <1>6, Zenon DEF StampInv
  <2> QED BY <1>2, <2>1, <2>2 DEF GrammarInv, ParameterInv, GrammarFollowed
<1> QED BY <1>5, <1>6

(* The protocol keyword.                                                   *)
LEMMA KeywordGrammar ==
  ASSUME GrammarInv, Keyword
  PROVE  GrammarInv'
<1> DEFINE t == instructionBuffer
           P == parseTimestamp(t)
           o == parseProtocollIdentifier(t, P.p).p
<1>1. /\ t \in Seq(Characters) /\ P.p # 0
      /\ scan = [p |-> P.p, stamp |-> P.stamp, list |-> <<>>]
  BY DEF GrammarInv, TextInv, StampInv, Keyword
<1>2. scan.p = P.p
  <2> HIDE DEF P
  <2> QED BY <1>1
<1>3. /\ state' = (IF o = 0 THEN "syntax" ELSE "parameters")
      /\ scan' = [scan EXCEPT !.p = o + 1]
      /\ file' = file /\ instructionBuffer' = instructionBuffer
  BY <1>2, Zenon DEF Keyword, fileVars
<1>4. TextInv'
  BY <1>3 DEF GrammarInv, TextInv
<1>5. scan' = [p |-> o + 1, stamp |-> P.stamp, list |-> <<>>]
  <2> HIDE DEF P, o
  <2> QED BY <1>1, <1>3
<1>6. CASE o = 0
  <2>1. Readings(t) = {}
    <3> HIDE DEF t
    <3> QED BY <1>1, <1>6, NoHeading
  <2>2. state' = "syntax"
    BY <1>3, <1>6
  <2> QED BY <1>3, <1>4, <2>1, <2>2 DEF GrammarInv, StampInv, ParameterInv, GrammarFollowed
<1>7. CASE o # 0
  <2>1. ParametersKnown(t, [p |-> o + 1, stamp |-> P.stamp, list |-> <<>>])
    <3> HIDE DEF t
    <3> QED BY <1>1, <1>7, ParametersStart
  <2>2. ParametersKnown(t, scan')
    BY <1>5, <2>1, Zenon
  <2>3. state' = "parameters"
    BY <1>3, <1>7
  <2>4. ParameterInv'
    BY <1>3, <2>2, Zenon DEF ParameterInv
  <2> QED BY <1>4, <2>3, <2>4 DEF GrammarInv, StampInv, GrammarFollowed
<1> QED BY <1>6, <1>7

(* A parameter, or none.                                                   *)
LEMMA ParameterGrammar ==
  ASSUME GrammarInv, NextParameter
  PROVE  GrammarInv'
<1> DEFINE t == instructionBuffer
           found == parseParameter(t, scan.p)
<1>1. t \in Seq(Characters) /\ ParametersKnown(t, scan) /\ CharAt(t, scan.p) \notin {"end", ")"}
  BY DEF GrammarInv, TextInv, ParameterInv, NextParameter
<1>2. /\ file' = file /\ instructionBuffer' = instructionBuffer /\ state = "parameters"
      /\ IF found.p = 0 THEN state' = "syntax" /\ UNCHANGED scan
         ELSE /\ scan' = [scan EXCEPT !.p = found.p, !.list = Append(@, found.par)]
              /\ UNCHANGED state
  BY DEF NextParameter, fileVars
<1>3. TextInv'
  BY <1>2 DEF GrammarInv, TextInv
<1>4. CASE found.p = 0
  <2>1. Readings(t) = {}
    <3> HIDE DEF t
    <3> QED BY <1>1, <1>4, NoReadingGoesOn
  <2>2. state' = "syntax"
    BY <1>2, <1>4
  <2> QED BY <1>2, <1>3, <2>1, <2>2 DEF GrammarInv, StampInv, ParameterInv, GrammarFollowed
<1>5. CASE found.p # 0
  <2>1. ParametersKnown(t, [scan EXCEPT !.p = found.p, !.list = Append(@, found.par)])
    <3> HIDE DEF t
    <3> QED BY <1>1, <1>5, ParametersStep
  <2>2. scan' = [scan EXCEPT !.p = found.p, !.list = Append(@, found.par)] /\ state' = "parameters"
    BY <1>2, <1>5
  <2>3. ParametersKnown(t, scan')
    BY <2>1, <2>2, Zenon
  <2>4. ParameterInv'
    BY <1>2, <2>3, Zenon DEF ParameterInv
  <2> QED BY <1>3, <2>2, <2>4 DEF GrammarInv, StampInv, GrammarFollowed
<1> QED BY <1>4, <1>5

(* The end of the list.                                                    *)
LEMMA EndGrammar ==
  ASSUME GrammarInv, EndOfParameters
  PROVE  GrammarInv'
<1> DEFINE t == instructionBuffer
<1>1. /\ t \in Seq(Characters) /\ ParametersKnown(t, scan)
      /\ CharAt(t, scan.p) \in {"end", ")"} /\ "end" \notin Characters
  BY ScriptAssumption DEF GrammarInv, TextInv, ParameterInv, EndOfParameters
<1>2. /\ file' = file /\ instructionBuffer' = instructionBuffer /\ scan' = scan
      /\ state' = IF parseEnd(t, scan.p) THEN "compiling" ELSE "syntax"
  BY DEF EndOfParameters, fileVars
<1>3. TextInv'
  BY <1>2 DEF GrammarInv, TextInv
<1>4. CASE parseEnd(t, scan.p)
  <2>1. Readings(t) = {[stamp |-> scan.stamp, list |-> scan.list]}
    <3> HIDE DEF t
    <3> QED BY <1>1, <1>4, ReadingFound
  <2>2. state' = "compiling"
    BY <1>2, <1>4
  <2> QED BY <1>2, <1>3, <2>1, <2>2 DEF GrammarInv, StampInv, ParameterInv, GrammarFollowed
<1>5. CASE ~parseEnd(t, scan.p)
  <2>1. Readings(t) = {}
    <3> HIDE DEF t
    <3> QED BY <1>1, <1>5, NoReadingAtEnd
  <2>2. state' = "syntax"
    BY <1>2, <1>5
  <2> QED BY <1>2, <1>3, <2>1, <2>2 DEF GrammarInv, StampInv, ParameterInv, GrammarFollowed
<1> QED BY <1>4, <1>5

(* Every step keeps the invariant.                                         *)
LEMMA GrammarNext ==
  ASSUME GrammarInv, [Next]_vars
  PROVE  GrammarInv'
<1>1. ASSUME NEW k \in {pos + 1} \intersect DOMAIN file,
             \/ Skip(file[k]) \/ Store(file[k]) \/ Instruction(file[k])
             \/ BlockStart(file[k]) \/ BlockEnd(file[k])
      PROVE  GrammarInv'
  BY <1>1, ReadGrammar
<1>2. CASE EndOfFile \/ NotCompiled
  <2>1. /\ file' = file /\ instructionBuffer' = instructionBuffer
        /\ state' \in {"blocks", "done", "refused"}
    BY <1>2 DEF EndOfFile, NotCompiled, fileVars
  <2> QED BY <2>1 DEF GrammarInv, TextInv, StampInv, ParameterInv, GrammarFollowed
<1>3. CASE Timestamp
  BY <1>3, TimestampGrammar
<1>4. CASE Keyword
  BY <1>4, KeywordGrammar
<1>5. CASE NextParameter
  BY <1>5, ParameterGrammar
<1>6. CASE EndOfParameters
  BY <1>6, EndGrammar
<1>7. CASE Compiled
  <2>1. file' = file /\ instructionBuffer' = <<>> /\ state' = "reading"
    BY <1>7 DEF Compiled, fileVars
  <2> QED BY <2>1 DEF GrammarInv, TextInv, StampInv, ParameterInv, GrammarFollowed
<1>8. CASE UNCHANGED vars
  BY <1>8 DEF vars, GrammarInv, TextInv, StampInv, ParameterInv, GrammarFollowed
<1> QED BY <1>1, <1>2, <1>3, <1>4, <1>5, <1>6, <1>7, <1>8, Zenon DEF Next

(* For every script: parseParameters accepts exactly the instructions of   *)
(* the grammar, and reads each in the only possible way.                   *)
THEOREM GrammarAlwaysFollowed == Spec => []GrammarFollowed
<1>1. Init => GrammarInv
  BY GrammarInit
<1>2. GrammarInv /\ [Next]_vars => GrammarInv'
  BY GrammarNext
<1>3. GrammarInv => GrammarFollowed
  BY DEF GrammarInv
<1> QED BY <1>1, <1>2, <1>3, PTL DEF Spec
=============================================================================
