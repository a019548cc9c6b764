----------------------------- MODULE VLogProofs -----------------------------
(***************************************************************************)
(* Proofs about VLog: SafeFNMatch_ decides what a pattern means, and the   *)
(* site list and the levels agree with the patterns at every moment.       *)
(***************************************************************************)
EXTENDS VLog, WellFoundedInduction, TLAPS

(***************************************************************************)
(* Induction.  A set of naturals that is not empty has a least element: an *)
(* induction over n looks at the least n that violates its claim.          *)
(***************************************************************************)
LEMMA LeastElement ==
  ASSUME NEW S \in SUBSET Nat, S # {}
  PROVE  \E m \in S : \A k \in S : m <= k
<1> DEFINE R == OpToRel(<, Nat)
<1>1. IsWellFoundedOn(R, Nat)
  BY NatLessThanWellFounded
<1>2. \A i, j \in Nat : <<i, j>> \in R <=> i < j
  BY DEF OpToRel
<1> HIDE DEF R
<1>3. PICK m \in S : \A k \in S : ~(<<k, m>> \in R)
  BY <1>1, WFMin
<1>4. ASSUME NEW k \in S PROVE m <= k
  <2>1. k \in Nat /\ m \in Nat
    OBVIOUS
  <2>2. ~(k < m)
    BY <2>1, <1>2, <1>3
  <2> QED
    BY <2>1, <2>2
<1> QED
  BY <1>4

-----------------------------------------------------------------------------
(***************************************************************************)
(* The recursion of SafeFNMatch_ has a solution.                           *)
(***************************************************************************)

\* One row of the table of SafeFNMatch_, from the row below.
Row(pattern, str, below, p) ==
  {s \in 1 .. Len(str) + 1 :
     IF p > Len(pattern) THEN s > Len(str)
     ELSE IF s > Len(str) THEN p = Len(pattern) /\ pattern[p] = Star
     ELSE IF pattern[p] \in {str[s], Query} THEN s + 1 \in below
     ELSE pattern[p] = Star
          /\ (p = Len(pattern) \/ \E k \in s .. Len(str) : k \in below)}

IsTable(pattern, str, m) ==
  m = [p \in 1 .. Len(pattern) + 1 |-> Row(pattern, str, m[p + 1], p)]

\* The rows of the table from q on.
IsTableFrom(pattern, str, m, q) ==
  m = [p \in 1 .. Len(pattern) + 1 |->
         IF p >= q THEN Row(pattern, str, m[p + 1], p) ELSE {}]

LEMMA TableGrows ==
  ASSUME NEW pattern \in Seq(Chars), NEW str \in Seq(Chars),
         NEW q \in 1 .. Len(pattern), NEW m, IsTableFrom(pattern, str, m, q + 1)
  PROVE  \E n : IsTableFrom(pattern, str, n, q)
<1> DEFINE rows == 1 .. Len(pattern) + 1
           n == [p \in rows |-> IF p >= q THEN Row(pattern, str, m[p + 1], p) ELSE {}]
<1>1. ASSUME NEW p \in rows, p > q
      PROVE  n[p] = m[p]
  <2>1. m[p] = IF p >= q + 1 THEN Row(pattern, str, m[p + 1], p) ELSE {}
    BY Zenon DEF IsTableFrom
  <2>2. n[p] = IF p >= q THEN Row(pattern, str, m[p + 1], p) ELSE {}
    OBVIOUS
  <2> QED
    BY <1>1, <2>1, <2>2
<1>2. ASSUME NEW p \in rows, p >= q
      PROVE  Row(pattern, str, n[p + 1], p) = Row(pattern, str, m[p + 1], p)
  <2>1. CASE p > Len(pattern)
    BY <2>1 DEF Row
  <2>2. CASE p <= Len(pattern)
    <3>1. n[p + 1] = m[p + 1]
      BY <2>2, <1>1, <1>2
    <3> QED
      BY <3>1
  <2> QED
    BY <2>1, <2>2
<1>3. n = [p \in rows |-> IF p >= q THEN Row(pattern, str, n[p + 1], p) ELSE {}]
  BY <1>2
<1> QED
  BY <1>3 DEF IsTableFrom

LEMMA FirstTable ==
  ASSUME NEW pattern \in Seq(Chars), NEW str \in Seq(Chars)
  PROVE  \E n : IsTableFrom(pattern, str, n, Len(pattern) + 1)
<1> DEFINE P == Len(pattern)
           n == [p \in 1 .. P + 1 |-> IF p >= P + 1 THEN Row(pattern, str, {}, p) ELSE {}]
<1>1. \A p \in 1 .. P + 1 : p >= P + 1 =>
         Row(pattern, str, {}, p) = Row(pattern, str, n[p + 1], p)
  BY DEF Row
<1>2. n = [p \in 1 .. P + 1 |-> IF p >= P + 1 THEN Row(pattern, str, n[p + 1], p) ELSE {}]
  BY <1>1
<1> QED
  BY <1>2 DEF IsTableFrom

LEMMA TableExists ==
  ASSUME NEW pattern \in Seq(Chars), NEW str \in Seq(Chars)
  PROVE  \E m : IsTable(pattern, str, m)
<1> DEFINE P == Len(pattern)
           Bad == {i \in Nat : i <= P /\ ~\E m : IsTableFrom(pattern, str, m, P + 1 - i)}
<1>1. P \in Nat
  OBVIOUS
<1>2. Bad = {}
  <2> SUFFICES ASSUME Bad # {} PROVE FALSE
    OBVIOUS
  <2>1. PICK i \in Bad : \A k \in Bad : i <= k
    BY LeastElement
  <2>2. i # 0
    BY FirstTable, <1>1
  <2>3. i - 1 \in Nat /\ i - 1 <= P /\ i - 1 \notin Bad
    BY <2>1, <2>2, <1>1
  <2>4. PICK q \in 1 .. P : q = P + 1 - i
    <3>1. i \in Nat /\ i <= P
      OBVIOUS
    <3>2. P + 1 - i \in 1 .. P
      BY <3>1, <2>2, <1>1
    <3> QED
      BY <3>2
  <2>5. PICK m : IsTableFrom(pattern, str, m, P + 1 - (i - 1))
    BY <2>3
  <2>6. P + 1 - (i - 1) = q + 1
    BY <2>4, <1>1
  <2>7. IsTableFrom(pattern, str, m, q + 1)
    BY <2>5, <2>6
  <2>8. \E n : IsTableFrom(pattern, str, n, q)
    BY <2>7, TableGrows
  <2> QED
    BY <2>8, <2>4
<1>3. PICK m : IsTableFrom(pattern, str, m, 1)
  <2>1. P \notin Bad /\ P + 1 - P = 1
    BY <1>1, <1>2
  <2> QED
    BY <2>1, <1>1
<1>4. \A p \in 1 .. P + 1 : p >= 1
  BY <1>1
<1>5. IsTable(pattern, str, m)
  BY <1>3, <1>4 DEF IsTableFrom, IsTable
<1> QED
  BY <1>5

LEMMA MatcherTable ==
  ASSUME NEW pattern \in Seq(Chars), NEW str \in Seq(Chars)
  PROVE  \E m : IsTable(pattern, str, m) /\ (SafeFNMatch_(pattern, str) <=> 1 \in m[1])
<1>1. PICK m : m = CHOOSE n : IsTable(pattern, str, n)
  OBVIOUS
<1>2. IsTable(pattern, str, m)
  BY <1>1, TableExists
<1>3. SafeFNMatch_(pattern, str) <=> 1 \in m[1]
  BY <1>1 DEF SafeFNMatch_, IsTable, Row
<1> QED
  BY <1>2, <1>3

-----------------------------------------------------------------------------
(***************************************************************************)
(* SafeFNMatch_ and Matches.                                               *)
(***************************************************************************)

\* The rest of the pattern after p characters matches that of str after s.
Fits(pattern, str, p, s) ==
  \E cuts \in [p .. Len(pattern) -> s .. Len(str)] :
    /\ cuts[p] = s /\ cuts[Len(pattern)] = Len(str)
    /\ \A i \in p + 1 .. Len(pattern) :
         IF pattern[i] = Star THEN cuts[i - 1] <= cuts[i]
         ELSE cuts[i] = cuts[i - 1] + 1 /\ pattern[i] \in {str[cuts[i]], Query}

\* The character p of the pattern may stand for those of str after s up to k.
Stands(pattern, str, p, s, k) ==
  IF pattern[p] = Star THEN s <= k ELSE k = s + 1 /\ pattern[p] \in {str[k], Query}

LEMMA FitsGrows ==
  ASSUME NEW pattern \in Seq(Chars), NEW str \in Seq(Chars),
         NEW p \in 1 .. Len(pattern), NEW s \in 0 .. Len(str), NEW k \in 0 .. Len(str),
         Stands(pattern, str, p, s, k), Fits(pattern, str, p, k)
  PROVE  Fits(pattern, str, p - 1, s)
<1> DEFINE P == Len(pattern)
           L == Len(str)
<1>1. PICK c \in [p .. P -> k .. L] :
        /\ c[p] = k /\ c[P] = L
        /\ \A i \in p + 1 .. P :
             IF pattern[i] = Star THEN c[i - 1] <= c[i]
             ELSE c[i] = c[i - 1] + 1 /\ pattern[i] \in {str[c[i]], Query}
  BY DEF Fits
<1> DEFINE cuts == [i \in p - 1 .. P |-> IF i = p - 1 THEN s ELSE c[i]]
<1>2. s <= k /\ P \in Nat /\ L \in Nat
  BY DEF Stands
<1>3. cuts \in [p - 1 .. P -> s .. L]
  BY <1>2
<1>4. cuts[p - 1] = s /\ \A i \in p .. P : cuts[i] = c[i]
  BY <1>2
<1> HIDE DEF cuts
<1>5. ASSUME NEW i \in (p - 1) + 1 .. P
      PROVE  IF pattern[i] = Star THEN cuts[i - 1] <= cuts[i]
             ELSE cuts[i] = cuts[i - 1] + 1 /\ pattern[i] \in {str[cuts[i]], Query}
  <2>1. CASE i = p
    BY <2>1, <1>1, <1>2, <1>4 DEF Stands
  <2>2. CASE i > p
    BY <2>2, <1>1, <1>2, <1>4
  <2> QED
    BY <2>1, <2>2, <1>2
<1>6. cuts[P] = L
  BY <1>1, <1>2, <1>4
<1> QED
  BY <1>3, <1>4, <1>5, <1>6 DEF Fits

LEMMA FitsSplits ==
  ASSUME NEW pattern \in Seq(Chars), NEW str \in Seq(Chars),
         NEW p \in 1 .. Len(pattern), NEW s \in 0 .. Len(str),
         Fits(pattern, str, p - 1, s)
  PROVE  \E k \in s .. Len(str) : Stands(pattern, str, p, s, k) /\ Fits(pattern, str, p, k)
<1> DEFINE P == Len(pattern)
           L == Len(str)
<1>1. PICK c \in [p - 1 .. P -> s .. L] :
        /\ c[p - 1] = s /\ c[P] = L
        /\ \A i \in (p - 1) + 1 .. P :
             IF pattern[i] = Star THEN c[i - 1] <= c[i]
             ELSE c[i] = c[i - 1] + 1 /\ pattern[i] \in {str[c[i]], Query}
  BY DEF Fits
<1>2. P \in Nat /\ L \in Nat
  OBVIOUS
<1>b. \A i \in p - 1 .. P : c[i] \in Int
  BY <1>2
<1>3. ASSUME NEW i \in p .. P PROVE c[i - 1] <= c[i]
  <2>1. c[i - 1] \in Int /\ c[i] \in Int /\ i \in (p - 1) + 1 .. P
    BY <1>b, <1>2
  <2> QED
    BY <2>1, <1>1
<1> DEFINE Low == {i \in Nat : i \in p .. P /\ c[i] < c[p]}
<1>4. Low = {}
  <2> SUFFICES ASSUME Low # {} PROVE FALSE
    OBVIOUS
  <2>1. PICK i \in Low : \A j \in Low : i <= j
    BY LeastElement
  <2>2. i \in p .. P /\ c[i] < c[p] /\ c[p] \in Int /\ c[i] \in Int
    BY <1>b, <1>2
  <2>3. i \in p + 1 .. P
    BY <2>2, <1>2
  <2>4. c[i - 1] <= c[i] /\ c[i - 1] \in Int
    BY <2>3, <1>b, <1>2, <1>3
  <2>5. i - 1 \in Low
    BY <2>2, <2>3, <2>4, <1>2
  <2> QED
    BY <2>1, <2>3, <2>5
<1>5. PICK k \in s .. L : k = c[p]
  BY <1>2
<1> DEFINE cuts == [i \in p .. P |-> c[i]]
<1>6. cuts \in [p .. P -> k .. L]
  BY <1>2, <1>4, <1>5
<1>7. \A i \in p .. P : cuts[i] = c[i]
  OBVIOUS
<1> HIDE DEF cuts
<1>8. ASSUME NEW i \in p + 1 .. P
      PROVE  IF pattern[i] = Star THEN cuts[i - 1] <= cuts[i]
             ELSE cuts[i] = cuts[i - 1] + 1 /\ pattern[i] \in {str[cuts[i]], Query}
  <2>1. i \in (p - 1) + 1 .. P /\ cuts[i] = c[i] /\ cuts[i - 1] = c[i - 1]
    BY <1>2, <1>7
  <2> QED
    BY <2>1, <1>1
<1>9. Fits(pattern, str, p, k)
  <2>1. cuts[p] = k /\ cuts[P] = L
    BY <1>1, <1>2, <1>5, <1>7
  <2> QED
    BY <1>6, <1>8, <2>1 DEF Fits
<1>10. Stands(pattern, str, p, s, k)
  BY <1>1, <1>2, <1>5 DEF Stands
<1> QED
  BY <1>9, <1>10

LEMMA FitsEnd ==
  ASSUME NEW pattern \in Seq(Chars), NEW str \in Seq(Chars), NEW s \in 0 .. Len(str)
  PROVE  Fits(pattern, str, Len(pattern), s) <=> s = Len(str)
<1> DEFINE P == Len(pattern)
           L == Len(str)
<1>1. P \in Nat /\ L \in Nat
  OBVIOUS
<1>2. ASSUME Fits(pattern, str, P, s) PROVE s = L
  BY <1>2 DEF Fits
<1>3. ASSUME s = L PROVE Fits(pattern, str, P, s)
  <2> DEFINE cuts == [i \in P .. P |-> L]
  <2>1. cuts \in [P .. P -> s .. L] /\ cuts[P] = L
    BY <1>1, <1>3
  <2>2. P + 1 .. P = {}
    BY <1>1
  <2> HIDE DEF cuts
  <2> QED
    BY <2>1, <2>2, <1>3 DEF Fits
<1> QED
  BY <1>2, <1>3

\* What is left of the pattern where nothing is left of str: stars.
LEMMA OnlyStars ==
  ASSUME NEW pattern \in Seq(Chars), NEW str \in Seq(Chars),
         NEW p \in 0 .. Len(pattern), Fits(pattern, str, p, Len(str))
  PROVE  \A i \in p + 1 .. Len(pattern) : pattern[i] = Star
<1> DEFINE P == Len(pattern)
           L == Len(str)
<1>1. PICK c \in [p .. P -> L .. L] :
        \A i \in p + 1 .. P :
             IF pattern[i] = Star THEN c[i - 1] <= c[i]
             ELSE c[i] = c[i - 1] + 1 /\ pattern[i] \in {str[c[i]], Query}
  BY DEF Fits
<1>2. P \in Nat /\ L \in Nat /\ \A i \in p .. P : c[i] = L
  OBVIOUS
<1>3. ASSUME NEW i \in p + 1 .. P PROVE pattern[i] = Star
  <2>1. c[i - 1] = L /\ c[i] = L
    BY <1>2
  <2> QED
    BY <2>1, <1>1, <1>2
<1> QED
  BY <1>3

LEMMA RowOf ==
  ASSUME NEW pattern \in Seq(Chars), NEW str \in Seq(Chars), NEW m, IsTable(pattern, str, m),
         NEW p \in 1 .. Len(pattern) + 1
  PROVE  m[p] = Row(pattern, str, m[p + 1], p)
BY Zenon DEF IsTable

\* A string that SafeFNMatch_ accepts does match.
LEMMA MatcherSound ==
  ASSUME NEW pattern \in Seq(Chars), NEW str \in Seq(Chars), SafeFNMatch_(pattern, str)
  PROVE  Matches(pattern, str)
<1> DEFINE P == Len(pattern)
           L == Len(str)
<1>1. P \in Nat /\ L \in Nat
  OBVIOUS
<1>2. PICK m : IsTable(pattern, str, m) /\ 1 \in m[1]
  BY MatcherTable
<1> DEFINE Sound(p) == \A s \in 0 .. L : s + 1 \in m[p + 1] => Fits(pattern, str, p, s)
           Bad == {i \in Nat : i <= P /\ ~Sound(P - i)}
<1>3. Sound(P)
  <2> SUFFICES ASSUME NEW s \in 0 .. L, s + 1 \in m[P + 1]
               PROVE  Fits(pattern, str, P, s)
    OBVIOUS
  <2>1. P + 1 \in 1 .. Len(pattern) + 1 /\ P + 1 > Len(pattern)
    BY <1>1
  <2>2. s + 1 \in Row(pattern, str, m[P + 1 + 1], P + 1)
    BY <2>1, <1>2, RowOf
  <2>3. s = L
    BY <2>1, <2>2, <1>1 DEF Row
  <2> QED
    BY <2>3, FitsEnd
<1>4. ASSUME NEW p \in 1 .. P, Sound(p)
      PROVE  Sound(p - 1)
  <2> SUFFICES ASSUME NEW s \in 0 .. L, s + 1 \in m[p]
               PROVE  Fits(pattern, str, p - 1, s)
    BY <1>1
  <2>1. s + 1 \in Row(pattern, str, m[p + 1], p)
    BY <1>1, <1>2, RowOf
  <2>2. CASE s = L
    <3>1. p = P /\ pattern[p] = Star
      BY <2>1, <2>2, <1>1 DEF Row
    <3>2. Fits(pattern, str, p, s)
      BY <3>1, <2>2, FitsEnd
    <3>3. Stands(pattern, str, p, s, s)
      BY <3>1 DEF Stands
    <3> QED
      BY <3>2, <3>3, FitsGrows
  <2>3. CASE s < L /\ pattern[p] \in {str[s + 1], Query}
    <3>1. s + 1 + 1 \in m[p + 1] /\ s + 1 \in 0 .. L
      BY <2>1, <2>3, <1>1 DEF Row
    <3>2. Fits(pattern, str, p, s + 1)
      BY <3>1, <1>4
    <3>3. Stands(pattern, str, p, s, s + 1)
      BY <2>3 DEF Stands
    <3> QED
      BY <3>1, <3>2, <3>3, FitsGrows
  <2>4. CASE s < L /\ pattern[p] \notin {str[s + 1], Query}
    <3>1. pattern[p] = Star /\ (p = P \/ \E k \in s + 1 .. L : k \in m[p + 1])
      BY <2>1, <2>4, <1>1 DEF Row
    <3>2. CASE p = P
      <4>1. L \in 0 .. L /\ Fits(pattern, str, p, L)
        BY <3>2, <1>1, FitsEnd
      <4>2. Stands(pattern, str, p, s, L)
        BY <3>1, <2>4 DEF Stands
      <4> QED
        BY <4>1, <4>2, FitsGrows
    <3>3. CASE p # P
      <4>1. PICK k \in s + 1 .. L : k \in m[p + 1]
        BY <3>1, <3>3
      <4>2. PICK j \in 0 .. L : j = k - 1 /\ s <= j
        <5>1. k - 1 \in 0 .. L /\ s <= k - 1
          BY <1>1
        <5> QED
          BY <5>1
      <4>3. j + 1 \in m[p + 1]
        BY <4>1, <4>2, <1>1
      <4>4. Fits(pattern, str, p, j)
        BY <4>3, <1>4
      <4>5. Stands(pattern, str, p, s, j)
        BY <4>2, <3>1 DEF Stands
      <4> QED
        BY <4>4, <4>5, FitsGrows
    <3> QED
      BY <3>2, <3>3
  <2> QED
    BY <2>2, <2>3, <2>4, <1>1
<1>5. Sound(0)
  <2>1. Bad = {}
    <3> SUFFICES ASSUME Bad # {} PROVE FALSE
      OBVIOUS
    <3> HIDE DEF Sound
    <3>1. PICK i \in Bad : \A k \in Bad : i <= k
      BY LeastElement
    <3>2. i \in Nat /\ i <= P /\ ~Sound(P - i)
      OBVIOUS
    <3>3. i # 0
      BY <3>2, <1>1, <1>3
    <3>4. i - 1 \in Nat /\ i - 1 <= P /\ i - 1 \notin Bad
      BY <3>1, <3>2, <3>3, <1>1
    <3>5. P - (i - 1) \in 1 .. P /\ P - (i - 1) - 1 = P - i
      BY <3>2, <3>3, <1>1
    <3>6. PICK p \in 1 .. P : p = P - (i - 1)
      BY <3>5
    <3>7. Sound(p) /\ p - 1 = P - i
      BY <3>4, <3>5, <3>6
    <3>8. Sound(p - 1)
      BY <3>7, <1>4
    <3> QED
      BY <3>2, <3>7, <3>8
  <2> HIDE DEF Sound
  <2>2. P \notin Bad /\ P - P = 0
    BY <2>1, <1>1
  <2> QED
    BY <2>2, <1>1
<1>6. Fits(pattern, str, 0, 0)
  BY <1>1, <1>2, <1>5
<1> QED
  BY <1>6 DEF Fits, Matches

\* A plain string that matches is accepted.
LEMMA MatcherComplete ==
  ASSUME NEW pattern \in Seq(Chars), NEW str \in Seq(Chars), Plain(pattern, str),
         Matches(pattern, str)
  PROVE  SafeFNMatch_(pattern, str)
<1> DEFINE P == Len(pattern)
           L == Len(str)
<1>1. P \in Nat /\ L \in Nat
  OBVIOUS
<1>2. PICK m : IsTable(pattern, str, m) /\ (SafeFNMatch_(pattern, str) <=> 1 \in m[1])
  BY MatcherTable
<1>3. /\ \A i \in 1 .. L : str[i] # Star
      /\ P > 1 => ~(pattern[P - 1] = Star /\ pattern[P] = Star)
  BY DEF Plain, ToSet
<1> DEFINE Complete(p) == \A s \in 0 .. L : Fits(pattern, str, p, s) => s + 1 \in m[p + 1]
           Bad == {i \in Nat : i <= P /\ ~Complete(P - i)}
<1>4. Complete(P)
  <2> SUFFICES ASSUME NEW s \in 0 .. L, Fits(pattern, str, P, s)
               PROVE  s + 1 \in m[P + 1]
    OBVIOUS
  <2>1. s = L
    BY FitsEnd
  <2>2. P + 1 \in 1 .. Len(pattern) + 1 /\ P + 1 > Len(pattern) /\ s + 1 \in 1 .. L + 1
    BY <1>1
  <2>3. s + 1 \in Row(pattern, str, m[P + 1 + 1], P + 1)
    BY <2>1, <2>2, <1>1 DEF Row
  <2> QED
    BY <2>2, <2>3, <1>2, RowOf
<1>5. ASSUME NEW p \in 1 .. P, Complete(p)
      PROVE  Complete(p - 1)
  <2> SUFFICES ASSUME NEW s \in 0 .. L, Fits(pattern, str, p - 1, s)
               PROVE  s + 1 \in m[p]
    BY <1>1
  <2>1. PICK k \in s .. L : Stands(pattern, str, p, s, k) /\ Fits(pattern, str, p, k)
    BY FitsSplits
  <2>2. k \in 0 .. L /\ k + 1 \in m[p + 1]
    BY <2>1, <1>1, <1>5
  <2>3. s + 1 \in Row(pattern, str, m[p + 1], p)
    <3>1. CASE s = L
      <4>1. pattern[p] = Star
        BY <2>1, <3>1, <1>1 DEF Stands
      <4>2. Fits(pattern, str, p, Len(str))
        BY <2>1, <3>1, <1>1
      <4>3. p = P
        <5> SUFFICES ASSUME p # P PROVE FALSE
          OBVIOUS
        <5>1. \A i \in p + 1 .. P : pattern[i] = Star
          BY <4>2, OnlyStars, <1>1
        <5>2. P \in p + 1 .. P /\ (P - 1 = p \/ P - 1 \in p + 1 .. P) /\ P > 1
          BY <1>1
        <5> QED
          BY <5>1, <5>2, <4>1, <1>3
      <4> QED
        BY <4>1, <4>3, <3>1, <1>1 DEF Row
    <3>2. CASE s < L /\ pattern[p] # Star
      <4>1. k = s + 1 /\ pattern[p] \in {str[s + 1], Query}
        BY <2>1, <3>2 DEF Stands
      <4> QED
        BY <4>1, <2>2, <3>2, <1>1 DEF Row
    <3>3. CASE s < L /\ pattern[p] = Star
      <4>1. pattern[p] \notin {str[s + 1], Query}
        <5>1. s + 1 \in 1 .. L
          BY <3>3, <1>1
        <5> QED
          BY <5>1, <3>3, <1>3, VLogAssumption
      <4>2. p = P \/ \E j \in s + 1 .. L : j \in m[p + 1]
        <5> SUFFICES ASSUME p # P PROVE \E j \in s + 1 .. L : j \in m[p + 1]
          OBVIOUS
        <5>1. k # L
          <6> SUFFICES ASSUME k = L PROVE FALSE
            OBVIOUS
          <6>1. \A i \in p + 1 .. P : pattern[i] = Star
            BY <2>1, OnlyStars, <1>1
          <6>2. P \in p + 1 .. P /\ (P - 1 = p \/ P - 1 \in p + 1 .. P) /\ P > 1
            BY <1>1
          <6> QED
            BY <6>1, <6>2, <3>3, <1>3
        <5>2. k + 1 \in s + 1 .. L
          BY <5>1, <1>1
        <5> QED
          BY <5>2, <2>2
      <4>3. s + 1 \in 1 .. L + 1 /\ ~(p > Len(pattern)) /\ ~(s + 1 > Len(str))
        BY <3>3, <1>1
      <4> QED
        BY <4>1, <4>2, <4>3, <3>3 DEF Row
    <3> QED
      BY <3>1, <3>2, <3>3, <1>1
  <2> QED
    BY <2>3, <1>1, <1>2, RowOf
<1>6. Complete(0)
  <2>1. Bad = {}
    <3> SUFFICES ASSUME Bad # {} PROVE FALSE
      OBVIOUS
    <3> HIDE DEF Complete
    <3>1. PICK i \in Bad : \A j \in Bad : i <= j
      BY LeastElement
    <3>2. i \in Nat /\ i <= P /\ ~Complete(P - i)
      OBVIOUS
    <3>3. i # 0
      BY <3>2, <1>1, <1>4
    <3>4. i - 1 \in Nat /\ i - 1 <= P /\ i - 1 \notin Bad
      BY <3>1, <3>2, <3>3, <1>1
    <3>5. P - (i - 1) \in 1 .. P /\ P - (i - 1) - 1 = P - i
      BY <3>2, <3>3, <1>1
    <3>6. PICK p \in 1 .. P : p = P - (i - 1)
      BY <3>5
    <3>7. Complete(p) /\ p - 1 = P - i
      BY <3>4, <3>5, <3>6
    <3>8. Complete(p - 1)
      BY <3>7, <1>5
    <3> QED
      BY <3>2, <3>7, <3>8
  <2> HIDE DEF Complete
  <2>2. P \notin Bad /\ P - P = 0
    BY <2>1, <1>1
  <2> QED
    BY <2>2, <1>1
<1>7. Fits(pattern, str, 0, 0)
  <2>1. DOMAIN pattern = 0 + 1 .. P
    BY <1>1
  <2> QED
    BY <2>1 DEF Fits, Matches
<1> QED
  BY <1>1, <1>2, <1>6, <1>7

-----------------------------------------------------------------------------
(***************************************************************************)
(* The list of cached sites.                                               *)
(***************************************************************************)

\* One step of Unlinked: what is left of the first i sites.
Kept(list, sites, r, i) ==
  IF i = 0 THEN <<>> ELSE IF list[i] \in sites THEN r[i - 1] ELSE Append(r[i - 1], list[i])

IsKept(list, sites, r, n) == r = [i \in 0 .. n |-> Kept(list, sites, r, i)]

LEMMA KeptExists ==
  ASSUME NEW list, NEW sites, NEW N \in Nat
  PROVE  \E r : IsKept(list, sites, r, N)
<1> DEFINE Bad == {n \in Nat : ~\E r : IsKept(list, sites, r, n)}
<1>1. \E r : IsKept(list, sites, r, 0)
  <2> DEFINE r == [i \in 0 .. 0 |-> <<>>]
  <2>1. r = [i \in 0 .. 0 |-> Kept(list, sites, r, i)]
    BY DEF Kept
  <2> QED
    BY <2>1 DEF IsKept
<1>2. ASSUME NEW n \in Nat, NEW r, IsKept(list, sites, r, n)
      PROVE  \E q : IsKept(list, sites, q, n + 1)
  <2> DEFINE q == [i \in 0 .. n + 1 |-> Kept(list, sites, r, i)]
  <2>1. ASSUME NEW i \in 0 .. n PROVE q[i] = r[i]
    <3>1. r[i] = Kept(list, sites, r, i)
      BY <1>2, Zenon DEF IsKept
    <3> QED
      BY <3>1
  <2>2. ASSUME NEW i \in 0 .. n + 1 PROVE Kept(list, sites, q, i) = Kept(list, sites, r, i)
    <3>1. CASE i = 0
      BY <3>1 DEF Kept
    <3>2. CASE i # 0
      <4> HIDE DEF q
      <4>1. q[i - 1] = r[i - 1]
        <5>1. i - 1 \in 0 .. n
          BY <3>2
        <5> QED
          BY <5>1, <2>1
      <4> QED
        BY <4>1 DEF Kept
    <3> QED
      BY <3>1, <3>2
  <2>3. q = [i \in 0 .. n + 1 |-> Kept(list, sites, q, i)]
    BY <2>2
  <2> QED
    BY <2>3 DEF IsKept
<1>3. Bad = {}
  <2> SUFFICES ASSUME Bad # {} PROVE FALSE
    OBVIOUS
  <2>1. PICK n \in Bad : \A k \in Bad : n <= k
    BY LeastElement
  <2>2. n \in Nat /\ n # 0
    BY <1>1
  <2>3. PICK k \in Nat : k = n - 1
    BY <2>2
  <2>4. k \notin Bad /\ k + 1 = n
    BY <2>1, <2>2, <2>3
  <2>5. PICK r : IsKept(list, sites, r, k)
    BY <2>4
  <2>6. \E q : IsKept(list, sites, q, n)
    BY <2>4, <2>5, <1>2
  <2> QED
    BY <2>6
<1> QED
  BY <1>3

LEMMA UnlinkedIsKept ==
  ASSUME NEW list \in Seq(Sites), NEW sites
  PROVE  \E r : IsKept(list, sites, r, Len(list)) /\ Unlinked(list, sites) = r[Len(list)]
<1>1. PICK r : r = CHOOSE q : IsKept(list, sites, q, Len(list))
  OBVIOUS
<1>2. IsKept(list, sites, r, Len(list))
  <2>1. Len(list) \in Nat
    OBVIOUS
  <2> QED
    BY <2>1, <1>1, KeptExists
<1>3. Unlinked(list, sites) = r[Len(list)]
  BY <1>1 DEF Unlinked, IsKept, Kept
<1> QED
  BY <1>2, <1>3

\* Unlinking takes exactly these sites from a list, and no site comes twice.
LEMMA UnlinkedKeeps ==
  ASSUME NEW list \in Seq(Sites), NEW sites
  PROVE  /\ Unlinked(list, sites) \in Seq(Sites)
         /\ ToSet(Unlinked(list, sites)) = ToSet(list) \ sites
         /\ IsInjective(list) => IsInjective(Unlinked(list, sites))
<1>1. PICK r : IsKept(list, sites, r, Len(list)) /\ Unlinked(list, sites) = r[Len(list)]
  BY UnlinkedIsKept
<1> DEFINE N == Len(list)
           Good(n) == /\ r[n] \in Seq(Sites)
                      /\ \A x : (\E j \in 1 .. Len(r[n]) : r[n][j] = x)
                                 <=> x \notin sites /\ \E j \in 1 .. n : list[j] = x
                      /\ IsInjective(list) => IsInjective(r[n])
           Bad == {n \in Nat : n <= N /\ ~Good(n)}
<1>2. N \in Nat
  OBVIOUS
<1>3. \A n \in 0 .. N : r[n] = Kept(list, sites, r, n)
  BY <1>1, Zenon DEF IsKept
<1>4. Good(0)
  <2>1. r[0] = <<>>
    BY <1>2, <1>3 DEF Kept
  <2> QED
    BY <2>1 DEF IsInjective
<1>5. ASSUME NEW n \in 1 .. N, Good(n - 1)
      PROVE  Good(n)
  <2>1. r[n] = IF list[n] \in sites THEN r[n - 1] ELSE Append(r[n - 1], list[n])
    BY <1>2, <1>3 DEF Kept
  <2>2. \A x : (\E j \in 1 .. n : list[j] = x) <=>
                  x = list[n] \/ \E j \in 1 .. n - 1 : list[j] = x
    BY <1>2
  <2>3. CASE list[n] \in sites
    BY <2>1, <2>2, <2>3, <1>5
  <2>4. CASE list[n] \notin sites
    <3>1. PICK old \in Seq(Sites) : old = r[n - 1]
      BY <1>5
    <3>2. PICK x \in Sites : x = list[n]
      BY <1>2
    <3>3. r[n] = Append(old, x)
      BY <2>1, <2>4, <3>1, <3>2
    <3>4. /\ Append(old, x) \in Seq(Sites)
          /\ Len(Append(old, x)) = Len(old) + 1
          /\ \A j \in 1 .. Len(old) : Append(old, x)[j] = old[j]
          /\ Append(old, x)[Len(old) + 1] = x
          /\ Len(old) \in Nat
      OBVIOUS
    <3>5. PICK new \in Seq(Sites) : new = Append(old, x)
      BY <3>4
    <3>6. /\ Len(new) = Len(old) + 1 /\ new[Len(old) + 1] = x
          /\ \A j \in 1 .. Len(old) : new[j] = old[j]
      BY <3>4, <3>5
    <3>7. \A y : (\E j \in 1 .. Len(new) : new[j] = y)
                    <=> y = x \/ \E j \in 1 .. Len(old) : old[j] = y
      BY <3>4, <3>6
    <3>8. \A y : (\E j \in 1 .. Len(old) : old[j] = y)
                    <=> y \notin sites /\ \E j \in 1 .. n - 1 : list[j] = y
      BY <3>1, <1>5
    <3>9. \A y : (\E j \in 1 .. Len(new) : new[j] = y)
                    <=> y \notin sites /\ \E j \in 1 .. n : list[j] = y
      BY <3>7, <3>8, <2>2, <2>4, <3>2
    <3>10. ASSUME IsInjective(list)
           PROVE  IsInjective(new)
      <4>1. IsInjective(old)
        BY <3>1, <3>10, <1>5
      <4>2. \A j \in 1 .. n - 1 : list[j] # x
        BY <3>2, <3>10, <1>2 DEF IsInjective
      <4>3. \A j \in 1 .. Len(old) : old[j] # x
        BY <3>8, <4>2
      <4>4. \A i, j \in 1 .. Len(old) : old[i] = old[j] => i = j
        BY <4>1 DEF IsInjective
      <4>5. ASSUME NEW i \in 1 .. Len(new), NEW j \in 1 .. Len(new), new[i] = new[j]
            PROVE  i = j
        <5>1. \A k \in 1 .. Len(new) : k \in 1 .. Len(old) \/ k = Len(old) + 1
          BY <3>4, <3>6
        <5> QED
          BY <5>1, <4>3, <4>4, <4>5, <3>6
      <4> QED
        BY <4>5 DEF IsInjective
    <3>11. r[n] = new
      BY <3>3, <3>5
    <3> QED
      BY <3>9, <3>10, <3>11
  <2> QED
    BY <2>3, <2>4
<1>6. Good(N)
  <2> HIDE DEF Good
  <2>1. Bad = {}
    <3> SUFFICES ASSUME Bad # {} PROVE FALSE
      OBVIOUS
    <3>1. PICK n \in Bad : \A k \in Bad : n <= k
      BY LeastElement
    <3>2. n \in Nat /\ n <= N /\ ~Good(n) /\ n # 0
      BY <1>4
    <3>3. n - 1 \in Nat /\ n - 1 <= N /\ n - 1 \notin Bad
      BY <3>1, <3>2, <1>2
    <3> QED
      BY <3>2, <3>3, <1>2, <1>5
  <2> QED
    BY <2>1, <1>2
<1>7. PICK kept \in Seq(Sites) : kept = Unlinked(list, sites) /\ kept = r[N]
  BY <1>1, <1>6
<1>8. \A x : x \in ToSet(kept) <=> \E j \in 1 .. Len(kept) : kept[j] = x
  BY DEF ToSet
<1>9. \A x : x \in ToSet(list) <=> \E j \in 1 .. N : list[j] = x
  BY DEF ToSet
<1>10. \A x : x \in ToSet(kept) <=> x \in ToSet(list) /\ x \notin sites
  BY <1>6, <1>7, <1>8, <1>9
<1>11. IsInjective(list) => IsInjective(kept)
  BY <1>6, <1>7
<1> QED
  BY <1>7, <1>10, <1>11

LEMMA Joined ==
  ASSUME NEW S, NEW a \in Seq(S), NEW b \in Seq(S),
         IsInjective(a), IsInjective(b), ToSet(a) \cap ToSet(b) = {}
  PROVE  /\ a \o b \in Seq(S) /\ IsInjective(a \o b)
         /\ ToSet(a \o b) = ToSet(a) \cup ToSet(b)
<1>1. /\ a \o b \in Seq(S) /\ Len(a \o b) = Len(a) + Len(b)
      /\ \A i \in 1 .. Len(a) : (a \o b)[i] = a[i]
      /\ \A i \in Len(a) + 1 .. Len(a) + Len(b) : (a \o b)[i] = b[i - Len(a)]
      /\ Len(a) \in Nat /\ Len(b) \in Nat
  OBVIOUS
<1>2. PICK c \in Seq(S) : c = a \o b
  BY <1>1
<1>3. \A i \in 1 .. Len(c) :
        \/ i \in 1 .. Len(a) /\ c[i] = a[i]
        \/ i - Len(a) \in 1 .. Len(b) /\ c[i] = b[i - Len(a)]
  BY <1>1, <1>2
<1>4. /\ \A x : x \in ToSet(a) <=> \E i \in 1 .. Len(a) : a[i] = x
      /\ \A x : x \in ToSet(b) <=> \E i \in 1 .. Len(b) : b[i] = x
      /\ \A x : x \in ToSet(c) <=> \E i \in 1 .. Len(c) : c[i] = x
  BY DEF ToSet
<1>5. ASSUME NEW i \in 1 .. Len(c), NEW j \in 1 .. Len(c), c[i] = c[j]
      PROVE  i = j
  <2>1. \A k \in 1 .. Len(a), l \in 1 .. Len(b) : a[k] # b[l]
    BY <1>4
  <2>2. /\ \A k, l \in 1 .. Len(a) : a[k] = a[l] => k = l
        /\ \A k, l \in 1 .. Len(b) : b[k] = b[l] => k = l
    BY DEF IsInjective
  <2>3. CASE i \in 1 .. Len(a) /\ c[i] = a[i]
    BY <2>1, <2>2, <2>3, <1>3, <1>5
  <2>4. CASE i - Len(a) \in 1 .. Len(b) /\ c[i] = b[i - Len(a)]
    <3>1. j - Len(a) \in 1 .. Len(b) /\ c[j] = b[j - Len(a)]
      BY <2>1, <2>4, <1>3, <1>5
    <3>2. i - Len(a) = j - Len(a)
      BY <3>1, <2>2, <2>4, <1>5
    <3> QED
      BY <3>2, <1>1
  <2> QED
    BY <2>3, <2>4, <1>3
<1>6. \A x : x \in ToSet(c) => x \in ToSet(a) \/ x \in ToSet(b)
  BY <1>3, <1>4
<1>7. ASSUME NEW x \in ToSet(a) PROVE x \in ToSet(c)
  <2>1. PICK i \in 1 .. Len(a) : a[i] = x
    BY <1>4
  <2>2. i \in 1 .. Len(c) /\ c[i] = x
    BY <2>1, <1>1, <1>2
  <2> QED
    BY <2>2, <1>4
<1>8. ASSUME NEW x \in ToSet(b) PROVE x \in ToSet(c)
  <2>1. PICK i \in 1 .. Len(b) : b[i] = x
    BY <1>4
  <2>2. PICK k \in Len(a) + 1 .. Len(a) + Len(b) : k = Len(a) + i
    BY <1>1
  <2>3. k \in 1 .. Len(c) /\ c[k] = x
    BY <2>1, <2>2, <1>1, <1>2
  <2> QED
    BY <2>3, <1>4
<1>9. IsInjective(c)
  BY <1>5 DEF IsInjective
<1>10. ToSet(c) = ToSet(a) \cup ToSet(b)
  BY <1>6, <1>7, <1>8
<1> QED
  BY <1>2, <1>9, <1>10

LEMMA OneSite ==
  ASSUME NEW S, NEW x \in S
  PROVE  <<x>> \in Seq(S) /\ IsInjective(<<x>>) /\ ToSet(<<x>>) = {x}
BY DEF IsInjective, ToSet

\* The first pattern of a list that matches a name.
FirstOf(list, is, name) ==
  SelectInSeq(list, LAMBDA n : SafeFNMatch_(is[n].module_pattern, name))

LEMMA FirstMatch ==
  ASSUME NEW list \in Seq(Nat), NEW is, NEW name, NEW first, first = FirstOf(list, is, name)
  PROVE  \/ first = 0 /\ \A n \in ToSet(list) : ~SafeFNMatch_(is[n].module_pattern, name)
         \/ first \in 1 .. Len(list) /\ SafeFNMatch_(is[list[first]].module_pattern, name)
<1> DEFINE Test(n) == SafeFNMatch_(is[n].module_pattern, name)
           I == {i \in 1 .. Len(list) : Test(list[i])}
<1>1. first = IF I # {} THEN Min(I) ELSE 0
  BY DEF FirstOf, SelectInSeq
<1> HIDE DEF Test
<1>2. CASE I = {}
  BY <1>1, <1>2 DEF ToSet, Test
<1>3. CASE I # {}
  <2>1. I \in SUBSET Nat
    OBVIOUS
  <2>2. \E m \in I : \A k \in I : m <= k
    BY <1>3, <2>1, LeastElement
  <2>3. Min(I) \in I
    BY <2>2 DEF Min
  <2> QED
    BY <1>1, <1>3, <2>3 DEF Test
<1> QED
  BY <1>2, <1>3

-----------------------------------------------------------------------------
(***************************************************************************)
(* The inductive invariant.                                                *)
(***************************************************************************)

Accepts(n, s) == SafeFNMatch_(Pattern(n), base_name[s])

\* What InitVLOG3__ and SetVLOGLevel rely on: no site has a level before the flag
\* is parsed; one that FLAGS_v controls has been named, so that it will not enter
\* the list again, and no pattern accepts it; a named site has a level for good.
Settled ==
  /\ ~inited_vmodule => Len(infos) <= MaxInfos /\ \A s \in Sites : level[s] = Unset
  /\ \A s \in Sites :
       /\ level[s] = FLAGS_v => s \in named /\ \A n \in DOMAIN infos : ~Accepts(n, s)
       /\ level[s] \in DOMAIN infos => Accepts(level[s], s)
       /\ s \in named => level[s] # Unset

Inv == TypeOK /\ vmodule_list \in Seq(Nat) /\ CachedOnce /\ Settled

LEMMA InvInit == Init => Inv
<1> SUFFICES ASSUME Init PROVE Inv
  OBVIOUS
<1> USE DEF Init
<1>1. <<>> \in Seq(Nat) /\ <<>> \in Seq(Sites) /\ <<>> \in Seq(VModuleInfo)
      /\ Len(<<>>) = 0 /\ DOMAIN <<>> = {} /\ IsInjective(<<>>) /\ ToSet(<<>>) = {}
  BY DEF IsInjective, ToSet
<1>2. Len(FLAGS_vmodule) \in Nat /\ MaxInfos \in Nat
  BY VLogAssumption
<1>3. TypeOK
  <2>1. Len(infos) <= MaxInfos + Len(FLAGS_vmodule)
    BY <1>1, <1>2
  <2>2. level \in [Sites -> {Unset, FLAGS_v} \cup DOMAIN infos]
    OBVIOUS
  <2>3. pc \in [Threads -> Sites \cup {Idle}]
    OBVIOUS
  <2>4. /\ infos \in Seq(VModuleInfo) /\ cached_site_list \in Seq(Sites)
        /\ IsInjective(vmodule_list) /\ ToSet(vmodule_list) = DOMAIN infos
    BY <1>1
  <2> QED
    BY <2>1, <2>2, <2>3, <2>4 DEF TypeOK
<1>4. CachedOnce
  BY <1>1, VLogAssumption DEF CachedOnce
<1>5. Settled
  BY <1>1, <1>2, VLogAssumption DEF Settled
<1> QED
  BY <1>1, <1>3, <1>4, <1>5 DEF Inv

LEMMA InvStutter == Inv /\ UNCHANGED vars => Inv'
BY DEF Inv, vars, TypeOK, CachedOnce, Settled, Accepts, Pattern, VModuleInfo

LEMMA VLOG_IS_ONKeepsInv ==
  ASSUME Inv, NEW t \in Threads, NEW s \in Sites, VLOG_IS_ON(t, s)
  PROVE  Inv'
<1> USE DEF VLOG_IS_ON
<1>1. TypeOK'
  BY DEF Inv, TypeOK, VModuleInfo
<1>2. CachedOnce' /\ Settled' /\ (vmodule_list \in Seq(Nat))'
  BY DEF Inv, CachedOnce, Settled, Accepts, Pattern
<1> QED
  BY <1>1, <1>2 DEF Inv

\* The patterns stay what they are.
LEMMA ChangeLevelKeepsInv ==
  ASSUME Inv, NEW p \in Patterns, NEW l \in Levels, ChangeLevel(p, l)
  PROVE  Inv'
<1> USE DEF ChangeLevel
<1>1. infos \in Seq(VModuleInfo)
  BY DEF Inv, TypeOK
<1>2. \A n \in DOMAIN infos : infos[n] \in VModuleInfo
  BY <1>1
<1>3. DOMAIN infos' = DOMAIN infos
      /\ \A n \in DOMAIN infos : infos'[n] \in VModuleInfo
                                /\ infos'[n].module_pattern = infos[n].module_pattern
  BY <1>2 DEF VModuleInfo
<1>4. infos' \in Seq(VModuleInfo) /\ Len(infos') = Len(infos)
  <2>1. infos' \in [1 .. Len(infos) -> VModuleInfo] /\ Len(infos) \in Nat
    BY <1>1, <1>3
  <2> QED
    BY <2>1, <1>1
<1>5. TypeOK'
  BY <1>3, <1>4 DEF Inv, TypeOK
<1>6. \A n \in DOMAIN infos, s \in Sites : Accepts(n, s)' = Accepts(n, s)
  BY <1>3 DEF Accepts, Pattern
<1>7. CachedOnce' /\ (vmodule_list \in Seq(Nat))'
  BY DEF Inv, CachedOnce
<1>8. Settled'
  BY <1>3, <1>4, <1>6 DEF Inv, Settled
<1> QED
  BY <1>5, <1>7, <1>8 DEF Inv

LEMMA AddPatternKeepsInv ==
  ASSUME Inv, NEW p \in Patterns, NEW l \in Levels, AddPattern(p, l)
  PROVE  Inv'
<1> DEFINE new == [module_pattern |-> p, vlog_level |-> l]
<1> USE DEF AddPattern
<1>1. /\ infos \in Seq(VModuleInfo) /\ new \in VModuleInfo /\ new.module_pattern = p
      /\ infos' = Append(infos, new)
  BY DEF Inv, TypeOK, VModuleInfo
<1> HIDE DEF new
<1>2. PICK N \in Nat : N = Len(infos)
  BY <1>1
<1>3. /\ infos' \in Seq(VModuleInfo) /\ Len(infos') = N + 1 /\ infos'[N + 1] = new
      /\ DOMAIN infos = 1 .. N /\ DOMAIN infos' = 1 .. N + 1
      /\ \A n \in 1 .. N : infos'[n] = infos[n]
  BY <1>1, <1>2
<1>4. /\ vmodule_list' \in Seq(Nat) /\ IsInjective(vmodule_list')
      /\ ToSet(vmodule_list') = DOMAIN infos'
  <2>1. PICK x \in Nat : x = N + 1
    OBVIOUS
  <2>2. vmodule_list \in Seq(Nat) /\ IsInjective(vmodule_list) /\ ToSet(vmodule_list) = 1 .. N
    BY <1>3 DEF Inv, TypeOK
  <2>3. <<x>> \in Seq(Nat) /\ IsInjective(<<x>>) /\ ToSet(<<x>>) = {x}
    BY OneSite
  <2>4. {x} \cap 1 .. N = {} /\ {x} \cup 1 .. N = 1 .. N + 1
    BY <2>1
  <2>5. vmodule_list' = <<x>> \o vmodule_list
    BY <1>3, <2>1
  <2>6. /\ <<x>> \o vmodule_list \in Seq(Nat) /\ IsInjective(<<x>> \o vmodule_list)
        /\ ToSet(<<x>> \o vmodule_list) = ToSet(<<x>>) \cup ToSet(vmodule_list)
    <3>1. ToSet(<<x>>) \cap ToSet(vmodule_list) = {}
      BY <2>2, <2>3, <2>4
    <3>2. PICK one : one = <<x>>
      OBVIOUS
    <3>3. /\ one \in Seq(Nat) /\ IsInjective(one)
          /\ ToSet(one) \cap ToSet(vmodule_list) = {}
      BY <3>1, <3>2, <2>3
    <3>4. /\ one \o vmodule_list \in Seq(Nat) /\ IsInjective(one \o vmodule_list)
          /\ ToSet(one \o vmodule_list) = ToSet(one) \cup ToSet(vmodule_list)
      BY <3>3, <2>2, Joined
    <3> QED
      BY <3>2, <3>4
  <2> QED
    BY <2>2, <2>3, <2>4, <2>5, <2>6, <1>3
<1>5. PICK taken : taken = Redirected(p)
  OBVIOUS
<1>6. /\ cached_site_list \in Seq(Sites) /\ IsInjective(cached_site_list)
      /\ ToSet(cached_site_list) = {s \in Sites : level[s] = FLAGS_v}
  BY DEF Inv, TypeOK, CachedOnce
<1>7. /\ cached_site_list' \in Seq(Sites) /\ IsInjective(cached_site_list')
      /\ ToSet(cached_site_list') = ToSet(cached_site_list) \ taken
  BY <1>5, <1>6, UnlinkedKeeps
<1>8. taken = {s \in Sites : level[s] = FLAGS_v /\ SafeFNMatch_(p, base_name[s])}
  BY <1>5, <1>6 DEF Redirected
<1>9. level' = [s \in Sites |-> IF s \in taken THEN N + 1 ELSE level[s]]
  BY <1>3, <1>5
<1>10. \A s \in Sites : level'[s] = IF s \in taken THEN N + 1 ELSE level[s]
  BY <1>9
<1>11. level \in [Sites -> {Unset, FLAGS_v} \cup 1 .. N]
  BY <1>3 DEF Inv, TypeOK
<1>12. level' \in [Sites -> {Unset, FLAGS_v} \cup 1 .. N + 1]
  BY <1>9, <1>11
<1>13. N + 1 # FLAGS_v /\ N + 1 # Unset /\ FLAGS_v \notin 1 .. N + 1 /\ Unset \notin 1 .. N + 1
  BY VLogAssumption
<1>14. TypeOK'
  <2>1. Len(infos') <= MaxInfos + Len(FLAGS_vmodule)
    BY <1>2, <1>3, VLogAssumption
  <2> QED
    BY <2>1, <1>3, <1>4, <1>7, <1>12 DEF Inv, TypeOK
<1>15. CachedOnce'
  <2>1. \A s \in Sites : level'[s] = FLAGS_v <=> level[s] = FLAGS_v /\ s \notin taken
    BY <1>10, <1>13
  <2> QED
    BY <2>1, <1>6, <1>7 DEF CachedOnce
<1>16. \A s \in Sites : /\ \A n \in 1 .. N : Accepts(n, s)' = Accepts(n, s)
                       /\ Accepts(N + 1, s)' = SafeFNMatch_(p, base_name[s])
  BY <1>1, <1>3 DEF Accepts, Pattern
<1>17. Settled'
  <2>1. ~inited_vmodule' => Len(infos') <= MaxInfos /\ \A s \in Sites : level'[s] = Unset
    <3>1. ~inited_vmodule => \A s \in Sites : level[s] = Unset
      BY DEF Inv, Settled
    <3> QED
      BY <3>1, <1>2, <1>3, <1>8, <1>10, VLogAssumption
  <2>2. ASSUME NEW s \in Sites
        PROVE  /\ level'[s] = FLAGS_v => s \in named' /\ \A n \in DOMAIN infos' : ~Accepts(n, s)'
               /\ level'[s] \in DOMAIN infos' =>
                    \A n \in DOMAIN infos' : n = level'[s] => Accepts(n, s)'
               /\ s \in named' => level'[s] # Unset
    <3>1. /\ level[s] = FLAGS_v => s \in named /\ \A n \in 1 .. N : ~Accepts(n, s)
          /\ level[s] \in 1 .. N => Accepts(level[s], s)
          /\ s \in named => level[s] # Unset
      BY <1>3 DEF Inv, Settled
    <3>2. \A n \in 1 .. N + 1 : n \in 1 .. N \/ n = N + 1
      OBVIOUS
    <3>3. CASE s \in taken
      BY <3>2, <3>3, <1>3, <1>8, <1>10, <1>13, <1>16
    <3>4. CASE s \notin taken
      <4>1. level'[s] = level[s]
        BY <3>4, <1>10
      <4>2. CASE level[s] = FLAGS_v
        BY <4>1, <4>2, <3>1, <3>2, <3>4, <1>3, <1>8, <1>13, <1>16
      <4>3. CASE level[s] \in 1 .. N
        BY <4>1, <4>3, <3>1, <1>3, <1>13, <1>16
      <4>4. CASE level[s] = Unset
        BY <4>1, <4>4, <3>1, <1>3, <1>13, VLogAssumption
      <4> QED
        BY <4>2, <4>3, <4>4, <1>11
    <3> QED
      BY <3>3, <3>4
  <2> QED
    BY <2>1, <2>2 DEF Settled
<1> QED
  BY <1>4, <1>14, <1>15, <1>17 DEF Inv

\* Parsing the flag adds its patterns in front of the list.
LEMMA FlagParsed ==
  ASSUME Inv, ~inited_vmodule, VLOG2Initializer
  PROVE  /\ infos' \in Seq(VModuleInfo)
         /\ Len(infos') <= MaxInfos + Len(FLAGS_vmodule)
         /\ vmodule_list' \in Seq(Nat) /\ IsInjective(vmodule_list')
         /\ ToSet(vmodule_list') = DOMAIN infos'
         /\ DOMAIN infos \subseteq DOMAIN infos'
<1>1. /\ infos' = infos \o FLAGS_vmodule
      /\ vmodule_list' = [i \in DOMAIN FLAGS_vmodule |-> Len(infos) + i] \o vmodule_list
  BY DEF VLOG2Initializer
<1>2. infos \in Seq(VModuleInfo) /\ FLAGS_vmodule \in Seq(VModuleInfo)
  BY VLogAssumption DEF Inv, TypeOK
<1>3. PICK N \in Nat : N = Len(infos)
  BY <1>2
<1>4. PICK F \in Nat : F = Len(FLAGS_vmodule)
  BY <1>2
<1>5. infos' \in Seq(VModuleInfo) /\ Len(infos') = N + F /\ DOMAIN infos' = 1 .. N + F
      /\ DOMAIN infos = 1 .. N /\ DOMAIN FLAGS_vmodule = 1 .. F
  BY <1>1, <1>2, <1>3, <1>4
<1>6. Len(infos') <= MaxInfos + Len(FLAGS_vmodule)
  BY <1>3, <1>4, <1>5, VLogAssumption DEF Inv, Settled
<1>7. PICK front : front = [i \in 1 .. F |-> N + i]
  OBVIOUS
<1>8. vmodule_list' = front \o vmodule_list
  BY <1>1, <1>3, <1>5, <1>7
<1>9. front \in Seq(Nat) /\ IsInjective(front) /\ ToSet(front) = N + 1 .. N + F
  <2>1. front \in Seq(Nat) /\ Len(front) = F /\ DOMAIN front = 1 .. F
    BY <1>7
  <2>2. IsInjective(front)
    BY <1>7, <2>1 DEF IsInjective
  <2>3. \A x \in N + 1 .. N + F : x - N \in 1 .. F /\ N + (x - N) = x
    OBVIOUS
  <2>4. ASSUME NEW x \in N + 1 .. N + F PROVE x \in ToSet(front)
    <3>1. PICK i \in 1 .. F : i = x - N
      BY <2>3
    <3>2. front[i] = x
      BY <3>1, <1>7
    <3> QED
      BY <3>2, <2>1 DEF ToSet
  <2>5. ASSUME NEW x \in ToSet(front) PROVE x \in N + 1 .. N + F
    <3>1. PICK i \in 1 .. F : x = front[i]
      BY <2>1 DEF ToSet
    <3> QED
      BY <3>1, <1>7
  <2> QED
    BY <2>1, <2>2, <2>4, <2>5
<1>10. vmodule_list \in Seq(Nat) /\ IsInjective(vmodule_list) /\ ToSet(vmodule_list) = 1 .. N
  BY <1>5 DEF Inv, TypeOK
<1>11. (N + 1 .. N + F) \cap 1 .. N = {} /\ (N + 1 .. N + F) \cup 1 .. N = 1 .. N + F
       /\ 1 .. N \subseteq 1 .. N + F
  OBVIOUS
<1>12. ToSet(front) \cap ToSet(vmodule_list) = {}
  BY <1>9, <1>10, <1>11
<1>13. /\ front \o vmodule_list \in Seq(Nat) /\ IsInjective(front \o vmodule_list)
       /\ ToSet(front \o vmodule_list) = ToSet(front) \cup ToSet(vmodule_list)
  BY <1>9, <1>10, <1>12, Joined
<1> QED
  BY <1>5, <1>6, <1>8, <1>9, <1>10, <1>11, <1>13

LEMMA InitVLOG3__KeepsInv ==
  ASSUME Inv, NEW t \in Threads, InitVLOG3__(t)
  PROVE  Inv'
<1>1. PICK site \in Sites : site = pc[t]
  BY DEF Inv, TypeOK, InitVLOG3__
<1>2. /\ VLOG2Initializer /\ inited_vmodule' = TRUE
      /\ level' = IF inited_vmodule THEN [level EXCEPT ![site] = SiteFlagValue(site)] ELSE level
      /\ IF Listed(site)
           THEN /\ named' = named \cup {site}
                /\ cached_site_list' = <<site>> \o cached_site_list
           ELSE UNCHANGED <<named, cached_site_list>>
      /\ pc' = [pc EXCEPT ![t] = Idle]
  BY <1>1 DEF InitVLOG3__
<1>3. (pc \in [Threads -> Sites \cup {Idle}])'
  BY <1>2 DEF Inv, TypeOK
<1>4. /\ cached_site_list \in Seq(Sites) /\ IsInjective(cached_site_list)
      /\ ToSet(cached_site_list) = {s \in Sites : level[s] = FLAGS_v}
      /\ named \subseteq Sites /\ level \in [Sites -> {Unset, FLAGS_v} \cup DOMAIN infos]
      /\ DOMAIN infos \subseteq Nat
  <2>1. DOMAIN infos = 1 .. Len(infos) /\ Len(infos) \in Nat
    BY DEF Inv, TypeOK
  <2> QED
    BY <2>1 DEF Inv, TypeOK, CachedOnce
<1>5. CASE ~inited_vmodule
  <2>1. level' = level /\ \A s \in Sites : level[s] = Unset
    BY <1>2, <1>5 DEF Inv, Settled
  <2>2. UNCHANGED <<named, cached_site_list>>
    BY <1>2, <2>1, VLogAssumption DEF Listed
  <2>3. /\ infos' \in Seq(VModuleInfo)
        /\ Len(infos') <= MaxInfos + Len(FLAGS_vmodule)
        /\ vmodule_list' \in Seq(Nat) /\ IsInjective(vmodule_list')
        /\ ToSet(vmodule_list') = DOMAIN infos'
        /\ DOMAIN infos \subseteq DOMAIN infos'
    BY <1>2, <1>5, FlagParsed
  <2>4. DOMAIN infos' \subseteq Nat
    BY <2>3
  <2>5. (level \in [Sites -> {Unset, FLAGS_v} \cup DOMAIN infos])'
    BY <1>4, <2>1, <2>3
  <2>6. TypeOK'
    BY <1>2, <1>3, <1>4, <2>2, <2>3, <2>5 DEF TypeOK
  <2>7. CachedOnce'
    BY <1>4, <2>1, <2>2 DEF CachedOnce
  <2>8. \A s \in named : level[s] # Unset
    BY <1>4 DEF Inv, Settled
  <2>9. Settled'
    BY <1>2, <1>4, <2>1, <2>2, <2>4, <2>8, VLogAssumption DEF Settled
  <2> QED
    BY <2>3, <2>6, <2>7, <2>9 DEF Inv
<1>6. CASE inited_vmodule
  <2>1. infos' = infos /\ vmodule_list' = vmodule_list
    BY <1>2, <1>6 DEF VLOG2Initializer
  <2>2. PICK value : value = SiteFlagValue(site)
    OBVIOUS
  <2>3. /\ level' = [level EXCEPT ![site] = value]
        /\ \A s \in Sites : level'[s] = IF s = site THEN value ELSE level[s]
    BY <1>2, <1>4, <1>6, <2>2
  <2>4. \A n, s : Accepts(n, s)' = Accepts(n, s)
    BY <2>1 DEF Accepts, Pattern
  <2>5. \/ value = FLAGS_v /\ \A n \in DOMAIN infos : ~Accepts(n, site)
        \/ value \in DOMAIN infos /\ Accepts(value, site)
    <3>1. PICK first : first = FirstOf(vmodule_list, infos, base_name[site])
      OBVIOUS
    <3>2. value = IF first = 0 THEN FLAGS_v ELSE vmodule_list[first]
      BY <2>1, <2>2, <3>1 DEF SiteFlagValue, FirstOf
    <3>3. vmodule_list \in Seq(Nat) /\ ToSet(vmodule_list) = DOMAIN infos
      BY DEF Inv, TypeOK
    <3>4. \/ first = 0 /\ \A n \in ToSet(vmodule_list) :
                             ~SafeFNMatch_(infos[n].module_pattern, base_name[site])
          \/ first \in 1 .. Len(vmodule_list)
             /\ SafeFNMatch_(infos[vmodule_list[first]].module_pattern, base_name[site])
      <4>1. PICK is : is = infos
        OBVIOUS
      <4>2. PICK name : name = base_name[site]
        OBVIOUS
      <4>3. first = FirstOf(vmodule_list, is, name)
        BY <3>1, <4>1, <4>2
      <4>4. \/ first = 0 /\ \A n \in ToSet(vmodule_list) : ~SafeFNMatch_(is[n].module_pattern, name)
            \/ first \in 1 .. Len(vmodule_list)
               /\ SafeFNMatch_(is[vmodule_list[first]].module_pattern, name)
        BY <4>3, <3>3, FirstMatch
      <4> QED
        BY <4>1, <4>2, <4>4
    <3>5. \A i \in 1 .. Len(vmodule_list) : vmodule_list[i] \in DOMAIN infos
      BY <3>3 DEF ToSet
    <3> QED
      BY <3>2, <3>3, <3>4, <3>5 DEF Accepts, Pattern
  <2>6. \A s \in Sites :
          /\ level[s] = FLAGS_v => s \in named /\ \A n \in DOMAIN infos : ~Accepts(n, s)
          /\ level[s] \in DOMAIN infos => Accepts(level[s], s)
          /\ s \in named => level[s] # Unset
    BY DEF Inv, Settled
  <2>7. FLAGS_v \notin DOMAIN infos /\ Unset \notin DOMAIN infos /\ Unset # FLAGS_v
    BY <1>4, VLogAssumption
  \* A site that has been named keeps FLAGS_v or a pattern, whichever it had.
  <2>8. site \in named => (value = FLAGS_v <=> level[site] = FLAGS_v)
    BY <1>4, <2>5, <2>6, <2>7
  <2>9. Listed(site) <=> value = FLAGS_v /\ site \notin named
    BY <2>3 DEF Listed
  <2>10. level' \in [Sites -> {Unset, FLAGS_v} \cup DOMAIN infos]
    BY <1>4, <2>3, <2>5
  <2>11. named' = named \cup (IF value = FLAGS_v THEN {site} ELSE {})
    BY <1>2, <2>9
  <2>12. Settled'
    <3>1. ASSUME NEW s \in Sites
          PROVE  /\ level'[s] = FLAGS_v => s \in named' /\ \A n \in DOMAIN infos : ~Accepts(n, s)
                 /\ level'[s] \in DOMAIN infos =>
                      \A n \in DOMAIN infos : n = level'[s] => Accepts(n, s)
                 /\ s \in named' => level'[s] # Unset
      <4>1. CASE s = site
        BY <4>1, <2>3, <2>5, <2>7, <2>11
      <4>2. CASE s # site
        BY <4>2, <2>3, <2>6, <2>11
      <4> QED
        BY <4>1, <4>2
    <3> QED
      BY <3>1, <1>2, <2>1, <2>4 DEF Settled
  <2>13. /\ cached_site_list' \in Seq(Sites) /\ IsInjective(cached_site_list')
         /\ ToSet(cached_site_list') = {s \in Sites : level'[s] = FLAGS_v}
    <3>1. CASE Listed(site)
      <4>1. site \notin ToSet(cached_site_list)
        BY <3>1, <1>4, <2>6, <2>9
      <4>2. PICK one : one = <<site>>
        OBVIOUS
      <4>3. one \in Seq(Sites) /\ IsInjective(one) /\ ToSet(one) = {site}
        BY <4>2, OneSite
      <4>4. ToSet(one) \cap ToSet(cached_site_list) = {}
        BY <4>1, <4>3
      <4>5. /\ one \o cached_site_list \in Seq(Sites)
            /\ IsInjective(one \o cached_site_list)
            /\ ToSet(one \o cached_site_list) = ToSet(one) \cup ToSet(cached_site_list)
        BY <4>3, <4>4, <1>4, Joined
      <4>6. cached_site_list' = one \o cached_site_list
        BY <3>1, <4>2, <1>2
      <4>7. {site} \cup {s \in Sites : level[s] = FLAGS_v} = {s \in Sites : level'[s] = FLAGS_v}
        BY <3>1, <2>3, <2>9
      <4> QED
        BY <4>3, <4>5, <4>6, <4>7, <1>4
    <3>2. CASE ~Listed(site)
      <4>1. cached_site_list' = cached_site_list
        BY <3>2, <1>2
      <4>2. level[site] = FLAGS_v <=> value = FLAGS_v
        BY <3>2, <2>6, <2>8, <2>9
      <4>3. {s \in Sites : level[s] = FLAGS_v} = {s \in Sites : level'[s] = FLAGS_v}
        BY <4>2, <2>3
      <4> QED
        BY <4>1, <4>3, <1>4
    <3> QED
      BY <3>1, <3>2
  <2>14. TypeOK'
    BY <1>2, <1>3, <1>4, <2>1, <2>10, <2>11, <2>13 DEF Inv, TypeOK
  <2>15. CachedOnce' /\ (vmodule_list \in Seq(Nat))'
    BY <2>1, <2>13 DEF Inv, CachedOnce
  <2> QED
    BY <2>12, <2>14, <2>15 DEF Inv
<1> QED
  BY <1>5, <1>6

LEMMA InvNext == Inv /\ [Next]_vars => Inv'
<1> SUFFICES ASSUME Inv, [Next]_vars PROVE Inv'
  OBVIOUS
<1>1. ASSUME NEW t \in Threads, InitVLOG3__(t) PROVE Inv'
  BY <1>1, InitVLOG3__KeepsInv
<1>2. ASSUME NEW t \in Threads, NEW s \in Sites, VLOG_IS_ON(t, s) PROVE Inv'
  BY <1>2, VLOG_IS_ONKeepsInv
<1>3. ASSUME NEW p \in Patterns, NEW n \in Levels, SetVLOGLevel(p, n) PROVE Inv'
  <2>1. CASE AddPattern(p, n)
    BY <2>1, AddPatternKeepsInv
  <2>2. CASE ChangeLevel(p, n)
    BY <2>2, ChangeLevelKeepsInv
  <2> QED
    BY <2>1, <2>2, <1>3 DEF SetVLOGLevel
<1>4. CASE UNCHANGED vars
  BY <1>4, InvStutter
<1> QED
  BY <1>1, <1>2, <1>3, <1>4 DEF Next

LEMMA InvAlways == Spec => []Inv
BY InvInit, InvNext, PTL DEF Spec

-----------------------------------------------------------------------------
(***************************************************************************)
(* The theorems.                                                           *)
(***************************************************************************)

\* Each info is in the list once and the flag is parsed once, whichever threads
\* race to parse it and whatever SetVLOGLevel has added before.
THEOREM TypeCorrect == Spec => []TypeOK
<1>1. Inv => TypeOK
  BY DEF Inv
<1> QED
  BY <1>1, InvAlways, PTL

\* cached_site_list is a list without a cycle and misses no site: it holds those
\* that FLAGS_v controls, each once.
THEOREM CachesEachSiteOnce == Spec => []CachedOnce
<1>1. Inv => CachedOnce
  BY DEF Inv
<1> QED
  BY <1>1, InvAlways, PTL

\* SafeFNMatch_ accepts no string that does not match, and every plain string that
\* does.
THEOREM SafeFNMatch_IsCorrect ==
  ASSUME NEW pattern \in Seq(Chars), NEW str \in Seq(Chars)
  PROVE  /\ SafeFNMatch_(pattern, str) => Matches(pattern, str)
         /\ Plain(pattern, str) => (SafeFNMatch_(pattern, str) <=> Matches(pattern, str))
BY MatcherSound, MatcherComplete

\* What controls a site is what the patterns say of its module.
THEOREM PatternsControlSites == Spec => []PatternsControl
<1>1. Inv => PatternsControl
  <2> SUFFICES ASSUME Inv, NEW s \in Sites
               PROVE  /\ level[s] = FLAGS_v => \A n \in DOMAIN infos :
                           Plain(Pattern(n), base_name[s]) => ~Matches(Pattern(n), base_name[s])
                      /\ level[s] \in DOMAIN infos => Matches(Pattern(level[s]), base_name[s])
    BY DEF PatternsControl
  <2>1. base_name[s] \in Seq(Chars)
    BY VLogAssumption DEF Names
  <2>2. ASSUME NEW n \in DOMAIN infos PROVE Pattern(n) \in Seq(Chars)
    <3>1. infos \in Seq(VModuleInfo)
      BY DEF Inv, TypeOK
    <3>2. infos[n] \in VModuleInfo
      BY <3>1
    <3> QED
      BY <3>2, VLogAssumption DEF VModuleInfo, Pattern
  <2>3. /\ level[s] = FLAGS_v => \A n \in DOMAIN infos : ~Accepts(n, s)
        /\ level[s] \in DOMAIN infos => Accepts(level[s], s)
    BY DEF Inv, Settled
  <2>4. ASSUME NEW n \in DOMAIN infos
        PROVE  /\ Accepts(n, s) => Matches(Pattern(n), base_name[s])
               /\ Plain(Pattern(n), base_name[s]) =>
                    (Accepts(n, s) <=> Matches(Pattern(n), base_name[s]))
    BY <2>1, <2>2, SafeFNMatch_IsCorrect DEF Accepts
  <2> QED
    BY <2>3, <2>4
<1> QED
  BY <1>1, InvAlways, PTL
=============================================================================
