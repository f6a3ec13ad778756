--------------------------- MODULE DispatchProofs ---------------------------
(***************************************************************************)
(* The dispatch tick over any backlog: its lines stay in the order that    *)
(* the queries of the store promise, and however often it is called in one *)
(* instant, and wherever it dies, an issuer that recovers gets a bounded   *)
(* number of releases.                                                     *)
(***************************************************************************)
EXTENDS Dispatch, FiniteSetTheorems, SequenceTheorems, WellFoundedInduction, TLAPS

-----------------------------------------------------------------------------
(* Lines *)

\* Some places have a first one.
LEMMA EarliestPlace ==
  ASSUME NEW S, S \subseteq Nat, S # {}
  PROVE  \E m \in S : \A i \in S : m <= i
  <1> DEFINE R == { ss \in Nat \X Nat : ss[1] < ss[2] }
  <1>1. IsWellFoundedOn(R, Nat)
    BY NatLessThanWellFounded DEF OpToRel
  <1>2. PICK m \in S : \A y \in S : ~ (<< y, m >> \in R)
    <2> HIDE DEF R
    <2>1. QED
      BY <1>1, WFMin
  <1>3. \A y \in S : m \in Nat /\ y \in Nat /\ ~(y < m)
    BY <1>2
  <1>4. QED
    BY <1>3

\* The smallest of some places.
LEMMA SmallestPlace ==
  ASSUME NEW S, S \subseteq Int, NEW h \in S, \A m \in S : h <= m
  PROVE  Min(S) = h
  <1> DEFINE P(x) == x \in S /\ \A y \in S : x <= y
  <1>1. P(h)
    OBVIOUS
  <1>2. Min(S) = CHOOSE x : P(x)
    BY DEF Min
  <1>3. P(Min(S))
    BY <1>1, <1>2
  <1>4. \A x \in Int, y \in Int : x <= y /\ y <= x => x = y
    OBVIOUS
  <1>5. Min(S) \in Int /\ h \in Int /\ Min(S) <= h /\ h <= Min(S)
    BY <1>3
  <1>6. QED
    BY <1>4, <1>5

\* Whoever stands in r before another does so in s.
SubLine(r, s) ==
    \A i, j \in DOMAIN r : i < j =>
        \E a, b \in DOMAIN s : a < b /\ r[i] = s[a] /\ r[j] = s[b]

\* A case leaves its line; the others keep their order.
LEMMA LeavesLine ==
  ASSUME NEW s \in Seq(Cases), IsInjective(s), NEW k \in Cases
  PROVE  LET r == RemoveFirst(s, k)
         IN /\ r \in Seq(Cases) /\ IsInjective(r)
            /\ ToSet(r) = ToSet(s) \ { k }
            /\ SubLine(r, s)
  <1> DEFINE r == RemoveFirst(s, k)
  <1>1. CASE k \notin ToSet(s)
    <2>1. r = s
      BY <1>1 DEF RemoveFirst, ToSet
    <2>2. SubLine(r, s)
      BY <2>1 DEF SubLine
    <2>3. QED
      BY <1>1, <2>1, <2>2
  <1>2. CASE k \in ToSet(s)
    <2>1. PICK p \in 1 .. Len(s) : s[p] = k
      BY <1>2 DEF ToSet
    <2>2. { i \in 1 .. Len(s) : s[i] = k } = { p }
      BY <2>1 DEF IsInjective
    <2>3. Min({ p }) = p
      <3> DEFINE S == { p }
      <3>1. S \subseteq Int /\ p \in S /\ \A m \in S : p <= m
        OBVIOUS
      <3> HIDE DEF S
      <3>2. Min(S) = p
        BY <3>1, SmallestPlace
      <3>3. QED
        BY <3>2 DEF S
    <2>4. r = RemoveAt(s, p)
      <3>1. SelectInSeq(s, LAMBDA v : v = k) = p
        BY <2>2, <2>3 DEF SelectInSeq
      <3>2. QED
        BY <2>1, <3>1 DEF RemoveFirst
    <2>5. /\ r \in Seq(Cases) /\ Len(r) = Len(s) - 1
          /\ \A i \in 1 .. Len(r) : r[i] = IF i < p THEN s[i] ELSE s[i + 1]
      <3> DEFINE a == SubSeq(s, 1, p - 1)
                 b == SubSeq(s, p + 1, Len(s))
      <3>1. /\ a \in Seq(Cases) /\ Len(a) = p - 1
            /\ \A i \in 1 .. p - 1 : a[i] = s[i]
        BY <2>1
      <3>2. /\ b \in Seq(Cases) /\ Len(b) = Len(s) - p
            /\ \A i \in 1 .. Len(s) - p : b[i] = s[i + p]
        BY <2>1
      <3>3. r = a \o b
        BY <2>4 DEF RemoveAt
      <3> HIDE DEF a, b, r
      <3>4. /\ r \in Seq(Cases) /\ Len(r) = Len(a) + Len(b)
            /\ \A i \in 1 .. Len(r) : r[i] = IF i <= Len(a) THEN a[i] ELSE b[i - Len(a)]
        <4>1. a \in Seq(Cases) /\ b \in Seq(Cases)
          BY <3>1, <3>2
        <4>2. /\ a \o b \in Seq(Cases)
              /\ Len(a \o b) = Len(a) + Len(b)
          BY ONLY <4>1, ConcatProperties
        <4>3. \A i \in 1 .. Len(a) + Len(b) :
                (a \o b)[i] = IF i <= Len(a) THEN a[i] ELSE b[i - Len(a)]
          BY ONLY <4>1, ConcatProperties, Zenon
        <4>4. QED
          BY <3>3, <4>2, <4>3
      <3>5. Len(r) = Len(s) - 1
        BY <3>1, <3>2, <3>4
      <3>6. ASSUME NEW i \in 1 .. Len(r)
            PROVE  r[i] = IF i < p THEN s[i] ELSE s[i + 1]
        <4>1. CASE i < p
          BY <3>1, <3>4, <4>1
        <4>2. CASE i >= p
          <5>1. i - Len(a) \in 1 .. Len(s) - p /\ i - Len(a) + p = i + 1
            BY <3>1, <3>5, <4>2
          <5>2. r[i] = b[i - Len(a)]
            BY <3>1, <3>4, <4>2
          <5>3. b[i - Len(a)] = s[i + 1]
            BY <3>2, <5>1
          <5>4. QED
            BY <4>2, <5>2, <5>3
        <4>3. QED
          BY <4>1, <4>2
      <3>7. QED
        BY <3>4, <3>5, <3>6
    <2> HIDE DEF r
    <2>6. IsInjective(r)
      BY <2>1, <2>5 DEF IsInjective
    <2>7. ToSet(r) = ToSet(s) \ { k }
      <3>1. ASSUME NEW x \in ToSet(r) PROVE x \in ToSet(s) \ { k }
        BY <2>1, <2>5 DEF ToSet, IsInjective
      <3>2. ASSUME NEW x \in ToSet(s) \ { k } PROVE x \in ToSet(r)
        <4>1. PICK i \in 1 .. Len(s) : s[i] = x
          BY <3>2 DEF ToSet
        <4>2. i # p
          BY <2>1, <4>1
        <4>3. CASE i < p
          BY <2>1, <2>5, <4>1, <4>3 DEF ToSet
        <4>4. CASE i > p
          <5>1. i - 1 \in 1 .. Len(r) /\ r[i - 1] = s[i]
            BY <2>1, <2>5, <4>4
          <5>2. QED
            BY <2>5, <4>1, <5>1 DEF ToSet
        <4>5. QED
          BY <2>1, <4>2, <4>3, <4>4
      <3>3. QED
        BY <3>1, <3>2
    <2>8. SubLine(r, s)
      <3> DEFINE old(i) == IF i < p THEN i ELSE i + 1
      <3>1. \A i \in DOMAIN r : old(i) \in DOMAIN s /\ r[i] = s[old(i)] /\ i \in Nat
        BY <2>1, <2>5
      <3>2. \A i, j \in DOMAIN r : i < j => old(i) < old(j)
        BY <2>1, <3>1
      <3> HIDE DEF old
      <3>3. QED
        BY <3>1, <3>2 DEF SubLine
    <2>9. QED
      BY <2>5, <2>6, <2>7, <2>8 DEF r
  <1>3. QED
    BY <1>1, <1>2

\* Where a case joins a line: after those that do not come after it, and
\* before one that does.
LEMMA PlaceIs ==
  ASSUME NEW s \in Seq(Cases), NEW c \in Cases, NEW after
  PROVE  LET n == Place(s, c, after)
         IN /\ n \in Seq(Cases) /\ Len(n) = Len(s) + 1
            /\ \E p \in 1 .. Len(s) + 1 :
                 /\ \A i \in 1 .. Len(n) :
                      n[i] = IF i < p THEN s[i] ELSE IF i = p THEN c ELSE s[i - 1]
                 /\ \A i \in 1 .. p - 1 : s[i] \notin after
                 /\ p <= Len(s) => s[p] \in after
  <1> DEFINE later == { i \in DOMAIN s : s[i] \in after }
             n == Place(s, c, after)
  <1>0. DOMAIN s = 1 .. Len(s) /\ Len(s) \in Nat
    OBVIOUS
  <1>1. CASE later = {}
    <2>1. n = Append(s, c)
      BY <1>1 DEF Place
    <2> DEFINE p == Len(s) + 1
    <2>2. \A i \in 1 .. p - 1 : s[i] \notin after
      BY <1>0, <1>1
    <2> HIDE DEF later, n
    <2>3. /\ n \in Seq(Cases) /\ Len(n) = Len(s) + 1 /\ p \in 1 .. Len(s) + 1
          /\ \A i \in 1 .. Len(n) :
               n[i] = IF i < p THEN s[i] ELSE IF i = p THEN c ELSE s[i - 1]
          /\ ~(p <= Len(s))
      BY <2>1
    <2> HIDE DEF p
    <2>4. QED
      BY <2>2, <2>3 DEF n
  <1>2. CASE later # {}
    <2>1. PICK p \in later : \A i \in later : p <= i
      <3>1. later \subseteq Nat /\ later # {}
        BY <1>0, <1>2
      <3>2. QED
        BY <3>1, EarliestPlace
    <2>2. Min(later) = p
      <3>1. later \subseteq Int
        BY <1>0
      <3> HIDE DEF later
      <3>2. QED
        BY <2>1, <3>1, SmallestPlace
    <2>3. n = InsertAt(s, p, c)
      BY <1>2, <2>2 DEF Place
    <2>4. p \in 1 .. Len(s) /\ s[p] \in after
      BY <1>0
    <2>5. \A i \in 1 .. p - 1 : s[i] \notin after
      <3>1. ASSUME NEW i \in 1 .. p - 1 PROVE i \in DOMAIN s /\ i \notin later
        <4>1. i \in DOMAIN s /\ ~(p <= i)
          BY <1>0, <2>4
        <4> HIDE DEF later
        <4>2. QED
          BY <2>1, <4>1
      <3>2. QED
        BY <3>1
    <2> DEFINE a == SubSeq(s, 1, p - 1)
               b == SubSeq(s, p, Len(s))
               x == << c >>
    <2>6. /\ a \in Seq(Cases) /\ Len(a) = p - 1
          /\ \A i \in 1 .. p - 1 : a[i] = s[i]
      BY <2>4
    <2>7. /\ b \in Seq(Cases) /\ Len(b) = Len(s) - p + 1
          /\ \A i \in 1 .. Len(s) - p + 1 : b[i] = s[i + p - 1]
      BY <2>4
    <2>8. x \in Seq(Cases) /\ Len(x) = 1 /\ x[1] = c
      OBVIOUS
    <2>9. n = a \o x \o b
      BY <2>3 DEF InsertAt
    <2> DEFINE y == a \o x
    <2> HIDE DEF a, b, x, n, later, y
    <2>10. /\ y \in Seq(Cases) /\ Len(y) = p
           /\ \A i \in 1 .. p : y[i] = IF i < p THEN s[i] ELSE c
      <3>1. y \in Seq(Cases) /\ Len(y) = Len(a) + Len(x)
        BY ONLY <2>6, <2>8, ConcatProperties DEF y
      <3>2. \A i \in 1 .. Len(a) + Len(x) :
              y[i] = IF i <= Len(a) THEN a[i] ELSE x[i - Len(a)]
        BY ONLY <2>6, <2>8, ConcatProperties, Zenon DEF y
      <3>3. QED
        BY <2>4, <2>6, <2>8, <3>1, <3>2
    <2>11. /\ n \in Seq(Cases) /\ Len(n) = Len(s) + 1
           /\ \A i \in 1 .. Len(n) :
                n[i] = IF i < p THEN s[i] ELSE IF i = p THEN c ELSE s[i - 1]
      <3>1. n = y \o b
        BY <2>9 DEF y
      <3>2. n \in Seq(Cases) /\ Len(n) = Len(y) + Len(b)
        BY ONLY <2>7, <2>10, <3>1, ConcatProperties
      <3>3. \A i \in 1 .. Len(y) + Len(b) :
              n[i] = IF i <= Len(y) THEN y[i] ELSE b[i - Len(y)]
        BY ONLY <2>7, <2>10, <3>1, ConcatProperties, Zenon
      <3>4. Len(n) = Len(s) + 1
        BY <1>0, <2>4, <2>7, <2>10, <3>2
      <3>5. ASSUME NEW i \in 1 .. Len(n)
            PROVE  n[i] = IF i < p THEN s[i] ELSE IF i = p THEN c ELSE s[i - 1]
        <4>1. CASE i <= p
          BY <2>4, <2>10, <3>2, <3>3, <4>1
        <4>2. CASE i > p
          <5>1. i - p \in 1 .. Len(s) - p + 1 /\ i - p + p - 1 = i - 1
            BY <1>0, <2>4, <3>4, <4>2
          <5>2. n[i] = b[i - p]
            BY <2>4, <2>10, <3>2, <3>3, <4>2
          <5>3. QED
            BY <2>4, <2>7, <4>2, <5>1, <5>2
        <4>3. QED
          BY <2>4, <4>1, <4>2
      <3>6. QED
        BY <3>2, <3>4, <3>5
    <2>12. p \in 1 .. Len(s) + 1
      BY <1>0, <2>4
    <2>13. QED
      BY <2>4, <2>5, <2>11, <2>12 DEF n
  <1>3. QED
    BY <1>1, <1>2


\* Whoever stands before another in s is related to it.
Ordered(s, R) == \A i, j \in DOMAIN s : i < j => << s[i], s[j] >> \in R

\* A line in order stays in order when a case joins it at its place.
LEMMA JoinsLine ==
  ASSUME NEW s \in Seq(Cases), IsInjective(s), NEW c \in Cases, c \notin ToSet(s),
         NEW after, NEW R, Ordered(s, R),
         \A x, y, z \in Cases :
            << x, y >> \in R /\ << y, z >> \in R => << x, z >> \in R,
         \A x \in ToSet(s) : IF x \in after THEN << c, x >> \in R ELSE << x, c >> \in R
  PROVE  LET n == Place(s, c, after)
         IN /\ n \in Seq(Cases) /\ IsInjective(n) /\ ToSet(n) = ToSet(s) \cup { c }
            /\ Ordered(n, R)
  <1> DEFINE n == Place(s, c, after)
  <1>0. /\ \A i \in 1 .. Len(s) : s[i] \in ToSet(s) /\ s[i] \in Cases /\ s[i] # c
        /\ DOMAIN s = 1 .. Len(s) /\ Len(s) \in Nat
    BY DEF ToSet
  <1>1. n \in Seq(Cases) /\ Len(n) = Len(s) + 1 /\ DOMAIN n = 1 .. Len(n)
    BY PlaceIs
  <1>2. PICK p \in 1 .. Len(s) + 1 :
          /\ \A i \in 1 .. Len(n) :
               n[i] = IF i < p THEN s[i] ELSE IF i = p THEN c ELSE s[i - 1]
          /\ \A i \in 1 .. p - 1 : s[i] \notin after
          /\ p <= Len(s) => s[p] \in after
    BY PlaceIs
  <1> HIDE DEF n
  <1> DEFINE from(i) == IF i < p THEN i ELSE i - 1
  <1>3. \A i \in 1 .. Len(n) : i # p => from(i) \in 1 .. Len(s) /\ n[i] = s[from(i)]
    BY <1>0, <1>1, <1>2
  <1>4. n[p] = c /\ p \in 1 .. Len(n)
    BY <1>1, <1>2
  <1>5. \A i, j \in 1 .. Len(n) : i < j /\ i # p /\ j # p => from(i) < from(j)
    BY <1>1
  <1>6. IsInjective(n)
    <2> SUFFICES ASSUME NEW i \in 1 .. Len(n), NEW j \in 1 .. Len(n), n[i] = n[j]
                 PROVE  i = j
      BY <1>1 DEF IsInjective
    <2>1. CASE i = p
      <3> HIDE DEF from
      <3>1. QED
        BY <1>0, <1>3, <1>4, <2>1
    <2>2. CASE j = p
      <3> HIDE DEF from
      <3>1. QED
        BY <1>0, <1>3, <1>4, <2>2
    <2>3. CASE i # p /\ j # p
      <3>1. from(i) = from(j)
        BY <1>0, <1>3, <2>3 DEF IsInjective
      <3>2. QED
        BY <2>3, <3>1
    <2>4. QED
      BY <2>1, <2>2, <2>3
  <1>7. ToSet(n) = ToSet(s) \cup { c }
    <2>1. ASSUME NEW x \in ToSet(n) PROVE x \in ToSet(s) \cup { c }
      <3>1. PICK i \in 1 .. Len(n) : n[i] = x
        BY <1>1 DEF ToSet
      <3> HIDE DEF from
      <3>2. CASE i = p
        BY <1>4, <3>1, <3>2
      <3>3. CASE i # p
        <4>1. from(i) \in 1 .. Len(s) /\ x = s[from(i)]
          BY <1>3, <3>1, <3>3
        <4>2. QED
          BY <1>0, <4>1
      <3>4. QED
        BY <3>2, <3>3
    <2>2. ASSUME NEW i \in 1 .. Len(s) PROVE s[i] \in ToSet(n)
      <3>1. CASE i < p
        <4>1. i \in 1 .. Len(n)
          BY <1>0, <1>1
        <4>2. n[i] = s[i]
          BY <1>2, <3>1, <4>1
        <4>3. QED
          BY <1>1, <4>1, <4>2 DEF ToSet
      <3>2. CASE i >= p
        <4>1. i + 1 \in 1 .. Len(n) /\ ~(i + 1 < p) /\ i + 1 # p /\ i + 1 - 1 = i
          BY <1>0, <1>1, <3>2
        <4>2. n[i + 1] = s[i]
          BY <1>2, <4>1
        <4>3. QED
          BY <1>1, <4>1, <4>2 DEF ToSet
      <3>3. QED
        BY <1>0, <3>1, <3>2
    <2>3. c \in ToSet(n)
      BY <1>1, <1>4 DEF ToSet
    <2>4. ASSUME NEW x \in ToSet(s) PROVE x \in ToSet(n)
      BY <1>0, <2>2 DEF ToSet
    <2>5. QED
      BY <2>1, <2>3, <2>4
  <1>8. Ordered(n, R)
    <2> SUFFICES ASSUME NEW i \in 1 .. Len(n), NEW j \in 1 .. Len(n), i < j
                 PROVE  << n[i], n[j] >> \in R
      BY <1>1 DEF Ordered
    <2>0. \A a, b \in 1 .. Len(s) : a < b => << s[a], s[b] >> \in R
      BY <1>0 DEF Ordered
    <2>1. CASE i # p /\ j # p
      <3>1. /\ from(i) \in 1 .. Len(s) /\ from(j) \in 1 .. Len(s) /\ from(i) < from(j)
            /\ n[i] = s[from(i)] /\ n[j] = s[from(j)]
        BY <1>3, <1>5, <2>1
      <3> HIDE DEF from
      <3>2. QED
        BY <2>0, <3>1
    <2>2. CASE j = p
      <3>1. i \in 1 .. p - 1 /\ i \in 1 .. Len(s) /\ n[i] = s[i]
        BY <1>0, <1>2, <2>2
      <3>2. s[i] \notin after /\ s[i] \in ToSet(s)
        BY <1>0, <1>2, <3>1
      <3>3. QED
        BY <1>4, <2>2, <3>1, <3>2
    <2>3. CASE i = p
      <3>1. j - 1 \in 1 .. Len(s) /\ n[j] = s[j - 1] /\ p <= j - 1 /\ p \in 1 .. Len(s)
        BY <1>0, <1>1, <1>2, <2>3
      <3>2. << c, s[p] >> \in R /\ s[p] \in Cases /\ s[j - 1] \in Cases
        <4>1. s[p] \in after /\ s[p] \in ToSet(s) /\ s[p] \in Cases
          BY <1>0, <1>2, <3>1
        <4>2. << c, s[p] >> \in R
          BY <4>1
        <4>3. QED
          BY <1>0, <3>1, <4>1, <4>2
      <3>3. CASE p = j - 1
        BY <1>4, <2>3, <3>1, <3>2, <3>3
      <3>4. CASE p < j - 1
        <4>1. << s[p], s[j - 1] >> \in R
          BY <2>0, <3>1, <3>4
        <4>2. << c, s[j - 1] >> \in R
          BY <3>2, <4>1
        <4>3. QED
          BY <1>4, <2>3, <3>1, <4>2
      <3>5. QED
        BY <3>1, <3>3, <3>4
    <2>4. QED
      BY <2>1, <2>2, <2>3
  <1>9. QED
    BY <1>1, <1>6, <1>7, <1>8 DEF n

\* So it does when a case leaves it, and when what is changed is out of line.
LEMMA OrderedBelow ==
  ASSUME NEW s \in Seq(Cases), NEW r \in Seq(Cases), SubLine(r, s), NEW R, NEW Q,
         Ordered(s, R),
         \A x, y \in ToSet(r) : << x, y >> \in R => << x, y >> \in Q
  PROVE  Ordered(r, Q)
  <1> SUFFICES ASSUME NEW i \in DOMAIN r, NEW j \in DOMAIN r, i < j
               PROVE  << r[i], r[j] >> \in Q
    BY DEF Ordered
  <1>1. << r[i], r[j] >> \in R
    BY DEF SubLine, Ordered
  <1>2. r[i] \in ToSet(r) /\ r[j] \in ToSet(r)
    BY DEF ToSet
  <1>3. QED
    BY <1>1, <1>2


-----------------------------------------------------------------------------
(* Saves *)

Records == [ state : CaseStates, left : Nat, fresh : BOOLEAN ]

\* The orders of the two lines.
Sooner(f) == { p \in Cases \X Cases : f[p[1]].left <= f[p[2]].left }
Earlier(f) == { p \in Cases \X Cases : f[p[1]].fresh => f[p[2]].fresh }

\* A save writes one case and leaves the others alone.
LEMMA SavedCase ==
  ASSUME TypeOK, NEW c \in Cases, NEW state \in CaseStates, NEW left \in Nat,
         Save(c, state, left)
  PROVE  /\ case' \in [ Cases -> Records ]
         /\ case'[c].state = state /\ case'[c].left = left
         /\ case'[c].fresh = (state \in Waiting)
         /\ \A x \in Cases : x # c => case'[x] = case[x]
  <1> DEFINE r == [ state |-> state, left |-> left, fresh |-> state \in Waiting ]
  <1>1. /\ r \in Records /\ r.state = state /\ r.left = left
        /\ r.fresh = (state \in Waiting)
    BY DEF Records
  <1>2. case' = [ case EXCEPT ![c] = r ] /\ case \in [ Cases -> Records ]
    BY DEF Save, TypeOK, Records
  <1> HIDE DEF r
  <1>3. QED
    BY <1>1, <1>2

\* The timed line after a save.
LEMMA SavedTimed ==
  ASSUME TypeOK, NEW c \in Cases, NEW state \in CaseStates, NEW left \in Nat,
         Save(c, state, left)
  PROVE  /\ timed' \in Seq(Cases) /\ IsInjective(timed')
         /\ ToSet(timed') = { x \in Cases : case'[x].state \in Timed }
         /\ Ordered(timed', Sooner(case'))
  <1> DEFINE r == RemoveFirst(timed, c)
             after == { x \in Cases :
                 case[x].left > left \/ (case[x].left = left /\ case[x].fresh /\ x > c) }
             R == Sooner(case')
  <1>1. /\ timed \in Seq(Cases) /\ IsInjective(timed)
        /\ ToSet(timed) = { x \in Cases : case[x].state \in Timed }
        /\ Ordered(timed, Sooner(case))
    <2>1. \A i \in DOMAIN timed : timed[i] \in Cases
      BY DEF TypeOK, LinesOK
    <2>2. QED
      BY <2>1 DEF TypeOK, LinesOK, Ordered, Sooner
  <1>2. /\ case' \in [ Cases -> Records ] /\ case \in [ Cases -> Records ]
        /\ case'[c].state = state /\ case'[c].left = left
        /\ \A x \in Cases : x # c => case'[x] = case[x]
    BY SavedCase DEF TypeOK, Records
  <1>3. /\ r \in Seq(Cases) /\ IsInjective(r)
        /\ ToSet(r) = ToSet(timed) \ { c } /\ SubLine(r, timed)
    BY <1>1, LeavesLine
  <1>4. timed' = IF state \in Timed THEN Place(r, c, after) ELSE r
    BY DEF Save, InTimed
  <1>5. \A x \in Cases :
          x # c => case'[x].left = case[x].left /\ case'[x].state = case[x].state
    BY <1>2
  <1>6. \A x \in Cases : case[x].left \in Nat /\ case'[x].left \in Nat
    BY <1>2 DEF Records
  <1>7. \A x \in ToSet(r) : x \in Cases /\ x # c
    BY <1>1, <1>3
  <1>8. Ordered(r, R)
    <2>1. \A x, y \in ToSet(r) : << x, y >> \in Sooner(case) => << x, y >> \in R
      BY <1>5, <1>7 DEF Sooner
    <2> HIDE DEF r, R
    <2>2. QED
      BY <1>1, <1>3, <2>1, OrderedBelow
  <1>9. \A x, y, z \in Cases : << x, y >> \in R /\ << y, z >> \in R => << x, z >> \in R
    BY <1>6 DEF Sooner
  <1>10. \A x \in ToSet(r) : IF x \in after THEN << c, x >> \in R ELSE << x, c >> \in R
    <2> SUFFICES ASSUME NEW x \in ToSet(r)
                 PROVE  IF x \in after THEN << c, x >> \in R ELSE << x, c >> \in R
      OBVIOUS
    <2>1. x \in Cases /\ case'[x].left = case[x].left /\ case'[c].left = left
      BY <1>2, <1>5, <1>7
    <2>2. ASSUME x \in after PROVE << c, x >> \in R
      BY <1>6, <2>1, <2>2 DEF Sooner
    <2>3. ASSUME x \notin after PROVE << x, c >> \in R
      <3>1. ~ (case[x].left > left)
        BY <2>1, <2>3
      <3>2. QED
        BY <1>6, <2>1, <3>1 DEF Sooner
    <2>4. QED
      BY <2>2, <2>3
  <1>11. c \notin ToSet(r)
    BY <1>7
  <1> HIDE DEF r, after, R
  <1>12. CASE state \in Timed
    <2>1. /\ timed' \in Seq(Cases) /\ IsInjective(timed')
          /\ ToSet(timed') = ToSet(r) \cup { c } /\ Ordered(timed', R)
      BY <1>3, <1>4, <1>8, <1>9, <1>10, <1>11, <1>12, JoinsLine
    <2>2. ToSet(timed') = { x \in Cases : case'[x].state \in Timed }
      BY <1>1, <1>2, <1>3, <1>5, <1>12, <2>1
    <2>3. QED
      BY <2>1, <2>2 DEF R
  <1>13. CASE state \notin Timed
    <2>1. timed' = r
      BY <1>4, <1>13
    <2>2. ToSet(timed') = { x \in Cases : case'[x].state \in Timed }
      BY <1>1, <1>2, <1>3, <1>5, <1>13, <2>1
    <2>3. QED
      BY <1>3, <1>8, <2>1, <2>2 DEF R
  <1>14. QED
    BY <1>12, <1>13

\* The consent line after a save.
LEMMA SavedConsent ==
  ASSUME TypeOK, NEW c \in Cases, NEW state \in CaseStates, NEW left \in Nat,
         Save(c, state, left)
  PROVE  /\ consent' \in Seq(Cases) /\ IsInjective(consent')
         /\ ToSet(consent') = { x \in Cases : case'[x].state = "consent_required" }
         /\ Ordered(consent', Earlier(case'))
  <1> DEFINE r == RemoveFirst(consent, c)
             after == { x \in Cases : case[x].fresh /\ x > c }
             R == Earlier(case')
  <1>1. /\ consent \in Seq(Cases) /\ IsInjective(consent)
        /\ ToSet(consent) = { x \in Cases : case[x].state = "consent_required" }
        /\ Ordered(consent, Earlier(case))
    <2>1. \A i \in DOMAIN consent : consent[i] \in Cases
      BY DEF TypeOK, LinesOK
    <2>2. QED
      BY <2>1 DEF TypeOK, LinesOK, Ordered, Earlier
  <1>2. /\ case'[c].state = state
        /\ state = "consent_required" => case'[c].fresh
        /\ \A x \in Cases : x # c => case'[x] = case[x]
    <2>1. /\ case'[c].state = state /\ case'[c].fresh = (state \in Waiting)
          /\ \A x \in Cases : x # c => case'[x] = case[x]
      BY SavedCase
    <2>2. state = "consent_required" => case'[c].fresh
      BY <2>1 DEF Waiting
    <2>3. QED
      BY <2>1, <2>2
  <1>3. /\ r \in Seq(Cases) /\ IsInjective(r)
        /\ ToSet(r) = ToSet(consent) \ { c } /\ SubLine(r, consent)
    BY <1>1, LeavesLine
  <1>4. consent' = IF state = "consent_required" THEN Place(r, c, after) ELSE r
    BY DEF Save, InConsent
  <1>5. \A x \in Cases :
          x # c => case'[x].fresh = case[x].fresh /\ case'[x].state = case[x].state
    BY <1>2
  <1>7. \A x \in ToSet(r) : x \in Cases /\ x # c
    BY <1>1, <1>3
  <1>8. Ordered(r, R)
    <2>1. \A x, y \in ToSet(r) : << x, y >> \in Earlier(case) => << x, y >> \in R
      BY <1>5, <1>7 DEF Earlier
    <2> HIDE DEF r, R
    <2>2. QED
      BY <1>1, <1>3, <2>1, OrderedBelow
  <1>9. \A x, y, z \in Cases : << x, y >> \in R /\ << y, z >> \in R => << x, z >> \in R
    BY DEF Earlier
  <1>10. ASSUME state = "consent_required"
         PROVE  \A x \in ToSet(r) :
                   IF x \in after THEN << c, x >> \in R ELSE << x, c >> \in R
    <2> SUFFICES ASSUME NEW x \in ToSet(r)
                 PROVE  IF x \in after THEN << c, x >> \in R ELSE << x, c >> \in R
      OBVIOUS
    <2>1. x \in Cases /\ case'[x].fresh = case[x].fresh /\ case'[c].fresh
      BY <1>2, <1>5, <1>7, <1>10
    <2>2. ASSUME x \in after PROVE << c, x >> \in R
      BY <2>1, <2>2 DEF Earlier
    <2>3. << x, c >> \in R
      BY <2>1 DEF Earlier
    <2>4. QED
      BY <2>2, <2>3
  <1>11. c \notin ToSet(r)
    BY <1>7
  <1> HIDE DEF r, after, R
  <1>12. CASE state = "consent_required"
    <2>1. /\ consent' \in Seq(Cases) /\ IsInjective(consent')
          /\ ToSet(consent') = ToSet(r) \cup { c } /\ Ordered(consent', R)
      BY <1>3, <1>4, <1>8, <1>9, <1>10, <1>11, <1>12, JoinsLine
    <2>2. ToSet(consent') = { x \in Cases : case'[x].state = "consent_required" }
      BY <1>1, <1>2, <1>3, <1>5, <1>12, <2>1
    <2>3. QED
      BY <2>1, <2>2 DEF R
  <1>13. CASE state # "consent_required"
    <2>1. consent' = r
      BY <1>4, <1>13
    <2>2. ToSet(consent') = { x \in Cases : case'[x].state = "consent_required" }
      BY <1>1, <1>2, <1>3, <1>5, <1>13, <2>1
    <2>3. QED
      BY <1>3, <1>8, <2>1, <2>2 DEF R
  <1>14. QED
    BY <1>12, <1>13

\* A save keeps the lines in order.
LEMMA SaveKeepsLines ==
  ASSUME TypeOK, NEW c \in Cases, NEW state \in CaseStates, NEW left \in Nat,
         Save(c, state, left)
  PROVE  case' \in [ Cases -> Records ] /\ LinesOK'
  <1>1. case' \in [ Cases -> Records ]
    BY SavedCase
  <1>2. /\ timed' \in Seq(Cases) /\ IsInjective(timed')
        /\ ToSet(timed') = { x \in Cases : case'[x].state \in Timed }
        /\ \A i, j \in DOMAIN timed' :
             i < j => case'[timed'[i]].left <= case'[timed'[j]].left
    BY SavedTimed DEF Ordered, Sooner
  <1>3. /\ consent' \in Seq(Cases) /\ IsInjective(consent')
        /\ ToSet(consent') = { x \in Cases : case'[x].state = "consent_required" }
        /\ \A i, j \in DOMAIN consent' :
             i < j /\ case'[consent'[i]].fresh => case'[consent'[j]].fresh
    BY SavedConsent DEF Ordered, Earlier
  <1>4. QED
    BY <1>1, <1>2, <1>3 DEF LinesOK


-----------------------------------------------------------------------------
(* Batches *)

Snapshots == [ at : Nat, id : Cases, state : CaseStates ]
Ticks == [ pc : { "idle", "timers", "links", "sweep" }, batch : SUBSET Snapshots,
           used : [ Issuers -> 0 .. Quota ], stale : SUBSET Cases ]
Rows == [ id : Cases, status : { "failed", "succeeded" }, tries : Nat ]

\* The turn is one of the batch.
LEMMA TurnIsInBatch ==
  ASSUME TypeOK, tick.batch # {}
  PROVE  /\ Turn \in tick.batch /\ Turn.at \in Nat /\ Turn.id \in Cases
         /\ Turn.state \in CaseStates
         /\ tick.used \in [ Issuers -> 0 .. Quota ]
  <1> DEFINE B == tick.batch
             S == { b.at : b \in B }
  <1>1. B \subseteq Snapshots /\ tick.used \in [ Issuers -> 0 .. Quota ]
    BY DEF TypeOK, Snapshots
  <1>2. S \subseteq Nat /\ S # {}
    BY <1>1 DEF Snapshots
  <1>3. PICK m \in S : \A i \in S : m <= i
    <2> HIDE DEF S
    <2>1. QED
      BY <1>2, EarliestPlace
  <1>4. PICK b \in B : b.at = m
    BY <1>3
  <1>5. \A x \in B : b.at <= x.at
    BY <1>3, <1>4
  <1>6. Turn \in B
    BY <1>4, <1>5 DEF Turn
  <1>7. QED
    BY <1>1, <1>6 DEF Snapshots

\* What is done with leaves the batch.
LEMMA DoneTick ==
  ASSUME TypeOK, NEW used \in [ Issuers -> 0 .. Quota ], Done(used)
  PROVE  /\ tick' \in Ticks
         /\ tick'.pc = tick.pc /\ tick'.batch = tick.batch \ { Turn }
         /\ tick'.used = used /\ tick'.stale = tick.stale
  <1>1. tick \in Ticks
    BY DEF TypeOK, Ticks, Snapshots
  <1>2. tick' = [ tick EXCEPT !.batch = @ \ { Turn }, !.used = used ]
    BY DEF Done
  <1>3. QED
    BY <1>1, <1>2 DEF Ticks

\* A commit writes the case, or finds it out of date.
LEMMA CommitKeepsLines ==
  ASSUME TypeOK, NEW c \in Cases, NEW state \in CaseStates, NEW left \in Nat,
         NEW used \in [ Issuers -> 0 .. Quota ], Commit(c, state, left, used)
  PROVE  case' \in [ Cases -> Records ] /\ LinesOK' /\ tick' \in Ticks
  <1>1. tick' \in Ticks
    BY DoneTick DEF Commit
  <1>2. CASE c \in tick.stale
    BY <1>1, <1>2 DEF Commit, TypeOK, LinesOK, Records
  <1>3. CASE c \notin tick.stale
    BY <1>1, <1>3, SaveKeepsLines DEF Commit
  <1>4. QED
    BY <1>2, <1>3

\* The snapshots of a line and of the failed cancels.
LEMMA BatchType ==
  ASSUME TypeOK
  PROVE  /\ DueBatch(timed) \subseteq Snapshots /\ DueBatch(consent) \subseteq Snapshots
         /\ SweepRows \subseteq Snapshots
  <1>1. /\ timed \in Seq(Cases) /\ consent \in Seq(Cases) /\ rows \in Seq(Rows)
        /\ \A c \in Cases : case[c].state \in CaseStates
    BY DEF TypeOK, LinesOK, Rows
  <1>2. ASSUME NEW s \in Seq(Cases) PROVE DueBatch(s) \subseteq Snapshots
    <2>1. \A i \in DOMAIN s : i \in Nat /\ s[i] \in Cases
      OBVIOUS
    <2>2. ASSUME NEW b \in DueBatch(s) PROVE b \in Snapshots
      <3>1. PICK i \in DOMAIN s : b = [ at |-> i, id |-> s[i], state |-> case[s[i]].state ]
        BY DEF DueBatch, First
      <3>2. QED
        BY <1>1, <2>1, <3>1 DEF Snapshots
    <2>3. QED
      BY <2>2
  <1>3. ASSUME NEW b \in SweepRows PROVE b \in Snapshots
    <2>1. PICK n \in DOMAIN rows : b = [ at |-> n, id |-> rows[n].id, state |-> "closed" ]
      BY DEF SweepRows, First
    <2>2. n \in Nat /\ rows[n] \in Rows
      BY <1>1
    <2>3. rows[n].id \in Cases
      BY <2>2 DEF Rows
    <2>4. QED
      BY <2>1, <2>2, <2>3 DEF Snapshots, CaseStates
  <1>4. QED
    BY <1>1, <1>2, <1>3

-----------------------------------------------------------------------------
(* Every variable keeps its type and the lines their order *)

\* TypeOK by its parts.
LEMMA TypeParts ==
  TypeOK <=> /\ case \in [ Cases -> Records ] /\ LinesOK
             /\ burnt \subseteq Cases /\ rows \in Seq(Rows)
             /\ degraded \in [ Issuers -> BOOLEAN ] /\ tick \in Ticks
             /\ released \in [ Issuers -> Nat ] /\ crashed \in Nat
             /\ mishaps \in 0 .. MaxMishaps
  BY DEF TypeOK, Records, Rows, Ticks, Snapshots

LEMMA TypePartsNext ==
  /\ case' \in [ Cases -> Records ] /\ LinesOK'
  /\ burnt' \subseteq Cases /\ rows' \in Seq(Rows)
  /\ degraded' \in [ Issuers -> BOOLEAN ] /\ tick' \in Ticks
  /\ released' \in [ Issuers -> Nat ] /\ crashed' \in Nat
  /\ mishaps' \in 0 .. MaxMishaps
  => TypeOK'
  BY DEF TypeOK, Records, Rows, Ticks, Snapshots

LEMMA IdleTickType == IdleTick \in Ticks
  <1>1. Quota \in Nat
    BY DispatchAssumption
  <1>2. QED
    BY <1>1 DEF IdleTick, Ticks

LEMMA InitType == Init => TypeOK
  <1> SUFFICES ASSUME Init PROVE TypeOK
    OBVIOUS
  <1>1. case \in [ Cases -> Records ]
    BY DEF Init, Records, CaseStates
  <1>2. LinesOK
    <2>1. \A c \in Cases : case[c].state = "none"
      BY DEF Init
    <2>2. timed = << >> /\ consent = << >>
      BY DEF Init
    <2>3. \A c \in Cases : case[c].state \notin Timed /\ case[c].state # "consent_required"
      BY <2>1 DEF Timed
    <2>4. QED
      BY <2>2, <2>3 DEF LinesOK, ToSet, IsInjective
  <1>3. tick \in Ticks
    BY IdleTickType DEF Init
  <1>4. mishaps \in 0 .. MaxMishaps
    BY DispatchAssumption DEF Init
  <1>5. /\ burnt \subseteq Cases /\ rows \in Seq(Rows)
        /\ degraded \in [ Issuers -> BOOLEAN ]
        /\ released \in [ Issuers -> Nat ] /\ crashed \in Nat
    BY DEF Init
  <1>6. QED
    BY <1>1, <1>2, <1>3, <1>4, <1>5, TypeParts

\* The steps that read a batch or end a phase.
LEMMA PhaseType ==
  ASSUME TypeOK, StartTick \/ EndTimers \/ EndLinks \/ EndTick
  PROVE  TypeOK'
  <1>1. tick \in Ticks
    BY TypeParts
  <1>2. tick' \in Ticks
    <2>1. CASE StartTick
      BY <1>1, <2>1, BatchType DEF StartTick, Ticks
    <2>2. CASE EndTimers
      BY <1>1, <2>2, BatchType DEF EndTimers, Ticks
    <2>3. CASE EndLinks
      BY <1>1, <2>3, BatchType DEF EndLinks, Ticks
    <2>4. CASE EndTick
      BY <2>4, IdleTickType DEF EndTick
    <2>5. QED
      BY <2>1, <2>2, <2>3, <2>4
  <1>3. UNCHANGED << case, timed, consent, burnt, rows, degraded, released, crashed,
                     mishaps >>
    BY DEF StartTick, EndTimers, EndLinks, EndTick
  <1>4. LinesOK'
    BY <1>3 DEF TypeOK, LinesOK
  <1>5. QED
    BY <1>2, <1>3, <1>4, TypeParts, TypePartsNext

LEMMA PromoteCooldownType ==
  ASSUME TypeOK, PromoteCooldown
  PROVE  TypeOK'
  <1> DEFINE c == Turn.id
             i == IssuerOf[c]
             used == [ tick.used EXCEPT ![i] = @ + 1 ]
  <1>1. c \in Cases /\ i \in Issuers /\ tick.used \in [ Issuers -> 0 .. Quota ]
    BY TurnIsInBatch, DispatchAssumption DEF PromoteCooldown
  <1>2. /\ "cooldown" \in CaseStates /\ "retry_scheduled" \in CaseStates
        /\ Cooldown \in Nat /\ HeldFor \in Nat /\ RetryEscalation + Offset[c] \in Nat
    <2>1. RetryEscalation \in Nat /\ Cooldown \in Nat /\ ReleaseJitter \in Nat
      BY DispatchAssumption
    <2>2. Offset[c] \in 0 .. ReleaseJitter
      <3>1. Offset \in [ Cases -> 0 .. ReleaseJitter ]
        BY DispatchAssumption
      <3> HIDE DEF c
      <3>2. QED
        BY <1>1, <3>1
    <2> DEFINE o == Offset[c]
    <2> HIDE DEF o
    <2>3. RetryEscalation + o \in Nat
      BY <2>1, <2>2 DEF o
    <2>4. QED
      BY <2>1, <2>3 DEF CaseStates, Waiting, Timed, HeldFor, o
  <1>3. tick.used[i] < Quota => used \in [ Issuers -> 0 .. Quota ]
    <2>1. tick.used[i] \in 0 .. Quota /\ Quota \in Nat
      BY <1>1, DispatchAssumption
    <2>2. tick.used[i] < Quota => tick.used[i] + 1 \in 0 .. Quota
      BY <2>1
    <2>3. QED
      BY <1>1, <2>2
  <1>4. /\ UNCHANGED << burnt, rows, degraded, crashed, mishaps >>
        /\ \/ Commit(c, "cooldown", Cooldown, tick.used) /\ UNCHANGED released
           \/ Commit(c, "cooldown", HeldFor, tick.used) /\ UNCHANGED released
           \/ /\ tick.used[i] < Quota
              /\ Commit(c, "retry_scheduled", RetryEscalation + Offset[c], used)
              /\ released' = IF c \in tick.stale THEN released
                             ELSE [ released EXCEPT ![i] = @ + 1 ]
    BY DEF PromoteCooldown
  <1> HIDE DEF c, i, used
  <1>5. case' \in [ Cases -> Records ] /\ LinesOK' /\ tick' \in Ticks
    BY <1>1, <1>2, <1>3, <1>4, CommitKeepsLines
  <1>6. released' \in [ Issuers -> Nat ]
    <2>1. released \in [ Issuers -> Nat ]
      BY DEF TypeOK
    <2>2. [ released EXCEPT ![i] = @ + 1 ] \in [ Issuers -> Nat ]
      BY <1>1, <2>1
    <2>3. QED
      BY <1>4, <2>1, <2>2
  <1>7. QED
    BY <1>4, <1>5, <1>6, TypeParts, TypePartsNext

LEMMA PromoteRetryType ==
  ASSUME TypeOK, PromoteRetry
  PROVE  TypeOK'
  <1>1. Turn.id \in Cases /\ tick.used \in [ Issuers -> 0 .. Quota ]
    BY TurnIsInBatch DEF PromoteRetry
  <1>2. PICK state \in { "consent_required", "closed" } :
          Commit(Turn.id, state, 0, tick.used)
    BY DEF PromoteRetry
  <1>3. state \in CaseStates /\ 0 \in Nat
    BY DEF CaseStates, Waiting
  <1>4. case' \in [ Cases -> Records ] /\ LinesOK' /\ tick' \in Ticks
    BY <1>1, <1>2, <1>3, CommitKeepsLines
  <1>5. UNCHANGED << burnt, rows, degraded, released, crashed, mishaps >>
    BY DEF PromoteRetry
  <1>6. QED
    BY <1>4, <1>5, TypeParts, TypePartsNext

LEMMA CreateLinkType ==
  ASSUME TypeOK, CreateLink
  PROVE  TypeOK'
  <1> DEFINE c == Turn.id
  <1>1. c \in Cases /\ tick.used \in [ Issuers -> 0 .. Quota ]
    BY TurnIsInBatch DEF CreateLink
  <1>2. "link_sent" \in CaseStates /\ "closed" \in CaseStates /\ 0 \in Nat
    BY DEF CaseStates
  <1>3. UNCHANGED << rows, degraded, released, crashed, mishaps >>
    BY DEF CreateLink
  <1>4. \/ Commit(c, "closed", 0, tick.used) /\ UNCHANGED burnt
        \/ Done(tick.used) /\ UNCHANGED << case, timed, consent, burnt >>
        \/ /\ burnt' = burnt \cup { c } /\ Done(tick.used)
           /\ \E state \in { "link_sent", "closed" } : Save(c, state, 0)
        \/ /\ burnt' = burnt \cup { c } /\ Done(tick.used)
           /\ UNCHANGED << case, timed, consent >>
    BY DEF CreateLink
  <1> HIDE DEF c
  <1>5. burnt' \subseteq Cases
    BY <1>1, <1>4 DEF TypeOK
  <1>6. UNCHANGED << case, timed, consent >> => case' \in [ Cases -> Records ] /\ LinesOK'
    BY DEF TypeOK, LinesOK, Records
  <1>7. case' \in [ Cases -> Records ] /\ LinesOK'
    BY <1>1, <1>2, <1>4, <1>6, CommitKeepsLines, SaveKeepsLines
  <1>8. tick' \in Ticks
    BY <1>1, <1>2, <1>4, CommitKeepsLines, DoneTick
  <1>9. QED
    BY <1>3, <1>5, <1>7, <1>8, TypeParts, TypePartsNext

\* A cancel row keeps its type whatever the retry does to it.
LEMMA RowType ==
  ASSUME NEW rs \in Seq(Rows), NEW n \in Nat, NEW status \in { "failed", "succeeded" }
  PROVE  /\ [ rs EXCEPT ![n] = Tried(@, status) ] \in Seq(Rows)
         /\ [ rs EXCEPT ![n].status = status ] \in Seq(Rows)
  <1> DEFINE a == [ rs EXCEPT ![n] = Tried(@, status) ]
             b == [ rs EXCEPT ![n].status = status ]
  <1>1. CASE n \in DOMAIN rs
    <2>1. rs[n] \in Rows
      BY <1>1
    <2>2. Tried(rs[n], status) \in Rows /\ [ rs[n] EXCEPT !.status = status ] \in Rows
      <3> DEFINE g == [ rs[n] EXCEPT !.status = status ]
      <3>1. g \in Rows /\ g.tries = rs[n].tries
        BY <2>1 DEF Rows
      <3>2. Tried(rs[n], status) = [ g EXCEPT !.tries = rs[n].tries + 1 ]
        BY DEF Tried
      <3>3. rs[n].tries + 1 \in Nat
        BY <2>1 DEF Rows
      <3> HIDE DEF g
      <3>4. Tried(rs[n], status) \in Rows
        BY <3>1, <3>2, <3>3 DEF Rows
      <3>5. QED
        BY <3>1, <3>4 DEF g
    <2> DEFINE x == Tried(rs[n], status)
               y == [ rs[n] EXCEPT !.status = status ]
    <2>3. a = [ rs EXCEPT ![n] = x ] /\ b = [ rs EXCEPT ![n] = y ]
      OBVIOUS
    <2> HIDE DEF x, y, a, b
    <2>4. a \in Seq(Rows) /\ b \in Seq(Rows)
      BY <1>1, <2>2, <2>3 DEF x, y
    <2>5. QED
      BY <2>4 DEF a, b
  <1>2. CASE n \notin DOMAIN rs
    <2>1. a = rs /\ b = rs
      BY <1>2
    <2>2. QED
      BY <2>1
  <1>3. QED
    BY <1>1, <1>2

LEMMA SweepOneType ==
  ASSUME TypeOK, SweepOne
  PROVE  TypeOK'
  <1> DEFINE c == Turn.id
             n == Turn.at
  <1>1. c \in Cases /\ n \in Nat /\ tick.used \in [ Issuers -> 0 .. Quota ]
    BY TurnIsInBatch DEF SweepOne
  <1>2. case[c].state \in CaseStates /\ case[c].left \in Nat /\ rows \in Seq(Rows)
    BY <1>1 DEF TypeOK, Rows
  <1>3. UNCHANGED << burnt, degraded, released, crashed, mishaps >> /\ Done(tick.used)
    BY DEF SweepOne
  <1>4. \/ /\ \E status \in { "failed", "succeeded" } :
                rows' = [ rows EXCEPT ![n] = Tried(@, status) ]
           /\ Save(c, case[c].state, case[c].left)
        \/ /\ rows' = [ rows EXCEPT ![n].status = "succeeded" ]
           /\ UNCHANGED << case, timed, consent >>
    BY DEF SweepOne
  <1> HIDE DEF c, n
  <1>5. rows' \in Seq(Rows)
    <2>1. ASSUME NEW status \in { "failed", "succeeded" },
                 rows' = [ rows EXCEPT ![n] = Tried(@, status) ]
          PROVE  rows' \in Seq(Rows)
      <3>1. [ rows EXCEPT ![n] = Tried(@, status) ] \in Seq(Rows)
        BY <1>1, <1>2, RowType
      <3>2. QED
        BY <2>1, <3>1
    <2>2. ASSUME rows' = [ rows EXCEPT ![n].status = "succeeded" ]
          PROVE  rows' \in Seq(Rows)
      <3>1. "succeeded" \in { "failed", "succeeded" }
        OBVIOUS
      <3>2. [ rows EXCEPT ![n].status = "succeeded" ] \in Seq(Rows)
        BY <1>1, <1>2, <3>1, RowType
      <3>3. QED
        BY <2>2, <3>2
    <2>3. QED
      BY <1>4, <2>1, <2>2
  <1>6. UNCHANGED << case, timed, consent >> => case' \in [ Cases -> Records ] /\ LinesOK'
    BY DEF TypeOK, LinesOK, Records
  <1>7. case' \in [ Cases -> Records ] /\ LinesOK'
    BY <1>1, <1>2, <1>4, <1>6, SaveKeepsLines
  <1>8. tick' \in Ticks
    BY <1>1, <1>3, DoneTick
  <1>9. QED
    BY <1>3, <1>5, <1>7, <1>8, TypeParts, TypePartsNext

\* A webhook marks what the tick has read of its case out of date.
LEMMA TouchType ==
  ASSUME TypeOK, NEW c \in Cases, Touch(c)
  PROVE  tick' \in Ticks
  <1>1. tick \in Ticks
    BY TypeParts
  <1>2. [ tick EXCEPT !.stale = @ \cup { c } ] \in Ticks
    BY <1>1 DEF Ticks
  <1>3. QED
    BY <1>1, <1>2 DEF Touch

\* What a failure event may save.
LEMMA FailSaves ==
  ASSUME TypeOK, NEW c \in Cases, Fail(c)
  PROVE  \E state \in CaseStates, left \in Nat :
           /\ Save(c, state, left)
           /\ \/ state = case[c].state /\ state \notin Timed
              \/ state \notin Timed
              \/ left \in { Cooldown, RetryEscalation }
  <1>1. /\ "cooldown" \in CaseStates /\ "retry_scheduled" \in CaseStates
        /\ "consent_required" \in CaseStates /\ "closed" \in CaseStates
        /\ "consent_required" \notin Timed /\ "closed" \notin Timed
        /\ Cooldown \in Nat /\ RetryEscalation \in Nat /\ 0 \in Nat
    BY DispatchAssumption DEF CaseStates, Waiting, Timed
  <1>2. case[c].state \in CaseStates /\ case[c].left \in Nat
    BY DEF TypeOK
  <1>3. CASE case[c].state \in Timed \cup { "none" }
    <2>1. Decided(c)
      BY <1>3 DEF Fail
    <2>2. QED
      BY <1>1, <2>1 DEF Decided
  <1>4. CASE case[c].state \notin Timed \cup { "none" }
    <2>1. Save(c, case[c].state, case[c].left)
      BY <1>4 DEF Fail
    <2>2. QED
      BY <1>2, <1>4, <2>1
  <1>5. QED
    BY <1>3, <1>4

LEMMA FailType ==
  ASSUME TypeOK, NEW c \in Cases, Fail(c)
  PROVE  TypeOK'
  <1>1. case' \in [ Cases -> Records ] /\ LinesOK'
    <2>1. PICK state \in CaseStates, left \in Nat : Save(c, state, left)
      BY FailSaves
    <2>2. QED
      BY <2>1, SaveKeepsLines
  <1>2. tick' \in Ticks
    BY TouchType DEF Fail
  <1>3. UNCHANGED << burnt, rows, degraded, released, crashed >>
    BY DEF Fail
  <1>4. mishaps' \in 0 .. MaxMishaps
    <2>1. mishaps \in 0 .. MaxMishaps /\ MaxMishaps \in Nat
      BY DispatchAssumption DEF TypeOK
    <2>2. mishaps' = mishaps \/ (mishaps < MaxMishaps /\ mishaps' = mishaps + 1)
      BY DEF Fail
    <2>3. QED
      BY <2>1, <2>2
  <1>5. QED
    BY <1>1, <1>2, <1>3, <1>4, TypeParts, TypePartsNext

LEMMA SettleType ==
  ASSUME TypeOK, NEW c \in Cases, Settle(c)
  PROVE  TypeOK'
  <1>1. case' \in [ Cases -> Records ] /\ LinesOK'
    <2>1. "closed" \in CaseStates /\ 0 \in Nat /\ Save(c, "closed", 0)
      BY DEF Settle, CaseStates
    <2>2. QED
      BY <2>1, SaveKeepsLines
  <1>2. tick' \in Ticks
    BY TouchType DEF Settle
  <1>3. UNCHANGED << burnt, degraded, released, crashed, mishaps >>
    BY DEF Settle
  <1>4. rows' \in Seq(Rows)
    <2> DEFINE r == [ id |-> c, status |-> "failed", tries |-> 1 ]
    <2>1. rows \in Seq(Rows) /\ r \in Rows
      BY DEF TypeOK, Rows
    <2>2. rows' = rows \/ rows' = Append(rows, r)
      BY DEF Settle
    <2> HIDE DEF r
    <2>3. QED
      BY <2>1, <2>2
  <1>5. QED
    BY <1>1, <1>2, <1>3, <1>4, TypeParts, TypePartsNext

LEMMA CrashType ==
  ASSUME TypeOK, Crash
  PROVE  TypeOK'
  <1>1. tick' \in Ticks
    BY IdleTickType DEF Crash
  <1>2. burnt' \subseteq Cases
    <2>1. burnt \subseteq Cases
      BY DEF TypeOK
    <2>2. CASE tick.batch # {}
      BY <2>1, <2>2, TurnIsInBatch DEF Crash
    <2>3. CASE tick.batch = {}
      BY <2>1, <2>3 DEF Crash
    <2>4. QED
      BY <2>2, <2>3
  <1>3. mishaps' \in 0 .. MaxMishaps /\ crashed' \in Nat
    <2>1. mishaps \in 0 .. MaxMishaps /\ MaxMishaps \in Nat /\ crashed \in Nat
      BY DispatchAssumption DEF TypeOK
    <2>2. mishaps < MaxMishaps /\ mishaps' = mishaps + 1 /\ crashed' = crashed + 1
      BY DEF Crash
    <2>3. QED
      BY <2>1, <2>2
  <1>4. UNCHANGED << case, timed, consent, rows, degraded, released >>
    BY DEF Crash
  <1>5. LinesOK'
    BY <1>4 DEF TypeOK, LinesOK
  <1>6. QED
    BY <1>1, <1>2, <1>3, <1>4, <1>5, TypeParts, TypePartsNext

LEMMA HealthType ==
  ASSUME TypeOK, NEW i \in Issuers, Health(i)
  PROVE  TypeOK'
  <1>1. degraded' \in [ Issuers -> BOOLEAN ]
    BY DEF Health, TypeOK
  <1>2. UNCHANGED << case, timed, consent, burnt, rows, tick, released, crashed,
                     mishaps >>
    BY DEF Health
  <1>3. LinesOK'
    BY <1>2 DEF TypeOK, LinesOK
  <1>4. QED
    BY <1>1, <1>2, <1>3, TypeParts, TypePartsNext

LEMMA AdvanceType ==
  ASSUME TypeOK, Advance
  PROVE  TypeOK'
  <1>1. case \in [ Cases -> Records ] /\ timed \in Seq(Cases) /\ consent \in Seq(Cases)
    BY DEF TypeOK, LinesOK, Records
  <1>2. \A c \in Cases :
          /\ case'[c] = [ case[c] EXCEPT !.fresh = FALSE,
                                         !.left = IF @ = 0 THEN 0 ELSE @ - 1 ]
          /\ case[c] \in Records
    BY <1>1 DEF Advance
  <1>3. \A c \in Cases :
          /\ case'[c] \in Records /\ case'[c].state = case[c].state
          /\ ~ case'[c].fresh
          /\ case'[c].left = IF case[c].left = 0 THEN 0 ELSE case[c].left - 1
          /\ case[c].left \in Nat
    <2> SUFFICES ASSUME NEW c \in Cases
                 PROVE  /\ case'[c] \in Records /\ case'[c].state = case[c].state
                        /\ ~ case'[c].fresh
                        /\ case'[c].left = IF case[c].left = 0 THEN 0 ELSE case[c].left - 1
                        /\ case[c].left \in Nat
      OBVIOUS
    <2> DEFINE g == [ case[c] EXCEPT !.fresh = FALSE ]
               n == IF case[c].left = 0 THEN 0 ELSE case[c].left - 1
    <2>1. /\ g \in Records /\ g.state = case[c].state /\ ~ g.fresh
          /\ case[c].left \in Nat
      BY <1>2 DEF Records
    <2>2. n \in Nat
      BY <2>1
    <2>3. case'[c] = [ g EXCEPT !.left = n ]
      BY <1>2
    <2> HIDE DEF g, n
    <2>4. /\ case'[c] \in Records /\ case'[c].state = g.state
          /\ case'[c].fresh = g.fresh /\ case'[c].left = n
      BY <2>1, <2>2, <2>3 DEF Records
    <2>5. QED
      BY <2>1, <2>4 DEF n
  <1>4. case' \in [ Cases -> Records ]
    BY <1>3 DEF Advance
  <1>5. UNCHANGED << timed, consent, burnt, rows, degraded, tick, mishaps >>
    BY DEF Advance
  <1>6. LinesOK'
    <2>1. /\ ToSet(timed) = { c \in Cases : case'[c].state \in Timed }
          /\ ToSet(consent) = { c \in Cases : case'[c].state = "consent_required" }
          /\ IsInjective(timed) /\ IsInjective(consent)
      BY <1>3 DEF TypeOK, LinesOK
    <2>2. ASSUME NEW i \in DOMAIN timed, NEW j \in DOMAIN timed, i < j
          PROVE  case'[timed[i]].left <= case'[timed[j]].left
      <3>1. timed[i] \in Cases /\ timed[j] \in Cases
        BY <1>1
      <3>2. case[timed[i]].left <= case[timed[j]].left
        BY <2>2 DEF TypeOK, LinesOK
      <3>3. QED
        BY <1>3, <3>1, <3>2
    <2>3. \A i \in DOMAIN consent : ~ case'[consent[i]].fresh
      BY <1>1, <1>3
    <2>4. QED
      BY <1>1, <1>5, <2>1, <2>2, <2>3 DEF LinesOK
  <1>7. released' \in [ Issuers -> Nat ] /\ crashed' \in Nat
    BY DEF Advance
  <1>8. QED
    BY <1>4, <1>5, <1>6, <1>7, TypeParts, TypePartsNext

\* The dispatcher and everything that goes on meanwhile keep the lines in the
\* order of the queries, and every waiting case in its line.
LEMMA StepType ==
  ASSUME TypeOK, [Next]_vars
  PROVE  TypeOK'
  <1>1. CASE StartTick \/ EndTimers \/ EndLinks \/ EndTick
    BY <1>1, PhaseType
  <1>2. CASE PromoteCooldown
    BY <1>2, PromoteCooldownType
  <1>3. CASE PromoteRetry
    BY <1>3, PromoteRetryType
  <1>4. CASE CreateLink
    BY <1>4, CreateLinkType
  <1>5. CASE SweepOne
    BY <1>5, SweepOneType
  <1>6. CASE Advance
    BY <1>6, AdvanceType
  <1>7. ASSUME NEW c \in Cases, Fail(c) PROVE TypeOK'
    BY <1>7, FailType
  <1>8. ASSUME NEW c \in Cases, Settle(c) PROVE TypeOK'
    BY <1>8, SettleType
  <1>9. CASE Crash
    BY <1>9, CrashType
  <1>10. ASSUME NEW i \in Issuers, Health(i) PROVE TypeOK'
    BY <1>10, HealthType
  <1>11. CASE UNCHANGED vars
    <2>1. UNCHANGED << case, timed, consent, burnt, rows, degraded, tick, released,
                       crashed, mishaps >>
      BY <1>11 DEF vars
    <2>2. LinesOK'
      BY <2>1 DEF TypeOK, LinesOK
    <2>3. QED
      BY <2>1, <2>2, TypeParts, TypePartsNext
  <1>12. QED
    BY <1>1, <1>2, <1>3, <1>4, <1>5, <1>6, <1>7, <1>8, <1>9, <1>10, <1>11
    DEF Next, Step

\* Every variable has its type and the lines are in order, whatever the
\* number of cases and the bounds: dispatch_due_actions loses no waiting case
\* and serves each in its turn.
THEOREM LinesStayInOrder == Spec => []TypeOK
  <1>1. Init => TypeOK
    BY InitType
  <1>2. TypeOK /\ [Next]_vars => TypeOK'
    BY StepType
  <1>3. QED
    BY <1>1, <1>2, PTL DEF Spec


-----------------------------------------------------------------------------
(* The release quota *)

\* Every deadline that a tick sets lies ahead of its instant (90, 15 and 360
\* minutes in app/config.py; nothing there forbids a zero).
TimersWait == Cooldown > 0 /\ ReleaseJitter > 0 /\ RetryEscalation > 0

\* The cases a tick could serve now, and those of them this one will not.
Due == { c \in Cases : case[c].state \in Timed /\ case[c].left = 0 }
Late == { c \in Due : \A b \in tick.batch : b.id # c }

\* After k full batches, these cases are what is left of the backlog.
Fits(k, S) == S = {} \/ k * Batch + Cardinality(S) <= Cardinality(Cases)

\* k ticks served a full batch in this instant, and none is serving now, or
\* one that found nothing; each of them, and each that died, spent the quota.
Quiet(k) ==
    /\ tick.pc = "timers" => tick.batch = {} /\ Due = {}
    /\ k <= Batches /\ Fits(k, Due)
    /\ \A i \in Issuers : released[i] <= Quota * (k + crashed)

\* One more is serving its batch.
Serving(k) ==
    /\ tick.pc = "timers"
    /\ k + 1 <= Batches /\ Fits(k, Due) /\ Fits(k + 1, Late)
    /\ \A i \in Issuers : released[i] <= Quota * (k + crashed) + tick.used[i]

QuotaInv ==
    /\ tick.pc = "idle" => tick = IdleTick
    /\ tick.stale \cap Due = {}
    /\ \E k \in Nat : Quiet(k) \/ Serving(k)

\* More of a factor, more of the product.
LEMMA ProductGrows ==
  ASSUME NEW a \in Nat, NEW b \in Nat, NEW m \in Nat, a <= b
  PROVE  m * a <= m * b /\ a * m <= b * m /\ m * a \in Nat /\ a * m \in Nat
  <1>1. b - a \in Nat /\ b = a + (b - a)
    OBVIOUS
  <1> DEFINE d == b - a
  <1>2. m * b = m * a + m * d /\ b * m = a * m + d * m
    BY <1>1
  <1>3. m * d \in Nat /\ d * m \in Nat /\ m * a \in Nat /\ a * m \in Nat
    BY <1>1
  <1> HIDE DEF d
  <1>4. QED
    BY <1>2, <1>3

\* The batches hold the backlog.
LEMMA BatchesHold ==
  /\ Batches \in Nat /\ Cardinality(Cases) \in Nat
  /\ Batches * Batch >= Cardinality(Cases)
  <1> DEFINE N == Cardinality(Cases)
             S == { n \in 0 .. N : n * Batch >= N }
  <1>1. N \in Nat /\ Batch \in Nat /\ Batch >= 1
    BY DispatchAssumption, FS_CardinalityType
  <1> HIDE DEF N
  <1>2. N * 1 <= N * Batch
    BY <1>1, ProductGrows
  <1>3. N \in S
    BY <1>1, <1>2
  <1>4. S \subseteq Nat /\ S # {}
    BY <1>1, <1>3
  <1>5. PICK m \in S : \A i \in S : m <= i
    <2> HIDE DEF S
    <2>1. QED
      BY <1>4, EarliestPlace
  <1>6. Min(S) = m
    <2>1. S \subseteq Int
      BY <1>4
    <2> HIDE DEF S
    <2>2. QED
      BY <1>5, <2>1, SmallestPlace
  <1>7. Batches = m
    BY <1>6 DEF Batches, N
  <1>8. m \in Nat /\ m * Batch >= N
    BY <1>1, <1>5
  <1>9. QED
    BY <1>1, <1>7, <1>8 DEF N

\* The first n of some places are all of them, or at least n.
LEMMA FirstIsFull ==
  ASSUME NEW S, S \subseteq Nat, IsFiniteSet(S), NEW n \in Nat
  PROVE  First(S, n) = S \/ Cardinality(First(S, n)) >= n
  <1> DEFINE F == First(S, n)
             before(x) == { j \in S : j < x }
  <1>1. F = { x \in S : Cardinality(before(x)) < n }
    BY DEF First
  <1>2. \A x : IsFiniteSet(before(x)) /\ Cardinality(before(x)) \in Nat
    <2> TAKE x
    <2>1. before(x) \in SUBSET S
      OBVIOUS
    <2> HIDE DEF before
    <2>2. IsFiniteSet(before(x))
      BY <2>1, FS_Subset
    <2>3. QED
      BY <2>2, FS_CardinalityType
  <1>3. F \subseteq S
    BY <1>1
  <1> HIDE DEF F
  <1>4. CASE S \ F = {}
    BY <1>3, <1>4 DEF F
  <1>5. CASE S \ F # {}
    <2>1. S \ F \subseteq Nat
      OBVIOUS
    <2>2. PICK x \in S \ F : \A i \in S \ F : x <= i
      <3> DEFINE G == S \ F
      <3>1. G \subseteq Nat /\ G # {}
        BY <1>5, <2>1
      <3> HIDE DEF G
      <3>2. \E m \in G : \A i \in G : m <= i
        BY <3>1, EarliestPlace
      <3>3. QED
        BY <3>2 DEF G
    <2>3. ~ (Cardinality(before(x)) < n) /\ Cardinality(before(x)) \in Nat
      BY <1>1, <1>2, <2>2
    <2>4. before(x) \in SUBSET F
      <3>1. ASSUME NEW j \in S, j < x PROVE j \in F
        <4>1. j \in Nat /\ x \in Nat /\ ~ (x <= j)
          BY <2>2, <3>1
        <4>2. QED
          BY <2>2, <4>1
      <3>2. QED
        BY <3>1
    <2>5. IsFiniteSet(F) /\ Cardinality(F) \in Nat
      BY <1>3, FS_Subset, FS_CardinalityType
    <2> HIDE DEF before
    <2>6. Cardinality(before(x)) <= Cardinality(F)
      BY <2>4, <2>5, FS_Subset
    <2>7. Cardinality(F) >= n
      BY <2>3, <2>5, <2>6
    <2>8. QED
      BY <2>7 DEF F
  <1>6. QED
    BY <1>4, <1>5

\* Cases in different places are as many as the places.
LEMMA PlacesAndCases ==
  ASSUME NEW s \in Seq(Cases), IsInjective(s),
         NEW F, F \subseteq DOMAIN s, IsFiniteSet(F)
  PROVE  LET I == { s[i] : i \in F }
         IN IsFiniteSet(I) /\ Cardinality(I) = Cardinality(F)
  <1> DEFINE I == { s[i] : i \in F }
             f == [ i \in F |-> s[i] ]
  <1>1. f \in [ F -> I ]
    OBVIOUS
  <1>2. \A a, b \in F : f[a] = f[b] => a = b
    BY DEF IsInjective
  <1>3. \A y \in I : \E x \in F : f[x] = y
    OBVIOUS
  <1> HIDE DEF f, I
  <1>4. f \in Bijection(F, I)
    BY <1>1, <1>2, <1>3 DEF Bijection, Injection, Surjection, IsInjective
  <1>5. ExistsBijection(F, I)
    BY <1>4 DEF ExistsBijection
  <1>6. IsFiniteSet(I) /\ Cardinality(I) = Cardinality(F)
    BY <1>5, FS_Bijection
  <1>7. QED
    BY <1>6 DEF I

\* Sets of cases can be counted.
LEMMA CountCases ==
  ASSUME NEW S, S \subseteq Cases
  PROVE  /\ IsFiniteSet(S) /\ Cardinality(S) \in Nat
         /\ Cardinality(S) <= Cardinality(Cases)
         /\ S # {} => Cardinality(S) >= 1
  <1>1. IsFiniteSet(Cases) /\ S \in SUBSET Cases
    BY DispatchAssumption
  <1>2. IsFiniteSet(S) /\ Cardinality(S) <= Cardinality(Cases)
    BY <1>1, FS_Subset
  <1>3. Cardinality(S) \in Nat
    BY <1>2, FS_CardinalityType
  <1>4. S # {} => Cardinality(S) # 0
    BY <1>2, FS_EmptySet
  <1>5. QED
    BY <1>2, <1>3, <1>4

\* Fewer cases fit where more did.
LEMMA FewerFit ==
  ASSUME NEW k \in Nat, NEW S, NEW T, S \subseteq T, T \subseteq Cases, Fits(k, T)
  PROVE  Fits(k, S)
  <1>1. CASE T = {}
    BY <1>1 DEF Fits
  <1>2. CASE T # {}
    <2>1. IsFiniteSet(T) /\ S \in SUBSET T /\ Cardinality(T) \in Nat
      BY CountCases
    <2>2. Cardinality(S) <= Cardinality(T) /\ Cardinality(S) \in Nat
      BY <2>1, FS_Subset, FS_CardinalityType
    <2>3. k * Batch \in Nat /\ Cardinality(Cases) \in Nat
      BY DispatchAssumption, FS_CardinalityType
    <2>4. k * Batch + Cardinality(T) <= Cardinality(Cases)
      BY <1>2 DEF Fits
    <2>5. k * Batch + Cardinality(S) <= Cardinality(Cases)
      BY <2>1, <2>2, <2>3, <2>4
    <2>6. QED
      BY <2>5 DEF Fits
  <1>3. QED
    BY <1>1, <1>2

\* A tick that finds cases serves them all, or a full batch of them.
LEMMA BatchServes ==
  ASSUME TypeOK, NEW k \in Nat, Fits(k, Due), Due # {},
         NEW late, late = { c \in Due : \A b \in DueBatch(timed) : b.id # c }
  PROVE  k + 1 <= Batches /\ Fits(k + 1, late)
  <1> DEFINE D == { i \in DOMAIN timed : case[timed[i]].left = 0 }
             F == First(D, Batch)
             I == { timed[i] : i \in F }
             N == Cardinality(Cases)
  <1>1. /\ timed \in Seq(Cases) /\ IsInjective(timed)
        /\ ToSet(timed) = { c \in Cases : case[c].state \in Timed }
    BY DEF TypeOK, LinesOK
  <1>2. Due = { timed[i] : i \in D }
    <2>1. ToSet(timed) = { timed[i] : i \in DOMAIN timed }
      BY DEF ToSet
    <2>2. QED
      BY <1>1, <2>1 DEF Due
  <1>3. D \subseteq Nat /\ D \subseteq DOMAIN timed /\ IsFiniteSet(D) /\ F \subseteq D
    <2>1. DOMAIN timed = 1 .. Len(timed) /\ Len(timed) \in Nat
      BY <1>1
    <2>2. D \in SUBSET (1 .. Len(timed))
      BY <2>1
    <2>3. IsFiniteSet(1 .. Len(timed))
      BY <2>1, FS_Interval
    <2>4. IsFiniteSet(D)
      <3> HIDE DEF D
      <3>1. QED
        BY <2>2, <2>3, FS_Subset
    <2>5. F \subseteq D
      BY DEF First
    <2>6. QED
      BY <2>1, <2>4, <2>5
  <1>4. late = Due \ I
    <2>1. DueBatch(timed) =
            { [ at |-> i, id |-> timed[i], state |-> case[timed[i]].state ] : i \in F }
      BY DEF DueBatch
    <2>2. \A c : (\A b \in DueBatch(timed) : b.id # c) <=> c \notin I
      <3> TAKE c
      <3> DEFINE snap(i) == [ at |-> i, id |-> timed[i], state |-> case[timed[i]].state ]
      <3> HIDE DEF F
      <3>1. \A i : snap(i).id = timed[i]
        OBVIOUS
      <3>2. DueBatch(timed) = { snap(i) : i \in F }
        BY <2>1
      <3> HIDE DEF snap
      <3>3. QED
        BY <3>1, <3>2
    <2>3. QED
      BY <2>2
  <1>5. /\ N \in Nat /\ Batch \in Nat /\ k * Batch \in Nat
        /\ Batches \in Nat /\ N <= Batches * Batch /\ Batches * Batch \in Nat
    BY BatchesHold, DispatchAssumption
  <1>6. /\ IsFiniteSet(Due) /\ Cardinality(Due) \in Nat /\ Cardinality(Due) >= 1
        /\ Due \subseteq Cases
    <2>1. Due \subseteq Cases
      BY DEF Due
    <2>2. QED
      BY <2>1, CountCases
  <1>7. k * Batch + Cardinality(Due) <= N
    BY DEF Fits
  <1>8. k + 1 <= Batches
    <2>1. ASSUME Batches <= k PROVE FALSE
      <3>1. Batches * Batch <= k * Batch
        BY <1>5, <2>1, ProductGrows
      <3> HIDE DEF N
      <3>2. QED
        BY <1>5, <1>6, <1>7, <3>1
    <2>2. QED
      BY <1>5, <2>1
  <1> HIDE DEF D, F, N
  <1>9. CASE F = D
    BY <1>2, <1>4, <1>9, <1>8 DEF Fits
  <1>10. CASE Cardinality(F) >= Batch
    <2>1. F \subseteq DOMAIN timed /\ IsFiniteSet(F) /\ Cardinality(F) \in Nat
      BY <1>3, FS_Subset, FS_CardinalityType
    <2>2. IsFiniteSet(I) /\ Cardinality(I) = Cardinality(F)
      BY <1>1, <2>1, PlacesAndCases
    <2>3. I \subseteq Due
      BY <1>2, <1>3
    <2> HIDE DEF I
    <2>4. Due \cap I = I
      BY <2>3
    <2>5. Cardinality(late) = Cardinality(Due) - Cardinality(I)
      BY <1>4, <1>6, <2>4, FS_Difference
    <2>6. (k + 1) * Batch = k * Batch + Batch
      BY <1>5
    <2>7. (k + 1) * Batch + Cardinality(late) <= N
      BY <1>5, <1>6, <1>7, <1>10, <2>1, <2>2, <2>5, <2>6
    <2>8. QED
      BY <1>8, <2>7 DEF Fits, N
  <1>11. F = D \/ Cardinality(F) >= Batch
    BY <1>3, <1>5, FirstIsFull DEF F
  <1>12. QED
    BY <1>9, <1>10, <1>11

-----------------------------------------------------------------------------
(* Every step keeps the quota *)

\* A save takes its case off the backlog, or adds it.
LEMMA SavedDue ==
  ASSUME TypeOK, NEW c \in Cases, NEW state \in CaseStates, NEW left \in Nat,
         Save(c, state, left)
  PROVE  /\ state \notin Timed \/ left > 0 => Due' = Due \ { c }
         /\ state = case[c].state /\ left = case[c].left => Due' = Due
  <1>1. /\ case'[c].state = state /\ case'[c].left = left
        /\ \A x \in Cases : x # c => case'[x] = case[x]
    BY SavedCase
  <1>2. QED
    BY <1>1 DEF Due

\* A step that neither makes a case due, nor releases one, keeps the quota.
LEMMA NothingReleased ==
  ASSUME TypeOK, QuotaInv, Due' \subseteq Due, tick' \in Ticks,
         released' = released, crashed' = crashed,
         tick'.pc = tick.pc, tick'.used = tick.used,
         tick.pc = "idle" => tick' = tick,
         tick'.stale \cap Due' = {},
         tick.pc = "timers" =>
            Late' \subseteq Late /\ (tick.batch = {} => tick'.batch = {})
  PROVE  QuotaInv'
  <1>0. Due \subseteq Cases /\ Late \subseteq Cases
    BY DEF Due, Late
  <1>1. PICK k \in Nat : Quiet(k) \/ Serving(k)
    BY DEF QuotaInv
  <1>2. CASE Quiet(k)
    <2>1. Fits(k, Due')
      BY <1>0, <1>2, FewerFit DEF Quiet
    <2>2. tick'.pc = "timers" => tick'.batch = {} /\ Due' = {}
      BY <1>2 DEF Quiet
    <2>3. k <= Batches /\ \A i \in Issuers : released'[i] <= Quota * (k + crashed')
      BY <1>2 DEF Quiet
    <2>4. Quiet(k)'
      BY <2>1, <2>2, <2>3 DEF Quiet, Fits
    <2>5. QED
      BY <2>4 DEF QuotaInv
  <1>3. CASE Serving(k)
    <2>1. tick.pc = "timers" /\ Fits(k, Due) /\ Fits(k + 1, Late) /\ k + 1 \in Nat
      BY <1>3 DEF Serving
    <2>2. Fits(k, Due') /\ Fits(k + 1, Late')
      BY <1>0, <2>1, FewerFit
    <2>3. /\ k + 1 <= Batches
          /\ \A i \in Issuers : released'[i] <= Quota * (k + crashed') + tick'.used[i]
      BY <1>3 DEF Serving
    <2>4. Serving(k)'
      BY <2>1, <2>2, <2>3 DEF Serving, Fits
    <2>5. QED
      BY <2>4 DEF QuotaInv
  <1>4. QED
    BY <1>1, <1>2, <1>3

\* What a commit of the turn does to the backlog.
LEMMA CommittedDue ==
  ASSUME TypeOK, QuotaInv, tick.batch # {}, NEW state \in CaseStates, NEW left \in Nat,
         NEW used \in [ Issuers -> 0 .. Quota ], Commit(Turn.id, state, left, used),
         state \notin Timed \/ left > 0
  PROVE  /\ Due' \subseteq Due /\ Late' \subseteq Late /\ tick' \in Ticks
         /\ tick'.pc = tick.pc /\ tick'.used = used /\ tick'.stale \cap Due' = {}
         /\ tick'.batch = tick.batch \ { Turn }
  <1> DEFINE c == Turn.id
  <1>1. c \in Cases
    BY TurnIsInBatch
  <1>2. /\ tick' \in Ticks /\ tick'.pc = tick.pc /\ tick'.used = used
        /\ tick'.batch = tick.batch \ { Turn } /\ tick'.stale = tick.stale
    BY DoneTick DEF Commit
  <1>3. Due' \subseteq Due /\ c \notin Due'
    <2>1. CASE c \in tick.stale
      <3>1. Due' = Due
        BY <2>1 DEF Commit, Due
      <3>2. c \notin Due
        BY <2>1 DEF QuotaInv
      <3>3. QED
        BY <3>1, <3>2
    <2>2. CASE c \notin tick.stale
      <3>1. Save(c, state, left)
        BY <2>2 DEF Commit
      <3>2. Due' = Due \ { c }
        BY <1>1, <3>1, SavedDue
      <3>3. QED
        BY <3>2
    <2>3. QED
      BY <2>1, <2>2
  <1>4. Late' \subseteq Late
    <2>1. Late' = { x \in Due' : \A b \in tick'.batch : b.id # x }
      BY DEF Late
    <2>2. QED
      BY <1>2, <1>3, <2>1 DEF Late
  <1>5. tick'.stale \cap Due' = {}
    BY <1>2, <1>3 DEF QuotaInv
  <1>6. QED
    BY <1>2, <1>3, <1>4, <1>5


\* A release spends one slot of its issuer.
LEMMA PromoteCooldownQuota ==
  ASSUME TypeOK, QuotaInv, TimersWait, PromoteCooldown
  PROVE  QuotaInv'
  <1> DEFINE c == Turn.id
             i == IssuerOf[c]
             used == [ tick.used EXCEPT ![i] = @ + 1 ]
             wait == RetryEscalation + Offset[c]
  <1>1. c \in Cases /\ i \in Issuers /\ tick.used \in [ Issuers -> 0 .. Quota ]
    BY TurnIsInBatch, DispatchAssumption DEF PromoteCooldown
  <1>2. /\ "cooldown" \in CaseStates /\ "retry_scheduled" \in CaseStates
        /\ Cooldown \in Nat /\ HeldFor \in Nat /\ Cooldown > 0 /\ HeldFor > 0
    BY DispatchAssumption DEF CaseStates, Waiting, Timed, HeldFor, TimersWait
  <1>3. wait \in Nat /\ wait > 0
    <2>1. RetryEscalation \in Nat /\ ReleaseJitter \in Nat /\ RetryEscalation > 0
      BY DispatchAssumption DEF TimersWait
    <2>2. Offset \in [ Cases -> 0 .. ReleaseJitter ]
      BY DispatchAssumption
    <2> HIDE DEF c
    <2>3. Offset[c] \in 0 .. ReleaseJitter
      BY <1>1, <2>2
    <2>4. QED
      BY <2>1, <2>3
  <1>4. /\ tick.pc = "timers" /\ tick.batch # {} /\ crashed' = crashed
        /\ \/ Commit(c, "cooldown", Cooldown, tick.used) /\ UNCHANGED released
           \/ Commit(c, "cooldown", HeldFor, tick.used) /\ UNCHANGED released
           \/ /\ tick.used[i] < Quota
              /\ Commit(c, "retry_scheduled", wait, used)
              /\ released' = IF c \in tick.stale THEN released
                             ELSE [ released EXCEPT ![i] = @ + 1 ]
    BY DEF PromoteCooldown
  <1>5. ASSUME NEW left \in Nat, left > 0, Commit(c, "cooldown", left, tick.used),
               released' = released
        PROVE  QuotaInv'
    <2>1. /\ Due' \subseteq Due /\ Late' \subseteq Late /\ tick' \in Ticks
          /\ tick'.pc = tick.pc /\ tick'.used = tick.used /\ tick'.stale \cap Due' = {}
      BY <1>1, <1>2, <1>4, <1>5, CommittedDue
    <2>2. QED
      BY <1>4, <1>5, <2>1, NothingReleased
  <1>6. ASSUME tick.used[i] < Quota, Commit(c, "retry_scheduled", wait, used),
               released' = IF c \in tick.stale THEN released
                           ELSE [ released EXCEPT ![i] = @ + 1 ]
        PROVE  QuotaInv'
    <2>1. used \in [ Issuers -> 0 .. Quota ]
      <3>1. tick.used[i] \in 0 .. Quota /\ Quota \in Nat
        BY <1>1, DispatchAssumption
      <3>2. tick.used[i] + 1 \in 0 .. Quota
        BY <1>6, <3>1
      <3>3. QED
        BY <1>1, <3>2
    <2> HIDE DEF wait, used
    <2>2. /\ Due' \subseteq Due /\ Late' \subseteq Late /\ tick' \in Ticks
          /\ tick'.pc = tick.pc /\ tick'.used = used /\ tick'.stale \cap Due' = {}
      BY <1>2, <1>3, <1>4, <1>6, <2>1, CommittedDue
    <2>3. PICK k \in Nat : Serving(k)
      BY <1>4 DEF QuotaInv, Quiet
    <2>4. Fits(k, Due') /\ Fits(k + 1, Late') /\ k + 1 <= Batches /\ k + 1 \in Nat
      <3>1. Fits(k, Due) /\ Fits(k + 1, Late) /\ k + 1 <= Batches /\ k + 1 \in Nat
        BY <2>3 DEF Serving
      <3>2. Due \subseteq Cases /\ Late \subseteq Cases
        BY DEF Due, Late
      <3>3. QED
        BY <2>2, <3>1, <3>2, FewerFit
    <2>5. ASSUME NEW j \in Issuers
          PROVE  released'[j] <= Quota * (k + crashed') + tick'.used[j]
      <3>1. /\ released[j] \in Nat /\ Quota * (k + crashed) \in Nat /\ tick.used[j] \in Nat
            /\ released[j] <= Quota * (k + crashed) + tick.used[j]
        <4>1. released[j] \in Nat /\ tick.used[j] \in 0 .. Quota /\ k + crashed \in Nat
          BY <1>1 DEF TypeOK
        <4>2. Quota * (k + crashed) \in Nat
          BY <4>1, DispatchAssumption
        <4>3. released[j] <= Quota * (k + crashed) + tick.used[j]
          BY <2>3 DEF Serving
        <4>4. Quota \in Nat
          BY DispatchAssumption
        <4>5. QED
          BY <4>1, <4>2, <4>3, <4>4
      <3>2. released'[j] <= released[j] + (IF j = i THEN 1 ELSE 0) /\ released'[j] \in Nat
        <4>1. released \in [ Issuers -> Nat ]
          BY DEF TypeOK
        <4>2. CASE c \in tick.stale
          BY <1>6, <3>1, <4>2
        <4>3. CASE c \notin tick.stale
          <5>1. released' = [ released EXCEPT ![i] = @ + 1 ]
            BY <1>6, <4>3
          <5> HIDE DEF i
          <5>2. QED
            BY <3>1, <4>1, <5>1
        <4>4. QED
          BY <4>2, <4>3
      <3>3. tick'.used[j] = tick.used[j] + (IF j = i THEN 1 ELSE 0)
        BY <1>1, <2>2 DEF used
      <3>4. crashed' = crashed
        BY <1>4
      <3> DEFINE q == Quota * (k + crashed)
      <3> HIDE DEF q
      <3>5. released'[j] <= q + tick'.used[j]
        BY <3>1, <3>2, <3>3 DEF q
      <3>6. QED
        BY <3>4, <3>5 DEF q
    <2>6. Serving(k)'
      BY <1>4, <2>2, <2>4, <2>5 DEF Serving, Fits
    <2>7. QED
      BY <1>4, <2>2, <2>6 DEF QuotaInv
  <1>7. QED
    BY <1>2, <1>4, <1>5, <1>6

LEMMA PromoteRetryQuota ==
  ASSUME TypeOK, QuotaInv, PromoteRetry
  PROVE  QuotaInv'
  <1>1. PICK state \in { "consent_required", "closed" } :
          Commit(Turn.id, state, 0, tick.used)
    BY DEF PromoteRetry
  <1>2. state \in CaseStates /\ state \notin Timed /\ 0 \in Nat
    BY DEF CaseStates, Waiting, Timed
  <1>3. /\ tick.pc = "timers" /\ tick.batch # {} /\ crashed' = crashed
        /\ released' = released /\ tick.used \in [ Issuers -> 0 .. Quota ]
    BY TurnIsInBatch DEF PromoteRetry
  <1>4. /\ Due' \subseteq Due /\ Late' \subseteq Late /\ tick' \in Ticks
        /\ tick'.pc = tick.pc /\ tick'.used = tick.used /\ tick'.stale \cap Due' = {}
    BY <1>1, <1>2, <1>3, CommittedDue
  <1>5. QED
    BY <1>3, <1>4, NothingReleased

LEMMA CreateLinkQuota ==
  ASSUME TypeOK, QuotaInv, CreateLink
  PROVE  QuotaInv'
  <1> DEFINE c == Turn.id
  <1>1. /\ tick.pc = "links" /\ tick.batch # {} /\ crashed' = crashed
        /\ released' = released /\ tick.used \in [ Issuers -> 0 .. Quota ]
        /\ c \in Cases
    BY TurnIsInBatch DEF CreateLink
  <1>2. \/ Commit(c, "closed", 0, tick.used)
        \/ Done(tick.used) /\ UNCHANGED case
        \/ Done(tick.used) /\ \E state \in { "link_sent", "closed" } : Save(c, state, 0)
    BY DEF CreateLink
  <1>3. /\ "link_sent" \in CaseStates /\ "closed" \in CaseStates
        /\ "link_sent" \notin Timed /\ "closed" \notin Timed /\ 0 \in Nat
    BY DEF CaseStates, Timed
  <1>4. /\ Due' \subseteq Due /\ tick' \in Ticks /\ tick'.pc = tick.pc
        /\ tick'.used = tick.used /\ tick'.stale \cap Due' = {}
    <2>1. CASE Commit(c, "closed", 0, tick.used)
      BY <1>1, <1>3, <2>1, CommittedDue
    <2>2. ASSUME Done(tick.used), Due' \subseteq Due
          PROVE  /\ tick' \in Ticks /\ tick'.pc = tick.pc
                 /\ tick'.used = tick.used /\ tick'.stale \cap Due' = {}
      <3>1. /\ tick' \in Ticks /\ tick'.pc = tick.pc /\ tick'.used = tick.used
            /\ tick'.stale = tick.stale
        BY <1>1, <2>2, DoneTick
      <3>2. QED
        BY <2>2, <3>1 DEF QuotaInv
    <2>3. UNCHANGED case => Due' \subseteq Due
      BY DEF Due
    <2>4. ASSUME NEW state \in { "link_sent", "closed" }, Save(c, state, 0)
          PROVE  Due' \subseteq Due
      <3>1. Due' = Due \ { c }
        BY <1>1, <1>3, <2>4, SavedDue
      <3>2. QED
        BY <3>1
    <2> HIDE DEF c
    <2>5. QED
      BY <1>2, <2>1, <2>2, <2>3, <2>4
  <1>5. QED
    BY <1>1, <1>4, NothingReleased

LEMMA SweepOneQuota ==
  ASSUME TypeOK, QuotaInv, SweepOne
  PROVE  QuotaInv'
  <1> DEFINE c == Turn.id
  <1>1. /\ tick.pc = "sweep" /\ tick.batch # {} /\ crashed' = crashed
        /\ released' = released /\ tick.used \in [ Issuers -> 0 .. Quota ]
        /\ c \in Cases /\ Done(tick.used)
    BY TurnIsInBatch DEF SweepOne
  <1>2. Save(c, case[c].state, case[c].left) \/ UNCHANGED case
    BY DEF SweepOne
  <1>3. Due' = Due
    <2>1. case[c].state \in CaseStates /\ case[c].left \in Nat
      BY <1>1 DEF TypeOK
    <2>2. CASE Save(c, case[c].state, case[c].left)
      BY <1>1, <2>1, <2>2, SavedDue
    <2>3. CASE UNCHANGED case
      BY <2>3 DEF Due
    <2>4. QED
      BY <1>2, <2>2, <2>3
  <1>4. /\ tick' \in Ticks /\ tick'.pc = tick.pc /\ tick'.used = tick.used
        /\ tick'.stale = tick.stale
    BY <1>1, DoneTick
  <1>5. tick'.stale \cap Due' = {}
    BY <1>3, <1>4 DEF QuotaInv
  <1>6. QED
    BY <1>1, <1>3, <1>4, <1>5, NothingReleased

\* A webhook takes its case off the backlog, and the tick will skip it.
LEMMA WebhookQuota ==
  ASSUME TypeOK, QuotaInv, NEW c \in Cases, Touch(c),
         released' = released, crashed' = crashed,
         Due' \subseteq Due, c \notin Due'
  PROVE  QuotaInv'
  <1>1. tick \in Ticks /\ tick' \in Ticks
    BY TypeParts, TouchType
  <1>2. /\ tick'.pc = tick.pc /\ tick'.used = tick.used /\ tick'.batch = tick.batch
        /\ tick'.stale \subseteq tick.stale \cup { c }
    <2>1. tick' = tick \/ tick' = [ tick EXCEPT !.stale = @ \cup { c } ]
      BY DEF Touch
    <2>2. QED
      BY <1>1, <2>1 DEF Ticks
  <1>3. tick'.stale \cap Due' = {}
    BY <1>2 DEF QuotaInv
  <1>4. tick.pc = "idle" => tick' = tick
    <2>1. tick.pc = "idle" => tick = IdleTick
      BY DEF QuotaInv
    <2>2. tick = IdleTick => tick.batch = {}
      BY DEF IdleTick
    <2>3. tick.batch = {} => tick' = tick
      BY DEF Touch
    <2>4. QED
      BY <2>1, <2>2, <2>3
  <1>5. Late' \subseteq Late
    <2>1. Late' = { x \in Due' : \A b \in tick'.batch : b.id # x }
      BY DEF Late
    <2>2. QED
      BY <1>2, <2>1 DEF Late
  <1>6. tick.pc = "timers" =>
          Late' \subseteq Late /\ (tick.batch = {} => tick'.batch = {})
    BY <1>2, <1>5
  <1>7. QED
    BY <1>1, <1>2, <1>3, <1>4, <1>6, NothingReleased

LEMMA FailQuota ==
  ASSUME TypeOK, QuotaInv, TimersWait, NEW c \in Cases, Fail(c)
  PROVE  QuotaInv'
  <1>1. PICK state \in CaseStates, left \in Nat :
          /\ Save(c, state, left)
          /\ state \notin Timed \/ left \in { Cooldown, RetryEscalation }
    BY FailSaves
  <1>2. state \notin Timed \/ left > 0
    BY <1>1 DEF TimersWait
  <1>3. Due' = Due \ { c }
    BY <1>1, <1>2, SavedDue
  <1>4. Touch(c) /\ released' = released /\ crashed' = crashed
    BY DEF Fail
  <1>5. QED
    BY <1>3, <1>4, WebhookQuota

LEMMA SettleQuota ==
  ASSUME TypeOK, QuotaInv, NEW c \in Cases, Settle(c)
  PROVE  QuotaInv'
  <1>1. "closed" \in CaseStates /\ "closed" \notin Timed /\ 0 \in Nat
    BY DEF CaseStates, Timed
  <1>2. Save(c, "closed", 0) /\ Touch(c) /\ released' = released /\ crashed' = crashed
    BY DEF Settle
  <1>3. Due' = Due \ { c }
    BY <1>1, <1>2, SavedDue
  <1>4. QED
    BY <1>2, <1>3, WebhookQuota


LEMMA HealthQuota ==
  ASSUME TypeOK, QuotaInv, NEW i \in Issuers, Health(i)
  PROVE  QuotaInv'
  <1>1. UNCHANGED << case, tick, released, crashed >>
    BY DEF Health
  <1>2. Due' = Due /\ Late' = Late
    BY <1>1 DEF Due, Late
  <1>3. tick' \in Ticks
    BY <1>1, TypeParts
  <1>4. QED
    BY <1>1, <1>2, <1>3, NothingReleased DEF QuotaInv

\* A batch that is read is of the backlog.
LEMMA StartTickQuota ==
  ASSUME TypeOK, QuotaInv, StartTick
  PROVE  QuotaInv'
  <1>1. /\ tick.pc = "idle" /\ tick = IdleTick
        /\ UNCHANGED << case, timed, released, crashed >>
    BY DEF StartTick, QuotaInv
  <1>2. /\ tick'.pc = "timers" /\ tick'.batch = DueBatch(timed)
        /\ tick'.used = tick.used /\ tick'.stale = tick.stale
    <2>1. tick \in Ticks
      BY TypeParts
    <2>2. QED
      BY <2>1 DEF StartTick, Ticks
  <1>3. Due' = Due
    BY <1>1 DEF Due
  <1>4. PICK k \in Nat : Quiet(k)
    BY <1>1 DEF QuotaInv, Serving
  <1>5. /\ Fits(k, Due) /\ k <= Batches
        /\ \A i \in Issuers : released[i] <= Quota * (k + crashed)
    BY <1>4 DEF Quiet
  <1>6. tick'.stale \cap Due' = {}
    BY <1>2, <1>3 DEF QuotaInv
  <1>7. CASE Due = {}
    <2>1. DueBatch(timed) = {}
      <3>1. /\ timed \in Seq(Cases)
            /\ ToSet(timed) = { c \in Cases : case[c].state \in Timed }
        BY DEF TypeOK, LinesOK
      <3>2. \A i \in DOMAIN timed : timed[i] \in ToSet(timed)
        BY DEF ToSet
      <3>3. \A i \in DOMAIN timed : case[timed[i]].left # 0
        BY <1>7, <3>1, <3>2 DEF Due
      <3>4. QED
        BY <3>3 DEF DueBatch, First
    <2>2. Quiet(k)'
      BY <1>1, <1>2, <1>3, <1>5, <1>7, <2>1 DEF Quiet, Fits
    <2>3. QED
      BY <1>2, <1>6, <2>2 DEF QuotaInv
  <1>8. CASE Due # {}
    <2>1. Late' = { c \in Due : \A b \in DueBatch(timed) : b.id # c }
      BY <1>2, <1>3 DEF Late
    <2>2. k + 1 <= Batches /\ Fits(k + 1, Late')
      BY <1>5, <1>8, <2>1, BatchServes
    <2>3. ASSUME NEW i \in Issuers
          PROVE  released'[i] <= Quota * (k + crashed') + tick'.used[i]
      <3>1. tick'.used[i] = 0
        BY <1>1, <1>2 DEF IdleTick
      <3>2. released[i] <= Quota * (k + crashed) /\ Quota * (k + crashed) \in Nat
        BY <1>5, DispatchAssumption DEF TypeOK
      <3>3. released[i] \in Nat
        BY DEF TypeOK
      <3> DEFINE q == Quota * (k + crashed)
      <3> HIDE DEF q
      <3>4. released[i] <= q + tick'.used[i]
        BY <3>1, <3>2, <3>3 DEF q
      <3>5. QED
        BY <1>1, <3>4 DEF q
    <2>4. Serving(k)'
      BY <1>2, <1>3, <1>5, <2>2, <2>3 DEF Serving, Fits
    <2>5. QED
      BY <1>2, <1>6, <2>4 DEF QuotaInv
  <1>9. QED
    BY <1>7, <1>8

\* What a tick released is within its quota.
LEMMA TickIsSpent ==
  ASSUME TypeOK, NEW k \in Nat, Serving(k), NEW i \in Issuers
  PROVE  released[i] <= Quota * (k + 1 + crashed)
  <1>1. /\ released[i] \in Nat /\ tick.used[i] \in 0 .. Quota /\ k + crashed \in Nat
        /\ Quota \in Nat
    BY DispatchAssumption DEF TypeOK
  <1>2. released[i] <= Quota * (k + crashed) + tick.used[i]
    BY DEF Serving
  <1>3. Quota * (k + 1 + crashed) = Quota * (k + crashed) + Quota
    <2>1. k + 1 + crashed = (k + crashed) + 1
      BY DEF TypeOK
    <2> DEFINE m == k + crashed
    <2> HIDE DEF m
    <2>2. Quota * (m + 1) = Quota * m + Quota
      BY <1>1 DEF m
    <2>3. QED
      BY <2>1, <2>2 DEF m
  <1> DEFINE q == Quota * (k + crashed)
  <1>4. q \in Nat
    BY <1>1
  <1> HIDE DEF q
  <1>5. released[i] <= q + Quota
    BY <1>1, <1>2, <1>4 DEF q
  <1>6. QED
    BY <1>3, <1>5 DEF q

LEMMA EndTimersQuota ==
  ASSUME TypeOK, QuotaInv, EndTimers
  PROVE  QuotaInv'
  <1>1. /\ tick.pc = "timers" /\ tick.batch = {}
        /\ UNCHANGED << case, released, crashed >>
    BY DEF EndTimers
  <1>2. tick'.pc = "links" /\ tick'.stale = {}
    <2>1. tick \in Ticks
      BY TypeParts
    <2>2. QED
      BY <2>1 DEF EndTimers, Ticks
  <1>3. Due' = Due
    BY <1>1 DEF Due
  <1>4. PICK k \in Nat : Quiet(k) \/ Serving(k)
    BY DEF QuotaInv
  <1>5. \E n \in Nat : Quiet(n)'
    <2>1. CASE Quiet(k)
      <3>1. Quiet(k)'
        BY <1>1, <1>2, <1>3, <2>1 DEF Quiet, Fits
      <3>2. QED
        BY <3>1
    <2>2. CASE Serving(k)
      <3>1. Late = Due
        BY <1>1 DEF Late
      <3>2. Fits(k + 1, Due) /\ k + 1 <= Batches /\ k + 1 \in Nat
        BY <2>2, <3>1 DEF Serving
      <3>3. \A i \in Issuers : released'[i] <= Quota * (k + 1 + crashed')
        BY <1>1, <2>2, TickIsSpent
      <3>4. Quiet(k + 1)'
        BY <1>2, <1>3, <3>2, <3>3 DEF Quiet, Fits
      <3>5. QED
        BY <3>2, <3>4
    <2>3. QED
      BY <1>4, <2>1, <2>2
  <1>6. QED
    BY <1>2, <1>5 DEF QuotaInv

LEMMA LaterPhaseQuota ==
  ASSUME TypeOK, QuotaInv, EndLinks \/ EndTick
  PROVE  QuotaInv'
  <1>1. /\ tick.pc # "timers" /\ UNCHANGED << case, released, crashed >>
    BY DEF EndLinks, EndTick
  <1>2. /\ tick'.pc # "timers" /\ tick'.stale = {}
        /\ tick'.pc = "idle" => tick' = IdleTick
    <2>1. tick \in Ticks
      BY TypeParts
    <2>2. CASE EndLinks
      BY <2>1, <2>2 DEF EndLinks, Ticks
    <2>3. CASE EndTick
      BY <2>3 DEF EndTick, IdleTick
    <2>4. QED
      BY <2>2, <2>3
  <1>3. Due' = Due
    BY <1>1 DEF Due
  <1>4. PICK k \in Nat : Quiet(k)
    BY <1>1 DEF QuotaInv, Serving
  <1>5. Quiet(k)'
    BY <1>1, <1>2, <1>3, <1>4 DEF Quiet, Fits
  <1>6. QED
    BY <1>2, <1>5 DEF QuotaInv

\* A tick that dies forgets what it released; it had a quota.
LEMMA CrashQuota ==
  ASSUME TypeOK, QuotaInv, Crash
  PROVE  QuotaInv'
  <1>1. UNCHANGED << case, released >> /\ crashed' = crashed + 1 /\ tick' = IdleTick
    BY DEF Crash
  <1>2. tick'.pc = "idle" /\ tick'.stale = {}
    BY <1>1 DEF IdleTick
  <1>3. Due' = Due
    BY <1>1 DEF Due
  <1>4. PICK k \in Nat : Quiet(k) \/ Serving(k)
    BY DEF QuotaInv
  <1>5. /\ crashed \in Nat /\ Quota \in Nat /\ Batches \in Nat
        /\ \A i \in Issuers : released[i] \in Nat
    BY DispatchAssumption, BatchesHold DEF TypeOK
  <1>6. Fits(k, Due) /\ k <= Batches
    BY <1>4, <1>5 DEF Quiet, Serving
  <1>7. ASSUME NEW i \in Issuers
        PROVE  released'[i] <= Quota * (k + crashed')
    <2>1. k + crashed' = k + 1 + crashed /\ k + crashed \in Nat
      BY <1>1, <1>5
    <2>2. CASE Quiet(k)
      <3>1. released[i] <= Quota * (k + crashed)
        BY <2>2 DEF Quiet
      <3>2. /\ Quota * (k + crashed) <= Quota * (k + 1 + crashed)
            /\ Quota * (k + crashed) \in Nat /\ Quota * (k + 1 + crashed) \in Nat
        <4>1. k + 1 + crashed \in Nat /\ k + crashed <= k + 1 + crashed
          BY <1>5
        <4>2. QED
          BY <1>5, <2>1, <4>1, ProductGrows
      <3> DEFINE p == Quota * (k + crashed)
                 q == Quota * (k + 1 + crashed)
      <3> HIDE DEF p, q
      <3>3. released[i] <= q
        BY <1>5, <3>1, <3>2 DEF p, q
      <3>4. QED
        BY <1>1, <2>1, <3>3 DEF q
    <2>3. CASE Serving(k)
      <3>1. released[i] <= Quota * (k + 1 + crashed)
        BY <2>3, TickIsSpent
      <3>2. QED
        BY <1>1, <2>1, <3>1
    <2>4. QED
      BY <1>4, <2>2, <2>3
  <1>8. Quiet(k)'
    BY <1>2, <1>3, <1>6, <1>7 DEF Quiet, Fits
  <1>9. QED
    BY <1>1, <1>2, <1>8 DEF QuotaInv

\* With nothing released and no batch served, any backlog fits.
LEMMA FreshQuota == Fits(0, Due) /\ 0 <= Batches
  <1>1. Due \subseteq Cases
    BY DEF Due
  <1>2. Cardinality(Due) \in Nat /\ Cardinality(Due) <= Cardinality(Cases)
    BY <1>1, CountCases
  <1>3. 0 * Batch = 0
    BY DispatchAssumption
  <1>4. Batches \in Nat /\ Cardinality(Cases) \in Nat
    BY BatchesHold
  <1>5. QED
    BY <1>2, <1>3, <1>4 DEF Fits

LEMMA FreshQuotaNext == Fits(0, Due')
  <1>1. Due' \subseteq Cases
    BY DEF Due
  <1>2. Cardinality(Due') \in Nat /\ Cardinality(Due') <= Cardinality(Cases)
    BY <1>1, CountCases
  <1>3. 0 * Batch = 0
    BY DispatchAssumption
  <1>4. Cardinality(Cases) \in Nat
    BY BatchesHold
  <1>5. QED
    BY <1>2, <1>3, <1>4 DEF Fits

LEMMA AdvanceQuota ==
  ASSUME TypeOK, QuotaInv, Advance
  PROVE  QuotaInv'
  <1>1. /\ tick.pc = "idle" /\ tick' = tick /\ tick = IdleTick
        /\ released' = [ i \in Issuers |-> 0 ] /\ crashed' = 0
    BY DEF Advance, QuotaInv
  <1>2. tick'.pc = "idle" /\ tick'.stale = {}
    BY <1>1 DEF IdleTick
  <1>3. Quota * (0 + 0) = 0
    BY DispatchAssumption
  <1>4. \A i \in Issuers : released'[i] <= Quota * (0 + crashed')
    BY <1>1, <1>3
  <1>5. Fits(0, Due') /\ 0 <= Batches
    BY FreshQuota, FreshQuotaNext
  <1>6. Quiet(0)'
    BY <1>2, <1>4, <1>5 DEF Quiet, Fits
  <1>7. QED
    BY <1>1, <1>2, <1>6 DEF QuotaInv

LEMMA InitQuota == Init => QuotaInv
  <1> SUFFICES ASSUME Init PROVE QuotaInv
    OBVIOUS
  <1>1. /\ tick = IdleTick /\ tick.pc = "idle" /\ tick.stale = {}
        /\ released = [ i \in Issuers |-> 0 ] /\ crashed = 0
    BY DEF Init, IdleTick
  <1>2. Quota * (0 + 0) = 0
    BY DispatchAssumption
  <1>3. \A i \in Issuers : released[i] <= Quota * (0 + crashed)
    BY <1>1, <1>2
  <1>4. Quiet(0)
    BY <1>1, <1>3, FreshQuota DEF Quiet
  <1>5. QED
    BY <1>1, <1>4 DEF QuotaInv

LEMMA StepQuota ==
  ASSUME TypeOK, QuotaInv, TimersWait, [Next]_vars
  PROVE  QuotaInv'
  <1>1. CASE StartTick
    BY <1>1, StartTickQuota
  <1>2. CASE PromoteCooldown
    BY <1>2, PromoteCooldownQuota
  <1>3. CASE PromoteRetry
    BY <1>3, PromoteRetryQuota
  <1>4. CASE EndTimers
    BY <1>4, EndTimersQuota
  <1>5. CASE CreateLink
    BY <1>5, CreateLinkQuota
  <1>6. CASE EndLinks \/ EndTick
    BY <1>6, LaterPhaseQuota
  <1>7. CASE SweepOne
    BY <1>7, SweepOneQuota
  <1>8. CASE Advance
    BY <1>8, AdvanceQuota
  <1>9. ASSUME NEW c \in Cases, Fail(c) PROVE QuotaInv'
    BY <1>9, FailQuota
  <1>10. ASSUME NEW c \in Cases, Settle(c) PROVE QuotaInv'
    BY <1>10, SettleQuota
  <1>11. CASE Crash
    BY <1>11, CrashQuota
  <1>12. ASSUME NEW i \in Issuers, Health(i) PROVE QuotaInv'
    BY <1>12, HealthQuota
  <1>13. CASE UNCHANGED vars
    <2>1. UNCHANGED << case, tick, released, crashed >>
      BY <1>13 DEF vars
    <2>2. Due' = Due /\ Late' = Late
      BY <2>1 DEF Due, Late
    <2>3. tick' \in Ticks
      BY <2>1, TypeParts
    <2>4. QED
      BY <2>1, <2>2, <2>3, NothingReleased DEF QuotaInv
  <1>14. QED
    BY <1>1, <1>2, <1>3, <1>4, <1>5, <1>6, <1>7, <1>8, <1>9, <1>10, <1>11, <1>12, <1>13
    DEF Next, Step

\* The quota and the backlog bound what an issuer gets in one instant.
LEMMA QuotaBounds ==
  ASSUME TypeOK, QuotaInv
  PROVE  BurstBounded
  <1> SUFFICES ASSUME NEW i \in Issuers
               PROVE  released[i] <= Quota * (Batches + crashed)
    BY DEF BurstBounded
  <1>1. PICK k \in Nat : Quiet(k) \/ Serving(k)
    BY DEF QuotaInv
  <1>2. released[i] \in Nat /\ crashed \in Nat /\ Quota \in Nat /\ Batches \in Nat
    BY DispatchAssumption, BatchesHold DEF TypeOK
  <1>3. ASSUME NEW m \in Nat, m <= Batches, released[i] <= Quota * (m + crashed)
        PROVE  released[i] <= Quota * (Batches + crashed)
    <2>1. /\ m + crashed \in Nat /\ Batches + crashed \in Nat
          /\ m + crashed <= Batches + crashed
      BY <1>2, <1>3
    <2>2. /\ Quota * (m + crashed) <= Quota * (Batches + crashed)
          /\ Quota * (m + crashed) \in Nat /\ Quota * (Batches + crashed) \in Nat
      BY <1>2, <2>1, ProductGrows
    <2> DEFINE p == Quota * (m + crashed)
               q == Quota * (Batches + crashed)
    <2> HIDE DEF p, q
    <2>3. released[i] <= q
      BY <1>2, <1>3, <2>2 DEF p, q
    <2>4. QED
      BY <2>3 DEF q
  <1>4. CASE Quiet(k)
    BY <1>3, <1>4 DEF Quiet
  <1>5. CASE Serving(k)
    <2>1. k + 1 \in Nat /\ k + 1 <= Batches
      BY <1>5 DEF Serving
    <2>2. released[i] <= Quota * (k + 1 + crashed)
      BY <1>5, TickIsSpent
    <2>3. QED
      BY <1>3, <2>1, <2>2
  <1>6. QED
    BY <1>1, <1>4, <1>5

\* However many cases wait, however often the tick is called in one instant
\* and wherever it dies, an issuer that recovers is sent no more releases than
\* the quota of each batch of the backlog and of each tick that died
\* (max_releases_per_tick in dispatch_due_actions).
THEOREM RecoveryDrains ==
  ASSUME TimersWait
  PROVE  Spec => []BurstBounded
  <1>1. Init => TypeOK /\ QuotaInv
    BY InitType, InitQuota
  <1>2. TypeOK /\ QuotaInv /\ [Next]_vars => (TypeOK /\ QuotaInv)'
    BY StepType, StepQuota
  <1>3. TypeOK /\ QuotaInv => BurstBounded
    BY QuotaBounds
  <1>4. QED
    BY <1>1, <1>2, <1>3, PTL DEF Spec

=============================================================================
