---------------------------- MODULE HealthProofs ----------------------------
(***************************************************************************)
(* The issuer health monitor, for any number of issuers and outcomes: its  *)
(* memory is bounded, its windows agree with the durable table whatever    *)
(* arrives late, and a verdict neither rests on what is long past nor is   *)
(* lost in a restart.                                                      *)
(***************************************************************************)
EXTENDS Health, FiniteSetTheorems, SequenceTheorems, WellFoundedInduction, TLAPS

-----------------------------------------------------------------------------
(* The order of the windows *)

\* Some places have a first one.
LEMMA EarliestPlace ==
  ASSUME NEW S, S \subseteq Nat, S # {}
  PROVE  \E m \in S : \A i \in S : m <= i
  <1> DEFINE R == { ss \in Nat \X Nat : ss[1] < ss[2] }
  <1>1. IsWellFoundedOn(R, Nat)
    BY NatLessThanWellFounded DEF OpToRel
  <1>2. PICK m \in S : \A y \in S : ~ (<< y, m >> \in R)
    <2> HIDE DEF R
    <2>1. QED
      BY <1>1, WFMin
  <1>3. \A y \in S : m \in Nat /\ y \in Nat /\ ~(y < m)
    BY <1>2
  <1>4. QED
    BY <1>3

\* The smallest of some places.
LEMMA SmallestPlace ==
  ASSUME NEW S, S \subseteq Int, NEW h \in S, \A m \in S : h <= m
  PROVE  Min(S) = h
  <1> DEFINE P(x) == x \in S /\ \A y \in S : x <= y
  <1>1. P(h)
    OBVIOUS
  <1>2. Min(S) = CHOOSE x : P(x)
    BY DEF Min
  <1>3. P(Min(S))
    BY <1>1, <1>2
  <1>4. \A x \in Int, y \in Int : x <= y /\ y <= x => x = y
    OBVIOUS
  <1>5. Min(S) \in Int /\ h \in Int /\ Min(S) <= h /\ h <= Min(S)
    BY <1>3
  <1>6. QED
    BY <1>4, <1>5

\* An order of windows names each key once.
LEMMA RemovedFromOrder ==
  ASSUME NEW s \in Seq(Keys), IsInjective(s), NEW k \in Keys
  PROVE  LET r == RemoveFirst(s, k)
         IN /\ r \in Seq(Keys) /\ IsInjective(r)
            /\ ToSet(r) = ToSet(s) \ { k }
            /\ Len(r) <= Len(s)
  <1> DEFINE r == RemoveFirst(s, k)
  <1>1. CASE k \notin ToSet(s)
    <2>1. r = s
      BY <1>1 DEF RemoveFirst, ToSet
    <2>2. QED
      BY <1>1, <2>1
  <1>2. CASE k \in ToSet(s)
    <2>1. PICK p \in 1 .. Len(s) : s[p] = k
      BY <1>2 DEF ToSet
    <2>2. { i \in 1 .. Len(s) : s[i] = k } = { p }
      BY <2>1 DEF IsInjective
    <2>3. Min({ p }) = p
      <3> DEFINE S == { p }
      <3>1. S \subseteq Int /\ p \in S /\ \A m \in S : p <= m
        OBVIOUS
      <3> HIDE DEF S
      <3>2. Min(S) = p
        BY <3>1, SmallestPlace
      <3>3. QED
        BY <3>2 DEF S
    <2>4. r = RemoveAt(s, p)
      <3>1. SelectInSeq(s, LAMBDA v : v = k) = p
        BY <2>2, <2>3 DEF SelectInSeq
      <3>2. QED
        BY <2>1, <3>1 DEF RemoveFirst
    <2>5. /\ r \in Seq(Keys) /\ Len(r) = Len(s) - 1
          /\ \A i \in 1 .. Len(r) : r[i] = IF i < p THEN s[i] ELSE s[i + 1]
      <3> DEFINE a == SubSeq(s, 1, p - 1)
                 b == SubSeq(s, p + 1, Len(s))
      <3>1. /\ a \in Seq(Keys) /\ Len(a) = p - 1
            /\ \A i \in 1 .. p - 1 : a[i] = s[i]
        BY <2>1
      <3>2. /\ b \in Seq(Keys) /\ Len(b) = Len(s) - p
            /\ \A i \in 1 .. Len(s) - p : b[i] = s[i + p]
        BY <2>1
      <3>3. r = a \o b
        BY <2>4 DEF RemoveAt
      <3> HIDE DEF a, b, r
      <3>4. /\ r \in Seq(Keys) /\ Len(r) = Len(a) + Len(b)
            /\ \A i \in 1 .. Len(r) : r[i] = IF i <= Len(a) THEN a[i] ELSE b[i - Len(a)]
        <4>1. a \in Seq(Keys) /\ b \in Seq(Keys)
          BY <3>1, <3>2
        <4>2. /\ a \o b \in Seq(Keys)
              /\ Len(a \o b) = Len(a) + Len(b)
          BY ONLY <4>1, ConcatProperties
        <4>3. \A i \in 1 .. Len(a) + Len(b) :
                (a \o b)[i] = IF i <= Len(a) THEN a[i] ELSE b[i - Len(a)]
          BY ONLY <4>1, ConcatProperties, Zenon
        <4>4. QED
          BY <3>3, <4>2, <4>3
      <3>5. Len(r) = Len(s) - 1
        BY <3>1, <3>2, <3>4
      <3>6. ASSUME NEW i \in 1 .. Len(r)
            PROVE  r[i] = IF i < p THEN s[i] ELSE s[i + 1]
        <4>1. CASE i < p
          BY <3>1, <3>4, <4>1
        <4>2. CASE i >= p
          <5>1. i - Len(a) \in 1 .. Len(s) - p /\ i - Len(a) + p = i + 1
            BY <3>1, <3>5, <4>2
          <5>2. r[i] = b[i - Len(a)]
            BY <3>1, <3>4, <4>2
          <5>3. b[i - Len(a)] = s[i + 1]
            BY <3>2, <5>1
          <5>4. QED
            BY <4>2, <5>2, <5>3
        <4>3. QED
          BY <4>1, <4>2
      <3>7. QED
        BY <3>4, <3>5, <3>6
    <2> HIDE DEF r
    <2>6. IsInjective(r)
      BY <2>1, <2>5 DEF IsInjective
    <2>7. ToSet(r) = ToSet(s) \ { k }
      <3>1. ASSUME NEW x \in ToSet(r) PROVE x \in ToSet(s) \ { k }
        BY <2>1, <2>5 DEF ToSet, IsInjective
      <3>2. ASSUME NEW x \in ToSet(s) \ { k } PROVE x \in ToSet(r)
        <4>1. PICK i \in 1 .. Len(s) : s[i] = x
          BY <3>2 DEF ToSet
        <4>2. i # p
          BY <2>1, <4>1
        <4>3. CASE i < p
          BY <2>1, <2>5, <4>1, <4>3 DEF ToSet
        <4>4. CASE i > p
          <5>1. i - 1 \in 1 .. Len(r) /\ r[i - 1] = s[i]
            BY <2>1, <2>5, <4>4
          <5>2. QED
            BY <2>5, <4>1, <5>1 DEF ToSet
        <4>5. QED
          BY <2>1, <4>2, <4>3, <4>4
      <3>3. QED
        BY <3>1, <3>2
    <2>8. QED
      BY <2>5, <2>6, <2>7 DEF r
  <1>3. QED
    BY <1>1, <1>2

\* The key moves to the end, or is added there.
LEMMA MovedToEndIs ==
  ASSUME NEW s \in Seq(Keys), IsInjective(s), NEW k \in Keys
  PROVE  LET n == MovedToEnd(s, k)
         IN /\ n \in Seq(Keys) /\ n # << >> /\ IsInjective(n)
            /\ ToSet(n) = ToSet(s) \cup { k }
            /\ Len(n) <= Len(s) + 1 /\ n[Len(n)] = k
  <1> DEFINE r == RemoveFirst(s, k)
             n == MovedToEnd(s, k)
  <1>1. /\ r \in Seq(Keys) /\ IsInjective(r) /\ ToSet(r) = ToSet(s) \ { k }
        /\ Len(r) <= Len(s)
    BY RemovedFromOrder
  <1>2. n = Append(r, k)
    BY DEF MovedToEnd
  <1> HIDE DEF r, n
  <1>3. /\ n \in Seq(Keys) /\ Len(n) = Len(r) + 1 /\ n[Len(n)] = k
        /\ \A i \in 1 .. Len(r) : n[i] = r[i]
    BY <1>1, <1>2
  <1>4. \A i \in 1 .. Len(r) : r[i] # k
    BY <1>1 DEF ToSet
  <1>5. IsInjective(n)
    BY <1>1, <1>3, <1>4 DEF IsInjective
  <1>6. ToSet(n) = ToSet(r) \cup { k }
    BY <1>1, <1>3 DEF ToSet
  <1>7. QED
    BY <1>1, <1>3, <1>5, <1>6 DEF n

-----------------------------------------------------------------------------
(* What trimming and appending do to a window *)

\* The fields of an outcome.
LEMMA RowFields ==
  \A o \in Rows : o.key \in Keys /\ o.at \in Nat /\ o.at <= MaxTime /\ o.ok \in BOOLEAN
  BY HealthAssumption DEF Rows

\* v is w without its first d outcomes.
Dropped(w, v, d) ==
    /\ d \in 0 .. Len(w) /\ Len(v) = Len(w) - d
    /\ \A i \in 1 .. Len(v) : v[i] = w[i + d]

\* Trimming drops expired outcomes at the head, up to the first that is not.
LEMMA TrimIs ==
  ASSUME NEW w \in Seq(Rows), NEW t \in Int
  PROVE  /\ Trim(w, t) \in Seq(Rows)
         /\ \E d \in 0 .. Len(w) :
              /\ Dropped(w, Trim(w, t), d)
              /\ \A i \in 1 .. d : w[i].at < t - Window
              /\ Len(Trim(w, t)) > 0 => Trim(w, t)[1].at >= t - Window
  <1> DEFINE fresh == { i \in DOMAIN w : w[i].at >= t - Window }
             v == Trim(w, t)
  <1>0. /\ \A i \in DOMAIN w : w[i] \in Rows /\ w[i].at \in Int
        /\ t - Window \in Int /\ DOMAIN w = 1 .. Len(w) /\ Len(w) \in Nat
    BY HealthAssumption, RowFields
  <1>1. CASE fresh = {}
    <2>1. v = << >>
      BY <1>1 DEF Trim
    <2>2. Dropped(w, v, Len(w))
      BY <1>0, <2>1 DEF Dropped
    <2>3. \A i \in 1 .. Len(w) : w[i].at < t - Window
      BY <1>0, <1>1
    <2>4. v \in Seq(Rows) /\ ~(Len(v) > 0)
      BY <2>1
    <2> HIDE DEF v
    <2>5. Len(w) \in 0 .. Len(w)
      BY <1>0
    <2>6. QED
      BY <2>2, <2>3, <2>4, <2>5 DEF v
  <1>2. CASE fresh # {}
    <2>1. PICK m \in fresh : \A i \in fresh : m <= i
      <3>1. fresh \subseteq Nat /\ fresh # {}
        BY <1>0, <1>2
      <3>2. QED
        BY <3>1, EarliestPlace
    <2>2. Min(fresh) = m
      <3>1. fresh \subseteq Int
        BY <1>0
      <3> HIDE DEF fresh
      <3>2. QED
        BY <2>1, <3>1, SmallestPlace
    <2>3. v = SubSeq(w, m, Len(w))
      BY <1>2, <2>2 DEF Trim
    <2>4. m \in 1 .. Len(w)
      BY <1>0
    <2>5. \A i \in 1 .. m - 1 : w[i].at < t - Window
      <3>1. ASSUME NEW i \in 1 .. m - 1 PROVE i \in DOMAIN w /\ i \notin fresh
        <4>1. i \in DOMAIN w /\ ~(m <= i)
          BY <1>0, <2>4
        <4> HIDE DEF fresh
        <4>2. QED
          BY <2>1, <4>1
      <3>2. QED
        BY <1>0, <3>1
    <2>6. /\ v \in Seq(Rows) /\ Len(v) = Len(w) - m + 1
          /\ \A i \in 1 .. Len(v) : v[i] = w[i + m - 1]
      BY <1>0, <2>3, <2>4
    <2> HIDE DEF v
    <2>7. Dropped(w, v, m - 1) /\ m - 1 \in 0 .. Len(w)
      BY <1>0, <2>4, <2>6 DEF Dropped
    <2>8. v[1].at >= t - Window
      <3>1. v[1] = w[m]
        BY <1>0, <2>4, <2>6
      <3>2. QED
        BY <3>1
    <2>9. QED
      BY <2>5, <2>6, <2>7, <2>8 DEF v
  <1>3. QED
    BY <1>1, <1>2

\* Two sets that a bijection relates have the same size.
LEMMA SameSize ==
  ASSUME NEW S, NEW T, IsFiniteSet(S), NEW f \in [S -> T],
         \A x, y \in S : f[x] = f[y] => x = y, \A y \in T : \E x \in S : f[x] = y
  PROVE  Cardinality(T) = Cardinality(S)
  <1>1. f \in Bijection(S, T)
    BY DEF Bijection, Injection, Surjection, IsInjective
  <1>2. QED
    BY <1>1, FS_Bijection DEF ExistsBijection

\* The places of a window where an outcome stands.
PlacesOf(w, o) == { i \in DOMAIN w : w[i] = o }

\* There are finitely many of them.
LEMMA CountIsNat ==
  ASSUME NEW w \in Seq(Rows), NEW o
  PROVE  IsFiniteSet(PlacesOf(w, o)) /\ CountOf(w, o) \in Nat
  <1>1. IsFiniteSet(1 .. Len(w))
    BY FS_Interval
  <1>2. PlacesOf(w, o) \subseteq 1 .. Len(w)
    BY DEF PlacesOf
  <1>3. QED
    BY <1>1, <1>2, FS_Subset, FS_CardinalityType DEF CountOf, PlacesOf

\* An appended outcome counts once more, every other as often as before.
LEMMA CountAppend ==
  ASSUME NEW w \in Seq(Rows), NEW x \in Rows, NEW o
  PROVE  CountOf(Append(w, x), o) = CountOf(w, o) + (IF x = o THEN 1 ELSE 0)
  <1> DEFINE v == Append(w, x)
             l == Len(w) + 1
  <1>1. /\ Len(v) = l /\ v[l] = x /\ \A i \in 1 .. Len(w) : v[i] = w[i]
        /\ DOMAIN v = 1 .. l /\ DOMAIN w = 1 .. Len(w) /\ Len(w) \in Nat
    OBVIOUS
  <1>2. l \notin PlacesOf(w, o)
    BY <1>1 DEF PlacesOf
  <1>3. PlacesOf(v, o) = IF x = o THEN PlacesOf(w, o) \cup { l } ELSE PlacesOf(w, o)
    <2> HIDE DEF v
    <2>1. \A i : i \in 1 .. l <=> i \in 1 .. Len(w) \/ i = l
      BY <1>1
    <2> HIDE DEF l
    <2>2. QED
      BY <1>1, <2>1 DEF PlacesOf
  <1> HIDE DEF v, l
  <1>4. IsFiniteSet(PlacesOf(w, o)) /\ CountOf(w, o) \in Nat
    BY CountIsNat
  <1>5. Cardinality(PlacesOf(w, o) \cup { l }) = Cardinality(PlacesOf(w, o)) + 1
    BY <1>2, <1>4, FS_AddElement
  <1>6. \A s : CountOf(s, o) = Cardinality(PlacesOf(s, o))
    BY DEF CountOf, PlacesOf
  <1>7. CASE x = o
    BY <1>3, <1>4, <1>5, <1>6, <1>7 DEF v
  <1>8. CASE x # o
    BY <1>3, <1>4, <1>6, <1>8 DEF v
  <1>9. QED
    BY <1>7, <1>8

\* Dropping what differs from an outcome at the head does not change its count.
LEMMA CountDropped ==
  ASSUME NEW w \in Seq(Rows), NEW v \in Seq(Rows), NEW d, Dropped(w, v, d), NEW o,
         \A i \in 1 .. d : w[i] # o
  PROVE  CountOf(v, o) = CountOf(w, o)
  <1> DEFINE f == [ i \in PlacesOf(v, o) |-> i + d ]
  <1>1. /\ d \in 0 .. Len(w) /\ Len(v) = Len(w) - d
        /\ \A i \in 1 .. Len(v) : v[i] = w[i + d]
        /\ DOMAIN v = 1 .. Len(v) /\ DOMAIN w = 1 .. Len(w) /\ Len(w) \in Nat
    BY DEF Dropped
  <1>2. f \in [ PlacesOf(v, o) -> PlacesOf(w, o) ]
    BY <1>1 DEF PlacesOf
  <1>3. \A i, j \in PlacesOf(v, o) : f[i] = f[j] => i = j
    BY <1>1 DEF PlacesOf
  <1>4. \A j \in PlacesOf(w, o) : \E i \in PlacesOf(v, o) : f[i] = j
    <2> SUFFICES ASSUME NEW j \in PlacesOf(w, o)
                 PROVE  \E i \in PlacesOf(v, o) : f[i] = j
      OBVIOUS
    <2>1. j \in 1 .. Len(w) /\ w[j] = o /\ ~(j \in 1 .. d)
      BY <1>1 DEF PlacesOf
    <2>2. j - d \in 1 .. Len(v) /\ j - d + d = j
      BY <1>1, <2>1
    <2>3. j - d \in PlacesOf(v, o)
      BY <1>1, <2>1, <2>2 DEF PlacesOf
    <2>4. QED
      BY <2>2, <2>3
  <1>5. IsFiniteSet(PlacesOf(v, o))
    BY CountIsNat
  <1> HIDE DEF f
  <1>6. QED
    BY <1>2, <1>3, <1>4, <1>5, SameSize DEF CountOf, PlacesOf

\* Trimming at t does not change the count of what has not expired at t.
LEMMA CountTrim ==
  ASSUME NEW w \in Seq(Rows), NEW t \in Int, NEW o \in Rows, o.at >= t - Window
  PROVE  CountOf(Trim(w, t), o) = CountOf(w, o)
  <1>1. Trim(w, t) \in Seq(Rows)
    BY TrimIs
  <1>2. PICK d \in 0 .. Len(w) :
          Dropped(w, Trim(w, t), d) /\ \A i \in 1 .. d : w[i].at < t - Window
    BY TrimIs
  <1>3. \A i \in 1 .. d : w[i] # o
    <2>1. o.at \in Int /\ t - Window \in Int /\ ~(o.at < t - Window)
      BY HealthAssumption, RowFields
    <2>2. QED
      BY <1>2, <2>1
  <1>4. QED
    BY <1>1, <1>2, <1>3, CountDropped

\* What is not in a window counts for nothing.
LEMMA CountNone ==
  ASSUME NEW w \in Seq(Rows), NEW o, \A i \in DOMAIN w : w[i] # o
  PROVE  CountOf(w, o) = 0
  <1>1. PlacesOf(w, o) = {}
    BY DEF PlacesOf
  <1>2. QED
    BY <1>1, FS_EmptySet DEF CountOf, PlacesOf

\* A verdict depends on how often each outcome is in the window, not on their
\* order.
LEMMA VerdictByCounts ==
  ASSUME NEW w \in Seq(Rows), NEW v \in Seq(Rows),
         \A o \in Rows : CountOf(w, o) = CountOf(v, o)
  PROVE  Degraded(w) <=> Degraded(v)
  <1> DEFINE B == [ o \in Rows |-> CHOOSE f : f \in Bijection(PlacesOf(w, o), PlacesOf(v, o)) ]
             h == [ i \in DOMAIN w |-> B[w[i]][i] ]
  <1>1. ASSUME NEW o \in Rows
        PROVE  B[o] \in Bijection(PlacesOf(w, o), PlacesOf(v, o))
    <2>1. /\ IsFiniteSet(PlacesOf(w, o)) /\ IsFiniteSet(PlacesOf(v, o))
          /\ Cardinality(PlacesOf(w, o)) = Cardinality(PlacesOf(v, o))
      BY CountIsNat DEF CountOf, PlacesOf
    <2>2. ExistsBijection(PlacesOf(w, o), PlacesOf(v, o))
      BY <2>1, FS_SameCardinalityBij
    <2>3. QED
      BY <2>2 DEF ExistsBijection
  <1>2. ASSUME NEW o \in Rows
        PROVE  /\ \A i \in PlacesOf(w, o) : B[o][i] \in PlacesOf(v, o)
               /\ \A i, j \in PlacesOf(w, o) : B[o][i] = B[o][j] => i = j
               /\ \A j \in PlacesOf(v, o) : \E i \in PlacesOf(w, o) : B[o][i] = j
    <2> DEFINE f == B[o]
    <2>1. f \in Bijection(PlacesOf(w, o), PlacesOf(v, o))
      BY <1>1
    <2> HIDE DEF f
    <2>2. /\ \A i \in PlacesOf(w, o) : f[i] \in PlacesOf(v, o)
          /\ \A i, j \in PlacesOf(w, o) : f[i] = f[j] => i = j
          /\ \A j \in PlacesOf(v, o) : \E i \in PlacesOf(w, o) : f[i] = j
      BY <2>1 DEF Bijection, Injection, Surjection, IsInjective
    <2>3. QED
      BY <2>2 DEF f
  <1> HIDE DEF B
  <1>3. /\ \A i \in DOMAIN w : w[i] \in Rows /\ i \in PlacesOf(w, w[i])
        /\ \A j \in DOMAIN v : v[j] \in Rows /\ j \in PlacesOf(v, v[j])
    BY DEF PlacesOf
  <1>4. \A i \in DOMAIN w : h[i] \in DOMAIN v /\ v[h[i]] = w[i]
    BY <1>2, <1>3 DEF PlacesOf
  <1>5. \A i, j \in DOMAIN w : h[i] = h[j] => i = j
    <2> SUFFICES ASSUME NEW i \in DOMAIN w, NEW j \in DOMAIN w, h[i] = h[j]
                 PROVE  i = j
      OBVIOUS
    <2>1. w[i] = w[j]
      BY <1>4
    <2>2. B[w[i]][i] = B[w[i]][j]
      BY <2>1
    <2>3. QED
      BY <1>2, <1>3, <2>1, <2>2
  <1>6. \A j \in DOMAIN v : \E i \in DOMAIN w : h[i] = j
    <2> SUFFICES ASSUME NEW j \in DOMAIN v PROVE \E i \in DOMAIN w : h[i] = j
      OBVIOUS
    <2>1. PICK i \in PlacesOf(w, v[j]) : B[v[j]][i] = j
      BY <1>2, <1>3
    <2>2. i \in DOMAIN w /\ w[i] = v[j]
      BY <2>1 DEF PlacesOf
    <2>3. QED
      BY <2>1, <2>2
  <1> HIDE DEF h
  <1> DEFINE good(s) == { i \in DOMAIN s : s[i].ok }
             g == [ i \in good(w) |-> h[i] ]
             all == [ i \in DOMAIN w |-> h[i] ]
  <1>7. IsFiniteSet(DOMAIN w) /\ IsFiniteSet(good(w))
    <2>1. IsFiniteSet(1 .. Len(w))
      BY FS_Interval
    <2>2. DOMAIN w = 1 .. Len(w) /\ good(w) \subseteq DOMAIN w
      OBVIOUS
    <2>3. QED
      BY <2>1, <2>2, FS_Subset
  <1>8. Len(w) = Len(v)
    <2>1. Cardinality(DOMAIN v) = Cardinality(DOMAIN w)
      <3>1. all \in [ DOMAIN w -> DOMAIN v ]
        BY <1>4
      <3>2. \A i, j \in DOMAIN w : all[i] = all[j] => i = j
        BY <1>5
      <3>3. \A j \in DOMAIN v : \E i \in DOMAIN w : all[i] = j
        BY <1>6
      <3> DEFINE S == DOMAIN w
                 T == DOMAIN v
      <3>4. /\ all \in [ S -> T ] /\ IsFiniteSet(S)
            /\ \A i, j \in S : all[i] = all[j] => i = j
            /\ \A j \in T : \E i \in S : all[i] = j
        BY <1>7, <3>1, <3>2, <3>3
      <3> HIDE DEF all, S, T
      <3>5. Cardinality(T) = Cardinality(S)
        BY ONLY <3>4, SameSize
      <3>6. QED
        BY <3>5 DEF S, T
    <2>2. /\ DOMAIN v = 1 .. Len(v) /\ DOMAIN w = 1 .. Len(w)
          /\ Len(v) \in Nat /\ Len(w) \in Nat
      OBVIOUS
    <2>3. \A n \in Nat : Cardinality(1 .. n) = n
      BY FS_Interval
    <2>4. QED
      BY <2>1, <2>2, <2>3
  <1>9. Cardinality(good(v)) = Cardinality(good(w))
    <2>1. g \in [ good(w) -> good(v) ]
      BY <1>4
    <2>2. \A i, j \in good(w) : g[i] = g[j] => i = j
      BY <1>5
    <2>3. \A j \in good(v) : \E i \in good(w) : g[i] = j
      BY <1>4, <1>6
    <2> HIDE DEF g, good
    <2>4. QED
      BY <1>7, <2>1, <2>2, <2>3, SameSize
  <1>10. \A s : Degraded(s) <=> /\ Len(s) >= MinSamples
                                /\ Cardinality(good(s)) * RateDen < RateNum * Len(s)
    BY DEF Degraded
  <1> HIDE DEF good
  <1>11. QED
    BY <1>8, <1>9, <1>10

-----------------------------------------------------------------------------
(* The memory of the monitor *)

Memory == [ window : [ Keys -> Seq(Rows) ], order : Seq(Keys), gone : SUBSET Keys ]

\* At most MaxKeys windows, and an empty one for each key out of the order.
MemoryOK(m) ==
    /\ m \in Memory /\ Len(m.order) <= MaxKeys /\ IsInjective(m.order)
    /\ \A k \in Keys : m.window[k] # << >> => k \in ToSet(m.order)

\* n has the windows of m, but for those that were evicted.
Keeps(m, n) ==
    /\ m.gone \subseteq n.gone
    /\ \A j \in Keys : n.window[j] = m.window[j] \/ (j \in n.gone /\ n.window[j] = << >>)

\* A window that is used is not evicted.
LEMMA TouchIs ==
  ASSUME NEW m, MemoryOK(m), NEW k \in Keys
  PROVE  LET n == Touch(m, k)
         IN /\ MemoryOK(n) /\ Keeps(m, n)
            /\ n.window[k] = m.window[k] /\ k \in ToSet(n.order)
  <1> DEFINE s == MovedToEnd(m.order, k)
             victim == Head(s)
             n == Touch(m, k)
  <1>0. /\ m.order \in Seq(Keys) /\ IsInjective(m.order) /\ Len(m.order) <= MaxKeys
        /\ m.window \in [ Keys -> Seq(Rows) ] /\ m.gone \subseteq Keys
        /\ DOMAIN m = { "window", "order", "gone" } /\ MaxKeys \in Nat \ { 0 }
    BY HealthAssumption DEF MemoryOK, Memory
  <1>1. /\ s \in Seq(Keys) /\ s # << >> /\ IsInjective(s)
        /\ ToSet(s) = ToSet(m.order) \cup { k }
        /\ Len(s) <= Len(m.order) + 1 /\ s[Len(s)] = k
    BY <1>0, MovedToEndIs
  <1>2. CASE Len(s) <= MaxKeys
    <2>1. n = [ m EXCEPT !.order = s ]
      BY <1>2 DEF Touch
    <2>2. n.order = s /\ n.window = m.window /\ n.gone = m.gone /\ n \in Memory
      <3> HIDE DEF s
      <3>1. QED
        BY <1>1, <2>1 DEF MemoryOK, Memory
    <2> HIDE DEF n, s
    <2>3. QED
      BY <1>1, <1>2, <2>2 DEF MemoryOK, Keeps, n
  <1>3. CASE Len(s) > MaxKeys
    <2>1. n = [ m EXCEPT !.order = Tail(s), !.window[victim] = << >>,
                         !.gone = @ \cup { victim } ]
      <3>1. ~(Len(s) <= MaxKeys)
        BY <1>0, <1>1, <1>3
      <3>2. QED
        BY <3>1 DEF Touch
    <2>2. /\ Tail(s) \in Seq(Keys) /\ Len(Tail(s)) = Len(s) - 1 /\ victim = s[1]
          /\ \A i \in 1 .. Len(Tail(s)) : Tail(s)[i] = s[i + 1]
      <3> HIDE DEF s
      <3>1. QED
        BY <1>1
    <2>3. victim \in Keys /\ victim # k /\ Len(s) > 1
      BY <1>0, <1>1, <1>3, <2>2 DEF IsInjective
    <2> DEFINE r == Tail(s)
    <2>4. /\ IsInjective(r) /\ ToSet(r) = ToSet(s) \ { victim }
      <3> HIDE DEF r, s
      <3>1. r \in Seq(Keys) /\ Len(r) = Len(s) - 1 /\ \A i \in 1 .. Len(r) : r[i] = s[i + 1]
        BY <2>2 DEF r
      <3>2. IsInjective(r)
        <4> SUFFICES ASSUME NEW a \in 1 .. Len(r), NEW b \in 1 .. Len(r), r[a] = r[b]
                     PROVE  a = b
          BY <3>1 DEF IsInjective
        <4>1. /\ a + 1 \in DOMAIN s /\ b + 1 \in DOMAIN s
              /\ s[a + 1] = s[b + 1]
          <5>1. \A i \in 1 .. Len(r) : i + 1 \in DOMAIN s /\ r[i] = s[i + 1]
            BY <1>1, <3>1
          <5>2. QED
            BY <5>1
        <4>2. a + 1 = b + 1
          BY <1>1, <4>1 DEF IsInjective
        <4>3. QED
          BY <4>2
      <3>3. ASSUME NEW x \in ToSet(r) PROVE x \in ToSet(s) /\ x # victim
        BY <1>1, <2>2, <3>1, <3>3 DEF ToSet, IsInjective
      <3>4. ASSUME NEW x \in ToSet(s), x # victim PROVE x \in ToSet(r)
        <4>1. PICK i \in 1 .. Len(s) : s[i] = x
          BY <1>1, <3>4 DEF ToSet
        <4>2. i # 1
          BY <2>2, <3>4, <4>1
        <4>3. i - 1 \in 1 .. Len(r) /\ r[i - 1] = s[i]
          BY <3>1, <4>2
        <4>4. QED
          BY <3>1, <4>1, <4>3 DEF ToSet
      <3>5. QED
        BY <3>2, <3>3, <3>4
    <2> HIDE DEF r, s, victim
    <2>5. /\ n.order = r /\ n.gone = m.gone \cup { victim }
          /\ n.window = [ m.window EXCEPT ![victim] = << >> ]
          /\ DOMAIN n = { "window", "order", "gone" }
      BY <1>0, <2>1 DEF r
    <2>6. n \in Memory
      <3>1. << >> \in Seq(Rows)
        OBVIOUS
      <3>2. n.window \in [ Keys -> Seq(Rows) ] /\ n.order \in Seq(Keys) /\ n.gone \in SUBSET Keys
        BY <1>0, <2>2, <2>3, <2>5, <3>1 DEF r
      <3> DEFINE q == [ window |-> n.window, order |-> n.order, gone |-> n.gone ]
      <3>3. n = q
        BY <2>1 DEF MemoryOK, Memory
      <3>4. q \in Memory
        BY <3>2 DEF Memory
      <3>5. QED
        BY <3>3, <3>4
    <2> HIDE DEF n
    <2>7. \A j \in Keys : n.window[j] = IF j = victim THEN << >> ELSE m.window[j]
      BY <1>0, <2>5
    <2>8. Len(n.order) <= MaxKeys
      BY <1>0, <1>1, <2>2, <2>5 DEF r
    <2>9. MemoryOK(n)
      BY <1>1, <2>3, <2>4, <2>5, <2>6, <2>7, <2>8 DEF MemoryOK
    <2>10. QED
      BY <1>1, <2>3, <2>4, <2>5, <2>7, <2>9 DEF Keeps, n
  <1>4. QED
    BY <1>0, <1>1, <1>2, <1>3


\* Replacing the window of a tracked key changes nothing else.
LEMMA RewindowIs ==
  ASSUME NEW m, MemoryOK(m), NEW k \in ToSet(m.order), k \in Keys, NEW v \in Seq(Rows)
  PROVE  LET n == [ m EXCEPT !.window[k] = v ]
         IN /\ MemoryOK(n) /\ n.gone = m.gone
            /\ \A j \in Keys : n.window[j] = IF j = k THEN v ELSE m.window[j]
  <1> DEFINE n == [ m EXCEPT !.window[k] = v ]
             q == [ m.window EXCEPT ![k] = v ]
  <1>1. /\ m.window \in [ Keys -> Seq(Rows) ] /\ m \in Memory
        /\ Len(m.order) <= MaxKeys /\ IsInjective(m.order)
        /\ \A j \in Keys : m.window[j] # << >> => j \in ToSet(m.order)
    BY DEF MemoryOK, Memory
  <1>2. n = [ m EXCEPT !.window = q ]
    OBVIOUS
  <1>3. /\ q \in [ Keys -> Seq(Rows) ]
        /\ \A j \in Keys : q[j] = IF j = k THEN v ELSE m.window[j]
    BY <1>1
  <1> HIDE DEF q, n
  <1>4. n.window = q /\ n.order = m.order /\ n.gone = m.gone /\ n \in Memory
    BY <1>1, <1>2, <1>3 DEF Memory
  <1>5. MemoryOK(n)
    BY <1>1, <1>3, <1>4 DEF MemoryOK
  <1>6. QED
    BY <1>3, <1>4, <1>5 DEF n

\* Reading or changing the window of a key, at the cost perhaps of another's.
LEMMA TouchAndRewindow ==
  ASSUME NEW m, MemoryOK(m), NEW k \in Keys, NEW v \in Seq(Rows)
  PROVE  LET n == [ Touch(m, k) EXCEPT !.window[k] = v ]
         IN /\ MemoryOK(n) /\ m.gone \subseteq n.gone /\ n.window[k] = v
            /\ k \in ToSet(n.order)
            /\ \A j \in Keys \ { k } :
                 n.window[j] = m.window[j] \/ (j \in n.gone /\ n.window[j] = << >>)
  <1> DEFINE t == Touch(m, k)
             n == [ t EXCEPT !.window[k] = v ]
  <1>1. MemoryOK(t) /\ Keeps(m, t) /\ k \in ToSet(t.order)
    BY TouchIs
  <1> HIDE DEF t
  <1>2. /\ MemoryOK(n) /\ n.gone = t.gone
        /\ \A j \in Keys : n.window[j] = IF j = k THEN v ELSE t.window[j]
    BY <1>1, RewindowIs
  <1>3. n.order = t.order
    BY <1>1 DEF MemoryOK, Memory
  <1> HIDE DEF n
  <1>4. /\ MemoryOK(n) /\ m.gone \subseteq n.gone /\ n.window[k] = v
        /\ k \in ToSet(n.order)
        /\ \A j \in Keys \ { k } :
             n.window[j] = m.window[j] \/ (j \in n.gone /\ n.window[j] = << >>)
    BY <1>1, <1>2, <1>3 DEF Keeps
  <1>5. QED
    BY <1>4 DEF n, t


\* An appended outcome goes to its own key.
LEMMA RememberIs ==
  ASSUME NEW m, MemoryOK(m), NEW o \in Rows
  PROVE  LET n == Remember(m, o)
         IN /\ MemoryOK(n) /\ m.gone \subseteq n.gone
            /\ n.window[o.key] = Append(m.window[o.key], o)
            /\ o.key \in ToSet(n.order)
            /\ \A j \in Keys \ { o.key } :
                 n.window[j] = m.window[j] \/ (j \in n.gone /\ n.window[j] = << >>)
  <1> DEFINE k == o.key
             v == Append(m.window[k], o)
             n == Remember(m, o)
  <1>1. k \in Keys /\ v \in Seq(Rows)
    BY RowFields DEF MemoryOK, Memory
  <1>2. Touch(m, k).window[k] = m.window[k]
    BY <1>1, TouchIs
  <1>3. n = [ Touch(m, k) EXCEPT !.window[k] = v ]
    BY <1>2 DEF Remember
  <1> HIDE DEF k, v, n
  <1>4. /\ MemoryOK(n) /\ m.gone \subseteq n.gone /\ n.window[k] = v
        /\ k \in ToSet(n.order)
        /\ \A j \in Keys \ { k } :
             n.window[j] = m.window[j] \/ (j \in n.gone /\ n.window[j] = << >>)
    BY <1>1, <1>3, TouchAndRewindow
  <1>5. QED
    BY <1>4 DEF n, k, v

\* An appended outcome that is then trimmed at t.
LEMMA RememberAndTrim ==
  ASSUME NEW m, MemoryOK(m), NEW o \in Rows, NEW t \in Int
  PROVE  LET n == [ Remember(m, o) EXCEPT !.window[o.key] = Trim(@, t) ]
         IN /\ MemoryOK(n) /\ m.gone \subseteq n.gone
            /\ n.window[o.key] = Trim(Append(m.window[o.key], o), t)
            /\ \A j \in Keys \ { o.key } :
                 n.window[j] = m.window[j] \/ (j \in n.gone /\ n.window[j] = << >>)
  <1> DEFINE k == o.key
             v == Append(m.window[k], o)
             r == Remember(m, o)
             u == Trim(v, t)
             n == [ r EXCEPT !.window[k] = Trim(@, t) ]
  <1>1. k \in Keys /\ v \in Seq(Rows)
    BY RowFields DEF MemoryOK, Memory
  <1>2. u \in Seq(Rows)
    BY <1>1, TrimIs
  <1>3. /\ MemoryOK(r) /\ m.gone \subseteq r.gone /\ r.window[k] = v
        /\ k \in ToSet(r.order)
        /\ \A j \in Keys \ { k } :
             r.window[j] = m.window[j] \/ (j \in r.gone /\ r.window[j] = << >>)
    BY RememberIs
  <1>4. n = [ r EXCEPT !.window[k] = u ]
    BY <1>3
  <1> HIDE DEF k, v, r, u, n
  <1>5. /\ MemoryOK(n) /\ n.gone = r.gone
        /\ \A j \in Keys : n.window[j] = IF j = k THEN u ELSE r.window[j]
    <2>1. MemoryOK(r) /\ k \in ToSet(r.order) /\ k \in Keys /\ u \in Seq(Rows)
      BY <1>1, <1>2, <1>3
    <2>2. QED
      BY ONLY <1>4, <2>1, RewindowIs
  <1>6. /\ MemoryOK(n) /\ m.gone \subseteq n.gone /\ n.window[k] = u
        /\ \A j \in Keys \ { k } :
             n.window[j] = m.window[j] \/ (j \in n.gone /\ n.window[j] = << >>)
    BY <1>1, <1>3, <1>5
  <1>7. QED
    BY <1>6 DEF n, u, v, k, r

\* A window that is trimmed at t by a reader.
LEMMA TouchAndTrim ==
  ASSUME NEW m, MemoryOK(m), NEW k \in Keys, NEW t \in Int
  PROVE  LET n == [ Touch(m, k) EXCEPT !.window[k] = Trim(@, t) ]
         IN /\ MemoryOK(n) /\ m.gone \subseteq n.gone
            /\ n.window[k] = Trim(m.window[k], t)
            /\ \A j \in Keys \ { k } :
                 n.window[j] = m.window[j] \/ (j \in n.gone /\ n.window[j] = << >>)
  <1> DEFINE u == Trim(m.window[k], t)
             n == [ Touch(m, k) EXCEPT !.window[k] = Trim(@, t) ]
  <1>1. u \in Seq(Rows)
    BY TrimIs DEF MemoryOK, Memory
  <1>2. Touch(m, k).window[k] = m.window[k]
    BY TouchIs
  <1>3. n = [ Touch(m, k) EXCEPT !.window[k] = u ]
    BY <1>2
  <1> HIDE DEF u, n
  <1>4. /\ MemoryOK(n) /\ m.gone \subseteq n.gone /\ n.window[k] = u
        /\ \A j \in Keys \ { k } :
             n.window[j] = m.window[j] \/ (j \in n.gone /\ n.window[j] = << >>)
    BY <1>1, <1>3, TouchAndRewindow
  <1>5. QED
    BY <1>4 DEF n, u

-----------------------------------------------------------------------------
(* The outcomes in a window *)

\* A window of key k at time n: nothing in it is in the future, and nothing
\* stands more than Lag before a later arrival.
WindowOK(w, k, n) ==
    /\ \A i \in DOMAIN w : w[i].key = k /\ w[i].at <= n
    /\ \A i, j \in DOMAIN w : i < j => w[i].at <= w[j].at + Lag

\* Trimming keeps it so.
LEMMA WindowTrim ==
  ASSUME NEW w \in Seq(Rows), NEW k, NEW n, WindowOK(w, k, n), NEW t \in Int
  PROVE  WindowOK(Trim(w, t), k, n)
  <1> DEFINE v == Trim(w, t)
  <1>1. v \in Seq(Rows)
    BY TrimIs
  <1>2. PICK d \in 0 .. Len(w) : Dropped(w, v, d)
    BY TrimIs
  <1> HIDE DEF v
  <1>3. \A i \in DOMAIN v : i \in Nat /\ i + d \in DOMAIN w /\ v[i] = w[i + d]
    BY <1>1, <1>2 DEF Dropped
  <1>4. \A i, j \in DOMAIN v : i < j => i + d < j + d
    BY <1>3
  <1>5. WindowOK(v, k, n)
    BY <1>3, <1>4 DEF WindowOK
  <1>6. QED
    BY <1>5 DEF v

\* So does an outcome of the last Lag.
LEMMA WindowAppend ==
  ASSUME NEW w \in Seq(Rows), NEW o \in Rows, NEW n, WindowOK(w, o.key, n), o.at <= n,
         \A i \in DOMAIN w : w[i].at <= o.at + Lag
  PROVE  WindowOK(Append(w, o), o.key, n)
  <1> DEFINE v == Append(w, o)
             l == Len(w) + 1
  <1>1. /\ v[l] = o /\ \A i \in DOMAIN w : v[i] = w[i] /\ i < l
        /\ \A i \in DOMAIN v : i = l \/ i \in DOMAIN w
        /\ \A i \in DOMAIN v : ~(l < i)
    OBVIOUS
  <1> HIDE DEF v, l
  <1>2. \A i \in DOMAIN v : v[i].key = o.key /\ v[i].at <= n
    BY <1>1 DEF WindowOK
  <1>3. \A i, j \in DOMAIN v : i < j => v[i].at <= v[j].at + Lag
    <2> SUFFICES ASSUME NEW i \in DOMAIN v, NEW j \in DOMAIN v, i < j
                 PROVE  v[i].at <= v[j].at + Lag
      OBVIOUS
    <2>1. i \in DOMAIN w
      BY <1>1
    <2>2. CASE j = l
      BY <1>1, <2>1, <2>2
    <2>3. CASE j \in DOMAIN w
      BY <1>1, <2>1, <2>3 DEF WindowOK
    <2>4. QED
      BY <1>1, <2>2, <2>3
  <1>4. QED
    BY <1>2, <1>3 DEF WindowOK, v

\* What a trimmed window holds is not older than the window and the lag.
LEMMA TrimmedIsRecent ==
  ASSUME NEW w \in Seq(Rows), NEW k, NEW n \in Nat, WindowOK(w, k, n),
         NEW o \in ToSet(Trim(w, n))
  PROVE  o.at >= n - Window - Lag
  <1> DEFINE v == Trim(w, n)
  <1>1. v \in Seq(Rows) /\ (Len(v) > 0 => v[1].at >= n - Window)
    BY TrimIs
  <1>2. WindowOK(v, k, n)
    BY WindowTrim
  <1> HIDE DEF v
  <1>3. PICK i \in DOMAIN v : v[i] = o
    BY DEF ToSet, v
  <1>4. /\ i \in Nat /\ i >= 1 /\ 1 \in DOMAIN v /\ Len(v) > 0
        /\ v[1] \in Rows /\ v[i] \in Rows
    BY <1>1, <1>3
  <1>5. v[1].at <= v[i].at + Lag
    <2>1. CASE i = 1
      BY <1>4, <2>1, RowFields, HealthAssumption
    <2>2. CASE i # 1
      BY <1>2, <1>3, <1>4, <2>2 DEF WindowOK
    <2>3. QED
      BY <2>1, <2>2
  <1>6. v[1].at \in Nat /\ v[i].at \in Nat
    BY <1>4, RowFields
  <1>7. QED
    BY <1>1, <1>3, <1>4, <1>5, <1>6, HealthAssumption


-----------------------------------------------------------------------------
(* The inductive invariant *)

HealthTypeOK ==
    /\ MemoryOK(tracked)
    /\ log \in [ Rows -> Nat ] /\ pending \in [ Rows -> Nat ]
    /\ now \in 0 .. MaxTime /\ loading \in BOOLEAN
    /\ before \in [ firm : SUBSET Keys, degraded : SUBSET Keys ]

WindowsOK == \A k \in Keys : WindowOK(tracked.window[k], k, now)

\* While the process loads, what it has replayed and what it has yet to replay
\* is the whole table; when it serves, that is so of the last Window.
Counted ==
    \A o \in Rows : o.key \notin tracked.gone /\ (loading \/ o.at >= now - Window) =>
        CountOf(tracked.window[o.key], o) + pending[o] = log[o]

\* What is yet to be replayed is no older than what was.
PendingOK ==
    \A o \in Rows :
        /\ log[o] > 0 => o.at <= now
        /\ pending[o] > 0 =>
             /\ loading /\ log[o] > 0
             /\ \A k \in Keys : \A i \in DOMAIN tracked.window[k] :
                  tracked.window[k][i].at <= o.at

\* w holds the outcomes of k in the table.
AsLogged(w, k) ==
    \A o \in Rows : CountOf(w, o) = IF o.key = k THEN log[o] ELSE 0

\* Whoever holds the outcomes of the table comes to the old verdict.
VerdictsKept ==
    loading => \A k \in before.firm : \A w \in Seq(Rows) :
        AsLogged(w, k) => (Degraded(w) <=> k \in before.degraded)

HealthInv == HealthTypeOK /\ WindowsOK /\ Counted /\ PendingOK /\ VerdictsKept


\* The windows stay right when one of them does and others may be evicted.
LEMMA WindowsAfter ==
  ASSUME NEW m, NEW n, NEW k \in Keys, NEW t,
         \A j \in Keys : WindowOK(m.window[j], j, t), WindowOK(n.window[k], k, t),
         \A j \in Keys \ { k } :
           n.window[j] = m.window[j] \/ (j \in n.gone /\ n.window[j] = << >>)
  PROVE  \A j \in Keys : WindowOK(n.window[j], j, t)
  <1> SUFFICES ASSUME NEW j \in Keys PROVE WindowOK(n.window[j], j, t)
    OBVIOUS
  <1>1. WindowOK(<< >>, j, t)
    BY DEF WindowOK
  <1>2. QED
    BY <1>1

\* The table is empty to begin with, and so is the memory.
LEMMA InitHealthInv == Init => HealthInv
  <1> SUFFICES ASSUME Init PROVE HealthInv
    OBVIOUS
  <1> USE DEF Init
  <1>1. /\ tracked.window = [ k \in Keys |-> << >> ] /\ tracked.order = << >>
        /\ tracked.gone = {} /\ tracked \in Memory
    BY DEF Empty, Memory
  <1>2. MemoryOK(tracked)
    <2>1. Len(<< >>) = 0 /\ IsInjective(<< >>)
      BY DEF IsInjective
    <2>2. QED
      BY <1>1, <2>1, HealthAssumption DEF MemoryOK
  <1>3. HealthTypeOK
    <2>1. 0 \in 0 .. MaxTime
      BY HealthAssumption
    <2>2. before \in [ firm : SUBSET Keys, degraded : SUBSET Keys ]
      BY DEF NoVerdicts
    <2>3. NoRows \in [ Rows -> Nat ]
      BY DEF NoRows
    <2>4. QED
      BY <1>2, <2>1, <2>2, <2>3 DEF HealthTypeOK
  <1>4. WindowsOK
    BY <1>1 DEF WindowsOK, WindowOK
  <1>5. \A o \in Rows : log[o] = 0 /\ pending[o] = 0
    BY DEF NoRows
  <1>6. Counted
    <2>1. \A o \in Rows : CountOf(<< >>, o) = 0
      <3>1. << >> \in Seq(Rows) /\ DOMAIN << >> = {}
        OBVIOUS
      <3>2. QED
        BY <3>1, CountNone
    <2>2. QED
      BY <1>1, <1>5, <2>1, RowFields DEF Counted
  <1>7. PendingOK
    BY <1>5 DEF PendingOK
  <1>8. VerdictsKept
    BY DEF VerdictsKept
  <1>9. QED
    BY <1>3, <1>4, <1>6, <1>7, <1>8 DEF HealthInv

\* What the invariant says of the values.
LEMMA InvFacts ==
  ASSUME HealthInv
  PROVE  /\ MemoryOK(tracked) /\ log \in [ Rows -> Nat ] /\ pending \in [ Rows -> Nat ]
         /\ now \in Nat /\ now <= MaxTime /\ tracked.window \in [ Keys -> Seq(Rows) ]
         /\ \A k \in Keys : tracked.window[k] \in Seq(Rows)
  <1>1. HealthTypeOK
    BY DEF HealthInv
  <1>2. /\ MemoryOK(tracked) /\ log \in [ Rows -> Nat ] /\ pending \in [ Rows -> Nat ]
        /\ now \in 0 .. MaxTime
    BY <1>1 DEF HealthTypeOK
  <1>3. tracked.window \in [ Keys -> Seq(Rows) ]
    BY <1>2 DEF MemoryOK, Memory
  <1>4. QED
    BY <1>2, <1>3, HealthAssumption

\* A webhook is late by no more than Lag and never early.
LEMMA EventTimesAre ==
  ASSUME HealthInv, NEW t \in EventTimes
  PROVE  t \in Nat /\ t <= now /\ now - Lag <= t
  <1>1. now \in Nat /\ Lag \in Nat
    BY InvFacts, HealthAssumption
  <1>2. QED
    BY <1>1 DEF EventTimes

\* A process that serves has replayed the table.
LEMMA NothingPending ==
  ASSUME HealthInv, ~loading, NEW o \in Rows
  PROVE  pending[o] = 0
  BY DEF HealthInv, HealthTypeOK, PendingOK

\* An outcome arrives, late perhaps.
LEMMA ObserveInv ==
  ASSUME HealthInv, NEW k \in Keys, NEW ok \in BOOLEAN, NEW at \in EventTimes,
         Observe(k, ok, at)
  PROVE  HealthInv'
  <1> DEFINE o == Observation(k, at, ok)
  <1>0. /\ MemoryOK(tracked) /\ log \in [ Rows -> Nat ] /\ pending \in [ Rows -> Nat ]
        /\ now \in Nat /\ now <= MaxTime /\ tracked.window \in [ Keys -> Seq(Rows) ]
        /\ ~loading /\ at \in Nat /\ at <= now /\ now - Lag <= at
    <2>1. ~loading
      BY DEF Observe
    <2>2. QED
      BY <2>1, InvFacts, EventTimesAre
  <1>1. o \in Rows /\ o.key = k /\ o.at = at
    <2>1. at \in 0 .. MaxTime
      BY <1>0, HealthAssumption
    <2>2. QED
      BY <2>1 DEF Observation, Rows
  <1>2. /\ tracked' = [ Remember(tracked, o) EXCEPT !.window[o.key] = Trim(@, at) ]
        /\ log' = [ log EXCEPT ![o] = @ + 1 ]
        /\ UNCHANGED << now, loading, pending, before >>
    BY <1>1 DEF Observe
  <1> HIDE DEF o
  <1> DEFINE w == Append(tracked.window[k], o)
  <1>3. /\ MemoryOK(tracked)' /\ tracked.gone \subseteq tracked'.gone
        /\ tracked'.window[k] = Trim(w, at)
        /\ \A j \in Keys \ { k } :
             \/ tracked'.window[j] = tracked.window[j]
             \/ j \in tracked'.gone /\ tracked'.window[j] = << >>
    <2> DEFINE n == [ Remember(tracked, o) EXCEPT !.window[o.key] = Trim(@, at) ]
    <2>1. /\ MemoryOK(n) /\ tracked.gone \subseteq n.gone
          /\ n.window[o.key] = Trim(Append(tracked.window[o.key], o), at)
          /\ \A j \in Keys \ { o.key } :
               n.window[j] = tracked.window[j] \/ (j \in n.gone /\ n.window[j] = << >>)
      BY <1>0, <1>1, RememberAndTrim
    <2>2. tracked' = n
      BY <1>2
    <2> HIDE DEF n
    <2>3. QED
      BY <1>1, <2>1, <2>2
  <1>4. w \in Seq(Rows)
    BY <1>0, <1>1
  <1>5. HealthTypeOK'
    <2>1. log' \in [ Rows -> Nat ]
      BY <1>0, <1>1, <1>2
    <2>2. QED
      BY <1>2, <1>3, <2>1 DEF HealthInv, HealthTypeOK
  <1>6. WindowsOK'
    <2>1. \A j \in Keys : WindowOK(tracked.window[j], j, now)
      BY DEF HealthInv, WindowsOK
    <2>2. WindowOK(w, k, now)
      <3>1. \A i \in DOMAIN tracked.window[k] : tracked.window[k][i].at <= o.at + Lag
        <4> SUFFICES ASSUME NEW i \in DOMAIN tracked.window[k]
                     PROVE  tracked.window[k][i].at <= o.at + Lag
          OBVIOUS
        <4>1. tracked.window[k][i] \in Rows
          BY <1>0
        <4>2. tracked.window[k][i].at \in Nat /\ tracked.window[k][i].at <= now
          BY <2>1, <4>1, RowFields DEF WindowOK
        <4>3. o.at \in Nat /\ now \in Nat /\ Lag \in Nat /\ now - Lag <= o.at
          BY <1>0, <1>1, HealthAssumption
        <4>4. QED
          BY ONLY <4>2, <4>3
      <3>2. QED
        BY <1>0, <1>1, <2>1, <3>1, WindowAppend
    <2> HIDE DEF w
    <2>3. WindowOK(tracked'.window[k], k, now)
      BY <1>0, <1>3, <1>4, <2>2, WindowTrim
    <2>4. \A j \in Keys : WindowOK(tracked'.window[j], j, now)
      BY <1>3, <2>1, <2>3, WindowsAfter
    <2>5. QED
      BY <1>2, <2>4 DEF WindowsOK
  <1>7. Counted'
    <2> SUFFICES ASSUME NEW x \in Rows, x.key \notin tracked'.gone, x.at >= now - Window
                 PROVE  CountOf(tracked'.window[x.key], x) + pending[x] = log'[x]
      BY <1>0, <1>2 DEF Counted
    <2>1. CountOf(tracked.window[x.key], x) + pending[x] = log[x]
      BY <1>3 DEF HealthInv, Counted
    <2>2. x.key \in Keys /\ x.at \in Nat
      BY RowFields
    <2>3. CASE x.key = k
      <3>1. CountOf(Trim(w, at), x) = CountOf(w, x)
        <4>1. x.at >= at - Window
          BY <1>0, <2>2, HealthAssumption
        <4> HIDE DEF w
        <4>2. QED
          BY <1>0, <1>4, <4>1, CountTrim
      <3>2. CountOf(w, x) = CountOf(tracked.window[k], x) + (IF o = x THEN 1 ELSE 0)
        BY <1>0, <1>1, CountAppend
      <3>3. CountOf(tracked.window[k], x) \in Nat
        BY <1>0, CountIsNat
      <3>4. log'[x] = log[x] + (IF o = x THEN 1 ELSE 0) /\ log[x] \in Nat /\ pending[x] \in Nat
        BY <1>0, <1>1, <1>2
      <3> HIDE DEF w
      <3>5. QED
        BY <1>3, <2>1, <2>3, <3>1, <3>2, <3>3, <3>4
    <2>4. CASE x.key # k
      <3>1. log'[x] = log[x]
        BY <1>0, <1>1, <1>2, <2>4
      <3>2. tracked'.window[x.key] = tracked.window[x.key]
        BY <1>3, <2>2, <2>4
      <3>3. QED
        BY <2>1, <3>1, <3>2
    <2>5. QED
      BY <2>3, <2>4
  <1>8. PendingOK'
    <2>1. \A x \in Rows : pending'[x] = 0
      BY <1>0, <1>2, NothingPending
    <2>2. \A x \in Rows : log'[x] > 0 => x = o \/ log[x] > 0
      BY <1>0, <1>1, <1>2
    <2>3. \A x \in Rows : log[x] > 0 => x.at <= now
      BY DEF HealthInv, PendingOK
    <2>4. QED
      BY <1>0, <1>1, <1>2, <2>1, <2>2, <2>3 DEF PendingOK
  <1>9. VerdictsKept'
    BY <1>0, <1>2 DEF VerdictsKept
  <1>10. QED
    BY <1>5, <1>6, <1>7, <1>8, <1>9 DEF HealthInv


\* Trimming the windows with a clock that is not ahead.
LEMMA TrimInv ==
  ASSUME HealthInv, NEW t \in Int, t <= now, ~loading,
         MemoryOK(tracked'), tracked.gone \subseteq tracked'.gone,
         UNCHANGED << log, now, loading, pending, before >>,
         \A j \in Keys : \/ tracked'.window[j] = tracked.window[j]
                         \/ tracked'.window[j] = Trim(tracked.window[j], t)
                         \/ j \in tracked'.gone /\ tracked'.window[j] = << >>
  PROVE  HealthInv'
  <1>1. /\ MemoryOK(tracked) /\ log \in [ Rows -> Nat ] /\ pending \in [ Rows -> Nat ]
        /\ now \in Nat /\ now <= MaxTime /\ tracked.window \in [ Keys -> Seq(Rows) ]
    BY InvFacts
  <1>2. HealthTypeOK'
    BY DEF HealthInv, HealthTypeOK
  <1>3. WindowsOK'
    <2> SUFFICES ASSUME NEW j \in Keys PROVE WindowOK(tracked'.window[j], j, now)
      BY DEF WindowsOK
    <2>1. WindowOK(tracked.window[j], j, now)
      BY DEF HealthInv, WindowsOK
    <2>2. WindowOK(Trim(tracked.window[j], t), j, now)
      BY <1>1, <2>1, WindowTrim
    <2>3. WindowOK(<< >>, j, now)
      BY DEF WindowOK
    <2>4. QED
      BY <2>1, <2>2, <2>3
  <1>4. Counted'
    <2> SUFFICES ASSUME NEW x \in Rows, x.key \notin tracked'.gone, x.at >= now - Window
                 PROVE  CountOf(tracked'.window[x.key], x) + pending[x] = log[x]
      BY DEF Counted
    <2>1. CountOf(tracked.window[x.key], x) + pending[x] = log[x]
      BY DEF HealthInv, Counted
    <2>2. x.key \in Keys /\ x.at \in Nat
      BY RowFields
    <2>3. CountOf(Trim(tracked.window[x.key], t), x) = CountOf(tracked.window[x.key], x)
      <3>1. x.at >= t - Window
        BY <1>1, <2>2, HealthAssumption
      <3>2. QED
        BY <1>1, <2>2, <3>1, CountTrim
    <2>4. QED
      BY <2>1, <2>2, <2>3
  <1>5. PendingOK'
    <2>1. \A x \in Rows : pending[x] = 0
      BY NothingPending
    <2>2. \A x \in Rows : log[x] > 0 => x.at <= now
      BY DEF HealthInv, PendingOK
    <2>3. QED
      BY <2>1, <2>2 DEF PendingOK
  <1>6. VerdictsKept'
    BY DEF VerdictsKept
  <1>7. QED
    BY <1>2, <1>3, <1>4, <1>5, <1>6 DEF HealthInv

\* A decision reads a window.
LEMMA SnapshotInv ==
  ASSUME HealthInv, NEW k \in Keys, NEW t \in EventTimes, Snapshot(k, t)
  PROVE  HealthInv'
  <1> DEFINE n == [ Touch(tracked, k) EXCEPT !.window[k] = Trim(@, t) ]
  <1>1. t \in Int /\ t <= now /\ MemoryOK(tracked)
    BY InvFacts, EventTimesAre
  <1>2. /\ MemoryOK(n) /\ tracked.gone \subseteq n.gone
        /\ n.window[k] = Trim(tracked.window[k], t)
        /\ \A j \in Keys \ { k } :
             n.window[j] = tracked.window[j] \/ (j \in n.gone /\ n.window[j] = << >>)
    BY <1>1, TouchAndTrim
  <1>3. tracked' = n /\ ~loading /\ UNCHANGED << log, now, loading, pending, before >>
    BY DEF Snapshot
  <1> HIDE DEF n
  <1>4. \A j \in Keys : \/ tracked'.window[j] = tracked.window[j]
                        \/ tracked'.window[j] = Trim(tracked.window[j], t)
                        \/ j \in tracked'.gone /\ tracked'.window[j] = << >>
    BY <1>2, <1>3
  <1>5. QED
    BY <1>1, <1>2, <1>3, <1>4, TrimInv

\* All windows are read.
LEMMA DegradedSnapshotsInv ==
  ASSUME HealthInv, DegradedSnapshots
  PROVE  HealthInv'
  <1> DEFINE f == [ k \in Keys |-> Trim(tracked.window[k], now) ]
  <1>1. /\ MemoryOK(tracked) /\ now \in Nat
        /\ \A k \in Keys : tracked.window[k] \in Seq(Rows)
    BY InvFacts
  <1>2. \A k \in Keys : /\ f[k] = Trim(tracked.window[k], now) /\ f[k] \in Seq(Rows)
                        /\ (tracked.window[k] = << >> => f[k] = << >>)
    <2> SUFFICES ASSUME NEW k \in Keys
                 PROVE  /\ Trim(tracked.window[k], now) \in Seq(Rows)
                        /\ (tracked.window[k] = << >> =>
                              Trim(tracked.window[k], now) = << >>)
      OBVIOUS
    <2>1. Trim(tracked.window[k], now) \in Seq(Rows)
      BY <1>1, TrimIs
    <2>2. ASSUME tracked.window[k] = << >> PROVE Trim(tracked.window[k], now) = << >>
      BY <2>2 DEF Trim
    <2>3. QED
      BY <2>1, <2>2
  <1>3. f \in [ Keys -> Seq(Rows) ]
    BY <1>2
  <1>4. /\ tracked' = [ tracked EXCEPT !.window = f ] /\ ~loading
        /\ UNCHANGED << log, now, loading, pending, before >>
    BY DEF DegradedSnapshots
  <1> HIDE DEF f
  <1>5. /\ tracked' \in Memory /\ tracked'.window = f /\ tracked'.order = tracked.order
        /\ tracked'.gone = tracked.gone
    BY <1>1, <1>3, <1>4 DEF MemoryOK, Memory
  <1>6. MemoryOK(tracked')
    BY <1>1, <1>2, <1>5 DEF MemoryOK
  <1>7. \A j \in Keys : tracked'.window[j] = Trim(tracked.window[j], now)
    BY <1>2, <1>5
  <1>8. now \in Int /\ now <= now
    BY <1>1
  <1>9. QED
    BY <1>4, <1>5, <1>6, <1>7, <1>8, TrimInv


\* The process restarts: whoever holds what the table keeps of a key with a
\* firm verdict holds what the trimmed window of that key held.
LEMMA RestartInv ==
  ASSUME HealthInv, Restart
  PROVE  HealthInv'
  <1> DEFINE kept == [ o \in Rows |-> IF Recent(o, now) THEN log[o] ELSE 0 ]
             firm == { k \in Firm : Degraded(Trim(tracked.window[k], now)) }
  <1>1. /\ MemoryOK(tracked) /\ log \in [ Rows -> Nat ] /\ pending \in [ Rows -> Nat ]
        /\ now \in Nat /\ now <= MaxTime /\ tracked.window \in [ Keys -> Seq(Rows) ]
        /\ \A k \in Keys : tracked.window[k] \in Seq(Rows)
    BY InvFacts
  <1>2. /\ loading' = TRUE /\ log' = kept /\ pending' = kept /\ now' = now
        /\ tracked' = Empty
        /\ before' = IF loading THEN NoVerdicts ELSE [ firm |-> Firm, degraded |-> firm ]
    BY DEF Restart
  <1>3. \A o \in Rows : kept[o] = IF o.at >= now - Window THEN log[o] ELSE 0
    BY DEF Recent
  <1>4. kept \in [ Rows -> Nat ]
    BY <1>1
  <1> HIDE DEF kept
  <1>5. /\ \A k \in Keys : Empty.window[k] = << >>
        /\ Empty.window = [ k \in Keys |-> << >> ]
        /\ Empty.order = << >> /\ Empty.gone = {} /\ Empty \in Memory
    BY DEF Empty, Memory
  <1>6. HealthTypeOK'
    <2>1. MemoryOK(Empty)
      <3>1. Len(<< >>) = 0 /\ IsInjective(<< >>)
        BY DEF IsInjective
      <3>2. QED
        BY <1>5, <3>1, HealthAssumption DEF MemoryOK
    <2>2. before' \in [ firm : SUBSET Keys, degraded : SUBSET Keys ]
      <3>1. Firm \subseteq Keys /\ firm \subseteq Keys
        BY DEF Firm
      <3> HIDE DEF firm
      <3>2. QED
        BY <1>2, <3>1 DEF NoVerdicts
    <2>3. HealthTypeOK
      BY DEF HealthInv
    <2> HIDE DEF firm
    <2>4. /\ tracked' = Empty /\ log' \in [ Rows -> Nat ] /\ pending' \in [ Rows -> Nat ]
          /\ now' \in 0 .. MaxTime /\ loading' \in BOOLEAN
      BY <1>2, <1>4, <2>3 DEF HealthTypeOK
    <2>5. MemoryOK(tracked')
      BY <2>1, <2>4
    <2>6. QED
      BY <2>2, <2>4, <2>5 DEF HealthTypeOK
  <1>7. WindowsOK'
    BY <1>2, <1>5 DEF WindowsOK, WindowOK
  <1>8. Counted'
    <2>1. \A o \in Rows : CountOf(<< >>, o) = 0
      <3>1. << >> \in Seq(Rows) /\ DOMAIN << >> = {}
        OBVIOUS
      <3>2. QED
        BY <3>1, CountNone
    <2>2. \A o \in Rows : CountOf(Empty.window[o.key], o) + kept[o] = kept[o]
      BY <1>4, <1>5, <2>1, RowFields
    <2>3. QED
      BY <1>2, <2>2 DEF Counted
  <1>9. PendingOK'
    <2>1. \A o \in Rows : kept[o] > 0 => o.at <= now
      BY <1>1, <1>3 DEF HealthInv, PendingOK
    <2>2. \A k \in Keys : DOMAIN Empty.window[k] = {}
      BY <1>5
    <2>3. QED
      BY <1>2, <2>1, <2>2 DEF PendingOK
  <1>10. VerdictsKept'
    <2>1. CASE loading
      BY <1>2, <2>1 DEF VerdictsKept, NoVerdicts
    <2>2. CASE ~loading
      <3> SUFFICES ASSUME NEW k \in Firm, NEW w \in Seq(Rows),
                          \A o \in Rows : CountOf(w, o) = IF o.key = k THEN kept[o] ELSE 0
                   PROVE  Degraded(w) <=> k \in firm
        BY <1>2, <2>2 DEF VerdictsKept, AsLogged
      <3> DEFINE v == Trim(tracked.window[k], now)
      <3>1. /\ k \in Keys /\ k \notin tracked.gone
            /\ \A o \in ToSet(v) : o.at >= now - Window
        BY DEF Firm
      <3>2. v \in Seq(Rows) /\ WindowOK(v, k, now)
        <4>1. WindowOK(tracked.window[k], k, now)
          BY <3>1 DEF HealthInv, WindowsOK
        <4>2. QED
          <5>1. tracked.window[k] \in Seq(Rows) /\ now \in Int
            BY <1>1, <3>1
          <5>2. Trim(tracked.window[k], now) \in Seq(Rows)
            BY <5>1, TrimIs
          <5>3. WindowOK(Trim(tracked.window[k], now), k, now)
            BY ONLY <4>1, <5>1, WindowTrim
          <5>4. QED
            BY <5>2, <5>3
      <3>3. \A o \in Rows : o.at >= now - Window =>
              CountOf(v, o) = CountOf(tracked.window[k], o)
        BY <1>1, <3>1, CountTrim
      <3> HIDE DEF v
      <3>4. ASSUME NEW o \in Rows PROVE CountOf(w, o) = CountOf(v, o)
        <4>0. CountOf(tracked.window[k], o) \in Nat /\ log[o] \in Nat
          BY <1>1, <3>1, CountIsNat
        <4>1. CASE o.key # k
          <5>1. \A i \in DOMAIN v : v[i] # o
            BY <3>2, <4>1 DEF WindowOK
          <5>2. CountOf(v, o) = 0
            BY <3>2, <5>1, CountNone
          <5>3. QED
            BY <4>1, <5>2
        <4>2. CASE o.key = k /\ o.at >= now - Window
          <5>1. CountOf(tracked.window[k], o) + pending[o] = log[o]
            BY <3>1, <4>2 DEF HealthInv, Counted
          <5>2. pending[o] = 0
            BY <2>2, NothingPending
          <5>3. QED
            BY <1>3, <3>3, <4>0, <4>2, <5>1, <5>2
        <4>3. CASE o.key = k /\ ~(o.at >= now - Window)
          <5>1. \A i \in DOMAIN v : v[i] # o
            BY <3>1, <4>3 DEF ToSet
          <5>2. CountOf(v, o) = 0
            BY <3>2, <5>1, CountNone
          <5>3. QED
            BY <1>3, <4>3, <5>2
        <4>4. QED
          BY <4>1, <4>2, <4>3
      <3>5. Degraded(w) <=> Degraded(v)
        BY <3>2, <3>4, VerdictByCounts
      <3>6. QED
        BY <3>5 DEF v
    <2>3. QED
      BY <1>1, <2>1, <2>2 DEF HealthInv, HealthTypeOK
  <1>11. QED
    BY <1>6, <1>7, <1>8, <1>9, <1>10 DEF HealthInv

\* One outcome is replayed, none of which is pending being older.
LEMMA ReplayInv ==
  ASSUME HealthInv, NEW o \in Rows, Replay(o)
  PROVE  HealthInv'
  <1>1. /\ MemoryOK(tracked) /\ log \in [ Rows -> Nat ] /\ pending \in [ Rows -> Nat ]
        /\ now \in Nat /\ now <= MaxTime /\ tracked.window \in [ Keys -> Seq(Rows) ]
        /\ \A k \in Keys : tracked.window[k] \in Seq(Rows)
    BY InvFacts
  <1>2. /\ loading /\ pending[o] > 0
        /\ \A x \in Rows : pending[x] > 0 => o.at <= x.at
        /\ tracked' = Remember(tracked, o)
        /\ pending' = [ pending EXCEPT ![o] = @ - 1 ]
        /\ UNCHANGED << log, now, loading, before >>
    BY DEF Replay
  <1> DEFINE k == o.key
             w == Append(tracked.window[k], o)
  <1>3. /\ MemoryOK(tracked)' /\ tracked.gone \subseteq tracked'.gone
        /\ tracked'.window[k] = w
        /\ \A j \in Keys \ { k } :
             \/ tracked'.window[j] = tracked.window[j]
             \/ j \in tracked'.gone /\ tracked'.window[j] = << >>
    <2> DEFINE n == Remember(tracked, o)
    <2>1. /\ MemoryOK(n) /\ tracked.gone \subseteq n.gone
          /\ n.window[o.key] = Append(tracked.window[o.key], o)
          /\ \A j \in Keys \ { o.key } :
               n.window[j] = tracked.window[j] \/ (j \in n.gone /\ n.window[j] = << >>)
      BY <1>1, RememberIs
    <2>2. tracked' = n
      BY <1>2
    <2> HIDE DEF n
    <2>3. QED
      BY <2>1, <2>2
  <1>4. /\ k \in Keys /\ o.at \in Nat /\ o.at <= now
        /\ \A j \in Keys : \A i \in DOMAIN tracked.window[j] : tracked.window[j][i].at <= o.at
    BY <1>2, RowFields DEF HealthInv, PendingOK
  <1>5. \A x \in Rows : /\ pending'[x] = pending[x] - (IF x = o THEN 1 ELSE 0)
                        /\ pending'[x] \in Nat /\ pending[x] \in Nat
                        /\ (pending'[x] > 0 => pending[x] > 0)
    BY <1>1, <1>2
  <1>6. HealthTypeOK'
    <2>1. pending' \in [ Rows -> Nat ]
      BY <1>1, <1>2
    <2>2. QED
      BY <1>2, <1>3, <2>1 DEF HealthInv, HealthTypeOK
  <1>7. WindowsOK'
    <2>1. \A j \in Keys : WindowOK(tracked.window[j], j, now)
      BY DEF HealthInv, WindowsOK
    <2>2. WindowOK(w, k, now)
      <3>1. \A i \in DOMAIN tracked.window[k] : tracked.window[k][i].at <= o.at + Lag
        <4> SUFFICES ASSUME NEW i \in DOMAIN tracked.window[k]
                     PROVE  tracked.window[k][i].at <= o.at + Lag
          OBVIOUS
        <4>1. tracked.window[k][i] \in Rows
          BY <1>1, <1>4
        <4>2. tracked.window[k][i].at \in Nat /\ tracked.window[k][i].at <= o.at
          BY <1>4, <4>1, RowFields
        <4>3. QED
          BY <1>4, <4>2, HealthAssumption
      <3>2. QED
        BY <1>1, <1>4, <2>1, <3>1, WindowAppend
    <2> HIDE DEF w
    <2>3. WindowOK(tracked'.window[k], k, now)
      BY <1>3, <2>2
    <2> HIDE DEF k
    <2>4. \A j \in Keys : WindowOK(tracked'.window[j], j, now)
      BY <1>3, <1>4, <2>1, <2>3, WindowsAfter
    <2>5. QED
      BY <1>2, <2>4 DEF WindowsOK
  <1>8. Counted'
    <2> SUFFICES ASSUME NEW x \in Rows, x.key \notin tracked'.gone
                 PROVE  CountOf(tracked'.window[x.key], x) + pending'[x] = log[x]
      BY <1>2 DEF Counted
    <2>1. CountOf(tracked.window[x.key], x) + pending[x] = log[x]
      BY <1>2, <1>3 DEF HealthInv, Counted
    <2>2. x.key \in Keys
      BY RowFields
    <2>3. CASE x.key = k
      <3>1. CountOf(w, x) = CountOf(tracked.window[k], x) + (IF o = x THEN 1 ELSE 0)
        BY <1>1, <1>4, CountAppend
      <3>2. CountOf(tracked.window[k], x) \in Nat
        BY <1>1, <1>4, CountIsNat
      <3> HIDE DEF w
      <3>3. QED
        BY <1>1, <1>3, <1>5, <2>1, <2>3, <3>1, <3>2
    <2>4. CASE x.key # k
      <3>1. pending'[x] = pending[x]
        BY <1>5, <2>4
      <3>2. tracked'.window[x.key] = tracked.window[x.key]
        BY <1>3, <2>2, <2>4
      <3>3. QED
        BY <2>1, <3>1, <3>2
    <2>5. QED
      BY <2>3, <2>4
  <1>9. PendingOK'
    <2> SUFFICES ASSUME NEW x \in Rows
                 PROVE  /\ log[x] > 0 => x.at <= now
                        /\ pending'[x] > 0 =>
                             /\ log[x] > 0
                             /\ \A j \in Keys : \A i \in DOMAIN tracked'.window[j] :
                                  tracked'.window[j][i].at <= x.at
      BY <1>2 DEF PendingOK
    <2>1. /\ log[x] > 0 => x.at <= now
          /\ pending[x] > 0 =>
               /\ log[x] > 0
               /\ \A j \in Keys : \A i \in DOMAIN tracked.window[j] :
                    tracked.window[j][i].at <= x.at
      BY DEF HealthInv, PendingOK
    <2>2. ASSUME pending'[x] > 0, NEW j \in Keys, NEW i \in DOMAIN tracked'.window[j]
          PROVE  tracked'.window[j][i].at <= x.at
      <3>1. pending[x] > 0 /\ o.at <= x.at
        BY <1>2, <1>5, <2>2
      <3>2. CASE j = k
        <4>1. \A l \in DOMAIN w : \/ w[l] = o
                                  \/ /\ l \in DOMAIN tracked.window[k]
                                     /\ w[l] = tracked.window[k][l]
          <5> DEFINE s == tracked.window[k]
          <5>1. s \in Seq(Rows) /\ w = Append(s, o)
            BY <1>1, <1>4
          <5> HIDE DEF s, k, w
          <5>2. \A l \in DOMAIN w : w[l] = o \/ (l \in DOMAIN s /\ w[l] = s[l])
            BY <5>1
          <5>3. QED
            BY <5>2 DEF s
        <4> HIDE DEF w, k
        <4>2. QED
          BY <1>3, <1>4, <2>1, <2>2, <3>1, <3>2, <4>1
      <3>3. CASE j # k
        <4>1. tracked'.window[j] = tracked.window[j]
          BY <1>3, <2>2, <3>3
        <4>2. QED
          BY <2>1, <2>2, <3>1, <4>1
      <3>4. QED
        BY <3>2, <3>3
    <2>3. QED
      BY <1>5, <2>1, <2>2
  <1>10. VerdictsKept'
    BY <1>2 DEF HealthInv, VerdictsKept, AsLogged
  <1>11. QED
    BY <1>6, <1>7, <1>8, <1>9, <1>10 DEF HealthInv

\* The restored process starts to serve.
LEMMA ServeInv ==
  ASSUME HealthInv, Serve
  PROVE  HealthInv'
  <1>1. /\ loading /\ loading' = FALSE /\ before' = NoVerdicts /\ pending = NoRows
        /\ UNCHANGED << tracked, log, now, pending >>
    BY DEF Serve
  <1>2. HealthTypeOK'
    <2>1. NoVerdicts \in [ firm : SUBSET Keys, degraded : SUBSET Keys ]
      BY DEF NoVerdicts
    <2>2. QED
      BY <1>1, <2>1 DEF HealthInv, HealthTypeOK
  <1>3. WindowsOK'
    BY <1>1 DEF HealthInv, WindowsOK
  <1>4. Counted'
    BY <1>1 DEF HealthInv, Counted
  <1>5. PendingOK'
    BY <1>1 DEF HealthInv, PendingOK, NoRows
  <1>6. VerdictsKept'
    BY <1>1 DEF VerdictsKept
  <1>7. QED
    BY <1>2, <1>3, <1>4, <1>5, <1>6 DEF HealthInv

\* Time passes.
LEMMA HealthTickInv ==
  ASSUME HealthInv, Tick
  PROVE  HealthInv'
  <1>1. /\ now' = now + 1 /\ now < MaxTime
        /\ UNCHANGED << tracked, log, loading, pending, before >>
    BY DEF Tick
  <1>2. /\ now \in Nat /\ \A k \in Keys : tracked.window[k] \in Seq(Rows)
    BY InvFacts
  <1>3. HealthTypeOK'
    BY <1>1, <1>2, HealthAssumption DEF HealthInv, HealthTypeOK
  <1>4. WindowsOK'
    <2> SUFFICES ASSUME NEW k \in Keys, NEW i \in DOMAIN tracked.window[k]
                 PROVE  tracked.window[k][i].at <= now + 1
      BY <1>1 DEF HealthInv, WindowsOK, WindowOK
    <2>1. tracked.window[k][i] \in Rows
      BY <1>2
    <2>2. tracked.window[k][i].at \in Nat /\ tracked.window[k][i].at <= now
      BY <2>1, RowFields DEF HealthInv, WindowsOK, WindowOK
    <2>3. QED
      BY <1>2, <2>2
  <1>5. Counted'
    <2>1. ASSUME NEW x \in Rows, x.key \notin tracked'.gone,
                 loading' \/ x.at >= now' - Window
          PROVE  CountOf(tracked'.window[x.key], x) + pending'[x] = log'[x]
      <3>1. x.key \notin tracked.gone /\ (loading \/ x.at >= now - Window)
        <4>1. x.at >= now' - Window => x.at >= now - Window
          <5>1. now' = now + 1
            BY <1>1
          <5>2. x.at \in Nat /\ now \in Nat /\ Window \in Nat
            BY <1>2, RowFields, HealthAssumption
          <5>3. QED
            BY <5>1, <5>2
        <4>2. tracked' = tracked /\ loading' = loading
          BY <1>1
        <4>3. QED
          BY <2>1, <4>1, <4>2, Zenon
      <3>2. CountOf(tracked.window[x.key], x) + pending[x] = log[x]
        BY <3>1 DEF HealthInv, Counted
      <3>3. QED
        BY <1>1, <3>2
    <2>2. QED
      BY <2>1 DEF Counted
  <1>6. PendingOK'
    <2>1. \A x \in Rows : x.at <= now => x.at <= now + 1
      BY <1>2, RowFields
    <2>2. QED
      BY <1>1, <2>1 DEF HealthInv, PendingOK
  <1>7. VerdictsKept'
    BY <1>1 DEF HealthInv, VerdictsKept, AsLogged
  <1>8. QED
    BY <1>3, <1>4, <1>5, <1>6, <1>7 DEF HealthInv


\* Every step keeps the invariant.
LEMMA StepHealthInv == HealthInv /\ [Next]_vars => HealthInv'
  <1> SUFFICES ASSUME HealthInv, [Next]_vars PROVE HealthInv'
    OBVIOUS
  <1>1. ASSUME NEW k \in Keys, NEW ok \in BOOLEAN, NEW at \in EventTimes, Observe(k, ok, at)
        PROVE  HealthInv'
    BY <1>1, ObserveInv
  <1>2. ASSUME NEW k \in Keys, NEW t \in EventTimes, Snapshot(k, t)
        PROVE  HealthInv'
    BY <1>2, SnapshotInv
  <1>3. CASE DegradedSnapshots
    BY <1>3, DegradedSnapshotsInv
  <1>4. CASE Restart
    BY <1>4, RestartInv
  <1>5. ASSUME NEW o \in Rows, Replay(o) PROVE HealthInv'
    BY <1>5, ReplayInv
  <1>6. CASE Serve
    BY <1>6, ServeInv
  <1>7. CASE Tick
    BY <1>7, HealthTickInv
  <1>8. CASE UNCHANGED vars
    <2>1. UNCHANGED << tracked, log, now, loading, pending, before >>
      BY <1>8 DEF vars
    <2>2. HealthTypeOK' /\ WindowsOK' /\ PendingOK'
      BY <2>1 DEF HealthInv, HealthTypeOK, WindowsOK, PendingOK
    <2>3. Counted' /\ VerdictsKept'
      BY <2>1 DEF HealthInv, Counted, VerdictsKept, AsLogged
    <2>4. QED
      BY <2>2, <2>3 DEF HealthInv
  <1>9. QED
    BY <1>1, <1>2, <1>3, <1>4, <1>5, <1>6, <1>7, <1>8 DEF Next

\* The invariant holds throughout.
LEMMA HealthInvHolds == Spec => []HealthInv
  <1>1. Init => HealthInv
    BY InitHealthInv
  <1>2. HealthInv /\ [Next]_vars => HealthInv'
    BY StepHealthInv
  <1>3. QED
    BY <1>1, <1>2, PTL DEF Spec

-----------------------------------------------------------------------------
(* The properties *)

\* There are never more than max_tracked_keys windows.
THEOREM MemoryIsBounded == Spec => []MemoryBounded
  <1>1. HealthInv => MemoryBounded
    BY DEF HealthInv, HealthTypeOK, MemoryOK, MemoryBounded
  <1>2. QED
    BY <1>1, HealthInvHolds, PTL

\* Late webhooks, readers and restarts lose no outcome of the last window and
\* count none twice.
THEOREM WindowsMatchTheLog == Spec => []NothingRecentForgotten
  <1>1. HealthInv => NothingRecentForgotten
    BY DEF HealthInv, Counted, NothingRecentForgotten
  <1>2. QED
    BY <1>1, HealthInvHolds, PTL

\* A verdict never counts an outcome that is older than the window by more than
\* the lateness of the webhooks.
THEOREM VerdictsAreRecent == Spec => []StaleBounded
  <1>1. ASSUME HealthInv PROVE StaleBounded
    <2> SUFFICES ASSUME NEW k \in Keys, NEW o \in ToSet(Trim(tracked.window[k], now))
                 PROVE  o.at >= now - Window - Lag
      BY DEF StaleBounded
    <2>1. tracked.window[k] \in Seq(Rows) /\ now \in Nat
      BY <1>1, InvFacts
    <2>2. WindowOK(tracked.window[k], k, now)
      BY <1>1 DEF HealthInv, WindowsOK
    <2>3. QED
      BY <2>1, <2>2, TrimmedIsRecent
  <1>2. QED
    BY <1>1, HealthInvHolds, PTL

\* The process that has replayed the table is of the old one's opinion.
THEOREM VerdictsSurviveRestart == Spec => []RestartKeepsVerdict
  <1>1. ASSUME HealthInv PROVE RestartKeepsVerdict
    <2> SUFFICES ASSUME loading, pending = NoRows, NEW k \in before.firm, k \notin tracked.gone
                 PROVE  Degraded(tracked.window[k]) <=> k \in before.degraded
      BY DEF RestartKeepsVerdict
    <2> DEFINE w == tracked.window[k]
    <2>1. k \in Keys
      BY <1>1 DEF HealthInv, HealthTypeOK
    <2>2. w \in Seq(Rows) /\ log \in [ Rows -> Nat ]
      BY <1>1, <2>1, InvFacts
    <2>3. WindowOK(w, k, now)
      BY <1>1, <2>1 DEF HealthInv, WindowsOK
    <2> SUFFICES AsLogged(w, k)
      BY <1>1, <2>2 DEF HealthInv, VerdictsKept
    <2> SUFFICES ASSUME NEW o \in Rows
                 PROVE  CountOf(w, o) = IF o.key = k THEN log[o] ELSE 0
      BY DEF AsLogged
    <2>4. CASE o.key = k
      <3>1. CountOf(w, o) + pending[o] = log[o]
        BY <1>1, <2>4 DEF HealthInv, Counted
      <3>2. pending[o] = 0
        BY DEF NoRows
      <3>3. CountOf(w, o) \in Nat
        BY <2>2, CountIsNat
      <3> HIDE DEF w
      <3>4. QED
        BY <2>4, <3>1, <3>2, <3>3
    <2>5. CASE o.key # k
      <3> HIDE DEF w
      <3>1. \A i \in DOMAIN w : w[i] # o
        BY <2>3, <2>5 DEF WindowOK
      <3>2. QED
        BY <2>2, <2>5, <3>1, CountNone
    <2>6. QED
      BY <2>4, <2>5
  <1>2. QED
    BY <1>1, HealthInvHolds, PTL

=============================================================================
