---------------------------- MODULE BoardrcProofs ---------------------------
(***************************************************************************)
(* Proofs about Boardrc for every set of boards, times and sessions and    *)
(* every size of a list and of the file: reading marks what it should,     *)
(* saves say what the lists said, and marks and settings are lost only as  *)
(* the properties of Boardrc say.  SizeOf and Copy are recursive functions;*)
(* what they compute is proved by induction over sets of numbers.          *)
(***************************************************************************)
EXTENDS Boardrc, SequenceTheorems, FiniteSetTheorems, WellFoundedInduction, TLAPS

-----------------------------------------------------------------------------
(* Induction and recursion *)

\* Induction, stated for a set instead of a predicate.
LEMMA NatSet ==
  ASSUME NEW S, 0 \in S, \A n \in Nat : n \in S => n + 1 \in S
  PROVE  Nat \subseteq S
<1> DEFINE R == {ss \in Nat \X Nat : ss[1] < ss[2]}
           T == Nat \ S
<1>1. IsWellFoundedOn(R, Nat)
  BY NatLessThanWellFounded DEF OpToRel
<1>2. SUFFICES ASSUME T # {} PROVE FALSE
  OBVIOUS
<1>3. PICK x \in T : \A y \in T : <<y, x>> \notin R
  <2> HIDE DEF R
  <2> QED
    BY <1>1, <1>2, WFMin
<1>4. x \in Nat /\ x # 0 /\ x - 1 \in Nat /\ (x - 1) + 1 = x /\ x - 1 < x
  OBVIOUS
<1>5. <<x - 1, x>> \in R
  BY <1>4
<1>6. x - 1 \notin T
  BY <1>3, <1>5
<1> QED
  BY <1>4, <1>6

\* g is defined by primitive recursion: b at 0, and D of the value before.
Defined(g, S, b, N, D) ==
  /\ g \in [0 .. N -> S]
  /\ g[0] = b
  /\ \A k \in 1 .. N : k - 1 \in 0 .. N /\ g[k] = D[<<g[k - 1], k>>]

LEMMA Recursion ==
  ASSUME NEW S, NEW b \in S, NEW N \in Nat, NEW D \in [S \X (1 .. N) -> S]
  PROVE  \E g : Defined(g, S, b, N, D)
<1> DEFINE Ok(g, n) == g = [k \in 0 .. n |-> IF k = 0 THEN b ELSE D[<<g[k - 1], k>>]]
           G == {n \in Nat : n <= N => \E g \in [0 .. n -> S] : Ok(g, n)}
<1>1. 0 \in G
  <2>1. [k \in 0 .. 0 |-> b] \in [0 .. 0 -> S] /\ Ok([k \in 0 .. 0 |-> b], 0)
    OBVIOUS
  <2> QED
    BY <2>1
<1>2. ASSUME NEW n \in Nat, n \in G PROVE n + 1 \in G
  <2> SUFFICES ASSUME n + 1 <= N PROVE \E g \in [0 .. n + 1 -> S] : Ok(g, n + 1)
    OBVIOUS
  <2>1. PICK g \in [0 .. n -> S] : Ok(g, n)
    BY <1>2
  <2> DEFINE h == [k \in 0 .. n + 1 |-> IF k = n + 1 THEN D[<<g[n], n + 1>>] ELSE g[k]]
  <2>2. g[n] \in S /\ n + 1 \in 1 .. N /\ D[<<g[n], n + 1>>] \in S
    BY <2>1
  <2>3. h \in [0 .. n + 1 -> S]
    BY <2>1, <2>2
  <2>4. ASSUME NEW k \in 0 .. n + 1
        PROVE  h[k] = IF k = 0 THEN b ELSE D[<<h[k - 1], k>>]
    <3>1. CASE k = n + 1
      <4>1. k # 0 /\ k - 1 = n /\ n # n + 1 /\ n \in 0 .. n + 1
        BY <3>1
      <4>2. h[k - 1] = g[n]
        BY <4>1
      <4> QED
        BY <3>1, <4>1, <4>2
    <3>2. CASE k # n + 1
      <4>1. k \in 0 .. n /\ h[k] = g[k] /\ (k # 0 => k - 1 \in 0 .. n + 1 /\ k - 1 # n + 1)
        BY <3>2
      <4>2. k # 0 => h[k - 1] = g[k - 1]
        BY <4>1
      <4>3. g[k] = IF k = 0 THEN b ELSE D[<<g[k - 1], k>>]
        BY <2>1, <4>1
      <4> QED
        BY <4>1, <4>2, <4>3
    <3> QED
      BY <3>1, <3>2
  <2>5. Ok(h, n + 1)
    <3> HIDE DEF h
    <3> QED
      BY <2>3, <2>4
  <2> QED
    BY <2>3, <2>5
<1>3. N \in G
  <2> HIDE DEF G
  <2> QED
    BY <1>1, <1>2, NatSet
<1>4. PICK g \in [0 .. N -> S] : Ok(g, N)
  BY <1>3
<1>5. g[0] = b
  <2>1. 0 \in 0 .. N
    OBVIOUS
  <2> QED
    BY <1>4, <2>1
<1>6. ASSUME NEW k \in 1 .. N PROVE k - 1 \in 0 .. N /\ g[k] = D[<<g[k - 1], k>>]
  <2>1. k \in 0 .. N /\ k # 0 /\ k - 1 \in 0 .. N
    OBVIOUS
  <2> QED
    BY <1>4, <2>1
<1> QED
  BY <1>5, <1>6 DEF Defined

LEMMA NatMin ==
  ASSUME NEW S \in SUBSET Nat, S # {}
  PROVE  \E i \in S : \A k \in S : i <= k
<1> DEFINE R == {ss \in Nat \X Nat : ss[1] < ss[2]}
<1>1. IsWellFoundedOn(R, Nat)
  BY NatLessThanWellFounded DEF OpToRel
<1>2. PICK i \in S : \A k \in S : ~ (<<k, i>> \in R)
  <2> HIDE DEF R
  <2> QED BY <1>1, WFMin
<1>3. ASSUME NEW k \in S PROVE i <= k
  <2>1. k \in Nat /\ i \in Nat
    OBVIOUS
  <2>2. k < i => <<k, i>> \in R
    BY <2>1
  <2> QED BY <1>2, <2>1, <2>2
<1> QED BY <1>3

LEMMA MinIn ==
  ASSUME NEW S \in SUBSET Nat, S # {}
  PROVE  Min(S) \in S /\ \A k \in S : Min(S) <= k
BY NatMin DEF Min

LEMMA MaxIn ==
  ASSUME NEW n \in Nat, NEW S \in SUBSET (0 .. n), S # {}
  PROVE  Max(S) \in S /\ \A k \in S : k <= Max(S)
<1> DEFINE T == {n - i : i \in S}
<1>0. \A i \in S : i \in Nat /\ i <= n
  OBVIOUS
<1>1. T \in SUBSET Nat /\ T # {}
  <2>1. \A i \in S : n - i \in Nat
    BY <1>0
  <2>2. T \in SUBSET Nat
    BY <2>1
  <2>3. PICK i \in S : TRUE
    OBVIOUS
  <2>4. n - i \in T
    OBVIOUS
  <2> QED BY <2>2, <2>4
<1>2. PICK t \in T : \A k \in T : t <= k
  <2> HIDE DEF T
  <2> QED BY <1>1, NatMin
<1>3. PICK i \in S : t = n - i
  BY <1>2
<1>4. ASSUME NEW k \in S PROVE k <= i
  <2>1. n - k \in T /\ k \in Nat /\ i \in Nat
    BY <1>0
  <2>2. n - i <= n - k
    BY <2>1, <1>2, <1>3
  <2> QED BY <2>1, <2>2
<1>5. \E x \in S : \A y \in S : x >= y
  <2>1. \A k \in S : i >= k
    BY <1>4, <1>3
  <2> QED BY <2>1
<1>6. Max(S) \in S /\ \A y \in S : Max(S) >= y
  BY <1>5, Zenon DEF Max
<1> QED BY <1>6

-----------------------------------------------------------------------------
(* One list *)

\* A list of times, the newest first.
IsTimes(l) == l \in Lists /\ Sorted(l)
Falling(l) == \A i, j \in 1 .. Len(l) : i < j => l[i] > l[j]

LEMMA TimesNat == Times \cup {1} \subseteq Nat
BY BoardrcAssumption

LEMMA ListTyped ==
  ASSUME NEW l \in Lists
  PROVE  /\ l \in Seq(Times \cup {1}) /\ l \in Seq(Nat)
         /\ Len(l) \in 0 .. BRC_MAXNUM /\ DOMAIN l = 1 .. Len(l)
         /\ \A i \in 1 .. Len(l) : l[i] \in Nat /\ l[i] \in Times \cup {1}
<1>1. PICK n \in 0 .. BRC_MAXNUM : l \in [1 .. n -> Times \cup {1}]
  BY DEF Lists
<1>2. n \in Nat
  BY BoardrcAssumption
<1>3. l \in Seq(Times \cup {1}) /\ Len(l) = n
  BY <1>1, <1>2
<1>4. \A i \in 1 .. n : l[i] \in Times \cup {1}
  BY <1>1
<1>5. l \in [1 .. n -> Nat]
  BY <1>1, <1>2, <1>4, TimesNat
<1>6. l \in Seq(Nat)
  BY <1>2, <1>5
<1> QED BY <1>1, <1>2, <1>3, <1>4, <1>6, TimesNat

LEMMA ListIn ==
  ASSUME NEW l \in Seq(Times \cup {1}), Len(l) <= BRC_MAXNUM
  PROVE  l \in Lists
<1>1. Len(l) \in 0 .. BRC_MAXNUM
  BY BoardrcAssumption
<1>2. l \in [1 .. Len(l) -> Times \cup {1}]
  OBVIOUS
<1> QED BY <1>1, <1>2 DEF Lists

LEMMA SortedFalls ==
  ASSUME NEW l \in Seq(Nat), Sorted(l)
  PROVE  Falling(l)
<1> DEFINE S == {d \in Nat : \A i \in 1 .. Len(l) : i + d + 1 <= Len(l) => l[i] > l[i + d + 1]}
<1>1. \A i \in 1 .. Len(l) : i + 1 <= Len(l) => l[i] > l[i + 1]
  <2>1. SUFFICES ASSUME NEW i \in 1 .. Len(l), i + 1 <= Len(l) PROVE l[i] > l[i + 1]
    OBVIOUS
  <2>2. i + 1 \in 2 .. Len(l) /\ (i + 1) - 1 = i
    BY <2>1
  <2> QED BY <2>2 DEF Sorted
<1>2. 0 \in S
  BY <1>1
<1>3. ASSUME NEW d \in Nat, d \in S PROVE d + 1 \in S
  <2>1. SUFFICES ASSUME NEW i \in 1 .. Len(l), i + d + 2 <= Len(l) PROVE l[i] > l[i + d + 2]
    <3>1. \A i \in 1 .. Len(l) : i + (d + 1) + 1 = i + d + 2
      OBVIOUS
    <3> QED BY <2>1, <3>1
  <2>2. i + d + 1 \in 1 .. Len(l) /\ l[i] > l[i + d + 1]
    BY <1>3, <2>1
  <2>3. (i + d + 1) + 1 = i + d + 2
    OBVIOUS
  <2>4. l[i + d + 1] > l[i + d + 2]
    BY <1>1, <2>1, <2>2, <2>3
  <2>5. l[i] \in Nat /\ l[i + d + 1] \in Nat /\ l[i + d + 2] \in Nat
    <3>1. i + d + 2 \in 1 .. Len(l)
      BY <2>1
    <3> QED BY <3>1, <2>2
  <2> QED BY <2>2, <2>4, <2>5
<1>4. Nat \subseteq S
  <2> HIDE DEF S
  <2> QED BY <1>2, <1>3, NatSet
<1>5. ASSUME NEW i \in 1 .. Len(l), NEW j \in 1 .. Len(l), i < j PROVE l[i] > l[j]
  <2>1. j - i - 1 \in Nat /\ i + (j - i - 1) + 1 = j
    BY <1>5
  <2>2. j - i - 1 \in S
    BY <1>4, <2>1
  <2> QED BY <2>1, <2>2
<1> QED BY <1>5 DEF Falling

\* Where t is, or would be.
Located(l, t, i) ==
  /\ i \in 0 .. Len(l)
  /\ \A k \in 1 .. i : l[k] > t
  /\ i < Len(l) => l[i + 1] <= t

\* brc_locate ends there from every cursor.
LEMMA LocateRight ==
  ASSUME NEW l \in Seq(Nat), Falling(l), l # <<>>, NEW cur \in Nat, NEW t \in Nat
  PROVE  Located(l, t, Locate(l, cur, t))
<1> DEFINE n == Len(l)
           c == IF cur >= n THEN n - 1 ELSE cur
<1>1. n \in Nat /\ n >= 1 /\ c \in 0 .. n - 1 /\ c + 1 \in 1 .. n
  BY EmptySeq
<1>2. \A k \in 1 .. n : l[k] \in Nat
  OBVIOUS
<1>3. CASE t <= l[c + 1]
  <2> DEFINE S == {i \in c .. n : i = n \/ l[i + 1] <= t}
             i == Min(S)
  <2>1. S \in SUBSET Nat /\ n \in S
    BY <1>1
  <2>2. i \in S /\ \A k \in S : i <= k
    <3> HIDE DEF S
    <3> QED BY <2>1, MinIn
  <2>3. Locate(l, cur, t) = i
    BY <1>3 DEF Locate
  <2>4. i \in c .. n /\ (i < n => l[i + 1] <= t)
    BY <2>2
  <2>5. ASSUME NEW k \in 1 .. i PROVE l[k] > t
    <3>1. CASE k - 1 >= c
      <4>1. k - 1 \in c .. n /\ k - 1 < i /\ k - 1 # n /\ (k - 1) + 1 = k
        BY <2>4, <3>1, <1>1
      <4>2. k - 1 \notin S
        <5>1. ~(i <= k - 1)
          BY <4>1, <2>4
        <5> QED BY <5>1, <2>2
      <4>3. ~(l[k] <= t)
        <5>1. ~(l[(k - 1) + 1] <= t)
          BY <4>1, <4>2
        <5> QED BY <5>1, <4>1
      <4>4. k \in 1 .. n
        BY <4>1, <2>4
      <4> QED BY <4>3, <4>4, <1>2
    <3>2. CASE k - 1 < c
      <4>1. k \in 1 .. n /\ k < c + 1
        BY <3>2, <1>1, <2>4
      <4>2. l[k] > l[c + 1]
        BY <4>1, <1>1 DEF Falling
      <4> QED BY <4>1, <4>2, <1>3, <1>1, <1>2
    <3> QED BY <3>1, <3>2, <1>1, <2>4
  <2>6. i \in 0 .. n
    BY <2>4, <1>1
  <2> HIDE DEF i
  <2> QED BY <2>3, <2>4, <2>5, <2>6 DEF Located
<1>4. CASE t > l[c + 1]
  <2> DEFINE S == {i \in 0 .. c : i = 0 \/ l[i] > t \/ l[i + 1] = t}
             i == Max(S)
  <2>1. c \in Nat /\ S \in SUBSET (0 .. c) /\ 0 \in S
    BY <1>1
  <2>2. i \in S /\ \A k \in S : k <= i
    <3> HIDE DEF S, c
    <3> QED BY <2>1, MaxIn
  <2>3. Locate(l, cur, t) = i
    <3>1. ~(t <= l[c + 1])
      BY <1>4, <1>1, <1>2
    <3> QED BY <3>1 DEF Locate
  <2>4. i \in 0 .. c /\ i + 1 \in 1 .. n /\ (i # 0 => l[i] > t \/ l[i + 1] = t)
    BY <2>2, <1>1
  <2>5. ASSUME NEW k \in 1 .. i PROVE l[k] > t
    <3>1. i \in 1 .. n /\ k \in 1 .. n /\ i # 0 /\ i < i + 1
      BY <2>4, <1>1
    <3>2. l[i] > l[i + 1] /\ (k < i => l[k] > l[i])
      BY <3>1, <2>4 DEF Falling
    <3>3. l[i] > t
      BY <3>1, <3>2, <2>4, <1>2
    <3> QED BY <3>1, <3>2, <3>3, <1>2
  <2>6. l[i + 1] <= t
    <3>1. CASE i = c
      BY <3>1, <1>4, <1>1, <1>2
    <3>2. CASE i < c
      <4>1. i + 1 \in 0 .. c /\ i + 1 # 0 /\ ~(i + 1 <= i)
        BY <3>2, <2>4, <1>1
      <4>2. i + 1 \notin S
        BY <4>1, <2>2
      <4> QED BY <4>1, <4>2, <2>4, <1>2
    <3> QED BY <3>1, <3>2, <2>4, <1>1
  <2>7. i \in 0 .. n
    BY <2>4, <1>1
  <2> HIDE DEF i
  <2> QED BY <2>3, <2>5, <2>6, <2>7 DEF Located
<1>5. l[c + 1] \in Nat
  BY <1>1, <1>2
<1> QED BY <1>3, <1>4, <1>5

\* What a list says: the times in it are read, and what is older than the last.
Says(l, t) == (\E k \in 1 .. Len(l) : l[k] = t) \/ t < l[Len(l)]

LEMMA UnreadIsNotSaid ==
  ASSUME NEW l \in Seq(Nat), Falling(l), l # <<>>, NEW t \in Times, NEW i, Located(l, t, i)
  PROVE  ~UnreadAt(l, i, t) <=> Says(l, t)
<1>1. t \in Nat /\ Located(l, t, i)
  BY TimesNat
<1>2. Len(l) \in Nat /\ Len(l) >= 1 /\ Len(l) \in 1 .. Len(l) /\ \A k \in 1 .. Len(l) : l[k] \in Nat
  BY EmptySeq
<1>3. i \in 0 .. Len(l) /\ (\A k \in 1 .. i : l[k] > t) /\ (i < Len(l) => l[i + 1] <= t)
  BY <1>1 DEF Located
<1>4. ASSUME ~UnreadAt(l, i, t) PROVE Says(l, t)
  <2>1. CASE i >= Len(l)
    <3>1. i = Len(l) /\ l[Len(l)] > t
      BY <1>2, <1>3, <2>1
    <3> QED BY <3>1, <1>1, <1>2 DEF Says
  <2>2. CASE i < Len(l)
    <3>1. l[i + 1] = t /\ i + 1 \in 1 .. Len(l)
      BY <1>2, <1>3, <1>4, <2>2 DEF UnreadAt
    <3> QED BY <3>1 DEF Says
  <2> QED BY <2>1, <2>2, <1>2, <1>3
<1>5. ASSUME Says(l, t), UnreadAt(l, i, t) PROVE FALSE
  <2>1. i < Len(l) /\ l[i + 1] # t /\ i + 1 \in 1 .. Len(l) /\ l[i + 1] < t
    BY <1>1, <1>2, <1>3, <1>5 DEF UnreadAt
  <2>2. ASSUME NEW k \in 1 .. Len(l), l[k] = t PROVE FALSE
    <3>1. ~(k <= i)
      BY <1>1, <1>3, <2>2
    <3>2. k # i + 1 /\ i + 1 < k
      BY <3>1, <1>3, <2>1, <2>2
    <3>3. l[i + 1] > l[k]
      BY <2>1, <3>2 DEF Falling
    <3> QED BY <3>3, <2>1, <2>2, <1>1, <1>2
  <2>3. ASSUME t < l[Len(l)] PROVE FALSE
    <3>1. i + 1 = Len(l) \/ l[i + 1] > l[Len(l)]
      BY <2>1, <1>2 DEF Falling
    <3> QED BY <3>1, <2>1, <2>3, <1>1, <1>2
  <2> QED BY <1>5, <2>2, <2>3 DEF Says
<1> QED BY <1>4, <1>5

LEMMA ReadIsSaid ==
  ASSUME NEW l \in Seq(Nat), Falling(l), l # <<>>
  PROVE  ReadTimes(l) = {t \in Times : Says(l, t)}
<1>1. ASSUME NEW t \in Times PROVE Located(l, t, Locate(l, 0, t))
  BY TimesNat, LocateRight
<1>2. \A t \in Times : ~UnreadAt(l, Locate(l, 0, t), t) <=> Says(l, t)
  BY <1>1, UnreadIsNotSaid
<1> QED BY <1>2 DEF ReadTimes

\* Where an article is marked, the newest entry is not the 1 of an empty list.
LEMMA TopNotOne ==
  ASSUME NEW m, IsTimes(m), NEW k \in 1 .. Len(m), m[k] \in Times
  PROVE  m[1] # 1
<1>1. m \in Seq(Nat) /\ Len(m) \in Nat /\ k \in Nat /\ m[k] \in Nat /\ m[k] > 1
  <2>1. m \in Seq(Nat) /\ Len(m) \in Nat
    BY ListTyped DEF IsTimes
  <2> QED BY <2>1, BoardrcAssumption
<1>2. Falling(m)
  BY <1>1, SortedFalls DEF IsTimes
<1>3. 1 \in 1 .. Len(m) /\ (k = 1 \/ 1 < k)
  BY <1>1
<1>4. k = 1 \/ m[1] > m[k]
  BY <1>2, <1>3 DEF Falling
<1> QED BY <1>1, <1>4

LEMMA InsertAt ==
  ASSUME NEW S, NEW l \in Seq(S), NEW i \in 0 .. Len(l) - 1, NEW t \in S, Len(l) <= BRC_MAXNUM
  PROVE  LET m == Insert(l, i, t)
         IN  /\ m \in Seq(S)
             /\ Len(m) = IF Len(l) < BRC_MAXNUM THEN Len(l) + 1 ELSE Len(l)
             /\ \A k \in 1 .. Len(m) :
                   m[k] = IF k <= i THEN l[k] ELSE IF k = i + 1 THEN t ELSE l[k - 1]
<1> DEFINE a == SubSeq(l, 1, i)
           b == SubSeq(l, i + 1, Len(l))
           d == a \o <<t>>
           c == d \o b
           n == IF Len(l) < BRC_MAXNUM THEN Len(l) + 1 ELSE Len(l)
<1>1. Len(l) \in Nat /\ i \in Nat /\ i < Len(l) /\ BRC_MAXNUM \in Nat
  BY BoardrcAssumption
<1>2. a \in Seq(S) /\ Len(a) = i /\ \A k \in 1 .. i : a[k] = l[k]
  BY <1>1, SubSeqProperties
<1>3. b \in Seq(S) /\ Len(b) = Len(l) - i /\ \A k \in 1 .. Len(l) - i : b[k] = l[i + k]
  <2>1. 1 \in Nat /\ i + 1 \in 1 .. Len(l) + 1 /\ Len(l) \in i .. Len(l)
    BY <1>1
  <2> QED BY <1>1, <2>1, SubSeqProperties
<1> HIDE DEF a, b
<1>4. /\ d \in Seq(S) /\ Len(d) = i + 1
      /\ (\A k \in 1 .. i : d[k] = l[k]) /\ d[i + 1] = t
  BY <1>1, <1>2
<1>11. /\ c \in Seq(S) /\ Len(c) = Len(l) + 1
       /\ \A k \in 1 .. i + 1 : c[k] = d[k]
       /\ \A k \in 1 .. Len(l) - i : c[i + 1 + k] = b[k]
  <2> HIDE DEF d
  <2>0. /\ c \in Seq(S) /\ Len(c) = Len(d) + Len(b)
        /\ \A k \in 1 .. Len(d) + Len(b) : c[k] = IF k <= Len(d) THEN d[k] ELSE b[k - Len(d)]
    BY <1>3, <1>4, ConcatProperties
  <2> HIDE DEF c
  <2>1. c \in Seq(S) /\ Len(c) = Len(l) + 1
    BY <1>1, <1>3, <1>4, <2>0
  <2>2. ASSUME NEW k \in 1 .. i + 1 PROVE c[k] = d[k]
    <3>1. k <= Len(d) /\ k \in 1 .. Len(d) + Len(b)
      BY <1>1, <1>3, <1>4
    <3> QED BY <2>0, <3>1
  <2>3. ASSUME NEW k \in 1 .. Len(l) - i PROVE c[i + 1 + k] = b[k]
    <3>1. /\ ~(i + 1 + k <= Len(d)) /\ i + 1 + k \in 1 .. Len(d) + Len(b)
          /\ (i + 1 + k) - Len(d) = k
      BY <1>1, <1>3, <1>4
    <3> QED BY <2>0, <3>1
  <2> QED BY <2>1, <2>2, <2>3
<1> HIDE DEF c, d
<1>5. ASSUME NEW k \in 1 .. Len(l) + 1
      PROVE  c[k] = IF k <= i THEN l[k] ELSE IF k = i + 1 THEN t ELSE l[k - 1]
  <2>1. CASE k <= i
    BY <2>1, <1>1, <1>4, <1>11
  <2>2. CASE k = i + 1
    <3>1. ~(k <= i) /\ k \in 1 .. i + 1
      BY <2>2, <1>1
    <3> QED BY <3>1, <2>2, <1>4, <1>11
  <2>3. CASE k > i + 1
    <3>1. k - i - 1 \in 1 .. Len(l) - i /\ i + (k - i - 1) = k - 1 /\ i + 1 + (k - i - 1) = k
      BY <2>3, <1>1
    <3>2. c[k] = b[k - i - 1]
      BY <3>1, <1>11
    <3>4. b[k - i - 1] = l[k - 1]
      BY <3>1, <1>3
    <3>3. ~(k <= i) /\ k # i + 1
      BY <2>3, <1>1
    <3> QED BY <3>2, <3>3, <3>4
  <2> QED BY <2>1, <2>2, <2>3, <1>1
<1>6. n \in 0 .. Len(l) + 1
  BY <1>1
<1> HIDE DEF n
<1>7. Insert(l, i, t) = SubSeq(c, 1, n)
  BY DEF Insert, a, b, c, d, n
<1>8. SubSeq(c, 1, n) \in Seq(S) /\ Len(SubSeq(c, 1, n)) = n /\ \A k \in 1 .. n : SubSeq(c, 1, n)[k] = c[k]
  BY <1>1, <1>11, <1>6, SubSeqProperties
<1>9. \A k \in 1 .. n : k \in 1 .. Len(l) + 1
  BY <1>1, <1>6
<1> QED BY <1>5, <1>7, <1>8, <1>9 DEF n

\* SETREAD of an unread time: it is read afterwards, and all that was; of a full list
\* the end is cut, and what is older than the new end is read.
LEMMA InsertRight ==
  ASSUME NEW l, IsTimes(l), NEW t \in Times, NEW i, Located(l, t, i), UnreadAt(l, i, t)
  PROVE  LET m == Insert(l, i, t)
         IN  /\ IsTimes(m) /\ m # <<>> /\ m[1] # 1
             /\ \A x \in Times :
                  /\ Says(l, x) \/ x = t => Says(m, x)
                  /\ Says(m, x) /\ ~Says(l, x) /\ x # t => Len(l) = BRC_MAXNUM /\ x < m[Len(m)]
<1> DEFINE m == Insert(l, i, t)
           n == Len(l)
<1>1. l \in Seq(Times \cup {1}) /\ n \in 0 .. BRC_MAXNUM /\ \A k \in 1 .. n : l[k] \in Nat
  BY ListTyped DEF IsTimes
<1>2. l \in Seq(Nat)
  BY ListTyped DEF IsTimes
<1>3. Falling(l)
  BY <1>2, SortedFalls DEF IsTimes
<1>4. /\ i \in 0 .. n - 1 /\ n \in Nat /\ n >= 1 /\ n \in 1 .. n /\ i + 1 \in 1 .. n
      /\ BRC_MAXNUM \in Nat /\ t \in Nat
  BY <1>1, BoardrcAssumption, TimesNat DEF Located, UnreadAt
<1>5. (\A k \in 1 .. i : l[k] > t) /\ l[i + 1] < t
  BY <1>1, <1>4 DEF Located, UnreadAt
<1>6. /\ m \in Seq(Times \cup {1})
      /\ Len(m) = IF n < BRC_MAXNUM THEN n + 1 ELSE n
      /\ \A k \in 1 .. Len(m) : m[k] = IF k <= i THEN l[k] ELSE IF k = i + 1 THEN t ELSE l[k - 1]
  BY <1>1, <1>4, InsertAt
<1> HIDE DEF m
<1>7. Len(m) \in Nat /\ Len(m) >= n /\ Len(m) <= n + 1 /\ Len(m) \in 1 .. Len(m) /\ Len(m) <= BRC_MAXNUM
  BY <1>1, <1>4, <1>6
<1>8. m \in Lists
  BY <1>6, <1>7, ListIn
<1>9. ASSUME NEW k \in 2 .. Len(m) PROVE m[k - 1] > m[k]
  <2>0. k - 1 \in 1 .. Len(m) /\ k \in 1 .. Len(m) /\ k - 1 \in 1 .. n
    BY <1>7
  <2>1. CASE k <= i
    <3>1. k \in 1 .. n /\ k - 1 <= i
      BY <2>0, <2>1, <1>4
    <3>2. m[k] = l[k]
      BY <2>0, <2>1, <1>6
    <3>3. m[k - 1] = l[k - 1]
      BY <2>0, <3>1, <1>6
    <3> QED BY <3>1, <3>2, <3>3, <2>0, <1>3, <1>7 DEF Falling
  <2>2. CASE k = i + 1
    <3>1. m[k] = t /\ m[k - 1] = l[k - 1] /\ k - 1 \in 1 .. i
      BY <2>0, <2>2, <1>4, <1>6
    <3> QED BY <3>1, <1>5
  <2>3. CASE k = i + 2
    <3>1. m[k] = l[k - 1] /\ m[k - 1] = t /\ k - 1 = i + 1
      BY <2>0, <2>3, <1>4, <1>6
    <3> QED BY <3>1, <1>5, <1>4, <1>1
  <2>4. CASE k > i + 2
    <3>1. k - 2 \in 1 .. n /\ k - 2 < k - 1 /\ (k - 1) - 1 = k - 2
      BY <2>0, <2>4, <1>4
    <3>2. ~(k <= i) /\ k # i + 1 /\ ~(k - 1 <= i) /\ k - 1 # i + 1
      BY <2>4, <1>4
    <3>3. m[k] = l[k - 1]
      BY <2>0, <3>2, <1>6
    <3>4. m[k - 1] = l[k - 2]
      BY <2>0, <3>1, <3>2, <1>6
    <3>5. l[k - 2] > l[k - 1]
      BY <3>1, <2>0, <1>3 DEF Falling
    <3> QED BY <3>3, <3>4, <3>5
  <2> QED BY <2>1, <2>2, <2>3, <2>4, <1>4
<1>10. IsTimes(m) /\ m # <<>>
  BY <1>8, <1>9, <1>7, EmptySeq DEF IsTimes, Sorted
<1>11. \A k \in 1 .. Len(m) : m[k] \in Nat
  BY <1>6, TimesNat
<1>12. m[i + 1] = t /\ i + 1 \in 1 .. Len(m)
  BY <1>4, <1>6, <1>7
<1>13. ASSUME NEW x \in Times, Says(l, x) \/ x = t PROVE Says(m, x)
  <2>0. x \in Nat
    BY TimesNat
  <2>1. CASE x = t
    BY <2>1, <1>12 DEF Says
  <2>2. ASSUME NEW k \in 1 .. n, l[k] = x PROVE Says(m, x)
    <3>1. CASE k <= i
      <4>1. k \in 1 .. Len(m) /\ m[k] = l[k]
        BY <3>1, <1>4, <1>6, <1>7
      <4> QED BY <4>1, <2>2 DEF Says
    <3>2. CASE k > i /\ k + 1 <= Len(m)
      <4>1. k + 1 \in 1 .. Len(m) /\ m[k + 1] = l[k]
        BY <3>2, <1>4, <1>6, <1>7
      <4> QED BY <4>1, <2>2 DEF Says
    <3>3. CASE k > i /\ k + 1 > Len(m)
      <4>1. k = n /\ Len(m) = n
        BY <3>3, <1>4, <1>7
      <4>2. m[n] = IF n = i + 1 THEN t ELSE l[n - 1]
        BY <4>1, <3>3, <1>4, <1>6, <1>7
      <4>3. m[n] > l[n]
        <5>1. CASE n = i + 1
          BY <5>1, <4>2, <1>5, <1>4, <1>1
        <5>2. CASE n # i + 1
          <6>1. n - 1 \in 1 .. n /\ n - 1 < n
            BY <5>2, <1>4
          <6> QED BY <6>1, <5>2, <4>2, <1>3, <1>4 DEF Falling
        <5> QED BY <5>1, <5>2
      <4> QED BY <4>1, <4>3, <2>2, <2>0, <1>11, <1>7 DEF Says
    <3> QED BY <3>1, <3>2, <3>3, <1>4, <1>7
  <2>3. ASSUME x < l[n] PROVE Says(m, x)
    <3>1. m[Len(m)] >= l[n]
      <4>1. CASE Len(m) = n + 1
        <5>1. m[n + 1] = l[n]
          BY <4>1, <1>4, <1>6, <1>7
        <5> QED BY <5>1, <4>1, <1>1, <1>4
      <4>2. CASE Len(m) = n /\ n = i + 1
        BY <4>2, <1>5, <1>12, <1>4, <1>1
      <4>3. CASE Len(m) = n /\ n # i + 1
        <5>1. m[n] = l[n - 1] /\ n - 1 \in 1 .. n /\ n - 1 < n
          BY <4>3, <1>4, <1>6, <1>7
        <5>2. l[n - 1] > l[n]
          BY <5>1, <1>3, <1>4 DEF Falling
        <5> QED BY <5>1, <5>2, <4>3, <1>1, <1>4
      <4> QED BY <4>1, <4>2, <4>3, <1>6
    <3> QED BY <3>1, <2>3, <2>0, <1>1, <1>4, <1>7, <1>11 DEF Says
  <2> QED BY <1>13, <2>1, <2>2, <2>3 DEF Says
<1>14. ASSUME NEW x \in Times, Says(m, x), ~Says(l, x), x # t
       PROVE  n = BRC_MAXNUM /\ x < m[Len(m)]
  <2>1. ASSUME NEW k \in 1 .. Len(m), m[k] = x PROVE FALSE
    <3>1. CASE k <= i
      <4>1. l[k] = x /\ k \in 1 .. n
        BY <3>1, <2>1, <1>4, <1>6
      <4> QED BY <4>1, <1>14 DEF Says
    <3>2. CASE k = i + 1
      BY <3>2, <2>1, <1>12, <1>14
    <3>3. CASE k > i + 1
      <4>1. l[k - 1] = x /\ k - 1 \in 1 .. n
        BY <3>3, <2>1, <1>4, <1>6, <1>7
      <4> QED BY <4>1, <1>14 DEF Says
    <3> QED BY <3>1, <3>2, <3>3, <1>4
  <2>2. x < m[Len(m)]
    BY <2>1, <1>14 DEF Says
  <2>3. ASSUME n < BRC_MAXNUM PROVE FALSE
    <3>1. Len(m) = n + 1 /\ m[n + 1] = l[n]
      BY <2>3, <1>4, <1>6, <1>7
    <3> QED BY <3>1, <2>2, <1>14 DEF Says
  <2> QED BY <2>2, <2>3, <1>1, <1>4
<1>15. m[1] # 1
  <2>1. t \in Times
    OBVIOUS
  <2> QED BY <1>10, <1>12, <2>1, TopNotOne
<1> QED BY <1>10, <1>13, <1>14, <1>15 DEF m

\* brc_clearto: what is no newer than t is read, and else nothing changes.
LEMMA SetToRight ==
  ASSUME NEW l, IsTimes(l), l # <<>>, NEW t \in Times, NEW i, Located(l, t, i)
  PROVE  LET m == SetTo(l, i, t)
         IN  /\ IsTimes(m) /\ m # <<>> /\ (i < Len(l) => m[1] # 1)
             /\ \A x \in Times : Says(m, x) <=> Says(l, x) \/ x <= t
<1> DEFINE n == Len(l)
           m == SetTo(l, i, t)
<1>1. l \in Seq(Times \cup {1}) /\ n \in 0 .. BRC_MAXNUM /\ \A k \in 1 .. n : l[k] \in Nat
  BY ListTyped DEF IsTimes
<1>2. l \in Seq(Nat)
  BY ListTyped DEF IsTimes
<1>3. Falling(l)
  BY <1>2, SortedFalls DEF IsTimes
<1>4. n \in Nat /\ n >= 1 /\ n \in 1 .. n /\ BRC_MAXNUM \in Nat /\ t \in Nat
  BY <1>1, EmptySeq, BoardrcAssumption, TimesNat
<1>5. i \in 0 .. n /\ (\A k \in 1 .. i : l[k] > t) /\ (i < n => l[i + 1] <= t)
  BY DEF Located
<1>6. CASE i >= n
  <2>1. m = l /\ i = n
    BY <1>4, <1>5, <1>6 DEF SetTo
  <2>2. l[n] > t
    BY <2>1, <1>4, <1>5
  <2>3. ASSUME NEW x \in Times, x <= t PROVE Says(l, x)
    BY <2>2, <2>3, <1>1, <1>4, TimesNat DEF Says
  <2> QED BY <2>1, <2>3, <1>4
<1>7. CASE i < n
  <2> DEFINE a == SubSeq(l, 1, i)
  <2>1. i \in Nat /\ i + 1 \in 1 .. n
    BY <1>4, <1>5, <1>7
  <2>2. a \in Seq(Times \cup {1}) /\ Len(a) = i /\ \A k \in 1 .. i : a[k] = l[k]
    BY <1>1, <1>4, <1>5, <2>1, SubSeqProperties
  <2>3. m = a \o <<t>>
    BY <1>4, <1>5, <1>7 DEF SetTo
  <2> HIDE DEF a, m
  <2>4. /\ m \in Seq(Times \cup {1}) /\ Len(m) = i + 1
        /\ (\A k \in 1 .. i : m[k] = l[k]) /\ m[i + 1] = t
    BY <2>1, <2>2, <2>3
  <2>5. m \in Lists
    BY <2>1, <2>4, <1>1, <1>4, ListIn
  <2>6. ASSUME NEW k \in 2 .. Len(m) PROVE m[k - 1] > m[k]
    <3>1. k - 1 \in 1 .. i /\ k - 1 < k /\ m[k - 1] = l[k - 1] /\ l[k - 1] > t
      BY <2>1, <2>4, <1>5
    <3>2. CASE k = i + 1
      BY <3>1, <3>2, <2>4
    <3>3. CASE k # i + 1
      <4>1. k \in 1 .. i /\ k \in 1 .. n /\ k - 1 \in 1 .. n
        BY <3>1, <3>3, <2>1, <2>4, <1>4
      <4> QED BY <3>1, <4>1, <2>4, <1>3 DEF Falling
    <3> QED BY <3>2, <3>3
  <2>7. IsTimes(m) /\ m # <<>>
    BY <2>1, <2>4, <2>5, <2>6, EmptySeq DEF IsTimes, Sorted
  <2>8. m[1] # 1
    <3>1. i + 1 \in 1 .. Len(m) /\ m[i + 1] \in Times
      BY <2>1, <2>4
    <3> QED BY <3>1, <2>7, TopNotOne
  <2>9. ASSUME NEW x \in Times PROVE Says(m, x) <=> Says(l, x) \/ x <= t
    <3>0. x \in Nat
      BY TimesNat
    <3>1. ASSUME Says(m, x) PROVE Says(l, x) \/ x <= t
      <4>1. ASSUME NEW k \in 1 .. Len(m), m[k] = x PROVE Says(l, x) \/ x <= t
        <5>1. CASE k = i + 1
          BY <5>1, <4>1, <2>4, <1>4
        <5>2. CASE k # i + 1
          <6>1. k \in 1 .. i /\ k \in 1 .. n
            BY <5>2, <2>1, <2>4, <1>4
          <6> QED BY <6>1, <4>1, <2>4 DEF Says
        <5> QED BY <5>1, <5>2
      <4>2. ASSUME x < m[Len(m)] PROVE x <= t
        BY <4>2, <2>4, <1>4, <3>0
      <4> QED BY <3>1, <4>1, <4>2 DEF Says
    <3>2. ASSUME x <= t PROVE Says(m, x)
      <4>1. x = t \/ x < t
        BY <3>0, <3>2, <1>4
      <4>2. i + 1 \in 1 .. Len(m) /\ Len(m) = i + 1
        BY <2>1, <2>4
      <4> QED BY <4>1, <4>2, <2>4 DEF Says
    <3>3. ASSUME Says(l, x), ~(x <= t) PROVE Says(m, x)
      <4>1. ASSUME NEW k \in 1 .. n, l[k] = x PROVE Says(m, x)
        <5>1. k <= i
          <6>1. SUFFICES ASSUME k > i PROVE FALSE
            BY <2>1
          <6>2. k = i + 1 \/ l[i + 1] > l[k]
            BY <6>1, <2>1, <1>3 DEF Falling
          <6> QED BY <6>2, <4>1, <3>3, <1>1, <1>4, <1>5, <1>7, <2>1, <3>0
        <5>2. k \in 1 .. Len(m) /\ m[k] = x
          BY <5>1, <4>1, <2>1, <2>4
        <5> QED BY <5>2 DEF Says
      <4>2. ASSUME x < l[n] PROVE FALSE
        <5>1. n = i + 1 \/ l[i + 1] > l[n]
          BY <2>1, <1>3, <1>4 DEF Falling
        <5> QED BY <5>1, <4>2, <3>3, <1>1, <1>4, <1>5, <1>7, <2>1, <3>0
      <4> QED BY <3>3, <4>1, <4>2 DEF Says
    <3> QED BY <3>1, <3>2, <3>3
  <2> QED BY <2>7, <2>8, <2>9 DEF m
<1> QED BY <1>4, <1>5, <1>6, <1>7

\* shorter_brc: what it drops follows from what is left.
LEMMA ShorterRight ==
  ASSUME NEW l, IsTimes(l), l # <<>>
  PROVE  LET m == Shorter(l)
         IN  /\ IsTimes(m) /\ m # <<>> /\ m[1] = l[1]
             /\ \A x \in Times : Says(m, x) <=> Says(l, x)
<1> DEFINE n == Len(l)
           S == {k \in 1 .. n : \A i \in k + 1 .. n : l[i - 1] - l[i] = 1}
           k == Min(S)
           m == SubSeq(l, 1, k)
<1>1. l \in Seq(Times \cup {1}) /\ n \in 0 .. BRC_MAXNUM /\ \A i \in 1 .. n : l[i] \in Nat
  BY ListTyped DEF IsTimes
<1>2. l \in Seq(Nat)
  BY ListTyped DEF IsTimes
<1>3. Falling(l)
  BY <1>2, SortedFalls DEF IsTimes
<1>4. n \in Nat /\ n >= 1 /\ n \in 1 .. n /\ BRC_MAXNUM \in Nat
  BY <1>1, EmptySeq, BoardrcAssumption
<1>5. n \in S /\ S \in SUBSET Nat
  BY <1>4
<1>6. k \in S
  <2> HIDE DEF S
  <2> QED BY <1>5, MinIn
<1>7. k \in 1 .. n /\ \A i \in k + 1 .. n : l[i - 1] - l[i] = 1
  BY <1>6
<1>8. Shorter(l) = m
  BY DEF Shorter
<1> HIDE DEF k
<1>9. m \in Seq(Times \cup {1}) /\ Len(m) = k /\ \A i \in 1 .. k : m[i] = l[i]
  BY <1>1, <1>4, <1>7, SubSeqProperties
<1> HIDE DEF m
<1>10. m \in Lists /\ m # <<>> /\ m[1] = l[1]
  <2>1. Len(m) <= BRC_MAXNUM
    BY <1>1, <1>4, <1>7, <1>9
  <2>2. 1 \in 1 .. k
    BY <1>7
  <2> QED BY <2>1, <2>2, <1>9, ListIn, EmptySeq
<1>11. Sorted(m)
  <2>1. \A i \in 2 .. k : i \in 2 .. n /\ i - 1 \in 1 .. k /\ i \in 1 .. k
    BY <1>4, <1>7
  <2> QED BY <2>1, <1>9 DEF IsTimes, Sorted
<1>12. \A i \in 1 .. n : i >= k => l[i] = l[k] - (i - k)
  <2> DEFINE D == {d \in Nat : k + d <= n => l[k + d] = l[k] - d}
  <2>1. 0 \in D
    BY <1>1, <1>7
  <2>2. ASSUME NEW d \in Nat, d \in D PROVE d + 1 \in D
    <3>1. SUFFICES ASSUME k + (d + 1) <= n PROVE l[k + (d + 1)] = l[k] - (d + 1)
      OBVIOUS
    <3>2. k + d \in 1 .. n /\ k + (d + 1) \in k + 1 .. n /\ (k + (d + 1)) - 1 = k + d
          /\ k + (d + 1) \in 1 .. n
      BY <3>1, <1>4, <1>7
    <3>3. l[k + d] = l[k] - d /\ l[k + d] - l[k + (d + 1)] = 1
      BY <3>2, <2>2, <1>7
    <3> QED BY <3>2, <3>3, <1>1, <1>7
  <2>3. Nat \subseteq D
    <3> HIDE DEF D
    <3> QED BY <2>1, <2>2, NatSet
  <2>4. SUFFICES ASSUME NEW i \in 1 .. n, i >= k PROVE l[i] = l[k] - (i - k)
    OBVIOUS
  <2>5. i - k \in Nat /\ k + (i - k) = i
    BY <2>4, <1>7
  <2>6. i - k \in D
    BY <2>3, <2>5
  <2> QED BY <2>4, <2>5, <2>6
<1>13. ASSUME NEW x \in Times PROVE Says(m, x) <=> Says(l, x)
  <2>0. x \in Nat /\ l[k] \in Nat /\ l[n] \in Nat /\ m[Len(m)] = l[k] /\ Len(m) = k
    BY <1>1, <1>4, <1>7, <1>9, TimesNat
  <2>1. ASSUME Says(m, x) PROVE Says(l, x)
    <3>1. ASSUME NEW i \in 1 .. Len(m), m[i] = x PROVE Says(l, x)
      <4>1. i \in 1 .. n /\ l[i] = x
        BY <3>1, <1>4, <1>7, <1>9
      <4> QED BY <4>1 DEF Says
    <3>2. ASSUME x < l[k] PROVE Says(l, x)
      <4>1. CASE x < l[n]
        BY <4>1 DEF Says
      <4>2. CASE x >= l[n]
        <5>1. l[n] = l[k] - (n - k)
          BY <1>4, <1>7, <1>12
        <5>2. k + (l[k] - x) \in 1 .. n /\ k + (l[k] - x) >= k
          BY <5>1, <4>2, <3>2, <2>0, <1>4, <1>7
        <5>3. l[k + (l[k] - x)] = l[k] - ((k + (l[k] - x)) - k)
          BY <5>2, <1>12
        <5>4. l[k + (l[k] - x)] = x
          BY <5>3, <2>0, <1>7
        <5> QED BY <5>2, <5>4 DEF Says
      <4> QED BY <4>1, <4>2, <2>0
    <3> QED BY <2>0, <2>1, <3>1, <3>2 DEF Says
  <2>2. ASSUME Says(l, x) PROVE Says(m, x)
    <3>1. ASSUME NEW i \in 1 .. n, l[i] = x PROVE Says(m, x)
      <4>1. CASE i <= k
        <5>1. i \in 1 .. Len(m) /\ m[i] = x
          BY <4>1, <3>1, <2>0, <1>7, <1>9
        <5> QED BY <5>1 DEF Says
      <4>2. CASE i > k
        <5>1. l[k] > l[i]
          BY <4>2, <1>3, <1>7 DEF Falling
        <5>2. x < m[Len(m)]
          BY <5>1, <3>1, <2>0
        <5> QED BY <5>2 DEF Says
      <4> QED BY <4>1, <4>2, <1>7
    <3>2. ASSUME x < l[n] PROVE Says(m, x)
      <4>1. n = k \/ l[k] > l[n]
        BY <1>3, <1>4, <1>7 DEF Falling
      <4>2. x < m[Len(m)]
        BY <4>1, <3>2, <2>0
      <4> QED BY <4>2 DEF Says
    <3> QED BY <2>2, <3>1, <3>2 DEF Says
  <2> QED BY <2>1, <2>2
<1> QED BY <1>8, <1>10, <1>11, <1>13 DEF IsTimes

-----------------------------------------------------------------------------
(* The size of a file *)

AllNames == Boards \cup {INFO}
Blocks == [board : AllNames, list : Lists]
Files == Seq(Blocks)

LEMMA BlockTyped ==
  ASSUME NEW blk \in Blocks
  PROVE  /\ blk.board \in AllNames /\ blk.list \in Lists
         /\ Size(blk) = 1 + Len(blk.list) /\ Size(blk) \in Nat /\ Size(blk) >= 1
         /\ Size(blk) <= 1 + BRC_MAXNUM
<1>1. blk.board \in AllNames /\ blk.list \in Lists
  BY DEF Blocks
<1>2. Len(blk.list) \in 0 .. BRC_MAXNUM
  BY <1>1, ListTyped
<1> QED BY <1>1, <1>2, BoardrcAssumption DEF Size

LEMMA FileTyped ==
  ASSUME NEW blks \in Files
  PROVE  /\ Len(blks) \in Nat /\ DOMAIN blks = 1 .. Len(blks)
         /\ \A k \in 1 .. Len(blks) : blks[k] \in Blocks
BY DEF Files

\* f sums up the sizes of the first blocks.
Totals(f, blks) ==
  /\ f \in [0 .. Len(blks) -> Nat]
  /\ f[0] = 0
  /\ \A k \in 1 .. Len(blks) : f[k] = f[k - 1] + Size(blks[k])

LEMMA SizeTotals ==
  ASSUME NEW blks \in Files
  PROVE  \E f : Totals(f, blks) /\ SizeOf(blks) = f[Len(blks)]
<1> DEFINE N == Len(blks)
           E(x, k) == x + Size(blks[k])
           D == [x \in Nat \X (1 .. N) |-> E(x[1], x[2])]
           Is(f) == f = [k \in 0 .. N |-> IF k = 0 THEN 0 ELSE f[k - 1] + Size(blks[k])]
           upto == CHOOSE f : Is(f)
<1>1. N \in Nat /\ \A k \in 1 .. N : blks[k] \in Blocks
  BY FileTyped
<1>2. \A x \in Nat, k \in 1 .. N : E(x, k) \in Nat
  <2>1. \A k \in 1 .. N : Size(blks[k]) \in Nat
    BY <1>1, BlockTyped
  <2> QED BY <2>1
<1>3. D \in [Nat \X (1 .. N) -> Nat]
  <2> HIDE DEF N, E
  <2> QED BY <1>2
<1>4. PICK g : Defined(g, Nat, 0, N, D)
  <2> HIDE DEF D, N
  <2> QED BY <1>1, <1>3, Recursion
<1>5. ASSUME NEW k \in 1 .. N PROVE g[k] = E(g[k - 1], k)
  <2> HIDE DEF E, N
  <2>1. k - 1 \in 0 .. N /\ g[k] = D[<<g[k - 1], k>>] /\ g[k - 1] \in Nat
    BY <1>4 DEF Defined
  <2>2. <<g[k - 1], k>> \in Nat \X (1 .. N)
    BY <2>1
  <2>3. D[<<g[k - 1], k>>] = E(g[k - 1], k)
    BY <2>2
  <2> HIDE DEF D
  <2> QED BY <2>1, <2>3
<1>6. Is(g)
  <2>1. g = [k \in 0 .. N |-> g[k]] /\ g[0] = 0
    BY <1>4 DEF Defined
  <2>2. ASSUME NEW k \in 0 .. N PROVE g[k] = IF k = 0 THEN 0 ELSE E(g[k - 1], k)
    <3>1. CASE k = 0
      BY <3>1, <2>1
    <3>2. CASE k # 0
      <4>1. k \in 1 .. N
        BY <3>2, <1>1
      <4> QED BY <3>2, <4>1, <1>5
    <3> QED BY <3>1, <3>2
  <2> QED BY <2>1, <2>2
<1>7. Is(upto)
  <2> HIDE DEF Is
  <2> QED BY <1>6
<1>8. SizeOf(blks) = upto[N]
  BY DEF SizeOf
<1> HIDE DEF upto
<1>9. upto[0] = 0
  <2>1. 0 \in 0 .. N
    BY <1>1
  <2> QED BY <1>7, <2>1
<1>10. ASSUME NEW k \in 1 .. N PROVE upto[k] = upto[k - 1] + Size(blks[k])
  <2>1. k \in 0 .. N /\ k # 0
    BY <1>1
  <2> QED BY <1>7, <2>1
<1>11. \A k \in Nat : k <= N => upto[k] \in Nat
  <2> DEFINE S == {k \in Nat : k <= N => upto[k] \in Nat}
  <2>1. 0 \in S
    BY <1>9
  <2>2. ASSUME NEW k \in Nat, k \in S PROVE k + 1 \in S
    <3>1. SUFFICES ASSUME k + 1 <= N PROVE upto[k + 1] \in Nat
      OBVIOUS
    <3>2. k + 1 \in 1 .. N /\ (k + 1) - 1 = k /\ upto[k] \in Nat
      BY <3>1, <2>2, <1>1
    <3>3. upto[k + 1] = upto[k] + Size(blks[k + 1])
      BY <3>2, <1>10
    <3>4. Size(blks[k + 1]) \in Nat
      BY <3>2, <1>1, BlockTyped
    <3> QED BY <3>2, <3>3, <3>4
  <2> HIDE DEF S
  <2>3. Nat \subseteq S
    BY <2>1, <2>2, NatSet
  <2> QED BY <2>3 DEF S
<1>12. upto \in [0 .. N -> Nat]
  <2>1. upto = [k \in 0 .. N |-> upto[k]]
    BY <1>7
  <2>2. \A k \in 0 .. N : upto[k] \in Nat
    BY <1>1, <1>11
  <2> QED BY <2>1, <2>2
<1> QED BY <1>8, <1>9, <1>10, <1>12 DEF Totals

LEMMA TotalsSame ==
  ASSUME NEW a \in Files, NEW b \in Files, NEW f, NEW g, Totals(f, a), Totals(g, b),
         Len(a) <= Len(b), \A k \in 1 .. Len(a) : a[k] = b[k]
  PROVE  \A k \in 0 .. Len(a) : f[k] = g[k]
<1> DEFINE S == {k \in Nat : k <= Len(a) => f[k] = g[k]}
<1>0. Len(a) \in Nat /\ Len(b) \in Nat
  BY FileTyped
<1>1. 0 \in S
  BY DEF Totals
<1>2. ASSUME NEW k \in Nat, k \in S PROVE k + 1 \in S
  <2>1. SUFFICES ASSUME k + 1 <= Len(a) PROVE f[k + 1] = g[k + 1]
    OBVIOUS
  <2>2. k + 1 \in 1 .. Len(a) /\ k + 1 \in 1 .. Len(b) /\ (k + 1) - 1 = k /\ f[k] = g[k]
    BY <1>0, <1>2, <2>1
  <2>3. f[k + 1] = f[k] + Size(a[k + 1]) /\ g[k + 1] = g[k] + Size(b[k + 1])
    BY <2>2 DEF Totals
  <2>4. a[k + 1] = b[k + 1]
    BY <2>2
  <2> QED BY <2>2, <2>3, <2>4
<1>3. Nat \subseteq S
  <2> HIDE DEF S
  <2> QED BY <1>1, <1>2, NatSet
<1> QED BY <1>0, <1>3

LEMMA SizeEmpty == SizeOf(<<>>) = 0
<1>1. <<>> \in Files /\ Len(<<>>) = 0
  BY DEF Files
<1> QED BY <1>1, SizeTotals DEF Totals

LEMMA SizeNat ==
  ASSUME NEW blks \in Files PROVE SizeOf(blks) \in Nat
<1>1. PICK f : Totals(f, blks) /\ SizeOf(blks) = f[Len(blks)]
  BY SizeTotals
<1>2. Len(blks) \in 0 .. Len(blks)
  BY FileTyped
<1> QED BY <1>1, <1>2 DEF Totals

LEMMA SizeAppend ==
  ASSUME NEW blks \in Files, NEW blk \in Blocks
  PROVE  SizeOf(Append(blks, blk)) = SizeOf(blks) + Size(blk)
<1> DEFINE b == Append(blks, blk)
           n == Len(blks)
<1>1. b \in Files /\ n \in Nat /\ Len(b) = n + 1 /\ b[n + 1] = blk /\ \A k \in 1 .. n : blks[k] = b[k]
  BY FileTyped, AppendProperties DEF Files
<1>2. PICK f : Totals(f, blks) /\ SizeOf(blks) = f[n]
  BY SizeTotals
<1> HIDE DEF b
<1>3. PICK g : Totals(g, b) /\ SizeOf(b) = g[n + 1]
  BY <1>1, SizeTotals
<1>4. f[n] = g[n]
  <2>1. \A k \in 0 .. n : f[k] = g[k]
    BY <1>1, <1>2, <1>3, TotalsSame
  <2> QED BY <2>1, <1>1
<1>5. g[n + 1] = g[n] + Size(blk)
  <2>1. n + 1 \in 1 .. Len(b) /\ (n + 1) - 1 = n
    BY <1>1
  <2> QED BY <2>1, <1>1, <1>3 DEF Totals
<1> QED BY <1>2, <1>3, <1>4, <1>5 DEF b

LEMMA SizeOfOne ==
  ASSUME NEW blk \in Blocks PROVE SizeOf(<<blk>>) = Size(blk)
<1>1. <<>> \in Files /\ <<blk>> = Append(<<>>, blk)
  BY DEF Files
<1>2. SizeOf(Append(<<>>, blk)) = SizeOf(<<>>) + Size(blk)
  BY <1>1, SizeAppend
<1>3. Size(blk) \in Nat
  BY BlockTyped
<1>4. SizeOf(<<blk>>) = SizeOf(<<>>) + Size(blk)
  BY <1>1, <1>2
<1> QED BY <1>3, <1>4, SizeEmpty

LEMMA SizeConcat ==
  ASSUME NEW a \in Files, NEW b \in Files
  PROVE  SizeOf(a \o b) = SizeOf(a) + SizeOf(b)
<1> DEFINE S == {n \in Nat : \A c \in Files : Len(c) = n => SizeOf(a \o c) = SizeOf(a) + SizeOf(c)}
<1>1. 0 \in S
  <2>1. SUFFICES ASSUME NEW c \in Files, Len(c) = 0 PROVE SizeOf(a \o c) = SizeOf(a) + SizeOf(c)
    OBVIOUS
  <2>2. c = <<>> /\ a \o c = a
    BY <2>1, EmptySeq, ConcatEmptySeq DEF Files
  <2> QED BY <2>2, SizeEmpty, SizeNat
<1>2. ASSUME NEW n \in Nat, n \in S PROVE n + 1 \in S
  <2>1. SUFFICES ASSUME NEW c \in Files, Len(c) = n + 1 PROVE SizeOf(a \o c) = SizeOf(a) + SizeOf(c)
    OBVIOUS
  <2>2. c # <<>>
    BY <2>1
  <2>3. PICK d \in Files, blk \in Blocks : c = Append(d, blk)
    BY <2>2, SequenceEmptyOrAppend DEF Files
  <2>4. Len(d) = n
    BY <2>1, <2>3, FileTyped, AppendProperties DEF Files
  <2>5. SizeOf(a \o d) = SizeOf(a) + SizeOf(d)
    BY <1>2, <2>4
  <2>6. a \o d \in Files /\ a \o c = Append(a \o d, blk)
    <3>1. a \o d \in Files
      BY ConcatProperties DEF Files
    <3>2. a \o Append(d, blk) = Append(a \o d, blk)
      <4>1. Append(d, blk) = d \o <<blk>> /\ Append(a \o d, blk) = (a \o d) \o <<blk>>
        BY <3>1, AppendIsConcat DEF Files
      <4>2. <<blk>> \in Seq(Blocks)
        OBVIOUS
      <4> QED BY <4>1, <4>2, ConcatAssociative DEF Files
    <3> QED BY <3>1, <3>2, <2>3
  <2>7. SizeOf(a \o c) = SizeOf(a \o d) + Size(blk) /\ SizeOf(c) = SizeOf(d) + Size(blk)
    BY <2>3, <2>6, SizeAppend
  <2> QED BY <2>5, <2>7, SizeNat, BlockTyped
<1>3. Nat \subseteq S
  <2> HIDE DEF S
  <2> QED BY <1>1, <1>2, NatSet
<1>4. Len(b) \in S
  BY <1>3, FileTyped
<1> QED BY <1>4

-----------------------------------------------------------------------------
(* What brc_putblock copies *)

Done == [out : Files, full : BOOLEAN]

\* f is what the loop of Copy has done after each block.
Copying(f, out, blks, b) ==
  /\ f \in [0 .. Len(blks) -> Done]
  /\ f[0] = [out |-> out, full |-> FALSE]
  /\ \A k \in 1 .. Len(blks) : f[k] = CopyBlock(f[k - 1], blks[k], b)

LEMMA CopyBlockTyped ==
  ASSUME NEW done \in Done, NEW blk \in Blocks, NEW b
  PROVE  CopyBlock(done, blk, b) \in Done
<1>1. done.out \in Files /\ done.full \in BOOLEAN /\ Append(done.out, blk) \in Files
  BY AppendProperties DEF Done, Files
<1> QED BY <1>1 DEF CopyBlock, Done

LEMMA CopySteps ==
  ASSUME NEW out \in Files, NEW blks \in Files, NEW b
  PROVE  \E f : Copying(f, out, blks, b) /\ Copy(out, blks, b) = f[Len(blks)].out
<1> DEFINE N == Len(blks)
           E(x, k) == CopyBlock(x, blks[k], b)
           D == [x \in Done \X (1 .. N) |-> E(x[1], x[2])]
           z == [out |-> out, full |-> FALSE]
           Is(f) == f = [k \in 0 .. N |-> IF k = 0 THEN z ELSE CopyBlock(f[k - 1], blks[k], b)]
           done == CHOOSE f : Is(f)
<1>1. N \in Nat /\ \A k \in 1 .. N : blks[k] \in Blocks
  BY FileTyped
<1>2. \A x \in Done, k \in 1 .. N : E(x, k) \in Done
  BY <1>1, CopyBlockTyped
<1>13. z \in Done
  BY DEF Done
<1>3. D \in [Done \X (1 .. N) -> Done]
  <2> HIDE DEF N, E
  <2> QED BY <1>2
<1>4. PICK g : Defined(g, Done, z, N, D)
  <2> HIDE DEF D, N, z
  <2> QED BY <1>1, <1>13, <1>3, Recursion
<1>5. ASSUME NEW k \in 1 .. N PROVE g[k] = E(g[k - 1], k)
  <2> HIDE DEF E, N, z
  <2>1. k - 1 \in 0 .. N /\ g[k] = D[<<g[k - 1], k>>] /\ g[k - 1] \in Done
    BY <1>4 DEF Defined
  <2>2. <<g[k - 1], k>> \in Done \X (1 .. N)
    BY <2>1
  <2>3. D[<<g[k - 1], k>>] = E(g[k - 1], k)
    BY <2>2
  <2> HIDE DEF D
  <2> QED BY <2>1, <2>3
<1> HIDE DEF z
<1>6. Is(g)
  <2>1. g = [k \in 0 .. N |-> g[k]] /\ g[0] = z
    BY <1>4 DEF Defined
  <2>2. ASSUME NEW k \in 0 .. N PROVE g[k] = IF k = 0 THEN z ELSE E(g[k - 1], k)
    <3>1. CASE k = 0
      BY <3>1, <2>1
    <3>2. CASE k # 0
      <4>1. k \in 1 .. N
        BY <3>2, <1>1
      <4> QED BY <3>2, <4>1, <1>5
    <3> QED BY <3>1, <3>2
  <2> QED BY <2>1, <2>2
<1>7. Is(done)
  <2> HIDE DEF Is
  <2> QED BY <1>6
<1>8. Copy(out, blks, b) = done[N].out
  BY DEF Copy, z
<1> HIDE DEF done
<1>9. done[0] = z
  <2>1. 0 \in 0 .. N
    BY <1>1
  <2> QED BY <1>7, <2>1
<1>10. ASSUME NEW k \in 1 .. N PROVE done[k] = CopyBlock(done[k - 1], blks[k], b)
  <2>1. k \in 0 .. N /\ k # 0
    BY <1>1
  <2> QED BY <1>7, <2>1
<1>11. \A k \in Nat : k <= N => done[k] \in Done
  <2> DEFINE S == {k \in Nat : k <= N => done[k] \in Done}
  <2>1. 0 \in S
    BY <1>9, <1>13
  <2>2. ASSUME NEW k \in Nat, k \in S PROVE k + 1 \in S
    <3>1. SUFFICES ASSUME k + 1 <= N PROVE done[k + 1] \in Done
      OBVIOUS
    <3>2. k + 1 \in 1 .. N /\ (k + 1) - 1 = k /\ done[k] \in Done
      BY <3>1, <2>2, <1>1
    <3>3. done[k + 1] = CopyBlock(done[k], blks[k + 1], b)
      BY <3>2, <1>10
    <3> QED BY <3>2, <3>3, <1>1, CopyBlockTyped
  <2> HIDE DEF S
  <2>3. Nat \subseteq S
    BY <2>1, <2>2, NatSet
  <2> QED BY <2>3 DEF S
<1>12. done \in [0 .. N -> Done]
  <2>1. done = [k \in 0 .. N |-> done[k]]
    BY <1>7
  <2>2. \A k \in 0 .. N : done[k] \in Done
    BY <1>1, <1>11
  <2> QED BY <2>1, <2>2
<1> QED BY <1>8, <1>9, <1>10, <1>12 DEF Copying, z

Distinct(blks) ==
  \A i, j \in 1 .. Len(blks) : blks[i].board = blks[j].board => i = j

\* Of the blocks that are in blks beside b, c has what it has after the first n.
Copied(c, n, blks, b) ==
  \A i \in n + 1 .. Len(c) : \E j \in 1 .. Len(blks) : c[i] = blks[j] /\ blks[j].board # b
AllCopied(c, n, blks, b, k) ==
  \A j \in 1 .. k : blks[j].board # b => \E i \in n + 1 .. Len(c) : c[i] = blks[j]
Apart(c, n) ==
  \A i, j \in n + 1 .. Len(c) : c[i].board = c[j].board => i = j
Starts(c, out) == Len(out) <= Len(c) /\ \A i \in 1 .. Len(out) : c[i] = out[i]

LEMMA TotalsGrow ==
  ASSUME NEW blks \in Files, NEW t, Totals(t, blks)
  PROVE  \A k \in 0 .. Len(blks) : t[k] <= t[Len(blks)]
<1> DEFINE n == Len(blks)
           S == {d \in Nat : d <= n => t[n - d] <= t[n]}
<1>0. n \in Nat /\ \A k \in 0 .. n : t[k] \in Nat
  BY FileTyped DEF Totals
<1>1. 0 \in S
  BY <1>0
<1>2. ASSUME NEW d \in Nat, d \in S PROVE d + 1 \in S
  <2>1. SUFFICES ASSUME d + 1 <= n PROVE t[n - (d + 1)] <= t[n]
    OBVIOUS
  <2>2. n - d \in 1 .. n /\ (n - d) - 1 = n - (d + 1) /\ n - d \in 0 .. n /\ n - (d + 1) \in 0 .. n
        /\ n \in 0 .. n /\ t[n - d] <= t[n]
    BY <1>0, <1>2, <2>1
  <2>3. t[n - d] = t[n - (d + 1)] + Size(blks[n - d])
    BY <2>2 DEF Totals
  <2>4. Size(blks[n - d]) \in Nat
    BY <2>2, FileTyped, BlockTyped
  <2> QED BY <1>0, <2>2, <2>3, <2>4
<1>3. Nat \subseteq S
  <2> HIDE DEF S
  <2> QED BY <1>1, <1>2, NatSet
<1>4. ASSUME NEW k \in 0 .. n PROVE t[k] <= t[n]
  <2>1. n - k \in Nat /\ n - k <= n /\ n - (n - k) = k
    BY <1>0
  <2>2. n - k \in S
    BY <2>1, <1>3
  <2> QED BY <2>1, <2>2
<1> QED BY <1>4

CopyInv(d, k, t, out, blks, b) ==
  /\ Starts(d.out, out) /\ SizeOf(d.out) <= MaxSize
  /\ Copied(d.out, Len(out), blks, b)
  /\ IF d.full THEN SizeOf(out) + t[Len(blks)] > MaxSize
     ELSE /\ AllCopied(d.out, Len(out), blks, b, k)
          /\ SizeOf(d.out) <= SizeOf(out) + t[k]
  /\ Distinct(blks) =>
       /\ Apart(d.out, Len(out))
       /\ \A i \in Len(out) + 1 .. Len(d.out) : \E j \in 1 .. k : d.out[i] = blks[j]

LEMMA CopyOne ==
  ASSUME NEW out \in Files, NEW blks \in Files, NEW b, NEW t, Totals(t, blks),
         NEW k \in Nat, k + 1 <= Len(blks), NEW d \in Done, CopyInv(d, k, t, out, blks, b)
  PROVE  CopyInv(CopyBlock(d, blks[k + 1], b), k + 1, t, out, blks, b)
<1> DEFINE blk == blks[k + 1]
           e == CopyBlock(d, blk, b)
           n == Len(out)
<1>1. /\ k + 1 \in 1 .. Len(blks) /\ blk \in Blocks /\ n \in Nat /\ Len(blks) \in Nat
      /\ d.out \in Files /\ d.full \in BOOLEAN /\ Len(d.out) \in Nat /\ (k + 1) - 1 = k
      /\ k \in 0 .. Len(blks) /\ k + 1 \in 0 .. Len(blks)
  BY FileTyped DEF Done
<1>2. Size(blk) \in Nat /\ SizeOf(out) \in Nat /\ SizeOf(d.out) \in Nat /\ MaxSize \in Nat
  BY <1>1, SizeNat, BlockTyped, BoardrcAssumption
<1>3. t[k + 1] = t[k] + Size(blk) /\ t[k + 1] <= t[Len(blks)] /\ t[k] \in Nat
      /\ t[k + 1] \in Nat /\ t[Len(blks)] \in Nat
  <2>1. t[k + 1] = t[k] + Size(blk)
    BY <1>1 DEF Totals
  <2>2. t[k + 1] <= t[Len(blks)]
    BY <1>1, TotalsGrow
  <2>3. Len(blks) \in 0 .. Len(blks)
    BY <1>1
  <2> QED BY <1>1, <2>1, <2>2, <2>3 DEF Totals
<1>4. ASSUME d.full \/ SizeOf(d.out) + Size(blk) > MaxSize
      PROVE  CopyInv(e, k + 1, t, out, blks, b)
  <2>1. e.out = d.out /\ e.full = TRUE
    BY <1>4, <1>1 DEF CopyBlock, Done
  <2>2. SizeOf(out) + t[Len(blks)] > MaxSize
    <3>1. CASE d.full
      BY <3>1 DEF CopyInv
    <3>2. CASE ~d.full
      <4>1. SizeOf(d.out) <= SizeOf(out) + t[k] /\ SizeOf(d.out) + Size(blk) > MaxSize
        BY <3>2, <1>4 DEF CopyInv
      <4> QED BY <4>1, <1>2, <1>3
    <3> QED BY <3>1, <3>2
  <2>3. \A i \in n + 1 .. Len(d.out) : (\E j \in 1 .. k : d.out[i] = blks[j])
                                        => \E j \in 1 .. k + 1 : d.out[i] = blks[j]
    <3>1. \A j \in 1 .. k : j \in 1 .. k + 1
      OBVIOUS
    <3> QED BY <3>1
  <2> HIDE DEF e, blk
  <2> QED BY <2>1, <2>2, <2>3 DEF CopyInv
<1>5. ASSUME ~d.full, SizeOf(d.out) + Size(blk) <= MaxSize
      PROVE  CopyInv(e, k + 1, t, out, blks, b)
  <2>0. ~(d.full \/ SizeOf(d.out) + Size(blk) > MaxSize)
    BY <1>5, <1>2
  <2>1. SizeOf(d.out) <= SizeOf(out) + t[k] /\ AllCopied(d.out, n, blks, b, k)
    BY <1>5 DEF CopyInv
  <2>2. CASE blk.board = b
    <3>1. e = d
      BY <2>0, <2>2 DEF CopyBlock
    <3>2. AllCopied(d.out, n, blks, b, k + 1)
      <4>1. \A j \in 1 .. k + 1 : j \in 1 .. k \/ j = k + 1
        OBVIOUS
      <4> QED BY <4>1, <2>1, <2>2 DEF AllCopied
    <3>3. SizeOf(d.out) <= SizeOf(out) + t[k + 1]
      BY <2>1, <1>2, <1>3
    <3>4. \A i \in n + 1 .. Len(d.out) : (\E j \in 1 .. k : d.out[i] = blks[j])
                                        => \E j \in 1 .. k + 1 : d.out[i] = blks[j]
      <4>1. \A j \in 1 .. k : j \in 1 .. k + 1
        OBVIOUS
      <4> QED BY <4>1
    <3> HIDE DEF e, blk
    <3> QED BY <3>1, <3>2, <3>3, <3>4, <1>5 DEF CopyInv
  <2>3. CASE blk.board # b
    <3> DEFINE c == Append(d.out, blk)
               m == Len(d.out)
    <3>1. e.out = c /\ ~e.full
      BY <2>0, <2>3, <1>1, <1>5 DEF CopyBlock, Done
    <3>2. c \in Files /\ Len(c) = m + 1 /\ c[m + 1] = blk /\ \A i \in 1 .. m : c[i] = d.out[i]
      BY <1>1, AppendProperties DEF Files
    <3>3. SizeOf(c) = SizeOf(d.out) + Size(blk)
      BY <1>1, SizeAppend
    <3> HIDE DEF e, blk, c
    <3>4. SizeOf(c) <= MaxSize /\ SizeOf(c) <= SizeOf(out) + t[k + 1]
      BY <3>3, <2>1, <1>2, <1>3, <1>5
    <3>5. n <= m /\ (\A i \in 1 .. n : d.out[i] = out[i]) /\ Copied(d.out, n, blks, b)
      BY DEF CopyInv, Starts
    <3>6. Starts(c, out)
      <4>1. \A i \in 1 .. n : i \in 1 .. m
        BY <3>5, <1>1
      <4>2. \A i \in 1 .. n : c[i] = out[i]
        BY <4>1, <3>2, <3>5
      <4> QED BY <4>2, <3>2, <3>5, <1>1 DEF Starts
    <3>7. \A i \in n + 1 .. Len(c) : i = m + 1 \/ (i \in n + 1 .. m /\ i \in 1 .. m /\ c[i] = d.out[i])
      <4>1. \A i \in n + 1 .. Len(c) : i = m + 1 \/ (i \in n + 1 .. m /\ i \in 1 .. m)
        BY <3>2, <1>1
      <4> QED BY <4>1, <3>2
    <3>8. c[m + 1] = blks[k + 1] /\ m + 1 \in n + 1 .. Len(c)
      BY <3>2, <3>5, <1>1 DEF blk
    <3>9. Copied(c, n, blks, b)
      <4>1. SUFFICES ASSUME NEW i \in n + 1 .. Len(c)
                     PROVE  \E j \in 1 .. Len(blks) : c[i] = blks[j] /\ blks[j].board # b
        BY DEF Copied
      <4>2. CASE i = m + 1
        BY <4>2, <3>8, <2>3, <1>1 DEF blk
      <4>3. CASE i \in n + 1 .. m /\ c[i] = d.out[i]
        BY <4>3, <3>5 DEF Copied
      <4> QED BY <4>2, <4>3, <3>7
    <3>10. AllCopied(c, n, blks, b, k + 1)
      <4>1. SUFFICES ASSUME NEW j \in 1 .. k + 1, blks[j].board # b
                     PROVE  \E i \in n + 1 .. Len(c) : c[i] = blks[j]
        BY DEF AllCopied
      <4>2. CASE j = k + 1
        BY <4>2, <3>8
      <4>3. CASE j # k + 1
        <5>1. j \in 1 .. k
          BY <4>3
        <5>2. PICK i \in n + 1 .. m : d.out[i] = blks[j]
          BY <5>1, <4>1, <2>1 DEF AllCopied
        <5>3. i \in n + 1 .. Len(c) /\ i \in 1 .. m
          BY <3>2, <1>1
        <5>4. c[i] = blks[j]
          BY <5>2, <5>3, <3>2
        <5> QED BY <5>3, <5>4
      <4> QED BY <4>2, <4>3
    <3>11. ASSUME Distinct(blks)
           PROVE  /\ Apart(c, n)
                  /\ \A i \in n + 1 .. Len(c) : \E j \in 1 .. k + 1 : c[i] = blks[j]
      <4>1. /\ Apart(d.out, n)
            /\ \A i \in n + 1 .. m : \E j \in 1 .. k : d.out[i] = blks[j]
        BY <3>11 DEF CopyInv
      <4>2. \A i \in n + 1 .. Len(c) : i # m + 1 => \E j \in 1 .. k : c[i] = blks[j]
        BY <4>1, <3>7
      <4>3. \A j \in 1 .. k : j \in 1 .. k + 1 /\ j \in 1 .. Len(blks) /\ j # k + 1
        BY <1>1
      <4>4. \A i \in n + 1 .. Len(c) : \E j \in 1 .. k + 1 : c[i] = blks[j]
        <5>1. k + 1 \in 1 .. k + 1
          OBVIOUS
        <5> QED BY <5>1, <4>2, <4>3, <3>8
      <4>5. \A i \in n + 1 .. Len(c) : i # m + 1 => c[i].board # c[m + 1].board
        <5>1. SUFFICES ASSUME NEW i \in n + 1 .. Len(c), i # m + 1 PROVE c[i].board # c[m + 1].board
          OBVIOUS
        <5>2. PICK j \in 1 .. k : c[i] = blks[j]
          BY <4>2, <5>1
        <5>3. blks[j].board # blks[k + 1].board
          BY <4>3, <3>11, <1>1 DEF Distinct
        <5> QED BY <5>2, <5>3, <3>8
      <4>6. Apart(c, n)
        <5>1. SUFFICES ASSUME NEW i \in n + 1 .. Len(c), NEW j \in n + 1 .. Len(c),
                              c[i].board = c[j].board
                       PROVE  i = j
          BY DEF Apart
        <5>2. CASE i = m + 1 \/ j = m + 1
          BY <5>1, <5>2, <4>5
        <5>3. CASE i # m + 1 /\ j # m + 1
          BY <5>1, <5>3, <3>7, <4>1 DEF Apart
        <5> QED BY <5>2, <5>3
      <4> QED BY <4>4, <4>6
    <3> QED BY <3>1, <3>4, <3>6, <3>9, <3>10, <3>11 DEF CopyInv
  <2> QED BY <2>2, <2>3
<1>6. SizeOf(d.out) + Size(blk) \in Nat
  BY <1>2
<1> QED BY <1>2, <1>4, <1>5, <1>6

\* What Copy returns: what it was given, and then blocks of blks beside b; all of them,
\* unless there is no room.
LEMMA CopyRight ==
  ASSUME NEW out \in Files, NEW blks \in Files, NEW b, SizeOf(out) <= MaxSize
  PROVE  LET c == Copy(out, blks, b)
         IN  /\ c \in Files /\ SizeOf(c) <= MaxSize
             /\ Starts(c, out) /\ Copied(c, Len(out), blks, b)
             /\ \/ AllCopied(c, Len(out), blks, b, Len(blks))
                \/ SizeOf(out) + SizeOf(blks) > MaxSize
             /\ Distinct(blks) => Apart(c, Len(out))
<1> DEFINE n == Len(blks)
<1>1. PICK f : Copying(f, out, blks, b) /\ Copy(out, blks, b) = f[n].out
  BY CopySteps
<1>2. PICK t : Totals(t, blks) /\ SizeOf(blks) = t[n]
  BY SizeTotals
<1>3. n \in Nat /\ Len(out) \in Nat /\ SizeOf(out) \in Nat
  BY FileTyped, SizeNat
<1> DEFINE S == {k \in Nat : k <= n => CopyInv(f[k], k, t, out, blks, b)}
<1>4. 0 \in S
  <2>1. f[0] = [out |-> out, full |-> FALSE] /\ t[0] = 0
    BY <1>1, <1>2 DEF Copying, Totals
  <2>2. f[0].out = out /\ ~f[0].full
    BY <2>1
  <2>3. /\ Starts(out, out) /\ Copied(out, Len(out), blks, b)
        /\ AllCopied(out, Len(out), blks, b, 0) /\ Apart(out, Len(out))
    BY <1>3 DEF Starts, Copied, AllCopied, Apart
  <2>4. SizeOf(out) <= SizeOf(out) + t[0]
    BY <2>1, <1>3
  <2>5. \A i \in Len(out) + 1 .. Len(out) : \E j \in 1 .. 0 : out[i] = blks[j]
    BY <1>3
  <2>6. CopyInv(f[0], 0, t, out, blks, b)
    BY <2>2, <2>3, <2>4, <2>5 DEF CopyInv
  <2> QED BY <2>6
<1>5. ASSUME NEW k \in Nat, k \in S PROVE k + 1 \in S
  <2>1. SUFFICES ASSUME k + 1 <= n PROVE CopyInv(f[k + 1], k + 1, t, out, blks, b)
    OBVIOUS
  <2>2. k \in 0 .. n /\ k + 1 \in 1 .. n /\ (k + 1) - 1 = k /\ CopyInv(f[k], k, t, out, blks, b)
    BY <2>1, <1>3, <1>5
  <2>3. f[k] \in Done /\ f[k + 1] = CopyBlock(f[k], blks[k + 1], b)
    BY <2>2, <1>1 DEF Copying
  <2> QED BY <2>1, <2>2, <2>3, <1>2, CopyOne
<1>6. CopyInv(f[n], n, t, out, blks, b)
  <2> HIDE DEF S
  <2>1. Nat \subseteq S
    BY <1>4, <1>5, NatSet
  <2> QED BY <2>1, <1>3 DEF S
<1>7. f[n] \in Done
  <2>1. n \in 0 .. n
    BY <1>3
  <2> QED BY <2>1, <1>1 DEF Copying
<1> QED BY <1>1, <1>2, <1>6, <1>7 DEF CopyInv, Done

-----------------------------------------------------------------------------
(* brc_putblock and brc_getblock *)

\* The settings have no times, and every board has at least one.
IsBlock(blk) == blk \in Blocks /\ Sorted(blk.list) /\ (blk.list = <<>> <=> blk.board = INFO)
IsFile(blks) ==
  blks \in Files /\ SizeOf(blks) <= MaxSize /\ \A i \in 1 .. Len(blks) : IsBlock(blks[i])

\* One block for a name, the settings first, and none that says nothing.
Clean(blks) ==
  /\ Distinct(blks)
  /\ INFO \in Names(blks) => blks[1].board = INFO
  /\ \A i \in 1 .. Len(blks) : blks[i].list # <<1>>

LEMMA NamesOf ==
  ASSUME NEW blks \in Files
  PROVE  \A b : b \in Names(blks) <=> \E i \in 1 .. Len(blks) : blks[i].board = b
BY FileTyped DEF Names

LEMMA GetFirst ==
  ASSUME NEW blks \in Files, NEW i \in 1 .. Len(blks), NEW b, blks[i].board = b,
         \A j \in 1 .. Len(blks) : blks[j].board = b => i <= j
  PROVE  Get(blks, b) = blks[i].list
<1> DEFINE S == {j \in DOMAIN blks : blks[j].board = b}
<1>1. i \in S /\ S \in SUBSET Nat /\ \A j \in S : i <= j
  BY FileTyped
<1>2. Min(S) = i
  <2> HIDE DEF S
  <2>1. Min(S) \in S /\ Min(S) <= i
    BY <1>1, MinIn
  <2>2. i <= Min(S) /\ i \in Nat /\ Min(S) \in Nat
    BY <1>1, <2>1
  <2> QED BY <2>1, <2>2
<1>3. b \in Names(blks)
  BY NamesOf
<1> QED BY <1>2, <1>3 DEF Get

LEMMA GetFound ==
  ASSUME NEW blks \in Files, Distinct(blks), NEW i \in 1 .. Len(blks)
  PROVE  Get(blks, blks[i].board) = blks[i].list
<1>1. \A j \in 1 .. Len(blks) : blks[j].board = blks[i].board => i <= j
  BY DEF Distinct
<1> QED BY <1>1, GetFirst

LEMMA GetNone ==
  ASSUME NEW blks, NEW b, b \notin Names(blks) PROVE Get(blks, b) = <<1>>
BY DEF Get

LEMMA OneTimes == IsTimes(<<1>>) /\ <<1>> # <<>> /\ Len(<<1>>) = 1
<1>1. <<1>> \in Seq(Times \cup {1}) /\ Len(<<1>>) = 1
  OBVIOUS
<1>2. <<1>> \in Lists
  <2>1. Len(<<1>>) <= BRC_MAXNUM
    BY <1>1, BoardrcAssumption
  <2> HIDE DEF Lists
  <2> QED BY <1>1, <2>1, ListIn
<1>3. Sorted(<<1>>)
  BY DEF Sorted
<1> QED BY <1>1, <1>2, <1>3 DEF IsTimes

LEMMA GetPlace ==
  ASSUME NEW blks \in Files, NEW b \in Names(blks)
  PROVE  \E i \in 1 .. Len(blks) : blks[i].board = b /\ Get(blks, b) = blks[i].list
<1> DEFINE S == {j \in DOMAIN blks : blks[j].board = b}
<1>1. S \in SUBSET Nat /\ S # {} /\ S \subseteq 1 .. Len(blks)
  BY FileTyped DEF Names
<1>2. Min(S) \in S
  <2> HIDE DEF S
  <2> QED BY <1>1, MinIn
<1>3. Get(blks, b) = blks[Min(S)].list
  BY DEF Get
<1> QED BY <1>1, <1>2, <1>3

LEMMA GetTyped ==
  ASSUME NEW blks, IsFile(blks), NEW b
  PROVE  IsTimes(Get(blks, b)) /\ (b # INFO => Get(blks, b) # <<>>)
<1>1. CASE b \in Names(blks)
  <2>1. PICK i \in 1 .. Len(blks) : blks[i].board = b /\ Get(blks, b) = blks[i].list
    BY <1>1, GetPlace DEF IsFile
  <2>2. IsBlock(blks[i])
    BY DEF IsFile
  <2> QED BY <2>1, <2>2, BlockTyped DEF IsBlock, IsTimes
<1>2. CASE b \notin Names(blks)
  BY <1>2, GetNone, OneTimes
<1> QED BY <1>1, <1>2

\* Where brc_putblock begins to copy, and what.
Front(blks, new) ==
  IF blks # <<>> /\ blks[1].board = INFO /\ new.board # INFO THEN <<blks[1], new>> ELSE <<new>>
Back(blks, new) ==
  IF blks # <<>> /\ blks[1].board = INFO /\ new.board # INFO THEN Tail(blks) ELSE blks

LEMMA PutCopies ==
  ASSUME NEW blks, IsFile(blks), NEW new, IsBlock(new)
  PROVE  LET out == Front(blks, new)
             rest == Back(blks, new)
         IN  /\ PutBlock(blks, new) = Copy(out, rest, new.board)
             /\ out \in Files /\ rest \in Files /\ SizeOf(out) <= MaxSize
             /\ SizeOf(out) + SizeOf(rest) = SizeOf(blks) + Size(new)
             /\ \/ Len(out) = 1 /\ out[1] = new /\ rest = blks
                   /\ (new.board = INFO \/ blks = <<>> \/ blks[1].board # INFO)
                \/ /\ Len(out) = 2 /\ out[1] = blks[1] /\ out[2] = new
                   /\ blks # <<>> /\ blks[1].board = INFO /\ new.board # INFO
                   /\ Len(rest) = Len(blks) - 1
                   /\ \A i \in 1 .. Len(rest) : rest[i] = blks[i + 1]
<1>0. blks \in Files /\ new \in Blocks /\ Size(new) \in Nat /\ MaxSize \in Nat /\ BRC_MAXNUM \in Nat
      /\ Size(new) <= 1 + BRC_MAXNUM /\ MaxSize >= BRC_MAXNUM + 2 /\ SizeOf(blks) \in Nat
      /\ new.board \in AllNames
  BY BlockTyped, SizeNat, BoardrcAssumption DEF IsFile, IsBlock
<1>1. CASE blks # <<>> /\ blks[1].board = INFO /\ new.board # INFO
  <2> DEFINE one == blks[1]
             out == <<one, new>>
             rest == Tail(blks)
  <2>1. Front(blks, new) = out /\ Back(blks, new) = rest
    BY <1>1 DEF Front, Back
  <2>2. PutBlock(blks, new) = Copy(out, rest, new.board)
    BY <1>1 DEF PutBlock
  <2>3. Len(blks) \in Nat /\ Len(blks) >= 1 /\ 1 \in 1 .. Len(blks) /\ one \in Blocks
    BY <1>0, <1>1, FileTyped, EmptySeq DEF Files
  <2>4. /\ rest \in Files /\ Len(rest) = Len(blks) - 1
        /\ \A i \in 1 .. Len(rest) : rest[i] = blks[i + 1]
    BY <1>0, <1>1, <2>3, HeadTailProperties DEF Files
  <2>5. Size(one) = 1
    <3>1. one.list = <<>>
      BY <1>1, <2>3 DEF IsFile, IsBlock
    <3> QED BY <3>1 DEF Size
  <2>6. <<one>> \in Files /\ <<new>> \in Files /\ out = <<one>> \o <<new>>
    BY <1>0, <2>3 DEF Files
  <2>7. out \in Files /\ Len(out) = 2 /\ out[1] = one /\ out[2] = new
    BY <1>0, <2>3 DEF Files
  <2>8. blks = <<one>> \o rest
    <3>1. Len(<<one>> \o rest) = Len(blks) /\ <<one>> \o rest \in Seq(Blocks)
      BY <2>3, <2>4, <2>6, ConcatProperties DEF Files
    <3>2. ASSUME NEW i \in 1 .. Len(blks) PROVE blks[i] = (<<one>> \o rest)[i]
      <4>1. CASE i = 1
        BY <4>1, <2>4, <2>6, ConcatProperties DEF Files
      <4>2. CASE i # 1
        <5>1. i - 1 \in 1 .. Len(rest) /\ (i - 1) + 1 = i
          BY <4>2, <2>3, <2>4
        <5>2. (<<one>> \o rest)[i] = rest[i - 1]
          BY <4>2, <2>3, <2>4, <2>6, ConcatProperties DEF Files
        <5> QED BY <5>1, <5>2, <2>4
      <4> QED BY <4>1, <4>2
    <3> QED BY <3>1, <3>2, <1>0, SeqEqual DEF Files
  <2> HIDE DEF rest, one
  <2>9. SizeOf(blks) = 1 + SizeOf(rest)
    <3>1. SizeOf(<<one>>) = 1
      BY <2>3, <2>5, SizeOfOne
    <3> QED BY <3>1, <2>4, <2>6, <2>8, SizeConcat
  <2>10. SizeOf(out) = 1 + Size(new)
    <3>1. SizeOf(<<one>>) = 1 /\ SizeOf(<<new>>) = Size(new)
      BY <1>0, <2>3, <2>5, SizeOfOne
    <3>2. SizeOf(<<one>> \o <<new>>) = SizeOf(<<one>>) + SizeOf(<<new>>)
      BY <2>6, SizeConcat
    <3> QED BY <3>1, <3>2, <2>6
  <2>11. SizeOf(rest) \in Nat
    BY <2>4, SizeNat
  <2>12. SizeOf(out) <= MaxSize /\ SizeOf(out) + SizeOf(rest) = SizeOf(blks) + Size(new)
    BY <1>0, <2>9, <2>10, <2>11
  <2> QED BY <1>1, <2>1, <2>2, <2>4, <2>7, <2>12 DEF one
<1>2. CASE ~(blks # <<>> /\ blks[1].board = INFO /\ new.board # INFO)
  <2>1. /\ Front(blks, new) = <<new>> /\ Back(blks, new) = blks
        /\ PutBlock(blks, new) = Copy(<<new>>, blks, new.board)
    BY <1>2 DEF PutBlock, Front, Back
  <2>2. <<new>> \in Files /\ Len(<<new>>) = 1 /\ <<new>>[1] = new
    BY <1>0 DEF Files
  <2>3. SizeOf(<<new>>) = Size(new)
    BY <1>0, SizeOfOne
  <2>4. SizeOf(<<new>>) <= MaxSize /\ SizeOf(<<new>>) + SizeOf(blks) = SizeOf(blks) + Size(new)
    BY <1>0, <2>3
  <2> QED BY <1>0, <1>2, <2>1, <2>2, <2>4
<1> QED BY <1>1, <1>2

\* In the new file: the new block, and what there was of other names.
LEMMA PutFrom ==
  ASSUME NEW blks, IsFile(blks), NEW new, IsBlock(new)
  PROVE  LET p == PutBlock(blks, new)
         IN  /\ p \in Files /\ SizeOf(p) <= MaxSize /\ Len(p) \in Nat
             /\ \A i \in 1 .. Len(p) :
                  p[i] = new \/ \E j \in 1 .. Len(blks) : p[i] = blks[j] /\ blks[j].board # new.board
             /\ \E n \in {1, 2} :
                  /\ n \in 1 .. Len(p) /\ p[n] = new
                  /\ n = 2 => p[1] = blks[1] /\ blks # <<>> /\ blks[1].board = INFO
                              /\ new.board # INFO
                  /\ n = 1 => new.board = INFO \/ blks = <<>> \/ blks[1].board # INFO
                  /\ \A i \in n + 1 .. Len(p) : p[i].board # new.board
<1> DEFINE out == Front(blks, new)
           rest == Back(blks, new)
           n == Len(out)
           p == PutBlock(blks, new)
<1>1. /\ p = Copy(out, rest, new.board)
      /\ out \in Files /\ rest \in Files /\ SizeOf(out) <= MaxSize
      /\ \/ n = 1 /\ out[1] = new /\ rest = blks
            /\ (new.board = INFO \/ blks = <<>> \/ blks[1].board # INFO)
         \/ /\ n = 2 /\ out[1] = blks[1] /\ out[2] = new
            /\ blks # <<>> /\ blks[1].board = INFO /\ new.board # INFO
            /\ Len(rest) = Len(blks) - 1
            /\ \A i \in 1 .. Len(rest) : rest[i] = blks[i + 1]
  BY PutCopies
<1> HIDE DEF out, rest, p
<1>2. p \in Files /\ SizeOf(p) <= MaxSize /\ Starts(p, out) /\ Copied(p, n, rest, new.board)
  BY <1>1, CopyRight
<1>3. Len(p) \in Nat /\ Len(blks) \in Nat /\ Len(rest) \in Nat /\ blks \in Files
  BY <1>1, <1>2, FileTyped DEF IsFile
<1>4. n \in {1, 2} /\ n \in 1 .. Len(p) /\ p[n] = new /\ p[1] = out[1]
  <2>1. n <= Len(p) /\ n \in {1, 2} /\ out[n] = new
    BY <1>1, <1>2 DEF Starts
  <2>2. n \in 1 .. n /\ 1 \in 1 .. n
    BY <2>1
  <2> QED BY <2>1, <2>2, <1>2, <1>3 DEF Starts
<1>5. \A j \in 1 .. Len(rest) : \E k \in 1 .. Len(blks) : rest[j] = blks[k]
  <2>1. CASE rest = blks
    BY <2>1
  <2>2. CASE n = 2
    <3>1. \A j \in 1 .. Len(rest) : j + 1 \in 1 .. Len(blks) /\ rest[j] = blks[j + 1]
      BY <1>1, <1>3, <2>2
    <3> QED BY <3>1
  <2> QED BY <1>1, <2>1, <2>2
<1>6. ASSUME NEW i \in n + 1 .. Len(p)
      PROVE  \E j \in 1 .. Len(blks) : p[i] = blks[j] /\ blks[j].board # new.board
  <2>1. PICK j \in 1 .. Len(rest) : p[i] = rest[j] /\ rest[j].board # new.board
    BY <1>2 DEF Copied
  <2> QED BY <2>1, <1>5
<1>7. ASSUME NEW i \in 1 .. Len(p)
      PROVE  p[i] = new \/ \E j \in 1 .. Len(blks) : p[i] = blks[j] /\ blks[j].board # new.board
  <2>1. CASE i \in n + 1 .. Len(p)
    BY <1>6, <2>1
  <2>2. CASE i = n
    BY <1>4, <2>2
  <2>3. CASE i = 1 /\ n = 2
    <3>1. p[i] = blks[1] /\ blks[1].board # new.board /\ 1 \in 1 .. Len(blks)
      <4>1. Len(blks) # 0
        BY <1>1, <1>3, <2>3, EmptySeq DEF Files
      <4> QED BY <4>1, <1>1, <1>3, <1>4, <2>3
    <3> QED BY <3>1
  <2>4. i \in n + 1 .. Len(p) \/ i = n \/ (i = 1 /\ n = 2)
    <3> HIDE DEF n
    <3> QED BY <1>3, <1>4
  <2> QED BY <2>1, <2>2, <2>3, <2>4
<1>8. \A i \in n + 1 .. Len(p) : p[i].board # new.board
  BY <1>6
<1>9. n = 2 => p[1] = blks[1] /\ blks # <<>> /\ blks[1].board = INFO /\ new.board # INFO
  <2>1. SUFFICES ASSUME n = 2 PROVE p[1] = blks[1] /\ blks # <<>> /\ blks[1].board = INFO
                                   /\ new.board # INFO
    OBVIOUS
  <2>2. n # 1
    BY <2>1
  <2> HIDE DEF n
  <2> QED BY <2>2, <1>1, <1>4
<1>10. n = 1 => new.board = INFO \/ blks = <<>> \/ blks[1].board # INFO
  <2>1. SUFFICES ASSUME n = 1 PROVE new.board = INFO \/ blks = <<>> \/ blks[1].board # INFO
    OBVIOUS
  <2>2. n # 2
    BY <2>1
  <2> HIDE DEF n
  <2> QED BY <2>2, <1>1
<1> HIDE DEF n
<1> QED BY <1>2, <1>3, <1>4, <1>7, <1>8, <1>9, <1>10 DEF p

\* brc_putblock and then brc_getblock: the new block.
LEMMA PutFile ==
  ASSUME NEW blks, IsFile(blks), NEW new, IsBlock(new)
  PROVE  LET p == PutBlock(blks, new)
         IN  IsFile(p) /\ Get(p, new.board) = new.list /\ new.board \in Names(p)
<1> DEFINE p == PutBlock(blks, new)
<1>1. /\ p \in Files /\ SizeOf(p) <= MaxSize /\ Len(p) \in Nat
      /\ \A i \in 1 .. Len(p) :
           p[i] = new \/ \E j \in 1 .. Len(blks) : p[i] = blks[j] /\ blks[j].board # new.board
  BY PutFrom
<1>2. PICK n \in {1, 2} :
         /\ n \in 1 .. Len(p) /\ p[n] = new
         /\ n = 2 => p[1] = blks[1] /\ blks # <<>> /\ blks[1].board = INFO
                     /\ new.board # INFO
  BY PutFrom
<1> HIDE DEF p
<1>3. \A i \in 1 .. Len(p) : IsBlock(p[i])
  BY <1>1 DEF IsFile
<1>4. \A j \in 1 .. Len(p) : p[j].board = new.board => n <= j
  <2>1. \A j \in 1 .. Len(p) : ~(n <= j) => j = 1 /\ n = 2
    BY <1>1, <1>2
  <2> QED BY <2>1, <1>2
<1>5. Get(p, new.board) = p[n].list
  BY <1>1, <1>2, <1>4, GetFirst
<1>6. new.board \in Names(p)
  BY <1>1, <1>2, NamesOf
<1> QED BY <1>1, <1>2, <1>3, <1>5, <1>6 DEF p, IsFile

\* A file without doubled names stays so, with the settings first.
LEMMA PutClean ==
  ASSUME NEW blks, IsFile(blks), Clean(blks), NEW new, IsBlock(new), new.list # << 1 >>
  PROVE  Clean(PutBlock(blks, new))
<1> DEFINE out == Front(blks, new)
           rest == Back(blks, new)
           p == PutBlock(blks, new)
<1>1. /\ p \in Files /\ Len(p) \in Nat
      /\ \A i \in 1 .. Len(p) :
           p[i] = new \/ \E j \in 1 .. Len(blks) : p[i] = blks[j] /\ blks[j].board # new.board
  BY PutFrom
<1>2. PICK n \in {1, 2} :
         /\ n \in 1 .. Len(p) /\ p[n] = new
         /\ n = 2 => p[1] = blks[1] /\ blks # <<>> /\ blks[1].board = INFO
                     /\ new.board # INFO
         /\ n = 1 => new.board = INFO \/ blks = <<>> \/ blks[1].board # INFO
         /\ \A i \in n + 1 .. Len(p) : p[i].board # new.board
  BY PutFrom
<1>3. /\ p = Copy(out, rest, new.board)
      /\ out \in Files /\ rest \in Files /\ SizeOf(out) <= MaxSize
      /\ \/ Len(out) = 1 /\ out[1] = new /\ rest = blks
            /\ (new.board = INFO \/ blks = <<>> \/ blks[1].board # INFO)
         \/ /\ Len(out) = 2 /\ out[1] = blks[1] /\ out[2] = new
            /\ blks # <<>> /\ blks[1].board = INFO /\ new.board # INFO
            /\ Len(rest) = Len(blks) - 1
            /\ \A i \in 1 .. Len(rest) : rest[i] = blks[i + 1]
  BY PutCopies
<1> HIDE DEF out, rest, p
<1>4. blks \in Files /\ Len(blks) \in Nat /\ Len(rest) \in Nat
  BY <1>3, FileTyped DEF IsFile
<1>5. Len(out) = n
  <2>1. CASE Len(out) = 1 /\ n = 2
    BY <1>2, <1>3, <2>1
  <2>2. CASE Len(out) = 2 /\ n = 1
    BY <1>2, <1>3, <2>2
  <2> QED BY <1>2, <1>3, <2>1, <2>2
<1>6. Distinct(rest)
  <2>1. CASE rest = blks
    BY <2>1 DEF Clean
  <2>2. CASE Len(rest) = Len(blks) - 1 /\ \A i \in 1 .. Len(rest) : rest[i] = blks[i + 1]
    <3>1. SUFFICES ASSUME NEW i \in 1 .. Len(rest), NEW j \in 1 .. Len(rest),
                          rest[i].board = rest[j].board
                   PROVE  i = j
      BY DEF Distinct
    <3>2. i + 1 \in 1 .. Len(blks) /\ j + 1 \in 1 .. Len(blks)
      BY <2>2, <1>4
    <3>3. blks[i + 1].board = blks[j + 1].board
      BY <2>2, <3>1
    <3>4. i + 1 = j + 1
      BY <3>2, <3>3 DEF Clean, Distinct
    <3> QED BY <3>4
  <2> QED BY <1>3, <2>1, <2>2
<1>7. Apart(p, n) /\ Copied(p, n, rest, new.board)
  BY <1>3, <1>5, <1>6, CopyRight
<1>8. ASSUME n = 2, NEW i \in 3 .. Len(p) PROVE p[i].board # INFO
  <2>1. rest # blks
    BY <1>3, <1>5, <1>8, <1>4
  <2>2. PICK j \in 1 .. Len(rest) : p[i] = rest[j]
    BY <1>7, <1>8 DEF Copied
  <2>3. p[i] = blks[j + 1] /\ j + 1 \in 1 .. Len(blks) /\ j + 1 # 1 /\ 1 \in 1 .. Len(blks)
    BY <2>1, <2>2, <1>3, <1>4
  <2>4. blks[1].board = INFO
    BY <1>2, <1>8
  <2> QED BY <2>3, <2>4 DEF Clean, Distinct
<1>9. Distinct(p)
  <2>1. SUFFICES ASSUME NEW i \in 1 .. Len(p), NEW j \in 1 .. Len(p), i < j PROVE p[i].board # p[j].board
    <3>1. ASSUME NEW i \in 1 .. Len(p), NEW j \in 1 .. Len(p), p[i].board = p[j].board PROVE i = j
      BY <2>1, <3>1
    <3> QED BY <3>1 DEF Distinct
  <2>2. CASE i > n
    <3>1. i \in n + 1 .. Len(p) /\ j \in n + 1 .. Len(p) /\ i # j
      BY <1>2, <2>1, <2>2
    <3> QED BY <3>1, <1>7 DEF Apart
  <2>3. CASE i = n
    BY <1>2, <2>1, <2>3
  <2>4. CASE i < n
    <3>1. i = 1 /\ n = 2 /\ p[1].board = INFO /\ new.board # INFO
      BY <1>2, <2>4
    <3>2. j = 2 \/ j \in 3 .. Len(p)
      BY <2>1, <3>1
    <3> QED BY <3>1, <3>2, <1>2, <1>8
  <2> QED BY <2>2, <2>3, <2>4, <1>2
<1>10. INFO \in Names(p) => p[1].board = INFO
  <2>1. SUFFICES ASSUME INFO \in Names(p), p[1].board # INFO PROVE FALSE
    OBVIOUS
  <2>2. n = 1
    BY <1>2, <2>1
  <2>3. PICK i \in 1 .. Len(p) : p[i].board = INFO
    BY <1>1, <2>1, NamesOf
  <2>4. new.board # INFO
    BY <1>2, <2>1, <2>2
  <2>5. PICK j \in 1 .. Len(blks) : p[i] = blks[j]
    BY <1>1, <2>3, <2>4
  <2>6. INFO \in Names(blks)
    BY <2>3, <2>5, <1>4, NamesOf
  <2>7. blks # <<>>
    BY <2>5
  <2> QED BY <2>2, <2>4, <2>6, <2>7, <1>2 DEF Clean
<1>11. \A i \in 1 .. Len(p) : p[i].list # <<1>>
  BY <1>1 DEF Clean
<1> QED BY <1>9, <1>10, <1>11 DEF Clean, p

\* What there was of another name is still there, unless it is a board's and there is
\* no room.
LEMMA PutOthers ==
  ASSUME NEW blks, IsFile(blks), Clean(blks), NEW new, IsBlock(new), new.list # << 1 >>,
         NEW b, b # new.board
  PROVE  LET p == PutBlock(blks, new)
         IN  \/ Get(p, b) = Get(blks, b)
             \/ b # INFO /\ b \notin Names(p) /\ SizeOf(blks) + Size(new) > MaxSize
<1> DEFINE out == Front(blks, new)
           rest == Back(blks, new)
           p == PutBlock(blks, new)
<1>1. /\ p \in Files /\ Len(p) \in Nat
      /\ \A i \in 1 .. Len(p) :
           p[i] = new \/ \E j \in 1 .. Len(blks) : p[i] = blks[j] /\ blks[j].board # new.board
  BY PutFrom
<1>2. /\ p = Copy(out, rest, new.board)
      /\ out \in Files /\ rest \in Files /\ SizeOf(out) <= MaxSize
      /\ SizeOf(out) + SizeOf(rest) = SizeOf(blks) + Size(new)
      /\ \/ Len(out) = 1 /\ out[1] = new /\ rest = blks
            /\ (new.board = INFO \/ blks = <<>> \/ blks[1].board # INFO)
         \/ /\ Len(out) = 2 /\ out[1] = blks[1] /\ out[2] = new
            /\ blks # <<>> /\ blks[1].board = INFO /\ new.board # INFO
            /\ Len(rest) = Len(blks) - 1
            /\ \A i \in 1 .. Len(rest) : rest[i] = blks[i + 1]
  BY PutCopies
<1>3. Clean(p)
  BY PutClean
<1> HIDE DEF out, rest, p
<1>4. blks \in Files /\ Len(blks) \in Nat /\ Len(rest) \in Nat /\ Len(out) \in Nat
  BY <1>2, FileTyped DEF IsFile
<1>5. /\ Starts(p, out)
      /\ \/ AllCopied(p, Len(out), rest, new.board, Len(rest))
         \/ SizeOf(blks) + Size(new) > MaxSize
  BY <1>2, CopyRight
<1>6. CASE b \notin Names(blks)
  <2>1. b \notin Names(p)
    <3>1. SUFFICES ASSUME NEW i \in 1 .. Len(p), p[i].board = b PROVE FALSE
      BY <1>1, NamesOf
    <3>2. PICK j \in 1 .. Len(blks) : p[i] = blks[j]
      BY <1>1, <3>1
    <3> QED BY <3>1, <3>2, <1>4, <1>6, NamesOf
  <2> QED BY <2>1, <1>6, GetNone DEF p
<1>7. CASE b \in Names(p)
  <2>1. PICK i \in 1 .. Len(p) : p[i].board = b
    BY <1>1, <1>7, NamesOf
  <2>2. PICK j \in 1 .. Len(blks) : p[i] = blks[j]
    BY <1>1, <2>1
  <2>3. Get(p, b) = p[i].list
    BY <1>1, <1>3, <2>1, GetFound DEF Clean
  <2>4. Get(blks, b) = blks[j].list
    BY <1>4, <2>1, <2>2, GetFound DEF Clean
  <2> QED BY <2>2, <2>3, <2>4 DEF p
<1>8. CASE b \in Names(blks) /\ b \notin Names(p)
  <2>1. PICK j \in 1 .. Len(blks) : blks[j].board = b
    BY <1>4, <1>8, NamesOf
  <2>2. ASSUME NEW i \in 1 .. Len(p), p[i] = blks[j] PROVE FALSE
    BY <2>1, <2>2, <1>1, <1>8, NamesOf
  <2>3. ASSUME Len(out) = 2, j = 1 PROVE FALSE
    <3>1. p[1] = out[1] /\ out[1] = blks[1] /\ 1 \in 1 .. Len(p)
      BY <2>3, <1>1, <1>2, <1>5 DEF Starts
    <3> QED BY <2>2, <2>3, <3>1
  <2>4. ASSUME AllCopied(p, Len(out), rest, new.board, Len(rest)) PROVE FALSE
    <3>1. PICK k \in 1 .. Len(rest) : rest[k] = blks[j]
      <4>1. CASE rest = blks
        BY <4>1
      <4>2. CASE Len(out) = 2 /\ Len(rest) = Len(blks) - 1 /\ \A i \in 1 .. Len(rest) : rest[i] = blks[i + 1]
        <5>1. j # 1
          BY <2>3, <4>2
        <5>2. j - 1 \in 1 .. Len(rest) /\ (j - 1) + 1 = j
          BY <4>2, <5>1, <1>4
        <5> QED BY <4>2, <5>2
      <4> QED BY <1>2, <4>1, <4>2
    <3>2. rest[k].board # new.board
      BY <2>1, <3>1
    <3>3. PICK i \in Len(out) + 1 .. Len(p) : p[i] = rest[k]
      BY <2>4, <3>2 DEF AllCopied
    <3>4. i \in 1 .. Len(p)
      BY <1>1, <1>4
    <3> QED BY <2>2, <3>1, <3>3, <3>4
  <2>5. SizeOf(blks) + Size(new) > MaxSize
    BY <1>5, <2>4
  <2>6. b # INFO
    <3>1. SUFFICES ASSUME b = INFO PROVE FALSE
      OBVIOUS
    <3>2. blks[1].board = INFO /\ blks # <<>> /\ new.board # INFO
      BY <3>1, <2>1, <1>8 DEF Clean
    <3>3. Len(out) = 2
      BY <3>2, <1>2
    <3>4. 1 \in 1 .. Len(blks)
      BY <2>1, <1>4
    <3>5. j = 1
      BY <2>1, <3>1, <3>2, <3>4 DEF Clean, Distinct
    <3> QED BY <2>3, <3>3, <3>5
  <2> QED BY <2>5, <2>6, <1>8 DEF p
<1> QED BY <1>6, <1>7, <1>8

-----------------------------------------------------------------------------
(* Files that say the same are as long *)

\* A file as a set, with as many elements as its size.
Cells(c) == {x \in AllNames \X Nat :
               \E i \in 1 .. Len(c) : c[i].board = x[1] /\ x[2] <= Len(c[i].list)}

LEMMA CellsCount ==
  ASSUME NEW a \in Files, Distinct(a)
  PROVE  Cardinality(Cells(a)) = SizeOf(a)
<1> DEFINE S == {n \in Nat : \A c \in Files : Distinct(c) /\ Len(c) = n =>
                   IsFiniteSet(Cells(c)) /\ Cardinality(Cells(c)) = SizeOf(c)}
<1>1. 0 \in S
  <2>1. SUFFICES ASSUME NEW c \in Files, Len(c) = 0
                 PROVE  IsFiniteSet(Cells(c)) /\ Cardinality(Cells(c)) = SizeOf(c)
    OBVIOUS
  <2>2. c = <<>> /\ Cells(c) = {}
    BY <2>1, EmptySeq DEF Files, Cells
  <2> QED BY <2>2, SizeEmpty, FS_EmptySet
<1>2. ASSUME NEW n \in Nat, n \in S PROVE n + 1 \in S
  <2>1. SUFFICES ASSUME NEW c \in Files, Distinct(c), Len(c) = n + 1
                 PROVE  IsFiniteSet(Cells(c)) /\ Cardinality(Cells(c)) = SizeOf(c)
    OBVIOUS
  <2>2. c # <<>>
    BY <2>1
  <2>3. PICK d \in Files, blk \in Blocks : c = Append(d, blk)
    BY <2>2, SequenceEmptyOrAppend DEF Files
  <2>4. Len(d) = n /\ c[n + 1] = blk /\ \A i \in 1 .. n : c[i] = d[i]
    BY <2>1, <2>3, FileTyped, AppendProperties DEF Files
  <2>5. Distinct(d)
    <3>1. SUFFICES ASSUME NEW i \in 1 .. n, NEW j \in 1 .. n, d[i].board = d[j].board PROVE i = j
      BY <2>4 DEF Distinct
    <3>2. i \in 1 .. Len(c) /\ j \in 1 .. Len(c) /\ c[i].board = c[j].board
      BY <2>1, <2>4, <3>1
    <3> QED BY <2>1, <3>2 DEF Distinct
  <2>6. IsFiniteSet(Cells(d)) /\ Cardinality(Cells(d)) = SizeOf(d)
    BY <1>2, <2>4, <2>5
  <2> DEFINE m == Len(blk.list)
             more == {blk.board} \X (0 .. m)
  <2>7. m \in Nat /\ Size(blk) = m + 1 /\ blk.board \in AllNames
    <3>1. m \in Nat
      BY BlockTyped, ListTyped
    <3> QED BY <3>1, BlockTyped
  <2>8. IsFiniteSet(more) /\ Cardinality(more) = m + 1
    <3> HIDE DEF m
    <3>1. IsFiniteSet({blk.board}) /\ Cardinality({blk.board}) = 1
      BY FS_Singleton
    <3>2. IsFiniteSet(0 .. m) /\ Cardinality(0 .. m) = m - 0 + 1
      BY <2>7, FS_Interval
    <3>3. IsFiniteSet(more) /\ Cardinality(more) = Cardinality({blk.board}) * Cardinality(0 .. m)
      BY <3>1, <3>2, FS_Product
    <3> QED BY <3>1, <3>2, <3>3, <2>7
  <2>9. Cells(c) = Cells(d) \cup more
    <3>1. ASSUME NEW x \in AllNames \X Nat PROVE x \in Cells(c) <=> x \in Cells(d) \cup more
      <4>1. x \in Cells(c) <=> \E i \in 1 .. n + 1 : c[i].board = x[1] /\ x[2] <= Len(c[i].list)
        BY <2>1 DEF Cells
      <4>2. x \in Cells(d) <=> \E i \in 1 .. n : d[i].board = x[1] /\ x[2] <= Len(d[i].list)
        BY <2>4 DEF Cells
      <4>3. x \in more <=> blk.board = x[1] /\ x[2] <= Len(blk.list)
        BY <2>7
      <4>4. \A i : i \in 1 .. n + 1 <=> i \in 1 .. n \/ i = n + 1
        OBVIOUS
      <4> HIDE DEF more, m
      <4> QED BY <4>1, <4>2, <4>3, <4>4, <2>4
    <3>2. more \subseteq AllNames \X Nat
      BY <2>7
    <3> HIDE DEF more
    <3> QED BY <3>1, <3>2 DEF Cells
  <2>10. Cells(d) \cap more = {}
    <3>1. SUFFICES ASSUME NEW x \in Cells(d), x \in more PROVE FALSE
      OBVIOUS
    <3>2. PICK i \in 1 .. n : d[i].board = x[1]
      BY <2>4 DEF Cells
    <3>3. c[i].board = c[n + 1].board /\ i \in 1 .. Len(c) /\ n + 1 \in 1 .. Len(c) /\ i # n + 1
      BY <2>1, <2>4, <3>1, <3>2
    <3> QED BY <2>1, <3>3 DEF Distinct
  <2> HIDE DEF more, m
  <2>11. /\ IsFiniteSet(Cells(c))
         /\ Cardinality(Cells(c)) = Cardinality(Cells(d)) + Cardinality(more) - Cardinality({})
    BY <2>6, <2>8, <2>9, <2>10, FS_Union
  <2>12. SizeOf(c) = SizeOf(d) + Size(blk)
    BY <2>3, SizeAppend
  <2> QED BY <2>6, <2>7, <2>8, <2>11, <2>12, SizeNat, FS_EmptySet
<1>3. Nat \subseteq S
  <2> HIDE DEF S
  <2> QED BY <1>1, <1>2, NatSet
<1>4. Len(a) \in S
  BY <1>3, FileTyped
<1> QED BY <1>4

LEMMA CellsSay ==
  ASSUME NEW a, IsFile(a), Clean(a)
  PROVE  Cells(a) = {x \in AllNames \X Nat : Get(a, x[1]) # <<1>> /\ x[2] <= Len(Get(a, x[1]))}
<1>0. a \in Files /\ Distinct(a)
  BY DEF IsFile, Clean
<1>1. SUFFICES ASSUME NEW x \in AllNames \X Nat
               PROVE  (\E i \in 1 .. Len(a) : a[i].board = x[1] /\ x[2] <= Len(a[i].list))
                      <=> Get(a, x[1]) # <<1>> /\ x[2] <= Len(Get(a, x[1]))
  BY DEF Cells
<1>2. ASSUME NEW i \in 1 .. Len(a), a[i].board = x[1]
      PROVE  Get(a, x[1]) = a[i].list /\ a[i].list # <<1>>
  BY <1>0, <1>2, GetFound DEF Clean
<1>3. ASSUME Get(a, x[1]) # << 1 >>
      PROVE  \E i \in 1 .. Len(a) : a[i].board = x[1] /\ Get(a, x[1]) = a[i].list
  BY <1>0, <1>3, GetNone, GetPlace
<1> QED BY <1>2, <1>3

LEMMA SameSize ==
  ASSUME NEW a, IsFile(a), Clean(a), NEW b, IsFile(b), Clean(b),
         \A n \in AllNames : Get(a, n) = Get(b, n)
  PROVE  SizeOf(a) = SizeOf(b)
<1>1. \A x \in AllNames \X Nat : x[1] \in AllNames
  OBVIOUS
<1>2. Cells(a) = Cells(b)
  BY <1>1, CellsSay
<1>3. a \in Files /\ b \in Files /\ Distinct(a) /\ Distinct(b)
  BY DEF IsFile, Clean
<1> QED BY <1>2, <1>3, CellsCount

\* What is written over a file that is longer leaves the end of it.
LEMMA OverFile ==
  ASSUME NEW blks, IsFile(blks), NEW there, IsFile(there)
  PROVE  IsFile(Over(blks, there))
<1> DEFINE rest == {i \in 0 .. Len(there) : SizeOf(SubSeq(there, 1, i)) = SizeOf(blks)}
           m == Min(rest)
           end == SubSeq(there, m + 1, Len(there))
<1>1. CASE rest = {}
  BY <1>1 DEF Over
<1>2. CASE rest # {}
  <2>0. blks \in Files /\ there \in Files /\ Len(there) \in Nat /\ Len(blks) \in Nat
    BY FileTyped DEF IsFile
  <2>1. m \in rest
    <3>1. rest \in SUBSET Nat
      BY <2>0
    <3> HIDE DEF rest
    <3> QED BY <1>2, <3>1, MinIn
  <2>2. m \in 0 .. Len(there) /\ SizeOf(SubSeq(there, 1, m)) = SizeOf(blks)
    <3> HIDE DEF m
    <3> QED BY <2>1
  <2>3. Over(blks, there) = blks \o end
    BY <1>2 DEF Over
  <2> HIDE DEF m, rest
  <2>4. /\ SubSeq(there, 1, m) \in Files /\ end \in Files
        /\ Len(end) \in Nat /\ \A i \in 1 .. Len(end) : end[i] = there[m + i] /\ m + i \in 1 .. Len(there)
    <3>1. \A i \in 1 .. m : there[i] \in Blocks
      BY <2>0, <2>2, FileTyped
    <3>2. SubSeq(there, 1, m) \in Files
      BY <2>2, <3>1, SubSeqProperties DEF Files
    <3>3. \A i \in m + 1 .. Len(there) : there[i] \in Blocks
      BY <2>0, <2>2, FileTyped
    <3>4. /\ end \in Seq(Blocks)
          /\ Len(end) = IF m + 1 <= Len(there) THEN Len(there) - (m + 1) + 1 ELSE 0
          /\ \A i \in 1 .. Len(there) - (m + 1) + 1 : end[i] = there[(m + 1) + i - 1]
      BY <2>0, <2>2, <3>3, SubSeqProperties
    <3>5. Len(end) = Len(there) - m
      BY <2>0, <2>2, <3>4
    <3> HIDE DEF end
    <3>6. ASSUME NEW i \in 1 .. Len(end) PROVE end[i] = there[m + i] /\ m + i \in 1 .. Len(there)
      <4>1. i \in 1 .. Len(there) - (m + 1) + 1 /\ (m + 1) + i - 1 = m + i /\ m + i \in 1 .. Len(there)
        BY <2>0, <2>2, <3>5
      <4> QED BY <3>4, <4>1
    <3> QED BY <2>0, <2>2, <3>2, <3>4, <3>5, <3>6 DEF Files
  <2>5. there = SubSeq(there, 1, m) \o end
    <3>1. SubSeq(there, 1, Len(there)) = there
      BY <2>0, SubSeqFull DEF Files
    <3>2. 1 \in 1 .. Len(there) + 1 /\ m \in 1 - 1 .. Len(there) /\ Len(there) \in m .. Len(there)
      BY <2>0, <2>2
    <3>3. SubSeq(there, 1, m) \o end = SubSeq(there, 1, Len(there))
      BY <2>0, <3>2, ConcatAdjacentSubSeq DEF Files
    <3> QED BY <3>1, <3>3
  <2>6. blks \o end \in Files /\ SizeOf(blks \o end) = SizeOf(there)
    <3>1. SizeOf(there) = SizeOf(blks) + SizeOf(end)
      BY <2>2, <2>4, <2>5, SizeConcat
    <3> QED BY <2>0, <2>4, <3>1, SizeConcat, ConcatProperties DEF Files
  <2>7. \A i \in 1 .. Len(blks \o end) : IsBlock((blks \o end)[i])
    <3>1. SUFFICES ASSUME NEW i \in 1 .. Len(blks) + Len(end) PROVE IsBlock((blks \o end)[i])
      BY <2>0, <2>4, ConcatProperties DEF Files
    <3>2. (blks \o end)[i] = IF i <= Len(blks) THEN blks[i] ELSE end[i - Len(blks)]
      BY <2>0, <2>4, ConcatProperties DEF Files
    <3>3. CASE i <= Len(blks)
      BY <3>2, <3>3, <2>0 DEF IsFile
    <3>4. CASE ~(i <= Len(blks))
      <4>1. i - Len(blks) \in 1 .. Len(end)
        <5> HIDE DEF end
        <5> QED BY <3>4, <2>0, <2>4
      <4> QED BY <3>2, <3>4, <4>1, <2>4 DEF IsFile
    <3> QED BY <3>3, <3>4
  <2> QED BY <2>3, <2>6, <2>7 DEF IsFile
<1> QED BY <1>1, <1>2

\* Over an empty file a save writes what it has.
LEMMA OverEmpty ==
  ASSUME NEW blks \in Files, blks # <<>>
  PROVE  Over(blks, <<>>) = blks
<1> DEFINE rest == {i \in 0 .. Len(<<>>) : SizeOf(SubSeq(<<>>, 1, i)) = SizeOf(blks)}
<1>1. SizeOf(blks) # 0
  <2>1. PICK f : Totals(f, blks) /\ SizeOf(blks) = f[Len(blks)]
    BY SizeTotals
  <2>2. Len(blks) \in Nat \ {0} /\ Len(blks) \in 1 .. Len(blks)
    BY EmptySeq DEF Files
  <2>3. f[Len(blks)] = f[Len(blks) - 1] + Size(blks[Len(blks)]) /\ f[Len(blks) - 1] \in Nat
    BY <2>1, <2>2 DEF Totals
  <2>4. Size(blks[Len(blks)]) \in Nat /\ Size(blks[Len(blks)]) >= 1
    BY <2>2, FileTyped, BlockTyped
  <2> QED BY <2>1, <2>3, <2>4
<1>2. ASSUME NEW i \in rest PROVE FALSE
  <2>1. i = 0 /\ SubSeq(<<>>, 1, 0) = <<>>
    BY SubSeqEmpty
  <2>2. SizeOf(SubSeq(<<>>, 1, i)) = SizeOf(blks)
    OBVIOUS
  <2> QED BY <1>1, <2>1, <2>2, SizeEmpty
<1>3. rest = {}
  <2> HIDE DEF rest
  <2> QED BY <1>2
<1> QED BY <1>3 DEF Over

-----------------------------------------------------------------------------
(* A session *)

Saving == {"save", "write", "rename"}
Holding == {"write", "rename"}

SessSet == [pc : {"idle", "info"} \cup Saving, board : Boards \cup {None}, list : Lists,
            cur : 0 .. BRC_MAXNUM, changed : BOOLEAN, have : BOOLEAN, all : Files,
            goal : Boards \cup {None}, keep : BOOLEAN, fd : {"none", "tmp", "file", "gone"},
            put : AllNames \cup {None}]

\* The copies of a session.
Works(r) ==
  /\ r \in SessSet /\ IsTimes(r.list) /\ IsFile(r.all)
  /\ r.board = None <=> r.list = <<>>
  /\ r.changed => r.board # None /\ r.list[1] # 1

\* And where it is.
Good(r) ==
  /\ Works(r)
  /\ r.goal # None => ~r.changed
  /\ r.pc \in {"idle", "info"} => r.goal = None /\ r.keep = FALSE /\ r.put = None
  /\ r.pc \notin Holding <=> r.fd = "none"
  /\ r.pc \in Saving => r.put \in Names(r.all)

LEMMA SessTyped ==
  ASSUME NEW r \in SessSet
  PROVE  /\ r.pc \in {"idle", "info"} \cup Saving /\ r.board \in Boards \cup {None}
         /\ r.list \in Lists /\ r.cur \in 0 .. BRC_MAXNUM /\ r.changed \in BOOLEAN
         /\ r.have \in BOOLEAN /\ r.all \in Files /\ r.goal \in Boards \cup {None}
         /\ r.keep \in BOOLEAN /\ r.fd \in {"none", "tmp", "file", "gone"}
         /\ r.put \in AllNames \cup {None}
BY DEF SessSet

LEMMA EmptyList == IsTimes(<<>>) /\ IsFile(<<>>) /\ <<>> # <<1>>
<1>1. <<>> \in Lists
  <2>1. <<>> \in Seq(Times \cup {1}) /\ Len(<<>>) <= BRC_MAXNUM
    BY BoardrcAssumption
  <2> HIDE DEF Lists
  <2> QED BY <2>1, ListIn
<1>2. <<>> \in Files /\ SizeOf(<<>>) <= MaxSize
  BY SizeEmpty, BoardrcAssumption DEF Files
<1> QED BY <1>1, <1>2 DEF IsTimes, Sorted, IsFile

LEMMA NewGood == Good(New)
<1>1. New \in SessSet
  BY EmptyList, BoardrcAssumption DEF New, SessSet, IsTimes, IsFile
<1> QED BY <1>1, EmptyList DEF New, Good, Works, Holding, Saving

\* What brc_getboard makes of r.
LEMMA GotFields ==
  ASSUME NEW r \in SessSet
  PROVE  LET g == Got(r)
         IN  /\ g.pc = r.pc /\ g.fd = r.fd /\ g.put = r.put /\ g.changed = r.changed
             /\ g.keep = FALSE /\ g.goal = None /\ g.have = r.keep
             /\ g.all = IF r.keep THEN r.all ELSE <<>>
             /\ g.board = IF r.goal = None THEN r.board ELSE r.goal
             /\ g.list = IF r.goal = None THEN r.list ELSE Get(r.all, r.goal)
             /\ g.cur \in {0, r.cur}
BY DEF Got, SessSet

LEMMA GotIn ==
  ASSUME NEW r, Works(r) PROVE Got(r) \in SessSet
<1>1. r \in SessSet
  BY DEF Works
<1> DEFINE h == [r EXCEPT !.have = r.keep, !.keep = FALSE, !.all = IF r.keep THEN @ ELSE <<>>]
<1>2. h \in SessSet
  <2>1. r.keep \in BOOLEAN /\ (IF r.keep THEN r.all ELSE <<>>) \in Files
    BY <1>1, SessTyped, EmptyList DEF IsFile
  <2> QED BY <1>1, <2>1 DEF SessSet
<1>3. CASE r.goal = None
  BY <1>2, <1>3 DEF Got
<1>4. CASE r.goal # None
  <2> DEFINE c == IF r.goal \in Names(r.all) THEN h.cur ELSE 0
             l == Get(r.all, r.goal)
  <2>1. Got(r) = [h EXCEPT !.board = r.goal, !.list = l, !.goal = None, !.cur = c]
    BY <1>4 DEF Got
  <2>2. r.goal \in Boards \cup {None} /\ c \in 0 .. BRC_MAXNUM /\ l \in Lists
    <3>1. l \in Lists
      BY GetTyped DEF Works, IsTimes
    <3>2. c \in 0 .. BRC_MAXNUM
      <4>1. h.cur \in 0 .. BRC_MAXNUM
        <5> HIDE DEF h
        <5> QED BY <1>2, SessTyped
      <4> HIDE DEF h
      <4> QED BY <4>1, BoardrcAssumption
    <3> QED BY <1>1, <3>1, <3>2, SessTyped
  <2> HIDE DEF h, c, l
  <2> QED BY <1>2, <2>1, <2>2 DEF SessSet
<1> QED BY <1>3, <1>4

LEMMA GotGood ==
  ASSUME NEW r, Works(r), r.goal # None => ~r.changed, r.pc = "idle", r.fd = "none",
         r.put = None
  PROVE  Good(Got(r))
<1> DEFINE g == Got(r)
<1>1. r \in SessSet /\ g \in SessSet
  BY GotIn DEF Works
<1>2. /\ g.pc = r.pc /\ g.fd = r.fd /\ g.put = r.put /\ g.changed = r.changed
      /\ g.keep = FALSE /\ g.goal = None /\ g.have = r.keep
      /\ g.all = IF r.keep THEN r.all ELSE <<>>
      /\ g.board = IF r.goal = None THEN r.board ELSE r.goal
      /\ g.list = IF r.goal = None THEN r.list ELSE Get(r.all, r.goal)
  BY <1>1, GotFields
<1> HIDE DEF g
<1>3. IsFile(g.all)
  BY <1>2, EmptyList DEF Works
<1>4. IsTimes(g.list) /\ (g.board = None <=> g.list = <<>>) /\ (g.changed => g.board # None /\ g.list[1] # 1)
  <2>1. CASE r.goal = None
    BY <1>2, <2>1 DEF Works
  <2>2. CASE r.goal # None
    <3>1. r.goal # INFO
      BY <1>1, <2>2, SessTyped, BoardrcAssumption
    <3>2. IsTimes(Get(r.all, r.goal)) /\ Get(r.all, r.goal) # <<>>
      BY <3>1, GetTyped DEF Works
    <3> QED BY <1>2, <2>2, <3>2
  <2> QED BY <2>1, <2>2
<1>5. Works(g)
  BY <1>1, <1>3, <1>4 DEF Works
<1> QED BY <1>2, <1>5 DEF Good, Holding, Saving, g

\* The file is loaded: of a list that was changed, its block is put into it.
LEMMA LoadedChanged ==
  ASSUME NEW r, Works(r), r.changed, IsFile(file), r.pc = "idle", r.fd = "none"
  PROVE  LET g == Loaded(r)
             l == Shorter(r.list)
             blk == Block(r.board, l)
         IN  /\ g \in SessSet /\ g.pc = "save" /\ g.fd = "none" /\ g.put = r.board
             /\ g.changed = FALSE /\ g.goal = r.goal /\ g.board = r.board /\ g.list = l
             /\ g.all = PutBlock(file, blk)
             /\ IsBlock(blk) /\ blk.board = r.board /\ blk.list = l /\ l # <<1>>
             /\ Size(blk) = 1 + Len(l)
             /\ Works(g) /\ r.board \in Boards /\ Get(g.all, r.board) = l
             /\ r.board \in Names(g.all)
<1> DEFINE l == Shorter(r.list)
           blk == Block(r.board, l)
           g == Loaded(r)
<1>1. /\ r \in SessSet /\ IsTimes(r.list) /\ r.list # <<>> /\ r.board # None /\ r.list[1] # 1
      /\ r.board \in Boards /\ r.board # INFO
  <2>1. r \in SessSet /\ r.board # None
    BY DEF Works
  <2> QED BY <2>1, SessTyped, BoardrcAssumption DEF Works
<1>2. IsTimes(l) /\ l # <<>> /\ l[1] = r.list[1]
  BY <1>1, ShorterRight
<1>3. l # <<1>>
  BY <1>1, <1>2
<1> HIDE DEF l
<1>4. blk.board = r.board /\ blk.list = l /\ blk \in Blocks
  BY <1>1, <1>2 DEF Block, Blocks, AllNames, IsTimes
<1>5. Size(blk) = 1 + Len(l)
  BY <1>4 DEF Size
<1> HIDE DEF blk
<1>6. IsBlock(blk)
  BY <1>1, <1>2, <1>4 DEF IsBlock, IsTimes
<1>7. /\ IsFile(PutBlock(file, blk)) /\ Get(PutBlock(file, blk), r.board) = l
      /\ r.board \in Names(PutBlock(file, blk))
  BY <1>4, <1>6, PutFile
<1>8. g = [r EXCEPT !.all = PutBlock(file, blk), !.list = l, !.changed = FALSE, !.have = TRUE,
                    !.pc = "save", !.put = r.board]
  BY DEF Loaded, l, blk
<1> HIDE DEF g
<1>9. g \in SessSet
  BY <1>1, <1>2, <1>7, <1>8 DEF SessSet, IsTimes, IsFile, AllNames, Saving
<1>10. /\ g.pc = "save" /\ g.fd = "none" /\ g.put = r.board
       /\ g.changed = FALSE /\ g.goal = r.goal /\ g.board = r.board /\ g.list = l
       /\ g.all = PutBlock(file, blk)
  BY <1>1, <1>8 DEF SessSet
<1>11. Works(g)
  BY <1>1, <1>2, <1>7, <1>9, <1>10 DEF Works
<1> QED BY <1>1, <1>3, <1>4, <1>5, <1>6, <1>7, <1>9, <1>10, <1>11 DEF l, blk, g

LEMMA LoadedSame ==
  ASSUME NEW r, Works(r), ~r.changed, IsFile(file)
  PROVE  LET g == Loaded(r)
         IN  /\ Works(g) /\ g.pc = r.pc /\ g.fd = r.fd /\ g.put = r.put /\ ~g.changed
             /\ g.goal = r.goal /\ g.board = r.board /\ g.list = r.list /\ g.keep = r.keep
             /\ g.all = file
<1> DEFINE g == Loaded(r)
<1>1. r \in SessSet
  BY DEF Works
<1>2. g = [r EXCEPT !.all = file, !.have = TRUE]
  BY DEF Loaded
<1> HIDE DEF g
<1>3. g \in SessSet
  BY <1>1, <1>2 DEF SessSet, IsFile
<1>4. /\ g.pc = r.pc /\ g.fd = r.fd /\ g.put = r.put /\ g.changed = r.changed
      /\ g.goal = r.goal /\ g.board = r.board /\ g.list = r.list /\ g.keep = r.keep
      /\ g.all = file
  BY <1>1, <1>2 DEF SessSet
<1> QED BY <1>3, <1>4 DEF Works, g

\* Go(s, Loaded(r)): what becomes of s.
LEMMA GoGood ==
  ASSUME NEW r, Works(r), IsFile(file), r.pc = "idle", r.fd = "none", r.put = None
  PROVE  Good(IF Loaded(r).pc = "save" THEN Loaded(r) ELSE Got(Loaded(r)))
<1>1. CASE r.changed
  <2> DEFINE g == Loaded(r)
  <2>1. /\ g.pc = "save" /\ g.fd = "none" /\ g.put = r.board /\ g.changed = FALSE
        /\ Works(g) /\ r.board \in Boards /\ r.board \in Names(g.all)
    BY <1>1, LoadedChanged
  <2> HIDE DEF g
  <2>2. Good(g)
    BY <2>1, BoardrcAssumption DEF Good, Holding, Saving
  <2> QED BY <2>1, <2>2 DEF g
<1>2. CASE ~r.changed
  <2> DEFINE g == Loaded(r)
  <2>1. Works(g) /\ g.pc = r.pc /\ g.fd = r.fd /\ g.put = r.put /\ ~g.changed
    BY <1>2, LoadedSame
  <2> HIDE DEF g
  <2>2. Good(Got(g))
    BY <2>1, GotGood
  <2> QED BY <2>1, <2>2 DEF g
<1> QED BY <1>1, <1>2

-----------------------------------------------------------------------------
(* Types, and where a session is *)

TypeInv ==
  /\ IsFile(file) /\ IsFile(tmp.blocks)
  /\ tmp \in [there : BOOLEAN, blocks : Files]
  /\ sess \in [Sessions -> SessSet] /\ \A s \in Sessions : Good(sess[s])
  /\ stale \in [Sessions -> SUBSET AllNames]
  /\ reads \in 0 .. MaxReads /\ visits \in 0 .. MaxVisits
  /\ old \subseteq Sessions /\ mixed \in BOOLEAN

\* Only s changes.
Only(s, r) ==
  /\ sess' \in [Sessions -> SessSet] /\ sess'[s] = r
  /\ \A q \in Sessions \ {s} : sess'[q] = sess[q]

LEMMA OnlyOne ==
  ASSUME sess \in [Sessions -> SessSet], NEW s \in Sessions, NEW r \in SessSet,
         sess' = [sess EXCEPT ![s] = r]
  PROVE  Only(s, r)
BY DEF Only

\* An idle session has nothing to put and no file open.
LEMMA IdleFields ==
  ASSUME TypeInv, NEW s \in Sessions, Idle(s)
  PROVE  LET r == sess[s]
         IN  /\ r \in SessSet /\ Works(r) /\ r.pc = "idle" /\ r.fd = "none" /\ r.put = None
             /\ r.goal = None /\ r.keep = FALSE
BY DEF TypeInv, Idle, Good, Works, Holding

\* The list of a board that is open, and where brc_locate finds t in it.
LEMMA OpenList ==
  ASSUME TypeInv, NEW s \in Sessions, sess[s].board # None, NEW t \in Times
  PROVE  LET l == sess[s].list
             i == Locate(l, sess[s].cur, t)
         IN  /\ IsTimes(l) /\ l # <<>> /\ l \in Seq(Nat) /\ Falling(l)
             /\ Located(l, t, i) /\ i \in 0 .. BRC_MAXNUM /\ Len(l) \in 0 .. BRC_MAXNUM
<1> DEFINE l == sess[s].list
           i == Locate(l, sess[s].cur, t)
<1>1. sess[s] \in SessSet /\ IsTimes(l) /\ l # <<>>
  BY DEF TypeInv, Good, Works
<1>2. l \in Seq(Nat) /\ Falling(l) /\ Len(l) \in 0 .. BRC_MAXNUM
  BY <1>1, ListTyped, SortedFalls DEF IsTimes
<1>3. sess[s].cur \in Nat /\ t \in Nat
  BY <1>1, SessTyped, TimesNat, BoardrcAssumption
<1>4. Located(l, t, i)
  <2> HIDE DEF l
  <2> QED BY <1>1, <1>2, <1>3, LocateRight
<1>5. i \in 0 .. BRC_MAXNUM
  <2> HIDE DEF l, i
  <2> QED BY <1>2, <1>4, BoardrcAssumption DEF Located
<1> QED BY <1>1, <1>2, <1>4, <1>5

LEMMA ReadStep ==
  ASSUME TypeInv, NEW s \in Sessions, NEW t \in Times, ReadArticle(s, t)
  PROVE  LET l == sess[s].list
             i == Locate(l, sess[s].cur, t)
             r == sess'[s]
         IN  /\ Only(s, r) /\ Good(r) /\ r.pc = "idle" /\ r.have = sess[s].have
             /\ r.all = sess[s].all /\ r.board = sess[s].board
             /\ r.list = IF UnreadAt(l, i, t) THEN Insert(l, i, t) ELSE l
<1> DEFINE l == sess[s].list
           i == Locate(l, sess[s].cur, t)
           m == IF UnreadAt(l, i, t) THEN Insert(l, i, t) ELSE l
           c == sess[s].changed \/ UnreadAt(l, i, t)
           r == [sess[s] EXCEPT !.cur = i, !.list = m, !.changed = c]
<1>1. /\ Idle(s) /\ sess[s].board # None
      /\ sess' = [sess EXCEPT ![s].cur = i, ![s].list = m, ![s].changed = @ \/ UnreadAt(l, i, t)]
  BY DEF ReadArticle
<1>2. sess[s] \in SessSet /\ Good(sess[s]) /\ sess \in [Sessions -> SessSet] /\ Works(sess[s])
  BY DEF TypeInv, Good, Works
<1>3. IsTimes(l) /\ l # <<>> /\ Located(l, t, i) /\ i \in 0 .. BRC_MAXNUM
  BY <1>1, OpenList
<1>4. IsTimes(m) /\ m # <<>> /\ c \in BOOLEAN /\ (c => m[1] # 1)
  <2> HIDE DEF i
  <2>1. CASE UnreadAt(l, i, t)
    BY <1>3, <2>1, InsertRight
  <2>2. CASE ~UnreadAt(l, i, t)
    BY <1>2, <1>3, <2>2, SessTyped DEF Works
  <2> QED BY <2>1, <2>2
<1>5. sess' = [sess EXCEPT ![s] = r]
  <2> HIDE DEF i, m, l
  <2> QED BY <1>1, <1>2
<1> HIDE DEF m, c, i, l
<1>6. r \in SessSet
  BY <1>2, <1>3, <1>4 DEF SessSet, IsTimes
<1>7. /\ r.pc = sess[s].pc /\ r.have = sess[s].have /\ r.board = sess[s].board /\ r.list = m /\ r.changed = c
      /\ r.all = sess[s].all /\ r.goal = sess[s].goal /\ r.keep = sess[s].keep
      /\ r.fd = sess[s].fd /\ r.put = sess[s].put
  BY <1>2 DEF SessSet
<1>8. Only(s, r)
  BY <1>2, <1>5, <1>6, OnlyOne
<1> HIDE DEF r
<1>9. Good(r)
  <2>1. Works(r)
    BY <1>1, <1>2, <1>4, <1>6, <1>7 DEF Works
  <2>2. r.pc = "idle" /\ r.goal = None
    BY <1>1, <1>2, <1>7 DEF Idle, Good
  <2> QED BY <1>2, <1>7, <2>1, <2>2 DEF Good, Saving
<1> QED BY <1>1, <1>2, <1>7, <1>8, <1>9 DEF m, i, l, Only, Idle

LEMMA ClearStep ==
  ASSUME TypeInv, NEW s \in Sessions, NEW t \in Times, ClearTo(s, t)
  PROVE  LET l == sess[s].list
             i == Locate(l, sess[s].cur, t)
             r == sess'[s]
         IN  /\ Only(s, r) /\ Good(r) /\ r.pc = "idle" /\ r.have = sess[s].have
             /\ r.all = sess[s].all /\ r.board = sess[s].board
             /\ r.list = SetTo(l, i, t)
<1> DEFINE l == sess[s].list
           i == Locate(l, sess[s].cur, t)
           m == SetTo(l, i, t)
           c == sess[s].changed \/ i < Len(l)
           r == [sess[s] EXCEPT !.cur = i, !.list = m, !.changed = c]
<1>1. /\ Idle(s) /\ sess[s].board # None
      /\ sess' = [sess EXCEPT ![s].cur = i, ![s].list = m, ![s].changed = @ \/ i < Len(l)]
  BY DEF ClearTo
<1>2. sess[s] \in SessSet /\ Good(sess[s]) /\ sess \in [Sessions -> SessSet] /\ Works(sess[s])
  BY DEF TypeInv, Good, Works
<1>3. IsTimes(l) /\ l # <<>> /\ Located(l, t, i) /\ i \in 0 .. BRC_MAXNUM
  BY <1>1, OpenList
<1>4. IsTimes(m) /\ m # <<>> /\ c \in BOOLEAN /\ (c => m[1] # 1)
  <2>1. CASE i < Len(l)
    <3> HIDE DEF i
    <3> QED BY <1>3, <2>1, SetToRight
  <2>2. CASE ~(i < Len(l))
    <3>1. m = l
      <4>1. Len(l) \in Nat
        BY <1>2, SessTyped, ListTyped
      <4> HIDE DEF i
      <4> QED BY <1>3, <2>2, <4>1, BoardrcAssumption DEF SetTo
    <3> HIDE DEF m, i
    <3> QED BY <1>2, <1>3, <2>2, <3>1, SessTyped DEF Works
  <2> QED BY <2>1, <2>2
<1>5. sess' = [sess EXCEPT ![s] = r]
  <2> HIDE DEF i, m, l
  <2> QED BY <1>1, <1>2
<1> HIDE DEF m, c, i, l
<1>6. r \in SessSet
  BY <1>2, <1>3, <1>4 DEF SessSet, IsTimes
<1>7. /\ r.pc = sess[s].pc /\ r.have = sess[s].have /\ r.board = sess[s].board /\ r.list = m /\ r.changed = c
      /\ r.all = sess[s].all /\ r.goal = sess[s].goal /\ r.keep = sess[s].keep
      /\ r.fd = sess[s].fd /\ r.put = sess[s].put
  BY <1>2 DEF SessSet
<1>8. Only(s, r)
  BY <1>2, <1>5, <1>6, OnlyOne
<1> HIDE DEF r
<1>9. Good(r)
  <2>1. Works(r)
    BY <1>1, <1>2, <1>4, <1>6, <1>7 DEF Works
  <2>2. r.pc = "idle" /\ r.goal = None
    BY <1>1, <1>2, <1>7 DEF Idle, Good
  <2> QED BY <1>2, <1>7, <2>1, <2>2 DEF Good, Saving
<1> QED BY <1>1, <1>2, <1>7, <1>8, <1>9 DEF m, i, l, Only, Idle

\* An idle session sets out for b, or only to save.
Aim(r, b, k) == [r EXCEPT !.goal = b, !.keep = k]

LEMMA Aims ==
  ASSUME TypeInv, NEW s \in Sessions, Idle(s), NEW b \in Boards \cup {None}, NEW k \in BOOLEAN
  PROVE  LET r == Aim(sess[s], b, k)
         IN  /\ Works(r) /\ r.pc = "idle" /\ r.fd = "none" /\ r.put = None
             /\ r.goal = b /\ r.keep = k /\ r.board = sess[s].board /\ r.list = sess[s].list
             /\ r.changed = sess[s].changed /\ r.have = sess[s].have /\ r.all = sess[s].all
<1> DEFINE r == [sess[s] EXCEPT !.goal = b, !.keep = k]
<1>1. /\ sess[s] \in SessSet /\ Works(sess[s]) /\ sess[s].pc = "idle" /\ sess[s].fd = "none"
      /\ sess[s].put = None
  BY IdleFields
<1>2. r \in SessSet
  BY <1>1 DEF SessSet
<1>3. /\ r.pc = "idle" /\ r.fd = "none" /\ r.put = None
      /\ r.goal = b /\ r.keep = k /\ r.board = sess[s].board /\ r.list = sess[s].list
      /\ r.changed = sess[s].changed /\ r.have = sess[s].have /\ r.all = sess[s].all
  BY <1>1 DEF SessSet
<1>4. r = Aim(sess[s], b, k)
  BY DEF Aim
<1> HIDE DEF r
<1>5. Works(r)
  BY <1>1, <1>2, <1>3 DEF Works
<1> QED BY <1>3, <1>4, <1>5

LEMMA AimsNowhere ==
  ASSUME TypeInv, NEW s \in Sessions, Idle(s), NEW k \in BOOLEAN
  PROVE  [sess[s] EXCEPT !.keep = k] = Aim(sess[s], None, k)
<1>1. sess[s] \in SessSet /\ sess[s].goal = None
  BY IdleFields
<1> QED BY <1>1 DEF SessSet, Aim

LEMMA GoStep ==
  ASSUME TypeInv, NEW s \in Sessions, NEW r, Works(r), r.pc = "idle", r.fd = "none",
         r.put = None, Go(s, Loaded(r))
  PROVE  LET g == Loaded(r)
             q == IF g.pc = "save" THEN g ELSE Got(g)
         IN  Only(s, q) /\ Good(q)
<1> DEFINE g == Loaded(r)
           q == IF g.pc = "save" THEN g ELSE Got(g)
<1>1. sess' = [sess EXCEPT ![s] = q]
  BY DEF Go
<1>2. Good(q)
  BY GoGood DEF TypeInv
<1> HIDE DEF q
<1>3. q \in SessSet /\ sess \in [Sessions -> SessSet]
  BY <1>2 DEF Good, Works, TypeInv
<1> QED BY <1>1, <1>2, <1>3, OnlyOne DEF q

\* allbrc is freed.
LEMMA FreedGood ==
  ASSUME TypeInv, NEW s \in Sessions, Idle(s)
  PROVE  LET r == [sess[s] EXCEPT !.have = FALSE, !.all = <<>>]
         IN  /\ Good(r) /\ r.pc = "idle" /\ ~r.have /\ r.board = sess[s].board
             /\ r.list = sess[s].list /\ r.all = <<>>
<1> DEFINE r == [sess[s] EXCEPT !.have = FALSE, !.all = <<>>]
<1>1. /\ sess[s] \in SessSet /\ Works(sess[s]) /\ sess[s].pc = "idle" /\ sess[s].fd = "none"
      /\ sess[s].put = None /\ sess[s].goal = None /\ sess[s].keep = FALSE
  BY IdleFields
<1>2. r \in SessSet
  BY <1>1, EmptyList DEF SessSet, IsFile
<1>3. /\ r.pc = "idle" /\ r.fd = "none" /\ r.put = None /\ ~r.have /\ r.all = <<>>
      /\ r.goal = None /\ r.keep = FALSE /\ r.board = sess[s].board /\ r.list = sess[s].list
      /\ r.changed = sess[s].changed
  BY <1>1 DEF SessSet
<1> HIDE DEF r
<1>4. Works(r)
  BY <1>1, <1>2, <1>3, EmptyList DEF Works
<1> QED BY <1>3, <1>4 DEF r, Good, Holding, Saving

LEMMA OpenStep ==
  ASSUME TypeInv, NEW s \in Sessions, NEW b \in Boards, NEW k \in BOOLEAN, Open(s, b, k)
  PROVE  LET r == Aim(sess[s], b, k)
             free == [sess[s] EXCEPT !.have = FALSE, !.all = <<>>]
         IN  \/ /\ sess[s].board = b /\ Only(s, IF k THEN sess[s] ELSE free)
                /\ Good(IF k THEN sess[s] ELSE free) /\ UNCHANGED <<stale, old>>
             \/ /\ sess[s].board # b /\ r.have /\ ~r.changed
                /\ Only(s, Got(r)) /\ Good(Got(r)) /\ UNCHANGED stale
                /\ old' = IF b \in stale[s] THEN old \cup {s} ELSE old \ {s}
             \/ sess[s].board # b /\ ~(r.have /\ ~r.changed) /\ Go(s, Loaded(r))
<1> DEFINE r == Aim(sess[s], b, k)
           free == [sess[s] EXCEPT !.have = FALSE, !.all = <<>>]
<1>1. Idle(s) /\ sess \in [Sessions -> SessSet] /\ sess[s] \in SessSet /\ Good(sess[s])
  BY DEF Open, TypeInv
<1>2. CASE sess[s].board = b
  <2> DEFINE q == IF k THEN sess[s] ELSE free
  <2>1. sess' = [sess EXCEPT ![s] = q] /\ UNCHANGED <<stale, old>>
    BY <1>2 DEF Open
  <2>2. Good(q)
    BY <1>1, FreedGood
  <2> HIDE DEF q
  <2>3. Only(s, q)
    BY <1>1, <2>1, <2>2, OnlyOne DEF Good, Works
  <2> QED BY <1>2, <2>1, <2>2, <2>3 DEF q
<1>3. CASE sess[s].board # b /\ r.have /\ ~r.changed
  <2>1. /\ sess' = [sess EXCEPT ![s] = Got(r)] /\ UNCHANGED stale
        /\ old' = IF b \in stale[s] THEN old \cup {s} ELSE old \ {s}
    BY <1>3 DEF Open, Aim
  <2>2. Works(r) /\ r.pc = "idle" /\ r.fd = "none" /\ r.put = None
    BY <1>1, Aims
  <2> HIDE DEF r, free
  <2>3. r.goal # None => ~r.changed
    BY <1>3
  <2>4. Good(Got(r))
    BY <2>2, <2>3, GotGood
  <2>5. Only(s, Got(r))
    BY <1>1, <2>1, <2>4, OnlyOne DEF Good, Works
  <2> QED BY <1>3, <2>1, <2>4, <2>5 DEF r
<1>4. CASE sess[s].board # b /\ ~(r.have /\ ~r.changed)
  BY <1>4 DEF Open, Aim
<1> QED BY <1>2, <1>3, <1>4

LEMMA ReadInfoStep ==
  ASSUME TypeInv, NEW w \in Sessions, ReadInfo(w)
  PROVE  LET r == sess'[w]
         IN  /\ Only(w, r) /\ Good(r) /\ r.pc = "info" /\ r.all = file
             /\ r.board = sess[w].board /\ r.list = sess[w].list
<1> DEFINE r == [sess[w] EXCEPT !.all = file, !.pc = "info", !.keep = FALSE]
<1>1. /\ sess[w] \in SessSet /\ Works(sess[w]) /\ sess[w].pc = "idle" /\ sess[w].fd = "none"
      /\ sess[w].put = None /\ sess[w].goal = None /\ IsFile(file) /\ sess \in [Sessions -> SessSet]
  BY IdleFields DEF ReadInfo, TypeInv
<1>2. sess' = [sess EXCEPT ![w] = r]
  <2>1. sess' = [sess EXCEPT ![w].all = file, ![w].pc = "info", ![w].keep = FALSE]
    BY DEF ReadInfo
  <2> QED BY <1>1, <2>1
<1>3. r \in SessSet
  BY <1>1 DEF SessSet, IsFile
<1>4. /\ r.pc = "info" /\ r.fd = "none" /\ r.put = None /\ r.all = file
      /\ r.goal = None /\ r.keep = FALSE /\ r.board = sess[w].board /\ r.list = sess[w].list
      /\ r.changed = sess[w].changed
  BY <1>1 DEF SessSet
<1> HIDE DEF r
<1>5. Works(r)
  BY <1>1, <1>3, <1>4 DEF Works
<1>6. Only(w, r)
  BY <1>1, <1>2, <1>3, OnlyOne
<1>7. Good(r)
  BY <1>4, <1>5 DEF Good, Holding, Saving
<1> QED BY <1>4, <1>6, <1>7 DEF Only

LEMMA SaveInfoStep ==
  ASSUME TypeInv, NEW w \in Sessions, SaveInfo(w)
  PROVE  LET blk == Block(INFO, <<>>)
             r == sess'[w]
         IN  /\ Only(w, r) /\ Good(r) /\ r.pc = "save" /\ r.put = INFO
             /\ r.all = PutBlock(sess[w].all, blk) /\ Get(r.all, INFO) = <<>>
             /\ IsBlock(blk) /\ blk.list # <<1>> /\ blk.board = INFO /\ Size(blk) = 1
             /\ r.board = sess[w].board /\ r.list = sess[w].list
<1> DEFINE blk == Block(INFO, <<>>)
           p == PutBlock(sess[w].all, blk)
           r == [sess[w] EXCEPT !.all = p, !.pc = "save", !.put = INFO]
<1>1. /\ sess[w] \in SessSet /\ Works(sess[w]) /\ sess[w].pc = "info" /\ sess[w].fd = "none"
      /\ sess[w].put = None /\ sess[w].goal = None /\ IsFile(sess[w].all)
      /\ sess \in [Sessions -> SessSet]
  BY DEF SaveInfo, TypeInv, Good, Works, Holding
<1>2. blk.board = INFO /\ blk.list = <<>> /\ blk \in Blocks /\ Size(blk) = 1
  BY EmptyList DEF Block, Blocks, AllNames, IsTimes, Size
<1> HIDE DEF blk
<1>3. IsBlock(blk) /\ blk.list # <<1>>
  BY <1>2, EmptyList DEF IsBlock, IsTimes
<1>4. IsFile(p) /\ Get(p, INFO) = <<>> /\ INFO \in Names(p)
  BY <1>1, <1>2, <1>3, PutFile
<1>5. sess' = [sess EXCEPT ![w] = r]
  <2>1. sess' = [sess EXCEPT ![w].all = PutBlock(@, blk), ![w].pc = "save", ![w].put = INFO]
    BY DEF SaveInfo, blk
  <2>2. sess' = [sess EXCEPT ![w].all = p, ![w].pc = "save", ![w].put = INFO]
    BY <2>1, <1>1
  <2> HIDE DEF p
  <2> QED BY <1>1, <2>2
<1> HIDE DEF p
<1>6. r \in SessSet
  BY <1>1, <1>4 DEF SessSet, IsFile, Saving, AllNames
<1>7. /\ r.pc = "save" /\ r.fd = "none" /\ r.put = INFO /\ r.all = p
      /\ r.goal = None /\ r.board = sess[w].board /\ r.list = sess[w].list
      /\ r.changed = sess[w].changed
  BY <1>1 DEF SessSet
<1> HIDE DEF r
<1>8. Works(r)
  BY <1>1, <1>4, <1>6, <1>7 DEF Works
<1>9. Only(w, r)
  BY <1>1, <1>5, <1>6, OnlyOne
<1>10. Good(r)
  BY <1>4, <1>7, <1>8, BoardrcAssumption DEF Good, Holding, Saving
<1> QED BY <1>2, <1>3, <1>4, <1>7, <1>9, <1>10 DEF Only, p, blk

\* Beside where a save is, nothing has changed.
Keeps(q, r) ==
  /\ q.board = r.board /\ q.list = r.list /\ q.have = r.have /\ q.all = r.all
  /\ q.put = r.put /\ q.goal = r.goal

LEMMA SaveOpenStep ==
  ASSUME TypeInv, NEW s \in Sessions, SaveOpen(s)
  PROVE  LET r == sess'[s]
         IN  Only(s, r) /\ Good(r) /\ Keeps(r, sess[s]) /\ r.pc = "write" /\ r.fd = "tmp"
<1> DEFINE r == [sess[s] EXCEPT !.pc = "write", !.fd = "tmp"]
<1>1. /\ sess[s] \in SessSet /\ Works(sess[s]) /\ Good(sess[s]) /\ sess[s].pc = "save"
      /\ sess \in [Sessions -> SessSet]
  BY DEF SaveOpen, TypeInv, Good, Works
<1>2. sess' = [sess EXCEPT ![s] = r]
  <2>1. sess' = [sess EXCEPT ![s].pc = "write", ![s].fd = "tmp"]
    BY DEF SaveOpen
  <2> QED BY <1>1, <2>1
<1>3. r \in SessSet
  BY <1>1 DEF SessSet, Saving
<1>4. /\ r.pc = "write" /\ r.fd = "tmp" /\ Keeps(r, sess[s]) /\ r.changed = sess[s].changed
  BY <1>1 DEF SessSet, Keeps
<1> HIDE DEF r
<1>5. Good(r)
  <2>1. Works(r)
    BY <1>1, <1>3, <1>4 DEF Works, Keeps
  <2> QED BY <1>1, <1>4, <2>1 DEF Good, Keeps, Saving, Holding
<1>6. Only(s, r)
  BY <1>1, <1>2, <1>3, OnlyOne
<1> QED BY <1>4, <1>5, <1>6 DEF Only

LEMMA SaveWriteStep ==
  ASSUME TypeInv, NEW s \in Sessions, SaveWrite(s)
  PROVE  LET r == sess'[s]
         IN  Only(s, r) /\ Good(r) /\ Keeps(r, sess[s]) /\ r.pc = "rename" /\ r.fd = sess[s].fd
<1> DEFINE r == [sess[s] EXCEPT !.pc = "rename"]
<1>1. /\ sess[s] \in SessSet /\ Works(sess[s]) /\ Good(sess[s]) /\ sess[s].pc = "write"
      /\ sess \in [Sessions -> SessSet]
  BY DEF SaveWrite, TypeInv, Good, Works
<1>2. sess' = [sess EXCEPT ![s] = r]
  <2>1. sess' = [sess EXCEPT ![s].pc = "rename"]
    BY DEF SaveWrite
  <2> QED BY <1>1, <2>1
<1>3. r \in SessSet
  BY <1>1 DEF SessSet, Saving
<1>4. /\ r.pc = "rename" /\ r.fd = sess[s].fd /\ Keeps(r, sess[s]) /\ r.changed = sess[s].changed
  BY <1>1 DEF SessSet, Keeps
<1> HIDE DEF r
<1>5. Good(r)
  <2>1. Works(r)
    BY <1>1, <1>3, <1>4 DEF Works, Keeps
  <2> QED BY <1>1, <1>4, <2>1 DEF Good, Keeps, Saving, Holding
<1>6. Only(s, r)
  BY <1>1, <1>2, <1>3, OnlyOne
<1> QED BY <1>4, <1>5, <1>6 DEF Only

\* The file another session writes to may change its name.
LEMMA Renamed ==
  ASSUME NEW q, Good(q), NEW fd \in {"none", "tmp", "file", "gone"}, fd = "none" <=> q.fd = "none"
  PROVE  LET r == [q EXCEPT !.fd = fd]
         IN  r \in SessSet /\ Good(r) /\ Keeps(r, q) /\ r.pc = q.pc
<1> DEFINE r == [q EXCEPT !.fd = fd]
<1>1. q \in SessSet /\ Works(q)
  BY DEF Good, Works
<1>2. r \in SessSet
  BY <1>1 DEF SessSet
<1>3. /\ r.fd = fd /\ r.pc = q.pc /\ Keeps(r, q) /\ r.changed = q.changed /\ r.keep = q.keep
  BY <1>1 DEF SessSet, Keeps
<1> HIDE DEF r
<1>4. Works(r)
  BY <1>1, <1>2, <1>3 DEF Works, Keeps
<1>5. Good(r)
  BY <1>3, <1>4 DEF Good, Keeps
<1> QED BY <1>2, <1>3, <1>5 DEF r

LEMMA SaveRenameStep ==
  ASSUME TypeInv, NEW s \in Sessions, SaveRename(s)
  PROVE  LET r == sess'[s]
             q == sess[s]
         IN  /\ sess' \in [Sessions -> SessSet]
             /\ Good(r) /\ r.pc = "idle" /\ r.have = q.keep /\ (r.have => r.all = q.all)
             /\ r.all = IF q.keep THEN q.all ELSE <<>>
             /\ r.board = IF q.goal = None THEN q.board ELSE q.goal
             /\ r.list = IF q.goal = None THEN q.list ELSE Get(q.all, q.goal)
             /\ \A p \in Sessions \ {s} :
                  /\ Good(sess'[p]) /\ Keeps(sess'[p], sess[p]) /\ sess'[p].pc = sess[p].pc
                  /\ sess[p].fd = "none" => sess'[p].fd = "none"
<1> DEFINE q == [sess[s] EXCEPT !.pc = "idle", !.fd = "none", !.put = None]
           fd(p) == CASE sess[p].fd = "tmp" -> "file" [] sess[p].fd = "file" -> "gone"
                      [] OTHER -> sess[p].fd
           r(p) == IF p = s THEN Got(q)
                   ELSE IF ~tmp.there THEN sess[p] ELSE [sess[p] EXCEPT !.fd = fd(p)]
<1>1. /\ sess[s] \in SessSet /\ Works(sess[s]) /\ Good(sess[s]) /\ sess[s].pc = "rename"
      /\ sess \in [Sessions -> SessSet]
  BY DEF SaveRename, TypeInv, Good, Works
<1>2. sess' = [p \in Sessions |-> r(p)]
  BY DEF SaveRename
<1>3. q \in SessSet
  BY <1>1 DEF SessSet
<1>4. /\ q.pc = "idle" /\ q.fd = "none" /\ q.put = None /\ q.board = sess[s].board
      /\ q.list = sess[s].list /\ q.all = sess[s].all /\ q.goal = sess[s].goal
      /\ q.keep = sess[s].keep /\ q.changed = sess[s].changed
  BY <1>1 DEF SessSet
<1> HIDE DEF q
<1>5. Works(q) /\ (q.goal # None => ~q.changed)
  BY <1>1, <1>3, <1>4 DEF Works, Good
<1>6. Good(Got(q))
  BY <1>4, <1>5, GotGood
<1>7. LET g == Got(q)
      IN  /\ g.pc = q.pc /\ g.have = q.keep /\ g.all = IF q.keep THEN q.all ELSE <<>>
          /\ g.board = IF q.goal = None THEN q.board ELSE q.goal
          /\ g.list = IF q.goal = None THEN q.list ELSE Get(q.all, q.goal)
  BY <1>3, GotFields
<1>8. ASSUME NEW p \in Sessions \ {s}
      PROVE  /\ Good(r(p)) /\ Keeps(r(p), sess[p]) /\ r(p).pc = sess[p].pc
             /\ sess[p].fd = "none" => r(p).fd = "none"
  <2>1. Good(sess[p]) /\ sess[p] \in SessSet
    BY DEF TypeInv
  <2>2. CASE ~tmp.there
    BY <2>1, <2>2 DEF Keeps
  <2>3. CASE tmp.there
    <3> DEFINE f == fd(p)
               x == [sess[p] EXCEPT !.fd = f]
    <3>1. r(p) = x
      BY <2>3
    <3>2. f \in {"none", "tmp", "file", "gone"} /\ (f = "none" <=> sess[p].fd = "none")
      BY <2>1, SessTyped
    <3> HIDE DEF f
    <3>3. x \in SessSet /\ Good(x) /\ Keeps(x, sess[p]) /\ x.pc = sess[p].pc
      BY <2>1, <3>2, Renamed
    <3>4. x.fd = f
      BY <2>1 DEF SessSet
    <3> HIDE DEF x, r
    <3> QED BY <3>1, <3>2, <3>3, <3>4
  <2> QED BY <2>2, <2>3
<1>9. r(s) = Got(q)
  OBVIOUS
<1> HIDE DEF r
<1>10. \A p \in Sessions : r(p) \in SessSet
  BY <1>6, <1>8, <1>9 DEF Good, Works
<1>11. sess' \in [Sessions -> SessSet] /\ \A p \in Sessions : sess'[p] = r(p)
  BY <1>2, <1>10
<1>12. sess'[s] = Got(q)
  BY <1>9, <1>11
<1> QED BY <1>4, <1>6, <1>7, <1>8, <1>11, <1>12

\* The file is loaded, for b or only to save.
Loading(s) ==
  /\ Idle(s)
  /\ \E b \in Boards \cup {None}, k \in BOOLEAN : Go(s, Loaded(Aim(sess[s], b, k)))
  /\ visits' \in {visits, visits + 1} /\ visits' <= MaxVisits
  /\ UNCHANGED <<file, tmp, reads, mixed>>

Steps(s) ==
  \/ SaveOpen(s) \/ SaveWrite(s) \/ SaveRename(s) \/ Loading(s) \/ End(s)
  \/ ListEnds(s) \/ ReadInfo(s) \/ SaveInfo(s)
  \/ \E b \in Boards, k \in BOOLEAN : Open(s, b, k)
  \/ \E t \in Times : ReadArticle(s, t) \/ ClearTo(s, t)

LEMMA NextSteps ==
  ASSUME TypeInv, Next PROVE \E s \in Sessions : Steps(s)
<1>0. visits \in 0 .. MaxVisits /\ MaxVisits \in Nat /\ \A s \in Sessions : sess[s] \in SessSet
  BY BoardrcAssumption DEF TypeInv
<1>1. ASSUME NEW s \in Sessions, Update(s) PROVE Steps(s)
  <2>1. Idle(s) /\ sess[s].have \in BOOLEAN /\ Go(s, Loaded([sess[s] EXCEPT !.keep = sess[s].have]))
    BY <1>0, <1>1, SessTyped DEF Update
  <2>2. Go(s, Loaded(Aim(sess[s], None, sess[s].have)))
    BY <2>1, AimsNowhere
  <2>3. visits' \in {visits, visits + 1} /\ visits' <= MaxVisits /\ UNCHANGED <<file, tmp, reads, mixed>>
    BY <1>0, <1>1 DEF Update
  <2>4. Loading(s)
    BY <2>1, <2>2, <2>3 DEF Loading
  <2> QED BY <2>4 DEF Steps
<1>2. ASSUME NEW s \in Sessions, ListBoards(s) PROVE Steps(s)
  <2>1. Idle(s) /\ Go(s, Loaded([sess[s] EXCEPT !.keep = TRUE]))
    BY <1>2 DEF ListBoards
  <2>2. Go(s, Loaded(Aim(sess[s], None, TRUE)))
    BY <2>1, AimsNowhere
  <2>3. visits' \in {visits, visits + 1} /\ visits' <= MaxVisits /\ UNCHANGED <<file, tmp, reads, mixed>>
    BY <1>0, <1>2 DEF ListBoards, Visit
  <2>4. Loading(s)
    BY <2>1, <2>2, <2>3 DEF Loading
  <2> QED BY <2>4 DEF Steps
<1>3. ASSUME NEW s \in Sessions, NEW b \in Boards, NEW k \in BOOLEAN, Open(s, b, k) PROVE Steps(s)
  BY <1>3 DEF Steps
<1>4. Telnets \subseteq Sessions /\ Webs \subseteq Sessions /\ TRUE \in BOOLEAN /\ FALSE \in BOOLEAN
  BY DEF Sessions
<1>5. CASE \E s \in Sessions : Save(s) \/ Update(s) \/ End(s)
  BY <1>5, <1>1 DEF Save, Steps
<1>6. CASE \E s \in Sessions : \E b \in Boards : Open(s, b, FALSE)
  BY <1>6, <1>3
<1>7. CASE \E s \in Sessions : \E t \in Times : ReadArticle(s, t) \/ ClearTo(s, t)
  BY <1>7 DEF Steps
<1>8. CASE \E s \in Telnets : ListBoards(s) \/ ListEnds(s)
  BY <1>8, <1>2, <1>4 DEF Steps
<1>9. CASE \E s \in Telnets : \E b \in Boards : Open(s, b, TRUE)
  BY <1>9, <1>3, <1>4
<1>10. CASE \E w \in Webs : ReadInfo(w) \/ SaveInfo(w)
  BY <1>10, <1>4 DEF Steps
<1> QED BY <1>5, <1>6, <1>7, <1>8, <1>9, <1>10 DEF Next

\* What Loading leaves in the session.
LEMMA LoadingStep ==
  ASSUME TypeInv, NEW s \in Sessions, Loading(s)
  PROVE  /\ Only(s, sess'[s]) /\ Good(sess'[s])
         /\ stale' = [stale EXCEPT ![s] = {}] /\ old' \in SUBSET old
         /\ UNCHANGED <<file, tmp, reads, mixed>>
<1>1. Idle(s) /\ UNCHANGED <<file, tmp, reads, mixed>>
  BY DEF Loading
<1>2. PICK b \in Boards \cup {None}, k \in BOOLEAN : Go(s, Loaded(Aim(sess[s], b, k)))
  BY DEF Loading
<1> DEFINE r == Aim(sess[s], b, k)
           q == IF Loaded(r).pc = "save" THEN Loaded(r) ELSE Got(Loaded(r))
<1>3. Works(r) /\ r.pc = "idle" /\ r.fd = "none" /\ r.put = None
  BY <1>1, Aims
<1> HIDE DEF r
<1>4. Only(s, q) /\ Good(q)
  BY <1>2, <1>3, GoStep DEF r
<1> HIDE DEF q
<1>5. stale' = [stale EXCEPT ![s] = {}] /\ old' \in SUBSET old
  BY <1>2 DEF Go
<1> QED BY <1>1, <1>4, <1>5 DEF Only

LEMMA EndStep ==
  ASSUME TypeInv, NEW s \in Sessions, End(s)
  PROVE  Only(s, New) /\ Good(New)
<1>1. sess' = [sess EXCEPT ![s] = New] /\ sess \in [Sessions -> SessSet]
  BY DEF End, TypeInv
<1>2. New \in SessSet
  BY NewGood DEF Good, Works
<1> QED BY <1>1, <1>2, NewGood, OnlyOne

LEMMA ListEndsStep ==
  ASSUME TypeInv, NEW s \in Sessions, ListEnds(s)
  PROVE  LET r == sess'[s]
         IN  /\ Only(s, r) /\ Good(r) /\ r.pc = "idle" /\ ~r.have /\ r.board = sess[s].board
             /\ r.list = sess[s].list /\ r.all = <<>>
<1> DEFINE r == [sess[s] EXCEPT !.have = FALSE, !.all = <<>>]
<1>1. Idle(s) /\ sess \in [Sessions -> SessSet] /\ sess[s] \in SessSet
  BY DEF ListEnds, TypeInv
<1>2. sess' = [sess EXCEPT ![s] = r]
  <2>1. sess' = [sess EXCEPT ![s].have = FALSE, ![s].all = <<>>]
    BY DEF ListEnds
  <2> QED BY <1>1, <2>1
<1>3. /\ Good(r) /\ r.pc = "idle" /\ ~r.have /\ r.board = sess[s].board
      /\ r.list = sess[s].list /\ r.all = <<>>
  BY <1>1, FreedGood
<1> HIDE DEF r
<1>4. Only(s, r)
  BY <1>1, <1>2, <1>3, OnlyOne DEF Good, Works
<1> QED BY <1>3, <1>4 DEF Only

LEMMA TypeInit == Init => TypeInv
<1> SUFFICES ASSUME Init PROVE TypeInv
  OBVIOUS
<1>1. New \in SessSet /\ Good(New)
  BY NewGood DEF Good, Works
<1>2. sess \in [Sessions -> SessSet] /\ \A s \in Sessions : Good(sess[s])
  BY <1>1 DEF Init
<1>3. /\ tmp \in [there : BOOLEAN, blocks : Files] /\ tmp.blocks = <<>>
  BY EmptyList DEF Init, NoTmp, IsFile
<1>4. reads \in 0 .. MaxReads /\ visits \in 0 .. MaxVisits
  BY BoardrcAssumption DEF Init
<1> QED BY <1>2, <1>3, <1>4, EmptyList DEF Init, TypeInv

LEMMA OnlyGood ==
  ASSUME TypeInv, NEW s \in Sessions, Only(s, sess'[s]), Good(sess'[s])
  PROVE  sess' \in [Sessions -> SessSet] /\ \A q \in Sessions : Good(sess'[q])
<1>1. \A q \in Sessions : q = s \/ q \in Sessions \ {s}
  OBVIOUS
<1> QED BY <1>1 DEF Only, TypeInv

\* What others have saved is added to what a session does not know of.
LEMMA SavedTyped ==
  ASSUME TypeInv, NEW s \in Sessions, NEW f, Saved(s, f)
  PROVE  stale' \in [Sessions -> SUBSET AllNames] /\ old' \subseteq Sessions
<1> DEFINE diff == {b \in Boards \cup {INFO} : Get(f, b) # Get(file, b)}
           st(r) == IF r = s THEN stale[s] ELSE stale[r] \cup diff
<1>1. /\ stale' = [r \in Sessions |-> st(r)]
      /\ old' = (IF sess[s].goal # None /\ sess[s].goal \notin stale[s] THEN old \ {s} ELSE old)
                \cup {r \in Sessions \ {s} : sess[r].board \in diff}
  BY DEF Saved
<1>2. \A r \in Sessions : st(r) \in SUBSET AllNames
  <2>1. \A r \in Sessions : stale[r] \in SUBSET AllNames
    BY DEF TypeInv
  <2>2. diff \in SUBSET AllNames
    BY DEF AllNames
  <2> QED BY <2>1, <2>2
<1> HIDE DEF st
<1>3. stale' \in [Sessions -> SUBSET AllNames]
  BY <1>1, <1>2
<1> HIDE DEF diff
<1>4. old' \subseteq Sessions
  BY <1>1 DEF TypeInv
<1> QED BY <1>3, <1>4

LEMMA TypeSaves ==
  ASSUME TypeInv, NEW s \in Sessions, SaveOpen(s) \/ SaveWrite(s) \/ SaveRename(s)
  PROVE  TypeInv'
<1>0. /\ IsFile(file) /\ IsFile(tmp.blocks) /\ tmp \in [there : BOOLEAN, blocks : Files]
      /\ IsFile(sess[s].all) /\ mixed \in BOOLEAN
      /\ reads \in 0 .. MaxReads /\ visits \in 0 .. MaxVisits
      /\ stale \in [Sessions -> SUBSET AllNames] /\ old \subseteq Sessions
  BY DEF TypeInv, Good, Works
<1>1. CASE SaveOpen(s)
  <2>1. /\ tmp' = [tmp EXCEPT !.there = TRUE] /\ mixed' = (mixed \/ tmp.there)
        /\ UNCHANGED <<file, reads, visits, stale, old>>
    BY <1>1 DEF SaveOpen
  <2>2. sess' \in [Sessions -> SessSet] /\ \A q \in Sessions : Good(sess'[q])
    BY <1>1, SaveOpenStep, OnlyGood
  <2>3. tmp' \in [there : BOOLEAN, blocks : Files] /\ tmp'.blocks = tmp.blocks
    BY <1>0, <2>1
  <2>4. mixed' \in BOOLEAN
    BY <1>0, <2>1
  <2> QED BY <1>0, <2>1, <2>2, <2>3, <2>4 DEF TypeInv
<1>2. CASE SaveWrite(s)
  <2>1. UNCHANGED <<reads, visits, mixed>>
    BY <1>2 DEF SaveWrite
  <2>2. sess' \in [Sessions -> SessSet] /\ \A q \in Sessions : Good(sess'[q])
    BY <1>2, SaveWriteStep, OnlyGood
  <2>3. CASE sess[s].fd = "tmp"
    <3>1. tmp' = [tmp EXCEPT !.blocks = Over(sess[s].all, tmp.blocks)] /\ UNCHANGED <<file, stale, old>>
      BY <1>2, <2>3 DEF SaveWrite
    <3>2. IsFile(Over(sess[s].all, tmp.blocks))
      BY <1>0, OverFile
    <3>3. tmp' \in [there : BOOLEAN, blocks : Files] /\ IsFile(tmp'.blocks)
      BY <1>0, <3>1, <3>2 DEF IsFile
    <3> QED BY <1>0, <2>1, <2>2, <3>1, <3>3 DEF TypeInv
  <2>4. CASE sess[s].fd # "tmp"
    <3>1. /\ file' = IF sess[s].fd = "file" THEN Over(sess[s].all, file) ELSE file
          /\ Saved(s, file') /\ UNCHANGED tmp
      BY <1>2, <2>4 DEF SaveWrite
    <3>2. IsFile(file')
      BY <1>0, <3>1, OverFile
    <3>3. stale' \in [Sessions -> SUBSET AllNames] /\ old' \subseteq Sessions
      BY <3>1, SavedTyped
    <3> QED BY <1>0, <2>1, <2>2, <3>1, <3>2, <3>3 DEF TypeInv
  <2> QED BY <2>3, <2>4
<1>3. CASE SaveRename(s)
  <2>1. /\ UNCHANGED <<reads, visits, mixed>> /\ file' = (IF tmp.there THEN tmp.blocks ELSE file)
        /\ tmp' = NoTmp /\ Saved(s, file')
    BY <1>3 DEF SaveRename
  <2>2. sess' \in [Sessions -> SessSet] /\ \A q \in Sessions : Good(sess'[q])
    <3>1. \A q \in Sessions : q = s \/ q \in Sessions \ {s}
      OBVIOUS
    <3> QED BY <1>3, <3>1, SaveRenameStep
  <2>3. tmp' \in [there : BOOLEAN, blocks : Files] /\ tmp'.blocks = <<>>
    BY <2>1, EmptyList DEF NoTmp, IsFile
  <2>4. stale' \in [Sessions -> SUBSET AllNames] /\ old' \subseteq Sessions
    BY <2>1, SavedTyped
  <2>5. IsFile(file')
    BY <1>0, <2>1
  <2> QED BY <1>0, <2>1, <2>2, <2>3, <2>4, <2>5, EmptyList DEF TypeInv
<1> QED BY <1>1, <1>2, <1>3

LEMMA TypeSteps ==
  ASSUME TypeInv, NEW s \in Sessions, Steps(s)
  PROVE  TypeInv'
<1>0. /\ IsFile(file) /\ IsFile(tmp.blocks) /\ tmp \in [there : BOOLEAN, blocks : Files]
      /\ mixed \in BOOLEAN /\ reads \in 0 .. MaxReads /\ visits \in 0 .. MaxVisits
      /\ stale \in [Sessions -> SUBSET AllNames] /\ old \subseteq Sessions
      /\ MaxReads \in Nat /\ MaxVisits \in Nat
  BY BoardrcAssumption DEF TypeInv
<1>1. SUFFICES ASSUME ~(SaveOpen(s) \/ SaveWrite(s) \/ SaveRename(s)) PROVE TypeInv'
  BY TypeSaves
<1>2. UNCHANGED <<file, tmp, mixed>>
  BY <1>1 DEF Steps, Loading, End, ListEnds, ReadInfo, SaveInfo, Open, ReadArticle, ClearTo
<1>3. reads' \in 0 .. MaxReads
  <2>1. ASSUME NEW t \in Times, ReadArticle(s, t) \/ ClearTo(s, t) PROVE reads' \in 0 .. MaxReads
    BY <1>0, <2>1 DEF ReadArticle, ClearTo
  <2>2. ASSUME UNCHANGED reads PROVE reads' \in 0 .. MaxReads
    BY <1>0, <2>2
  <2> QED BY <1>1, <2>1, <2>2 DEF Steps, Loading, End, ListEnds, ReadInfo, SaveInfo, Open
<1>4. visits' \in 0 .. MaxVisits
  <2>1. ASSUME visits < MaxVisits, visits' = visits + 1 PROVE visits' \in 0 .. MaxVisits
    BY <1>0, <2>1
  <2>2. ASSUME visits' \in {visits, visits + 1}, visits' <= MaxVisits PROVE visits' \in 0 .. MaxVisits
    BY <1>0, <2>2
  <2>3. ASSUME UNCHANGED visits PROVE visits' \in 0 .. MaxVisits
    BY <1>0, <2>3
  <2> QED BY <1>1, <2>1, <2>2, <2>3
             DEF Steps, Loading, End, ListEnds, ReadInfo, SaveInfo, Open, ReadArticle, ClearTo, Visit
<1>5. stale' \in [Sessions -> SUBSET AllNames] /\ old' \subseteq Sessions
      /\ sess' \in [Sessions -> SessSet] /\ \A q \in Sessions : Good(sess'[q])
  <2>1. CASE Loading(s)
    BY <1>0, <2>1, LoadingStep, OnlyGood
  <2>2. CASE End(s)
    <3>1. Only(s, sess'[s]) /\ Good(sess'[s])
      BY <2>2, EndStep DEF Only
    <3>2. old' = old \ {s} /\ UNCHANGED stale
      BY <2>2 DEF End
    <3> QED BY <1>0, <3>1, <3>2, OnlyGood
  <2>3. CASE ListEnds(s)
    <3>1. UNCHANGED <<stale, old>>
      BY <2>3 DEF ListEnds
    <3> QED BY <1>0, <2>3, <3>1, ListEndsStep, OnlyGood
  <2>4. CASE ReadInfo(s)
    <3>1. stale' = [stale EXCEPT ![s] = {}] /\ UNCHANGED old
      BY <2>4 DEF ReadInfo
    <3> QED BY <1>0, <2>4, <3>1, ReadInfoStep, OnlyGood
  <2>5. CASE SaveInfo(s)
    <3>1. UNCHANGED <<stale, old>>
      BY <2>5 DEF SaveInfo
    <3> QED BY <1>0, <2>5, <3>1, SaveInfoStep, OnlyGood
  <2>6. ASSUME NEW b \in Boards, NEW k \in BOOLEAN, Open(s, b, k)
        PROVE  /\ stale' \in [Sessions -> SUBSET AllNames] /\ old' \subseteq Sessions
               /\ sess' \in [Sessions -> SessSet] /\ \A q \in Sessions : Good(sess'[q])
    <3> DEFINE r == Aim(sess[s], b, k)
    <3>1. CASE Go(s, Loaded(r))
      <4>1. Idle(s) /\ b \in Boards \cup {None}
        BY <2>6 DEF Open
      <4>2. Works(r) /\ r.pc = "idle" /\ r.fd = "none" /\ r.put = None
        BY <4>1, Aims
      <4> HIDE DEF r
      <4>3. Only(s, sess'[s]) /\ Good(sess'[s])
        BY <3>1, <4>2, GoStep DEF Only
      <4>4. stale' = [stale EXCEPT ![s] = {}] /\ old' \in SUBSET old
        BY <3>1 DEF Go
      <4> QED BY <1>0, <4>3, <4>4, OnlyGood
    <3>2. CASE ~Go(s, Loaded(r))
      <4>1. /\ Only(s, sess'[s]) /\ Good(sess'[s]) /\ UNCHANGED stale
            /\ old' \in {old, old \cup {s}, old \ {s}}
        BY <2>6, <3>2, OpenStep DEF Only
      <4> QED BY <1>0, <4>1, OnlyGood
    <3> QED BY <3>1, <3>2
  <2>7. ASSUME NEW t \in Times, ReadArticle(s, t) \/ ClearTo(s, t)
        PROVE  /\ stale' \in [Sessions -> SUBSET AllNames] /\ old' \subseteq Sessions
               /\ sess' \in [Sessions -> SessSet] /\ \A q \in Sessions : Good(sess'[q])
    <3>1. UNCHANGED <<stale, old>>
      BY <2>7 DEF ReadArticle, ClearTo
    <3>2. Only(s, sess'[s]) /\ Good(sess'[s])
      BY <2>7, ReadStep, ClearStep
    <3> QED BY <1>0, <3>1, <3>2, OnlyGood
  <2> QED BY <1>1, <2>1, <2>2, <2>3, <2>4, <2>5, <2>6, <2>7 DEF Steps
<1> QED BY <1>0, <1>2, <1>3, <1>4, <1>5 DEF TypeInv

LEMMA TypeStep == TypeInv /\ [Next]_vars => TypeInv'
<1>1. ASSUME TypeInv, Next PROVE TypeInv'
  BY <1>1, NextSteps, TypeSteps
<1>2. ASSUME TypeInv, UNCHANGED vars PROVE TypeInv'
  BY <1>2 DEF TypeInv, vars
<1> QED BY <1>1, <1>2

LEMMA Typing == Spec => []TypeInv
BY TypeInit, TypeStep, PTL DEF Spec

\* The values of the variables: every list is sorted and has at most BRC_MAXNUM times,
\* and no file or copy of it is longer than maxsize, whatever brc_putblock, shorter_brc
\* and brc_fini have made of them.
THEOREM TypeCorrect == Spec => []TypeOK
<1>1. TypeInv => TypeOK
  <2> SUFFICES ASSUME TypeInv PROVE TypeOK
    OBVIOUS
  <2>1. ASSUME NEW f, IsFile(f) PROVE BlocksOK(f)
    <3>1. f \in Files /\ SizeOf(f) <= MaxSize /\ DOMAIN f = 1 .. Len(f)
      BY <2>1, FileTyped DEF IsFile
    <3>2. \A i \in 1 .. Len(f) : IsBlock(f[i])
      BY <2>1 DEF IsFile
    <3>3. ASSUME NEW i \in 1 .. Len(f)
          PROVE  f[i].board \in Boards \cup {INFO} /\ f[i].list \in Lists /\ Sorted(f[i].list)
      BY <3>2, BlockTyped DEF IsBlock, AllNames
    <3> QED BY <3>1, <3>3 DEF BlocksOK
  <2>2. ASSUME NEW s \in Sessions
        PROVE  /\ sess[s].put \in Boards \cup {INFO, None}
               /\ sess[s].pc \in {"idle", "save", "write", "rename", "info"}
               /\ sess[s].board \in Boards \cup {None} /\ sess[s].goal \in Boards \cup {None}
               /\ sess[s].list \in Lists /\ Sorted(sess[s].list)
               /\ sess[s].cur \in 0 .. BRC_MAXNUM
               /\ {sess[s].changed, sess[s].have, sess[s].keep} \subseteq BOOLEAN
               /\ BlocksOK(sess[s].all)
               /\ sess[s].fd \in {"none", "tmp", "file", "gone"}
               /\ stale[s] \subseteq Boards \cup {INFO}
    <3>1. sess[s] \in SessSet /\ IsTimes(sess[s].list) /\ IsFile(sess[s].all)
      BY DEF TypeInv, Good, Works
    <3>2. stale[s] \subseteq Boards \cup {INFO}
      BY DEF TypeInv, AllNames
    <3>3. BlocksOK(sess[s].all) /\ sess[s].list \in Lists /\ Sorted(sess[s].list)
      BY <3>1, <2>1 DEF IsTimes
    <3>4. {sess[s].changed, sess[s].have, sess[s].keep} \subseteq BOOLEAN
      BY <3>1, SessTyped
    <3>5. /\ sess[s].put \in Boards \cup {INFO, None}
          /\ sess[s].pc \in {"idle", "save", "write", "rename", "info"}
          /\ sess[s].board \in Boards \cup {None} /\ sess[s].goal \in Boards \cup {None}
          /\ sess[s].cur \in 0 .. BRC_MAXNUM
          /\ sess[s].fd \in {"none", "tmp", "file", "gone"}
      BY <3>1, SessTyped DEF Saving, AllNames
    <3> QED BY <3>2, <3>3, <3>4, <3>5
  <2>3. BlocksOK(file) /\ BlocksOK(tmp.blocks) /\ tmp.there \in BOOLEAN
    BY <2>1 DEF TypeInv
  <2>4. /\ reads \in 0 .. MaxReads /\ visits \in 0 .. MaxVisits
        /\ old \subseteq Sessions /\ mixed \in BOOLEAN
    BY DEF TypeInv
  <2> QED BY <2>2, <2>3, <2>4 DEF TypeOK
<1> QED BY Typing, <1>1, PTL

-----------------------------------------------------------------------------
(* Reading *)

LEMMA ReadOf ==
  ASSUME NEW l, IsTimes(l), l # <<>>
  PROVE  ReadTimes(l) = {t \in Times : Says(l, t)}
<1>1. l \in Seq(Nat) /\ Falling(l)
  BY ListTyped, SortedFalls DEF IsTimes
<1> QED BY <1>1, ReadIsSaid

\* SETREAD and brc_clearto on a list of any length, from any cursor: SETREAD makes its
\* article read and forgets nothing, and what else it makes read is older than the end
\* of a full list; brc_clearto makes read all that is no newer, and nothing else.
THEOREM ReadRight == Spec => ReadExact
<1>1. ASSUME TypeInv, NEW s \in Sessions, NEW t \in Times
      PROVE  LET read == ReadTimes(sess[s].list)
                 now == ReadTimes(sess'[s].list)
                 l == sess'[s].list
             IN  /\ ReadArticle(s, t) =>
                      /\ read \cup {t} \subseteq now
                      /\ \A x \in now \ (read \cup {t}) :
                           Len(sess[s].list) = BRC_MAXNUM /\ x < l[Len(l)]
                 /\ ClearTo(s, t) => now = read \cup {x \in Times : x <= t}
  <2> DEFINE o == sess[s].list
             l == sess'[s].list
             i == Locate(o, sess[s].cur, t)
             read == ReadTimes(o)
             now == ReadTimes(l)
  <2>1. ASSUME ReadArticle(s, t)
        PROVE  /\ read \cup {t} \subseteq now
               /\ \A x \in now \ (read \cup {t}) : Len(o) = BRC_MAXNUM /\ x < l[Len(l)]
    <3>1. sess[s].board # None
      BY <2>1 DEF ReadArticle
    <3>2. IsTimes(o) /\ o # <<>> /\ o \in Seq(Nat) /\ Falling(o) /\ Located(o, t, i)
      BY <1>1, <3>1, OpenList
    <3>3. l = IF UnreadAt(o, i, t) THEN Insert(o, i, t) ELSE o
      BY <1>1, <2>1, ReadStep
    <3> HIDE DEF i, o, l
    <3>4. CASE UnreadAt(o, i, t)
      <4>1. /\ IsTimes(l) /\ l # <<>>
            /\ \A x \in Times :
                 /\ Says(o, x) \/ x = t => Says(l, x)
                 /\ Says(l, x) /\ ~Says(o, x) /\ x # t => Len(o) = BRC_MAXNUM /\ x < l[Len(l)]
        BY <3>2, <3>3, <3>4, InsertRight
      <4>2. read = {x \in Times : Says(o, x)} /\ now = {x \in Times : Says(l, x)}
        BY <3>2, <4>1, ReadOf
      <4> HIDE DEF read, now
      <4> QED BY <4>1, <4>2
    <3>5. CASE ~UnreadAt(o, i, t)
      <4>1. l = o /\ Says(o, t) /\ read = {x \in Times : Says(o, x)}
        BY <3>2, <3>3, <3>5, UnreadIsNotSaid, ReadOf
      <4>2. now = read
        BY <4>1
      <4> HIDE DEF read, now
      <4> QED BY <4>1, <4>2
    <3> QED BY <3>4, <3>5
  <2>2. ASSUME ClearTo(s, t) PROVE now = read \cup {x \in Times : x <= t}
    <3>1. sess[s].board # None
      BY <2>2 DEF ClearTo
    <3>2. IsTimes(o) /\ o # <<>> /\ Located(o, t, i)
      BY <1>1, <3>1, OpenList
    <3>3. l = SetTo(o, i, t)
      BY <1>1, <2>2, ClearStep
    <3> HIDE DEF i, o, l
    <3>4. /\ IsTimes(l) /\ l # <<>>
          /\ \A x \in Times : Says(l, x) <=> Says(o, x) \/ x <= t
      BY <3>2, <3>3, SetToRight
    <3>5. read = {x \in Times : Says(o, x)} /\ now = {x \in Times : Says(l, x)}
      BY <3>2, <3>4, ReadOf
    <3> HIDE DEF read, now
    <3> QED BY <3>4, <3>5
  <2> QED BY <2>1, <2>2
<1>2. TypeInv /\ [Next]_vars =>
        [\A s \in Sessions, t \in Times :
           LET read == ReadTimes(sess[s].list)
               now == ReadTimes(sess'[s].list)
               l == sess'[s].list
           IN  /\ ReadArticle(s, t) =>
                    /\ read \cup {t} \subseteq now
                    /\ \A x \in now \ (read \cup {t}) :
                         Len(sess[s].list) = BRC_MAXNUM /\ x < l[Len(l)]
               /\ ClearTo(s, t) => now = read \cup {x \in Times : x <= t}]_vars
  BY <1>1
<1> QED BY Typing, <1>2, PTL DEF Spec, ReadExact

-----------------------------------------------------------------------------
(* Loading and saving *)

\* A session with marks to save goes on to save them.
LEMMA GoChanged ==
  ASSUME TypeInv, NEW s \in Sessions, Idle(s), NEW b \in Boards \cup {None}, NEW k \in BOOLEAN,
         Go(s, Loaded(Aim(sess[s], b, k))), sess[s].changed
  PROVE  LET q == sess'[s]
             l == Shorter(sess[s].list)
             blk == Block(sess[s].board, l)
         IN  /\ q.pc = "save" /\ q.put = sess[s].board /\ q.board = sess[s].board /\ q.list = l
             /\ q.all = PutBlock(file, blk) /\ Get(q.all, q.put) = l
             /\ IsBlock(blk) /\ blk.board = sess[s].board /\ blk.list = l /\ l # <<1>>
             /\ Size(blk) = 1 + Len(l) /\ sess[s].board \in Boards
             /\ ReadTimes(l) = ReadTimes(sess[s].list)
             /\ old' = old
<1> DEFINE r == Aim(sess[s], b, k)
           q == sess'[s]
           l == Shorter(sess[s].list)
           blk == Block(sess[s].board, l)
<1>1. /\ Works(r) /\ r.pc = "idle" /\ r.fd = "none" /\ r.put = None /\ r.changed
      /\ r.board = sess[s].board /\ r.list = sess[s].list /\ IsFile(file)
  BY Aims DEF TypeInv
<1> HIDE DEF r
<1>2. LET g == Loaded(r)
      IN  /\ g \in SessSet /\ g.pc = "save" /\ g.put = r.board /\ g.board = r.board /\ g.list = l
          /\ g.all = PutBlock(file, blk)
          /\ IsBlock(blk) /\ blk.board = r.board /\ blk.list = l /\ l # <<1>>
          /\ Size(blk) = 1 + Len(l)
          /\ r.board \in Boards /\ Get(g.all, r.board) = l
  <2> DEFINE m == Shorter(r.list)
             new == Block(r.board, m)
             g == Loaded(r)
  <2>1. /\ g \in SessSet /\ g.pc = "save" /\ g.put = r.board /\ g.board = r.board /\ g.list = m
        /\ g.all = PutBlock(file, new)
        /\ IsBlock(new) /\ new.board = r.board /\ new.list = m /\ m # <<1>>
        /\ Size(new) = 1 + Len(m)
        /\ r.board \in Boards /\ Get(g.all, r.board) = m
    <3> HIDE DEF l, blk
    <3> QED BY <1>1, LoadedChanged
  <2>2. m = l /\ new = blk
    BY <1>1
  <2> HIDE DEF m, new, l, blk, g
  <2> QED BY <2>1, <2>2 DEF g
<1>3. sess' = [sess EXCEPT ![s] = Loaded(r)] /\ old' = old
  <2>1. /\ sess' = [sess EXCEPT ![s] = IF Loaded(r).pc = "save" THEN Loaded(r) ELSE Got(Loaded(r))]
        /\ old' = IF Loaded(r).pc # "save" /\ Loaded(r).goal # None THEN old \ {s} ELSE old
    BY DEF Go, r
  <2> QED BY <1>2, <2>1
<1>4. q = Loaded(r)
  BY <1>3 DEF TypeInv
<1>5. ReadTimes(l) = ReadTimes(sess[s].list)
  <2>1. IsTimes(sess[s].list) /\ sess[s].list # <<>>
    BY <1>1, <1>2, BoardrcAssumption DEF Works
  <2>2. /\ IsTimes(l) /\ l # <<>>
        /\ \A x \in Times : Says(l, x) <=> Says(sess[s].list, x)
    BY <2>1, ShorterRight
  <2> HIDE DEF l
  <2> QED BY <2>1, <2>2, ReadOf
<1> HIDE DEF q, l, blk
<1>6. Get(q.all, q.put) = l
  BY <1>2, <1>4
<1> QED BY <1>1, <1>2, <1>3, <1>4, <1>5, <1>6 DEF q, l, blk

\* Another one has the file at once.
LEMMA GoSame ==
  ASSUME TypeInv, NEW s \in Sessions, Idle(s), NEW b \in Boards \cup {None}, NEW k \in BOOLEAN,
         Go(s, Loaded(Aim(sess[s], b, k))), ~sess[s].changed
  PROVE  LET q == sess'[s]
         IN  /\ q.pc = "idle" /\ q.all = IF k THEN file ELSE <<>>
             /\ q.have = k
             /\ q.board = IF b = None THEN sess[s].board ELSE b
             /\ q.list = IF b = None THEN sess[s].list ELSE Get(file, b)
             /\ old' = IF b = None THEN old ELSE old \ {s}
<1> DEFINE r == Aim(sess[s], b, k)
           g == Loaded(r)
           q == sess'[s]
<1>1. /\ Works(r) /\ r.pc = "idle" /\ r.fd = "none" /\ r.put = None /\ ~r.changed
      /\ r.board = sess[s].board /\ r.list = sess[s].list /\ IsFile(file)
      /\ r.goal = b /\ r.keep = k
  BY Aims DEF TypeInv
<1>0. Go(s, g)
  OBVIOUS
<1> HIDE DEF r
<1>2. /\ Works(g) /\ g.pc = "idle" /\ ~g.changed
      /\ g.goal = b /\ g.board = r.board /\ g.list = r.list /\ g.keep = k
      /\ g.all = file
  BY <1>1, LoadedSame
<1> HIDE DEF g
<1>3. sess' = [sess EXCEPT ![s] = Got(g)] /\ old' = IF b = None THEN old ELSE old \ {s}
  BY <1>0, <1>2 DEF Go
<1>4. q = Got(g)
  BY <1>3 DEF TypeInv
<1>5. LET h == Got(g)
      IN  /\ h.pc = g.pc /\ h.have = g.keep /\ h.all = IF g.keep THEN g.all ELSE <<>>
          /\ h.board = IF g.goal = None THEN g.board ELSE g.goal
          /\ h.list = IF g.goal = None THEN g.list ELSE Get(g.all, g.goal)
  BY <1>2, GotFields DEF Works
<1> HIDE DEF q
<1> QED BY <1>1, <1>2, <1>3, <1>4, <1>5 DEF q

LEMMA SaveBegins ==
  ASSUME TypeInv, NEW q \in Sessions, Steps(q), NEW s \in Sessions,
         sess[s].pc = "idle", sess'[s].pc = "save"
  PROVE  Idle(s) /\ \E b \in Boards \cup {None}, k \in BOOLEAN : Go(s, Loaded(Aim(sess[s], b, k)))
<1>1. ASSUME Only(q, sess'[q]) PROVE q = s
  BY <1>1 DEF Only
<1>2. ASSUME NEW r \in SessSet, Only(q, r), r.pc # "save" PROVE FALSE
  BY <1>2 DEF Only
<1>3. CASE SaveOpen(q)
  BY <1>2, <1>3, SaveOpenStep DEF Good, Works
<1>4. CASE SaveWrite(q)
  BY <1>2, <1>4, SaveWriteStep DEF Good, Works
<1>5. CASE SaveRename(q)
  <2>1. sess'[q].pc = "idle" /\ \A p \in Sessions \ {q} : sess'[p].pc = sess[p].pc
    BY <1>5, SaveRenameStep
  <2> QED BY <2>1
<1>6. CASE Loading(q)
  BY <1>1, <1>6, LoadingStep DEF Loading
<1>7. CASE End(q)
  <2>1. New.pc = "idle" /\ New \in SessSet
    BY NewGood DEF New, Good, Works
  <2> QED BY <1>2, <1>7, <2>1, EndStep
<1>8. CASE ListEnds(q)
  BY <1>2, <1>8, ListEndsStep DEF Good, Works
<1>9. CASE ReadInfo(q)
  BY <1>2, <1>9, ReadInfoStep DEF Good, Works
<1>10. CASE SaveInfo(q)
  <2>1. sess[q].pc = "info" /\ Only(q, sess'[q])
    BY <1>10, SaveInfoStep DEF SaveInfo
  <2> QED BY <1>1, <2>1
<1>11. ASSUME NEW t \in Times, ReadArticle(q, t) \/ ClearTo(q, t) PROVE FALSE
  <2>1. Only(q, sess'[q]) /\ sess'[q].pc = "idle"
    BY <1>11, ReadStep, ClearStep
  <2> QED BY <1>1, <2>1
<1>12. ASSUME NEW b \in Boards, NEW k \in BOOLEAN, Open(q, b, k)
       PROVE  Idle(s) /\ \E c \in Boards \cup {None}, j \in BOOLEAN : Go(s, Loaded(Aim(sess[s], c, j)))
  <2>1. Idle(q)
    BY <1>12 DEF Open
  <2>2. CASE Go(q, Loaded(Aim(sess[q], b, k)))
    <3>1. s = q
      BY <2>2 DEF Go, TypeInv
    <3> QED BY <2>1, <2>2, <3>1
  <2>3. CASE ~Go(q, Loaded(Aim(sess[q], b, k)))
    <3> DEFINE r == Aim(sess[q], b, k)
               free == [sess[q] EXCEPT !.have = FALSE, !.all = <<>>]
    <3>1. CASE Only(q, Got(r)) /\ Good(Got(r))
      <4>1. b \in Boards \cup {None}
        OBVIOUS
      <4>2. Works(r) /\ r.pc = "idle"
        BY <2>1, <4>1, Aims
      <4> HIDE DEF r
      <4>3. Got(r).pc = "idle"
        BY <4>2, GotFields DEF Works
      <4> QED BY <3>1, <4>3, <1>2 DEF Good, Works
    <3>2. CASE Only(q, IF k THEN sess[q] ELSE free)
      <4>1. /\ sess[q] \in SessSet /\ sess[q].pc = "idle"
            /\ free \in SessSet /\ free.pc = "idle"
        BY <2>1, FreedGood, IdleFields DEF Good, Works
      <4> HIDE DEF free
      <4> QED BY <3>2, <4>1, <1>2
    <3> QED BY <1>12, <2>3, <3>1, <3>2, OpenStep
  <2> QED BY <2>2, <2>3
<1> QED BY <1>3, <1>4, <1>5, <1>6, <1>7, <1>8, <1>9, <1>10, <1>11, <1>12 DEF Steps

\* A save puts into the file, for its board, a list that says of every article what the
\* session's list said, although shorter_brc has cut it, and it is the first block of
\* the board that brc_getblock finds.
THEOREM SavesSay == Spec => SavedAsRead
<1>1. ASSUME TypeInv, Next, NEW s \in Sessions, sess[s].pc = "idle" /\ sess'[s].pc = "save"
      PROVE  ReadTimes(Get(sess'[s].all, sess[s].board)) = ReadTimes(sess[s].list)
  <2>1. PICK q \in Sessions : Steps(q)
    BY <1>1, NextSteps
  <2>2. PICK b \in Boards \cup {None}, k \in BOOLEAN :
           Idle(s) /\ Go(s, Loaded(Aim(sess[s], b, k)))
    BY <1>1, <2>1, SaveBegins
  <2>3. sess[s].changed
    BY <1>1, <2>2, GoSame
  <2>4. LET l == Shorter(sess[s].list)
        IN  /\ sess'[s].put = sess[s].board /\ Get(sess'[s].all, sess'[s].put) = l
            /\ ReadTimes(l) = ReadTimes(sess[s].list)
    BY <1>1, <2>2, <2>3, GoChanged
  <2> QED BY <2>4
<1>2. TypeInv /\ [Next]_vars =>
        [\A s \in Sessions :
           (sess[s].pc = "idle" /\ sess'[s].pc = "save") =>
             ReadTimes(Get(sess'[s].all, sess[s].board)) = ReadTimes(sess[s].list)]_vars
  BY <1>1
<1> QED BY Typing, <1>2, PTL DEF Spec, SavedAsRead

-----------------------------------------------------------------------------
(* While no two sessions use the temporary file at once *)

\* The temporary file belongs to the one session that saves.
OneTmp ==
  /\ ~tmp.there => tmp = NoTmp
  /\ \A s \in Sessions : sess[s].pc \in Holding =>
       /\ sess[s].fd = "tmp" /\ tmp.there
       /\ tmp.blocks = IF sess[s].pc = "rename" THEN sess[s].all ELSE <<>>
  /\ \A r, s \in Sessions : sess[r].pc \in Holding /\ sess[s].pc \in Holding => r = s

AllClean == Clean(file) /\ Clean(tmp.blocks) /\ \A s \in Sessions : Clean(sess[s].all)

Unmixed == mixed \/ (AllClean /\ OneTmp)

LEMMA CleanEmpty == Clean(<<>>)
<1>1. <<>> \in Files /\ Len(<<>>) = 0
  BY EmptyList DEF IsFile
<1>2. INFO \notin Names(<<>>)
  BY <1>1, NamesOf
<1> QED BY <1>1, <1>2 DEF Clean, Distinct

\* A session that does not hold the temporary file, before or after, changes its copies.
LEMMA Beside ==
  ASSUME TypeInv, Unmixed, NEW s \in Sessions, Only(s, sess'[s]), sess'[s].pc \notin Holding,
         mixed \/ Clean(sess'[s].all), UNCHANGED <<file, tmp, mixed>>
  PROVE  Unmixed'
<1> SUFFICES ASSUME ~mixed PROVE AllClean' /\ OneTmp'
  BY DEF Unmixed
<1>0. AllClean /\ OneTmp
  BY DEF Unmixed
<1>1. \A q \in Sessions : q = s \/ sess'[q] = sess[q]
  BY DEF Only
<1>2. AllClean'
  BY <1>0, <1>1 DEF AllClean
<1>3. ASSUME NEW q \in Sessions, sess'[q].pc \in Holding PROVE sess'[q] = sess[q]
  BY <1>1, <1>3
<1>4. (~tmp.there => tmp = NoTmp)'
  BY <1>0 DEF OneTmp
<1>5. ASSUME NEW q \in Sessions, sess'[q].pc \in Holding
      PROVE  /\ sess'[q].fd = "tmp" /\ tmp'.there
             /\ tmp'.blocks = IF sess'[q].pc = "rename" THEN sess'[q].all ELSE <<>>
  <2>1. sess'[q] = sess[q]
    BY <1>5, <1>3
  <2> QED BY <1>0, <1>5, <2>1 DEF OneTmp
<1>6. ASSUME NEW q \in Sessions, NEW p \in Sessions, sess'[q].pc \in Holding, sess'[p].pc \in Holding
      PROVE  q = p
  <2>1. sess'[q] = sess[q] /\ sess'[p] = sess[p]
    BY <1>6, <1>3
  <2> QED BY <1>0, <1>6, <2>1 DEF OneTmp
<1>7. OneTmp'
  BY <1>4, <1>5, <1>6 DEF OneTmp
<1> QED BY <1>2, <1>7

LEMMA UnmixedOpens ==
  ASSUME TypeInv, Unmixed, NEW s \in Sessions, SaveOpen(s)
  PROVE  Unmixed'
<1>1. /\ tmp' = [tmp EXCEPT !.there = TRUE] /\ mixed' = (mixed \/ tmp.there) /\ file' = file
      /\ tmp \in [there : BOOLEAN, blocks : Files] /\ mixed \in BOOLEAN
  BY DEF SaveOpen, TypeInv
<1> SUFFICES ASSUME ~mixed' PROVE AllClean' /\ OneTmp'
  BY DEF Unmixed
<1>2. ~mixed /\ ~tmp.there
  BY <1>1
<1>3. AllClean /\ OneTmp /\ tmp = NoTmp
  BY <1>2 DEF Unmixed, OneTmp
<1>4. Only(s, sess'[s]) /\ Keeps(sess'[s], sess[s]) /\ sess'[s].pc = "write" /\ sess'[s].fd = "tmp"
  BY SaveOpenStep
<1>5. \A q \in Sessions : q = s \/ sess'[q] = sess[q]
  BY <1>4 DEF Only
<1>6. tmp'.there /\ tmp'.blocks = <<>>
  BY <1>1, <1>3 DEF NoTmp
<1>7. AllClean'
  BY <1>1, <1>3, <1>4, <1>5, <1>6, CleanEmpty DEF AllClean, Keeps
<1>8. ASSUME NEW q \in Sessions, sess'[q].pc \in Holding PROVE q = s
  BY <1>2, <1>3, <1>5, <1>8 DEF OneTmp
<1>9. OneTmp'
  BY <1>4, <1>6, <1>8 DEF OneTmp
<1> QED BY <1>7, <1>9

LEMMA UnmixedWrites ==
  ASSUME TypeInv, ~mixed, AllClean, OneTmp, NEW s \in Sessions, SaveWrite(s)
  PROVE  /\ AllClean' /\ OneTmp' /\ UNCHANGED <<file, stale, old>>
         /\ tmp'.blocks = sess[s].all
<1>1. sess[s].pc = "write" /\ sess[s].fd = "tmp" /\ tmp.there /\ tmp.blocks = <<>>
  BY DEF SaveWrite, OneTmp, Holding
<1>2. /\ tmp' = [tmp EXCEPT !.blocks = Over(sess[s].all, <<>>)] /\ UNCHANGED <<file, stale, old>>
      /\ tmp \in [there : BOOLEAN, blocks : Files]
  BY <1>1 DEF SaveWrite, TypeInv
<1>3. Over(sess[s].all, <<>>) = sess[s].all
  <2>1. sess[s].all \in Files /\ sess[s].put \in Names(sess[s].all)
    BY <1>1 DEF TypeInv, Good, Works, IsFile, Saving
  <2>2. sess[s].all # <<>>
    <3>1. Names(<<>>) = {}
      BY EmptyList, NamesOf DEF IsFile
    <3> QED BY <2>1, <3>1
  <2> QED BY <2>1, <2>2, OverEmpty
<1>4. tmp'.there /\ tmp'.blocks = sess[s].all
  BY <1>1, <1>2, <1>3
<1>5. Only(s, sess'[s]) /\ Keeps(sess'[s], sess[s]) /\ sess'[s].pc = "rename" /\ sess'[s].fd = "tmp"
  BY <1>1, SaveWriteStep
<1>6. \A q \in Sessions : q = s \/ sess'[q] = sess[q]
  BY <1>5 DEF Only
<1>7. AllClean'
  BY <1>2, <1>4, <1>5, <1>6 DEF AllClean, Keeps
<1>8. ASSUME NEW q \in Sessions, sess'[q].pc \in Holding PROVE q = s
  BY <1>1, <1>6, <1>8 DEF OneTmp, Holding
<1>9. OneTmp'
  BY <1>4, <1>5, <1>8 DEF OneTmp, Keeps
<1> QED BY <1>2, <1>4, <1>7, <1>9

\* The file becomes what the session has put together.
LEMMA UnmixedRenames ==
  ASSUME TypeInv, ~mixed, AllClean, OneTmp, NEW s \in Sessions, SaveRename(s)
  PROVE  AllClean' /\ OneTmp' /\ file' = sess[s].all
<1>1. sess[s].pc = "rename" /\ tmp.there /\ tmp.blocks = sess[s].all
  BY DEF SaveRename, OneTmp, Holding
<1>2. file' = sess[s].all /\ tmp' = NoTmp
  BY <1>1 DEF SaveRename
<1>3. /\ sess'[s].pc = "idle" /\ sess'[s].all \in {sess[s].all, <<>>}
      /\ \A p \in Sessions \ {s} : Keeps(sess'[p], sess[p]) /\ sess'[p].pc = sess[p].pc
  BY SaveRenameStep
<1>4. ASSUME NEW q \in Sessions PROVE sess'[q].pc \notin Holding
  <2>1. CASE q = s
    BY <1>3, <2>1 DEF Holding
  <2>2. CASE q # s
    BY <1>1, <1>3, <2>2 DEF OneTmp, Holding
  <2> QED BY <2>1, <2>2
<1>5. OneTmp'
  BY <1>2, <1>4 DEF OneTmp
<1>6. ASSUME NEW q \in Sessions PROVE Clean(sess'[q].all)
  <2>1. Clean(sess[s].all) /\ Clean(sess[q].all)
    BY DEF AllClean
  <2>2. q = s \/ sess'[q].all = sess[q].all
    BY <1>3 DEF Keeps
  <2> QED BY <1>3, <2>1, <2>2, CleanEmpty
<1>7. AllClean'
  BY <1>2, <1>6, CleanEmpty DEF AllClean, NoTmp
<1> QED BY <1>2, <1>5, <1>7

\* What a save does not take over from the file: a board for which there was no room, in
\* the file as it is, or in one that others have since saved.
Lost(s, b) ==
  /\ b \in Boards /\ b \notin Names(sess[s].all)
  /\ stale[s] # {} \/ SizeOf(file) + 1 + Len(Get(sess[s].all, sess[s].put)) > MaxSize

\* A copy of the whole file says what the file says, but of what others have saved.
Fresh(s) == \A b \in AllNames \ stale[s] : Get(sess[s].all, b) = Get(file, b)

\* What is saved: the settings, or the session's board as its list is, and the others.
Puts(s) ==
  /\ sess[s].put = INFO => Get(sess[s].all, INFO) = <<>>
  /\ sess[s].put # INFO => sess[s].put = sess[s].board /\ Get(sess[s].all, sess[s].put) = sess[s].list
  /\ \A b \in AllNames \ ({sess[s].put} \cup stale[s]) :
       Get(sess[s].all, b) = Get(file, b) \/ Lost(s, b)

\* Unless another session has saved it, the file knows no more of a session's board than
\* the session.
Knows(s) ==
  sess[s].board # None /\ s \notin old =>
    ReadTimes(Get(file, sess[s].board)) \subseteq ReadTimes(sess[s].list)

Copies(s) ==
  /\ (sess[s].have /\ sess[s].pc = "idle") \/ sess[s].pc = "info" => Fresh(s)
  /\ sess[s].pc \in Saving => Puts(s)
  /\ sess[s].pc # "idle" /\ sess[s].board \in stale[s] => s \in old
  /\ Knows(s)

LEMMA CopiesKept ==
  ASSUME NEW s, Copies(s), sess'[s] = sess[s], stale'[s] = stale[s], file' = file,
         s \in old' <=> s \in old
  PROVE  Copies(s)'
BY DEF Copies, Fresh, Puts, Lost, Knows

\* In idle sessions only the copy of the file and the list matter.
LEMMA CopiesIdle ==
  ASSUME NEW s, sess'[s].pc = "idle", sess'[s].have => Fresh(s)', Knows(s)'
  PROVE  Copies(s)'
BY DEF Copies, Saving

LEMMA NothingRead == ReadTimes(<<1>>) = {}
<1>1. <<1>> \in Seq(Nat) /\ Len(<<1>>) = 1 /\ <<1>>[1] = 1 /\ <<1>> # <<>>
  OBVIOUS
<1>2. ReadTimes(<<1>>) = {t \in Times : Says(<<1>>, t)}
  BY OneTimes, ReadOf
<1>3. ASSUME NEW t \in Times, Says(<< 1 >>, t) PROVE FALSE
  BY <1>3, BoardrcAssumption DEF Says
<1> QED BY <1>2, <1>3

\* Reading only adds to what a list says.
LEMMA ReadsMore ==
  ASSUME TypeInv, NEW s \in Sessions, NEW t \in Times, ReadArticle(s, t) \/ ClearTo(s, t)
  PROVE  /\ Only(s, sess'[s]) /\ sess'[s].pc = "idle" /\ sess'[s].have = sess[s].have
         /\ sess'[s].all = sess[s].all /\ sess'[s].board = sess[s].board
         /\ ReadTimes(sess[s].list) \subseteq ReadTimes(sess'[s].list)
         /\ UNCHANGED <<file, tmp, stale, old, mixed>> /\ Idle(s)
<1> DEFINE o == sess[s].list
           l == sess'[s].list
           i == Locate(o, sess[s].cur, t)
<1>1. /\ sess[s].board # None /\ Idle(s) /\ UNCHANGED <<file, tmp, stale, old, mixed>>
  BY DEF ReadArticle, ClearTo
<1>2. /\ Only(s, sess'[s]) /\ sess'[s].pc = "idle" /\ sess'[s].have = sess[s].have
      /\ sess'[s].all = sess[s].all /\ sess'[s].board = sess[s].board
  BY ReadStep, ClearStep
<1>3. IsTimes(o) /\ o # <<>> /\ Located(o, t, i)
  BY <1>1, OpenList
<1>4. l = (IF UnreadAt(o, i, t) THEN Insert(o, i, t) ELSE o) \/ l = SetTo(o, i, t)
  BY ReadStep, ClearStep
<1> HIDE DEF i, o, l
<1>5. CASE l = o
  BY <1>2, <1>1, <1>5 DEF o, l
<1>6. CASE UnreadAt(o, i, t) /\ l = Insert(o, i, t)
  <2>1. IsTimes(l) /\ l # <<>> /\ \A x \in Times : Says(o, x) => Says(l, x)
    BY <1>3, <1>6, InsertRight
  <2>2. ReadTimes(o) \subseteq ReadTimes(l)
    BY <1>3, <2>1, ReadOf
  <2> QED BY <1>1, <1>2, <2>2 DEF o, l
<1>7. CASE l = SetTo(o, i, t)
  <2>1. IsTimes(l) /\ l # <<>> /\ \A x \in Times : Says(o, x) => Says(l, x)
    BY <1>3, <1>7, SetToRight
  <2>2. ReadTimes(o) \subseteq ReadTimes(l)
    BY <1>3, <2>1, ReadOf
  <2> QED BY <1>1, <1>2, <2>2 DEF o, l
<1> QED BY <1>4, <1>5, <1>6, <1>7

\* A session that loads the file has a fresh copy, or one to save.
LEMMA GoCopies ==
  ASSUME TypeInv, ~mixed, AllClean, NEW s \in Sessions, Copies(s), Idle(s), file' = file,
         NEW b \in Boards \cup {None}, NEW k \in BOOLEAN, Go(s, Loaded(Aim(sess[s], b, k)))
  PROVE  Copies(s)' /\ Clean(sess'[s].all) /\ sess'[s].pc \notin Holding
<1> DEFINE q == sess'[s]
           l == Shorter(sess[s].list)
           blk == Block(sess[s].board, l)
<1>0. IsFile(file) /\ Clean(file) /\ stale'[s] = {} /\ Knows(s) /\ old' \in SUBSET old
  BY DEF TypeInv, AllClean, Go, Copies
<1>1. CASE sess[s].changed
  <2>1. /\ q.pc = "save" /\ q.put = sess[s].board /\ q.board = sess[s].board /\ q.list = l
        /\ q.all = PutBlock(file, blk) /\ Get(q.all, q.put) = l
        /\ IsBlock(blk) /\ blk.board = sess[s].board /\ blk.list = l /\ l # <<1>>
        /\ Size(blk) = 1 + Len(l) /\ sess[s].board \in Boards
        /\ ReadTimes(l) = ReadTimes(sess[s].list)
        /\ old' = old
    BY <1>1, GoChanged
  <2> HIDE DEF q, l, blk
  <2>2. Clean(q.all)
    <3>1. IsBlock(blk) /\ blk.list # <<1>> /\ q.all = PutBlock(file, blk)
      BY <2>1
    <3>2. Clean(PutBlock(file, blk))
      BY <1>0, <3>1, PutClean
    <3> QED BY <3>1, <3>2
  <2>3. ASSUME NEW c \in AllNames \ {q.put}
        PROVE  \/ Get(q.all, c) = Get(file, c)
               \/ /\ c \in Boards /\ c \notin Names(q.all)
                  /\ SizeOf(file) + 1 + Len(Get(q.all, q.put)) > MaxSize
    <3>1. \/ Get(q.all, c) = Get(file, c)
          \/ c # INFO /\ c \notin Names(q.all) /\ SizeOf(file) + Size(blk) > MaxSize
      BY <1>0, <2>1, PutOthers
    <3>2. SizeOf(file) + Size(blk) = SizeOf(file) + 1 + Len(Get(q.all, q.put))
      <4>1. SizeOf(file) \in Nat /\ Len(l) \in Nat
        <5>1. l \in Lists
          BY <2>1, BlockTyped DEF IsBlock
        <5> QED BY <1>0, <5>1, SizeNat, ListTyped DEF IsFile
      <4> QED BY <2>1, <4>1
    <3> QED BY <3>1, <3>2 DEF AllNames
  <2>4. Puts(s)'
    BY <1>0, <2>1, <2>3, BoardrcAssumption DEF Puts, Lost, q
  <2>5. Knows(s)'
    BY <1>0, <2>1 DEF Knows, q
  <2>6. Copies(s)'
    BY <1>0, <2>1, <2>4, <2>5 DEF Copies, q
  <2> QED BY <2>1, <2>2, <2>6 DEF q, Holding
<1>2. CASE ~sess[s].changed
  <2>1. /\ q.pc = "idle" /\ q.all = (IF k THEN file ELSE <<>>) /\ q.have = k
        /\ q.board = (IF b = None THEN sess[s].board ELSE b)
        /\ q.list = (IF b = None THEN sess[s].list ELSE Get(file, b))
        /\ old' = IF b = None THEN old ELSE old \ {s}
    BY <1>2, GoSame
  <2> HIDE DEF q
  <2>2. q.have => Fresh(s)'
    BY <2>1 DEF Fresh, q
  <2>3. Knows(s)'
    BY <1>0, <2>1 DEF Knows, q
  <2>4. Copies(s)'
    BY <2>1, <2>2, <2>3, CopiesIdle DEF q
  <2>5. Clean(q.all) /\ q.pc \notin Holding
    BY <1>0, <2>1, CleanEmpty DEF Holding
  <2> QED BY <2>4, <2>5 DEF q
<1> QED BY <1>1, <1>2

\* What every step but the ones of brc_fini does to the session that takes it.
Quiet(s) ==
  /\ Only(s, sess'[s]) /\ sess'[s].pc \notin Holding /\ Clean(sess'[s].all) /\ Copies(s)'
  /\ UNCHANGED <<file, tmp, mixed>>
  /\ \A q \in Sessions \ {s} : stale'[q] = stale[q] /\ (q \in old' <=> q \in old)

LEMMA QuietLoading ==
  ASSUME TypeInv, ~mixed, AllClean, NEW s \in Sessions, Copies(s), Loading(s)
  PROVE  Quiet(s)
<1>1. Idle(s) /\ file' = file
  BY DEF Loading
<1>2. PICK b \in Boards \cup {None}, k \in BOOLEAN : Go(s, Loaded(Aim(sess[s], b, k)))
  BY DEF Loading
<1>3. Copies(s)' /\ Clean(sess'[s].all) /\ sess'[s].pc \notin Holding
  BY <1>1, <1>2, GoCopies
<1>4. \A q \in Sessions \ {s} : stale'[q] = stale[q] /\ (q \in old' <=> q \in old)
  BY <1>2 DEF Go, TypeInv
<1> QED BY <1>3, <1>4, LoadingStep DEF Quiet

LEMMA QuietOpen ==
  ASSUME TypeInv, ~mixed, AllClean, NEW s \in Sessions, Copies(s),
         NEW b \in Boards, NEW k \in BOOLEAN, Open(s, b, k)
  PROVE  Quiet(s)
<1> DEFINE r == Aim(sess[s], b, k)
           free == [sess[s] EXCEPT !.have = FALSE, !.all = <<>>]
<1>1. /\ Idle(s) /\ UNCHANGED <<file, tmp, mixed>> /\ b \in Boards \cup {None}
      /\ Clean(sess[s].all) /\ sess[s].pc = "idle" /\ b # None
  BY BoardrcAssumption DEF Open, AllClean, Idle
<1>2. CASE Go(s, Loaded(r))
  <2>1. Copies(s)' /\ Clean(sess'[s].all) /\ sess'[s].pc \notin Holding
    BY <1>1, <1>2, GoCopies
  <2>2. \A q \in Sessions \ {s} : stale'[q] = stale[q] /\ (q \in old' <=> q \in old)
    BY <1>2 DEF Go, TypeInv
  <2>3. Works(r) /\ r.pc = "idle" /\ r.fd = "none" /\ r.put = None
    BY <1>1, Aims
  <2> HIDE DEF r
  <2>4. Only(s, sess'[s])
    BY <1>2, <2>3, GoStep DEF Only
  <2> QED BY <1>1, <2>1, <2>2, <2>4 DEF Quiet
<1>3. CASE sess[s].board = b /\ Only(s, IF k THEN sess[s] ELSE free) /\ UNCHANGED <<stale, old>>
  <2>1. free.pc = "idle" /\ ~free.have /\ free.board = sess[s].board /\ free.list = sess[s].list
        /\ free.all = <<>>
    BY <1>1, FreedGood
  <2> HIDE DEF free
  <2>2. CASE k
    <3>1. sess'[s] = sess[s] /\ Only(s, sess'[s])
      BY <1>3, <2>2 DEF Only
    <3>2. Copies(s)'
      BY <1>1, <1>3, <3>1, CopiesKept
    <3> QED BY <1>1, <1>3, <3>1, <3>2 DEF Quiet, Holding
  <2>3. CASE ~k
    <3>1. sess'[s] = free /\ Only(s, sess'[s])
      BY <1>3, <2>3 DEF Only
    <3>2. Knows(s)'
      BY <1>1, <1>3, <2>1, <3>1 DEF Knows, Copies
    <3>3. Copies(s)'
      BY <2>1, <3>1, <3>2, CopiesIdle
    <3> QED BY <1>1, <1>3, <2>1, <3>1, <3>3, CleanEmpty DEF Quiet, Holding
  <2> QED BY <2>2, <2>3
<1>4. CASE /\ r.have /\ Only(s, Got(r)) /\ UNCHANGED stale
           /\ old' = IF b \in stale[s] THEN old \cup {s} ELSE old \ {s}
  <2>1. /\ Works(r) /\ r.pc = "idle" /\ r.goal = b /\ r.keep = k
        /\ r.have = sess[s].have /\ r.all = sess[s].all
    BY <1>1, Aims
  <2> HIDE DEF r
  <2>2. /\ Got(r).pc = "idle" /\ Got(r).have = k /\ Got(r).all = IF k THEN r.all ELSE <<>>
        /\ Got(r).board = b /\ Got(r).list = Get(r.all, b)
    BY <1>1, <2>1, GotFields DEF Works
  <2>3. sess'[s] = Got(r) /\ Only(s, sess'[s])
    BY <1>4 DEF Only
  <2>4. Fresh(s)
    BY <1>1, <1>4, <2>1 DEF Copies
  <2>5. sess'[s].have => Fresh(s)'
    BY <1>1, <1>4, <2>1, <2>2, <2>3, <2>4 DEF Fresh
  <2>6. Knows(s)'
    <3>1. SUFFICES ASSUME s \notin old' PROVE ReadTimes(Get(file, b)) \subseteq ReadTimes(Get(r.all, b))
      BY <1>1, <2>2, <2>3 DEF Knows
    <3>2. b \notin stale[s] /\ b \in AllNames
      BY <1>4, <3>1 DEF AllNames
    <3>3. Get(r.all, b) = Get(file, b)
      BY <2>1, <2>4, <3>2 DEF Fresh
    <3> QED BY <3>3
  <2>7. Copies(s)'
    BY <2>2, <2>3, <2>5, <2>6, CopiesIdle
  <2>8. Clean(sess'[s].all)
    BY <1>1, <2>1, <2>2, <2>3, CleanEmpty
  <2>9. \A q \in Sessions \ {s} : stale'[q] = stale[q] /\ (q \in old' <=> q \in old)
    BY <1>4
  <2> QED BY <1>1, <2>2, <2>3, <2>7, <2>8, <2>9 DEF Quiet, Holding
<1> QED BY <1>2, <1>3, <1>4, OpenStep

LEMMA QuietReads ==
  ASSUME TypeInv, ~mixed, AllClean, NEW s \in Sessions, Copies(s),
         NEW t \in Times, ReadArticle(s, t) \/ ClearTo(s, t)
  PROVE  Quiet(s)
<1>1. /\ Only(s, sess'[s]) /\ sess'[s].pc = "idle" /\ sess'[s].have = sess[s].have
      /\ sess'[s].all = sess[s].all /\ sess'[s].board = sess[s].board
      /\ ReadTimes(sess[s].list) \subseteq ReadTimes(sess'[s].list)
      /\ UNCHANGED <<file, tmp, stale, old, mixed>> /\ Idle(s)
  BY ReadsMore
<1>2. sess'[s].have => Fresh(s)'
  BY <1>1 DEF Copies, Fresh, Idle
<1>3. Knows(s)'
  BY <1>1 DEF Copies, Knows
<1>4. Copies(s)'
  BY <1>1, <1>2, <1>3, CopiesIdle
<1> QED BY <1>1, <1>4 DEF Quiet, Holding, AllClean

LEMMA QuietReadInfo ==
  ASSUME TypeInv, ~mixed, AllClean, NEW s \in Sessions, Copies(s), ReadInfo(s)
  PROVE  Quiet(s)
<1>1. /\ Only(s, sess'[s]) /\ sess'[s].pc = "info" /\ sess'[s].all = file
      /\ sess'[s].board = sess[s].board /\ sess'[s].list = sess[s].list
  BY ReadInfoStep
<1>2. stale' = [stale EXCEPT ![s] = {}] /\ UNCHANGED <<file, tmp, old, mixed>>
  BY DEF ReadInfo
<1>3. stale'[s] = {} /\ \A q \in Sessions \ {s} : stale'[q] = stale[q]
  BY <1>2 DEF TypeInv
<1>4. Fresh(s)' /\ Knows(s)'
  BY <1>1, <1>2 DEF Fresh, Knows, Copies
<1>5. Copies(s)'
  BY <1>1, <1>3, <1>4 DEF Copies, Saving
<1> QED BY <1>1, <1>2, <1>3, <1>5 DEF Quiet, Holding, AllClean

LEMMA QuietSaveInfo ==
  ASSUME TypeInv, ~mixed, AllClean, NEW s \in Sessions, Copies(s), SaveInfo(s)
  PROVE  Quiet(s)
<1> DEFINE blk == Block(INFO, <<>>)
           all == sess[s].all
           q == sess'[s]
<1>1. /\ Only(s, q) /\ q.pc = "save" /\ q.put = INFO
      /\ q.all = PutBlock(all, blk) /\ Get(q.all, INFO) = <<>>
      /\ IsBlock(blk) /\ blk.list # <<1>> /\ blk.board = INFO /\ Size(blk) = 1
      /\ q.board = sess[s].board /\ q.list = sess[s].list
  BY SaveInfoStep
<1>2. /\ sess[s].pc = "info" /\ UNCHANGED <<file, tmp, stale, old, mixed>>
      /\ IsFile(all) /\ Clean(all) /\ IsFile(file) /\ Clean(file) /\ Fresh(s)
  BY DEF SaveInfo, TypeInv, Good, Works, AllClean, Copies
<1> HIDE DEF blk, all, q
<1>3. Clean(q.all)
  <2>1. Clean(PutBlock(all, blk))
    BY <1>1, <1>2, PutClean
  <2> QED BY <1>1, <2>1
<1>4. ASSUME NEW c \in AllNames \ ({INFO} \cup stale[s])
      PROVE  \/ Get(q.all, c) = Get(file, c)
             \/ /\ c \in Boards /\ c \notin Names(q.all)
                /\ stale[s] # {} \/ SizeOf(file) + 1 + Len(Get(q.all, q.put)) > MaxSize
  <2>1. \/ Get(q.all, c) = Get(all, c)
        \/ c # INFO /\ c \notin Names(q.all) /\ SizeOf(all) + Size(blk) > MaxSize
    BY <1>1, <1>2, PutOthers
  <2>2. Get(all, c) = Get(file, c)
    BY <1>2 DEF Fresh, all
  <2>3. stale[s] = {} => SizeOf(all) = SizeOf(file)
    <3>1. SUFFICES ASSUME stale[s] = {} PROVE SizeOf(all) = SizeOf(file)
      OBVIOUS
    <3>2. \A n \in AllNames : Get(all, n) = Get(file, n)
      BY <1>2, <3>1 DEF Fresh, all
    <3> QED BY <1>2, <3>2, SameSize
  <2>4. SizeOf(file) + 1 + Len(Get(q.all, q.put)) = SizeOf(file) + Size(blk)
    <3>1. SizeOf(file) \in Nat /\ Len(Get(q.all, q.put)) = 0
      BY <1>1, <1>2, SizeNat DEF IsFile
    <3> QED BY <1>1, <3>1
  <2> QED BY <2>1, <2>2, <2>3, <2>4 DEF AllNames
<1>5. Puts(s)'
  BY <1>1, <1>2, <1>4 DEF Puts, Lost, q
<1>6. Knows(s)' /\ (sess'[s].board \in stale'[s] => s \in old')
  BY <1>1, <1>2 DEF Knows, Copies, q
<1>7. Copies(s)'
  BY <1>1, <1>5, <1>6 DEF Copies, q
<1> QED BY <1>1, <1>2, <1>3, <1>7 DEF Quiet, Holding, q

LEMMA QuietEnds ==
  ASSUME TypeInv, ~mixed, AllClean, NEW s \in Sessions, Copies(s), End(s) \/ ListEnds(s)
  PROVE  Quiet(s)
<1>1. CASE End(s)
  <2>1. sess'[s] = New /\ Only(s, sess'[s])
    BY <1>1, EndStep DEF Only
  <2>2. UNCHANGED <<file, tmp, mixed, stale>> /\ old' = old \ {s}
    BY <1>1 DEF End
  <2>3. New.pc = "idle" /\ ~New.have /\ New.board = None /\ New.all = <<>>
    BY DEF New
  <2>4. Knows(s)'
    BY <2>1, <2>3 DEF Knows
  <2>5. Copies(s)'
    BY <2>1, <2>3, <2>4, CopiesIdle
  <2> QED BY <2>1, <2>2, <2>3, <2>5, CleanEmpty DEF Quiet, Holding
<1>2. CASE ListEnds(s)
  <2>1. /\ Only(s, sess'[s]) /\ sess'[s].pc = "idle" /\ ~sess'[s].have
        /\ sess'[s].board = sess[s].board /\ sess'[s].list = sess[s].list /\ sess'[s].all = <<>>
    BY <1>2, ListEndsStep
  <2>2. UNCHANGED <<file, tmp, mixed, stale, old>>
    BY <1>2 DEF ListEnds
  <2>3. Knows(s)'
    BY <2>1, <2>2 DEF Knows, Copies
  <2>4. Copies(s)'
    BY <2>1, <2>3, CopiesIdle
  <2> QED BY <2>1, <2>2, <2>4, CleanEmpty DEF Quiet, Holding
<1> QED BY <1>1, <1>2

LEMMA QuietSteps ==
  ASSUME TypeInv, ~mixed, AllClean, NEW s \in Sessions, Copies(s), Steps(s),
         ~(SaveOpen(s) \/ SaveWrite(s) \/ SaveRename(s))
  PROVE  Quiet(s)
BY QuietLoading, QuietEnds, QuietReadInfo, QuietSaveInfo, QuietOpen, QuietReads DEF Steps

-----------------------------------------------------------------------------
(* A save, from one session's side and the others' *)

\* The copies of a session that goes on saving.
LEMMA SavingOn ==
  ASSUME NEW s \in Sessions, Copies(s), Keeps(sess'[s], sess[s]),
         sess[s].pc \in Saving, sess'[s].pc \in Saving, UNCHANGED <<file, stale, old>>
  PROVE  Copies(s)'
<1>1. Puts(s) /\ Knows(s) /\ (sess[s].board \in stale[s] => s \in old)
  BY DEF Copies, Saving
<1>2. Puts(s)'
  BY <1>1 DEF Puts, Lost, Keeps
<1>3. Knows(s)'
  BY <1>1 DEF Knows, Keeps
<1> QED BY <1>1, <1>2, <1>3 DEF Copies, Saving, Keeps

\* What a save changes in the file, the others do not know of.
Differ(f) == {b \in AllNames : Get(f, b) # Get(file, b)}

LEMMA SavedOld ==
  ASSUME TypeInv, NEW s \in Sessions, NEW f, Saved(s, f), NEW q \in Sessions
  PROVE  /\ stale'[q] = IF q = s THEN stale[s] ELSE stale[q] \cup Differ(f)
         /\ q # s => (q \in old' <=> q \in old \/ sess[q].board \in Differ(f))
         /\ q = s /\ sess[s].goal = None => (q \in old' <=> q \in old)
<1> DEFINE diff == Differ(f)
<1>1. /\ stale' = [r \in Sessions |-> IF r = s THEN stale[s] ELSE stale[r] \cup diff]
      /\ old' = (IF sess[s].goal # None /\ sess[s].goal \notin stale[s] THEN old \ {s} ELSE old)
                \cup {r \in Sessions \ {s} : sess[r].board \in diff}
  BY DEF Saved, AllNames, Differ
<1> HIDE DEF diff
<1>2. stale'[q] = IF q = s THEN stale[s] ELSE stale[q] \cup diff
  BY <1>1
<1>3. q # s => (q \in old' <=> q \in old \/ sess[q].board \in diff)
  BY <1>1
<1>4. q = s /\ sess[s].goal = None => (q \in old' <=> q \in old)
  BY <1>1
<1> QED BY <1>2, <1>3, <1>4 DEF diff

LEMMA RenameOther ==
  ASSUME TypeInv, ~mixed, AllClean, OneTmp, AllClean', NEW s \in Sessions, SaveRename(s),
         file' = sess[s].all, NEW q \in Sessions, q # s, Copies(q)
  PROVE  Copies(q)'
<1> DEFINE f == sess[s].all
           diff == Differ(f)
<1>1. Keeps(sess'[q], sess[q]) /\ sess'[q].pc = sess[q].pc
  BY SaveRenameStep
<1>2. Saved(s, f)
  BY DEF SaveRename
<1>3. stale'[q] = stale[q] \cup diff /\ (q \in old' <=> q \in old \/ sess[q].board \in diff)
  BY <1>2, SavedOld
<1>4. \A b \in AllNames : b \notin diff => Get(file', b) = Get(file, b)
  BY DEF Differ
<1>5. IsFile(file) /\ Clean(file) /\ IsFile(file') /\ Clean(file')
  BY DEF TypeInv, Good, Works, AllClean
<1>6. diff = {} => SizeOf(file') = SizeOf(file)
  <2>1. SUFFICES ASSUME diff = {} PROVE SizeOf(file') = SizeOf(file)
    OBVIOUS
  <2>2. \A b \in AllNames : Get(file', b) = Get(file, b)
    BY <1>4, <2>1
  <2> QED BY <1>5, <2>2, SameSize
<1> HIDE DEF f, diff
<1>7. Fresh(q) => Fresh(q)'
  BY <1>1, <1>3, <1>4 DEF Fresh, Keeps
<1>8. Puts(q) => Puts(q)'
  <2>1. SUFFICES ASSUME Puts(q) PROVE Puts(q)'
    OBVIOUS
  <2>2. ASSUME NEW b \in AllNames, b \notin {sess'[q].put} \cup stale'[q]
        PROVE  Get(sess'[q].all, b) = Get(file', b) \/ Lost(q, b)'
    <3>1. b \in AllNames \ ({sess[q].put} \cup stale[q]) /\ b \notin diff
      BY <1>1, <1>3, <2>2 DEF Keeps
    <3>2. Get(sess'[q].all, b) = Get(file', b) \/ Lost(q, b)
      BY <1>1, <1>4, <2>1, <3>1 DEF Puts, Keeps
    <3>3. Lost(q, b) => Lost(q, b)'
      BY <1>1, <1>3, <1>6 DEF Lost, Keeps
    <3> QED BY <3>2, <3>3
  <2>3. /\ sess'[q].put = INFO => Get(sess'[q].all, INFO) = <<>>
        /\ sess'[q].put # INFO => sess'[q].put = sess'[q].board
                                  /\ Get(sess'[q].all, sess'[q].put) = sess'[q].list
    BY <1>1, <2>1 DEF Puts, Keeps
  <2> QED BY <2>2, <2>3 DEF Puts
<1>9. Knows(q)'
  <2>1. SUFFICES ASSUME sess[q].board # None, q \notin old'
                 PROVE  ReadTimes(Get(file', sess[q].board)) \subseteq ReadTimes(sess[q].list)
    BY <1>1 DEF Knows, Keeps
  <2>2. sess[q].board \in AllNames
    BY <2>1, SessTyped DEF TypeInv, AllNames
  <2>3. q \notin old /\ Get(file', sess[q].board) = Get(file, sess[q].board)
    BY <1>3, <1>4, <2>1, <2>2
  <2> QED BY <2>1, <2>3 DEF Copies, Knows
<1>10. sess'[q].board \in stale'[q] /\ sess'[q].pc # "idle" => q \in old'
  BY <1>1, <1>3 DEF Copies, Keeps
<1> QED BY <1>1, <1>7, <1>8, <1>9, <1>10 DEF Copies, Keeps

LEMMA RenameOwn ==
  ASSUME TypeInv, NEW s \in Sessions, SaveRename(s), file' = sess[s].all, Copies(s)
  PROVE  Copies(s)'
<1> DEFINE q == sess[s]
           r == sess'[s]
<1>1. /\ r.pc = "idle" /\ r.have = q.keep /\ (r.have => r.all = q.all)
      /\ r.board = (IF q.goal = None THEN q.board ELSE q.goal)
      /\ r.list = (IF q.goal = None THEN q.list ELSE Get(q.all, q.goal))
  BY SaveRenameStep
<1>2. q.pc = "rename" /\ Puts(s) /\ Knows(s) /\ (q.board \in stale[s] => s \in old)
  BY DEF SaveRename, Copies, Saving
<1>3. q.goal = None => (s \in old' <=> s \in old)
  BY SavedOld DEF SaveRename
<1>4. r.have => Fresh(s)'
  BY <1>1 DEF Fresh
<1>5. Knows(s)'
  <2>1. CASE q.goal # None
    BY <1>1, <2>1 DEF Knows
  <2>2. CASE q.goal = None
    <3>1. SUFFICES ASSUME q.board # None, s \notin old
                   PROVE  ReadTimes(Get(q.all, q.board)) \subseteq ReadTimes(q.list)
      BY <1>1, <1>3, <2>2 DEF Knows
    <3>2. q.board \in Boards /\ q.board \in AllNames /\ q.board # INFO
      BY <3>1, SessTyped, BoardrcAssumption DEF TypeInv, AllNames
    <3>3. CASE q.put = q.board
      BY <1>2, <3>2, <3>3 DEF Puts
    <3>4. CASE q.put # q.board
      <4>1. Get(q.all, q.board) = Get(file, q.board) \/ q.board \notin Names(q.all)
        BY <1>2, <3>1, <3>2, <3>4 DEF Puts, Lost
      <4>2. CASE Get(q.all, q.board) = Get(file, q.board)
        BY <1>2, <3>1, <4>2 DEF Knows
      <4>3. CASE q.board \notin Names(q.all)
        BY <4>3, GetNone, NothingRead
      <4> QED BY <4>1, <4>2, <4>3
    <3> QED BY <3>3, <3>4
  <2> QED BY <2>1, <2>2
<1> QED BY <1>1, <1>4, <1>5, CopiesIdle

\* The whole invariant.
MarksInv == mixed \/ (AllClean /\ OneTmp /\ \A s \in Sessions : Copies(s))

LEMMA MarksInit == Init => MarksInv
<1> SUFFICES ASSUME Init PROVE MarksInv
  OBVIOUS
<1>1. file = <<>> /\ tmp = NoTmp /\ tmp.blocks = <<>> /\ \A s \in Sessions : sess[s] = New
  BY DEF Init, NoTmp
<1>2. New.pc = "idle" /\ ~New.have /\ New.board = None /\ New.all = <<>>
  BY DEF New
<1>3. AllClean
  BY <1>1, <1>2, CleanEmpty DEF AllClean
<1>4. OneTmp
  BY <1>1, <1>2 DEF OneTmp, Holding
<1>5. \A s \in Sessions : Copies(s)
  BY <1>1, <1>2 DEF Copies, Knows, Saving
<1> QED BY <1>3, <1>4, <1>5 DEF MarksInv

LEMMA MarksSteps ==
  ASSUME TypeInv, MarksInv, NEW s \in Sessions, Steps(s)
  PROVE  MarksInv'
<1> SUFFICES ASSUME ~mixed' PROVE AllClean' /\ OneTmp' /\ \A q \in Sessions : Copies(q)'
  BY DEF MarksInv
<1>1. ~mixed
  BY DEF Steps, SaveOpen, SaveWrite, SaveRename, Loading, End, ListEnds, ReadInfo, SaveInfo,
         Open, ReadArticle, ClearTo
<1>2. AllClean /\ OneTmp /\ Unmixed /\ \A q \in Sessions : Copies(q)
  BY <1>1 DEF MarksInv, Unmixed
<1>3. CASE SaveOpen(s)
  <2>1. AllClean' /\ OneTmp'
    BY <1>2, <1>3, UnmixedOpens DEF Unmixed
  <2>2. Only(s, sess'[s]) /\ Keeps(sess'[s], sess[s]) /\ sess'[s].pc \in Saving
    BY <1>3, SaveOpenStep DEF Saving
  <2>3. sess[s].pc \in Saving /\ UNCHANGED <<file, stale, old>>
    BY <1>3 DEF SaveOpen, Saving
  <2>4. ASSUME NEW q \in Sessions PROVE Copies(q)'
    <3>1. CASE q = s
      BY <1>2, <2>2, <2>3, <3>1, SavingOn
    <3>2. CASE q # s
      BY <1>2, <2>2, <2>3, <3>2, CopiesKept DEF Only
    <3> QED BY <3>1, <3>2
  <2> QED BY <2>1, <2>4
<1>4. CASE SaveWrite(s)
  <2>1. AllClean' /\ OneTmp' /\ UNCHANGED <<file, stale, old>>
    BY <1>1, <1>2, <1>4, UnmixedWrites
  <2>2. Only(s, sess'[s]) /\ Keeps(sess'[s], sess[s]) /\ sess'[s].pc \in Saving
    BY <1>4, SaveWriteStep DEF Saving
  <2>3. sess[s].pc \in Saving
    BY <1>4 DEF SaveWrite, Saving
  <2>4. ASSUME NEW q \in Sessions PROVE Copies(q)'
    <3>1. CASE q = s
      BY <1>2, <2>1, <2>2, <2>3, <3>1, SavingOn
    <3>2. CASE q # s
      BY <1>2, <2>1, <2>2, <3>2, CopiesKept DEF Only
    <3> QED BY <3>1, <3>2
  <2> QED BY <2>1, <2>4
<1>5. CASE SaveRename(s)
  <2>1. AllClean' /\ OneTmp' /\ file' = sess[s].all
    BY <1>1, <1>2, <1>5, UnmixedRenames
  <2>2. ASSUME NEW q \in Sessions PROVE Copies(q)'
    <3>1. CASE q = s
      BY <1>2, <1>5, <2>1, <3>1, RenameOwn
    <3>2. CASE q # s
      BY <1>1, <1>2, <1>5, <2>1, <3>2, RenameOther
    <3> QED BY <3>1, <3>2
  <2> QED BY <2>1, <2>2
<1>6. CASE ~(SaveOpen(s) \/ SaveWrite(s) \/ SaveRename(s))
  <2>1. Quiet(s)
    BY <1>1, <1>2, <1>6, QuietSteps
  <2>2. AllClean' /\ OneTmp'
    <3>1. Unmixed'
      BY <1>2, <2>1, Beside DEF Quiet
    <3> QED BY <3>1 DEF Unmixed
  <2>3. ASSUME NEW q \in Sessions PROVE Copies(q)'
    <3>1. CASE q = s
      BY <2>1, <3>1 DEF Quiet
    <3>2. CASE q # s
      <4>1. sess'[q] = sess[q] /\ stale'[q] = stale[q] /\ file' = file /\ (q \in old' <=> q \in old)
        BY <2>1, <3>2 DEF Quiet, Only
      <4> QED BY <1>2, <4>1, CopiesKept
    <3> QED BY <3>1, <3>2
  <2> QED BY <2>2, <2>3
<1> QED BY <1>3, <1>4, <1>5, <1>6

LEMMA MarksStep == TypeInv /\ MarksInv /\ [Next]_vars => MarksInv'
<1>1. ASSUME TypeInv, MarksInv, Next PROVE MarksInv'
  BY <1>1, NextSteps, MarksSteps
<1>2. ASSUME MarksInv, UNCHANGED vars PROVE MarksInv'
  BY <1>2 DEF MarksInv, AllClean, OneTmp, Copies, Fresh, Puts, Lost, Knows, vars
<1> QED BY <1>1, <1>2

LEMMA Marks == Spec => []MarksInv
BY Typing, MarksInit, MarksStep, PTL DEF Spec

\* A save takes no read mark of any board out of the user's file, but where the session
\* worked on what another one has saved since, two of them shared the temporary file,
\* or the file was too long: for any number of sessions and boards.
THEOREM MarksKept == Spec => ReadMarksKept
<1>1. ASSUME TypeInv, MarksInv, NEW s \in Sessions, NEW b \in Boards,
             SaveRename(s), ~mixed, b \notin stale[s], ~(s \in old /\ b = sess[s].put)
      PROVE  \/ ReadTimes(Get(file, b)) \subseteq ReadTimes(Get(file', b))
             \/ /\ b \notin Names(file') /\ b # sess[s].put
                /\ \/ stale[s] # {}
                   \/ SizeOf(file) + 1 + Len(Get(file', sess[s].put)) > MaxSize
  <2>1. AllClean /\ OneTmp /\ Copies(s)
    BY <1>1 DEF MarksInv
  <2>2. file' = sess[s].all
    BY <1>1, <2>1, UnmixedRenames
  <2>3. Puts(s) /\ Knows(s)
    BY <1>1, <2>1 DEF Copies, SaveRename, Saving
  <2>4. CASE b = sess[s].put
    <3>1. sess[s].put = sess[s].board /\ Get(file', b) = sess[s].list /\ b # None
      BY <2>2, <2>3, <2>4, BoardrcAssumption DEF Puts
    <3> QED BY <1>1, <2>3, <2>4, <3>1 DEF Knows
  <2>5. CASE b # sess[s].put
    <3>1. Get(file', b) = Get(file, b) \/ Lost(s, b)
      BY <1>1, <2>2, <2>3, <2>5 DEF Puts, AllNames
    <3> QED BY <2>2, <2>5, <3>1 DEF Lost
  <2> QED BY <2>4, <2>5
<1>2. TypeInv /\ MarksInv /\ [Next]_vars =>
        [\A s \in Sessions, b \in Boards :
           SaveRename(s) /\ ~mixed /\ b \notin stale[s] /\ ~(s \in old /\ b = sess[s].put) =>
             \/ ReadTimes(Get(file, b)) \subseteq ReadTimes(Get(file', b))
             \/ /\ b \notin Names(file') /\ b # sess[s].put
                /\ \/ stale[s] # {}
                   \/ SizeOf(file) + 1 + Len(Get(file', sess[s].put)) > MaxSize]_vars
  BY <1>1
<1> QED BY Typing, Marks, <1>2, PTL DEF Spec, ReadMarksKept

\* brc_putblock keeps the settings before everything else: what a user reads never pushes
\* them out of the file, and only a save by a session that had loaded the file before
\* they were first saved loses them.
THEOREM SettingsKept == Spec => InfoKept
<1>1. ASSUME TypeInv, MarksInv, Next, INFO \in Names(file), INFO \notin Names(file'), ~mixed
      PROVE  \E s \in Sessions : SaveRename(s) /\ INFO \in stale[s]
  <2>1. PICK s \in Sessions : Steps(s)
    BY <1>1, NextSteps
  <2>2. AllClean /\ OneTmp /\ Copies(s)
    BY <1>1 DEF MarksInv
  <2>3. SaveRename(s)
    <3>1. CASE SaveOpen(s)
      BY <1>1, <3>1 DEF SaveOpen
    <3>2. CASE SaveWrite(s)
      BY <1>1, <2>2, <3>2, UnmixedWrites
    <3>3. CASE ~(SaveOpen(s) \/ SaveWrite(s) \/ SaveRename(s))
      <4>1. Quiet(s)
        BY <1>1, <2>1, <2>2, <3>3, QuietSteps
      <4> QED BY <1>1, <4>1 DEF Quiet
    <3> QED BY <3>1, <3>2, <3>3
  <2>4. file' = sess[s].all /\ Puts(s)
    BY <1>1, <2>2, <2>3, UnmixedRenames DEF Copies, SaveRename, Saving
  <2>5. INFO \in stale[s]
    <3>1. SUFFICES ASSUME INFO \notin stale[s] PROVE FALSE
      OBVIOUS
    <3>2. Get(sess[s].all, INFO) = <<1>>
      BY <1>1, <2>4, GetNone
    <3>3. sess[s].put # INFO
      BY <2>4, <3>2 DEF Puts
    <3>4. Get(sess[s].all, INFO) = Get(file, INFO)
      BY <2>4, <3>1, <3>3, BoardrcAssumption DEF Puts, Lost, AllNames
    <3>5. PICK i \in 1 .. Len(file) : Get(file, INFO) = file[i].list
      BY <1>1, GetPlace DEF TypeInv, IsFile
    <3> QED BY <2>2, <3>2, <3>4, <3>5 DEF AllClean, Clean
  <2> QED BY <2>3, <2>5
<1>2. TypeInv /\ MarksInv /\ [Next]_vars =>
        [(INFO \in Names(file) /\ INFO \notin Names(file')) =>
           mixed \/ \E s \in Sessions : SaveRename(s) /\ INFO \in stale[s]]_vars
  BY <1>1
<1> QED BY Typing, Marks, <1>2, PTL DEF Spec, InfoKept
=============================================================================
