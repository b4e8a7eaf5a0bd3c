----------------------------- MODULE BoardProofs -----------------------------
(***************************************************************************)
(* Proofs about Board, for every number of articles, sessions and flags:   *)
(* the directory implements Articles, doubled entries are neighbours,      *)
(* every operation reaches the article it is meant for, and marks are      *)
(* kept.  Search_Bin and the loop of delete_range are recursive functions; *)
(* what they compute is proved first, by induction over sets of numbers.   *)
(***************************************************************************)
EXTENDS Board, SequenceTheorems, FiniteSetTheorems, WellFoundedInduction, TLAPS

-----------------------------------------------------------------------------
(* Induction and recursion *)

\* Induction, stated for a set instead of a predicate.
LEMMA NatSet ==
  ASSUME NEW S, 0 \in S, \A n \in Nat : n \in S => n + 1 \in S
  PROVE  Nat \subseteq S
<1> DEFINE R == {ss \in Nat \X Nat : ss[1] < ss[2]}
           T == Nat \ S
<1>1. IsWellFoundedOn(R, Nat)
  BY NatLessThanWellFounded DEF OpToRel
<1>2. SUFFICES ASSUME T # {} PROVE FALSE
  OBVIOUS
<1>3. PICK x \in T : \A y \in T : <<y, x>> \notin R
  <2> HIDE DEF R
  <2> QED
    BY <1>1, <1>2, WFMin
<1>4. x \in Nat /\ x # 0 /\ x - 1 \in Nat /\ (x - 1) + 1 = x /\ x - 1 < x
  OBVIOUS
<1>5. <<x - 1, x>> \in R
  BY <1>4
<1>6. x - 1 \notin T
  BY <1>3, <1>5
<1> QED
  BY <1>4, <1>6

\* g is defined by primitive recursion: b at 0, and D of the value before.
Defined(g, S, b, N, D) ==
  /\ g \in [0 .. N -> S]
  /\ g[0] = b
  /\ \A k \in 1 .. N : k - 1 \in 0 .. N /\ g[k] = D[<<g[k - 1], k>>]

LEMMA Recursion ==
  ASSUME NEW S, NEW b \in S, NEW N \in Nat, NEW D \in [S \X (1 .. N) -> S]
  PROVE  \E g : Defined(g, S, b, N, D)
<1> DEFINE Ok(g, n) == g = [k \in 0 .. n |-> IF k = 0 THEN b ELSE D[<<g[k - 1], k>>]]
           G == {n \in Nat : n <= N => \E g \in [0 .. n -> S] : Ok(g, n)}
<1>1. 0 \in G
  <2>1. [k \in 0 .. 0 |-> b] \in [0 .. 0 -> S] /\ Ok([k \in 0 .. 0 |-> b], 0)
    OBVIOUS
  <2> QED
    BY <2>1
<1>2. ASSUME NEW n \in Nat, n \in G PROVE n + 1 \in G
  <2> SUFFICES ASSUME n + 1 <= N PROVE \E g \in [0 .. n + 1 -> S] : Ok(g, n + 1)
    OBVIOUS
  <2>1. PICK g \in [0 .. n -> S] : Ok(g, n)
    BY <1>2
  <2> DEFINE h == [k \in 0 .. n + 1 |-> IF k = n + 1 THEN D[<<g[n], n + 1>>] ELSE g[k]]
  <2>2. g[n] \in S /\ n + 1 \in 1 .. N /\ D[<<g[n], n + 1>>] \in S
    BY <2>1
  <2>3. h \in [0 .. n + 1 -> S]
    BY <2>1, <2>2
  <2>4. ASSUME NEW k \in 0 .. n + 1
        PROVE  h[k] = IF k = 0 THEN b ELSE D[<<h[k - 1], k>>]
    <3>1. CASE k = n + 1
      <4>1. k # 0 /\ k - 1 = n /\ n # n + 1 /\ n \in 0 .. n + 1
        BY <3>1
      <4>2. h[k - 1] = g[n]
        BY <4>1
      <4> QED
        BY <3>1, <4>1, <4>2
    <3>2. CASE k # n + 1
      <4>1. k \in 0 .. n /\ h[k] = g[k] /\ (k # 0 => k - 1 \in 0 .. n + 1 /\ k - 1 # n + 1)
        BY <3>2
      <4>2. k # 0 => h[k - 1] = g[k - 1]
        BY <4>1
      <4>3. g[k] = IF k = 0 THEN b ELSE D[<<g[k - 1], k>>]
        BY <2>1, <4>1
      <4> QED
        BY <4>1, <4>2, <4>3
    <3> QED
      BY <3>1, <3>2
  <2>5. Ok(h, n + 1)
    <3> HIDE DEF h
    <3> QED
      BY <2>3, <2>4
  <2> QED
    BY <2>3, <2>5
<1>3. N \in G
  <2> HIDE DEF G
  <2> QED
    BY <1>1, <1>2, NatSet
<1>4. PICK g \in [0 .. N -> S] : Ok(g, N)
  BY <1>3
<1>5. g[0] = b
  <2>1. 0 \in 0 .. N
    OBVIOUS
  <2> QED
    BY <1>4, <2>1
<1>6. ASSUME NEW k \in 1 .. N PROVE k - 1 \in 0 .. N /\ g[k] = D[<<g[k - 1], k>>]
  <2>1. k \in 0 .. N /\ k # 0 /\ k - 1 \in 0 .. N
    OBVIOUS
  <2> QED
    BY <1>4, <2>1
<1> QED
  BY <1>5, <1>6 DEF Defined

-----------------------------------------------------------------------------
(* What Search_Bin finds *)

\* The parts of n entries.
Parts(n) == (0 .. n) \X (-1 .. n - 1)

Times(d, n) == \A i \in 1 .. n : d[i].time \in Nat

\* The entry a part is probed at, less one.
Half(r) == (r[1] + r[2]) \div 2

LEMMA HalfTyped ==
  ASSUME NEW n \in Nat, NEW r \in Parts(n)
  PROVE  /\ r[1] \in Nat /\ r[2] \in Int /\ r[1] <= n /\ r[2] >= -1 /\ r[2] < n
         /\ Half(r) \in Int
         /\ r[1] <= r[2] => r[1] <= Half(r) /\ Half(r) <= r[2]
<1>1. r[1] \in 0 .. n /\ r[2] \in -1 .. n - 1
  BY DEF Parts
<1>2. \A a, b \in Int : (a + b) \div 2 \in Int /\ (a <= b => a <= (a + b) \div 2 /\ (a + b) \div 2 <= b)
  OBVIOUS
<1> QED
  BY <1>1, <1>2 DEF Half

LEMMA ProbeTyped ==
  ASSUME NEW d, NEW key \in Nat, NEW n \in Nat, Times(d, n), NEW r \in Parts(n)
  PROVE  /\ Probe(d, key, r) \in Parts(n)
         /\ r[1] > r[2] => Probe(d, key, r) = r
         /\ r[1] <= r[2] /\ d[Half(r) + 1].time = key => Probe(d, key, r) = r
         /\ r[1] <= r[2] /\ key < d[Half(r) + 1].time => Probe(d, key, r) = <<r[1], Half(r) - 1>>
         /\ r[1] <= r[2] /\ key > d[Half(r) + 1].time => Probe(d, key, r) = <<Half(r) + 1, r[2]>>
<1>1. /\ r[1] \in Nat /\ r[2] \in Int /\ r[1] <= n /\ r[2] >= -1 /\ r[2] < n /\ Half(r) \in Int
      /\ r[1] <= r[2] => r[1] <= Half(r) /\ Half(r) <= r[2]
  BY HalfTyped
<1>2. CASE r[1] > r[2]
  BY <1>1, <1>2 DEF Probe
<1>3. CASE r[1] <= r[2]
  <2>1. Half(r) + 1 \in 1 .. n
    BY <1>1, <1>3
  <2>2. d[Half(r) + 1].time \in Nat
    BY <2>1 DEF Times
  <2>3. <<r[1], Half(r) - 1>> \in Parts(n) /\ <<Half(r) + 1, r[2]>> \in Parts(n)
    BY <1>1, <1>3 DEF Parts
  <2>4. CASE d[Half(r) + 1].time = key
    <3>1. Probe(d, key, r) = r
      BY <1>3, <2>4 DEF Probe, Half
    <3> QED
      BY <1>1, <1>3, <2>4, <3>1
  <2>5. CASE key < d[Half(r) + 1].time
    <3>1. Probe(d, key, r) = <<r[1], Half(r) - 1>>
      BY <1>1, <1>3, <2>2, <2>5 DEF Probe, Half
    <3> QED
      BY <1>1, <1>3, <2>2, <2>3, <2>5, <3>1
  <2>6. CASE key > d[Half(r) + 1].time
    <3>1. Probe(d, key, r) = <<Half(r) + 1, r[2]>>
      BY <1>1, <1>3, <2>2, <2>6 DEF Probe, Half
    <3> QED
      BY <1>1, <1>3, <2>2, <2>3, <2>6, <3>1
  <2> QED
    BY <2>2, <2>4, <2>5, <2>6
<1> QED
  BY <1>1, <1>2, <1>3

\* The parts a search goes through: the recursive function in SearchRanges.
Course(d, key, n, left) ==
  /\ SearchRanges(d, key, 0, n - 1) = {left[k] : k \in 0 .. n}
  /\ left[0] = <<0, n - 1>>
  /\ \A k \in 1 .. n : left[k] = Probe(d, key, left[k - 1])

LEMMA SearchSteps ==
  ASSUME NEW d, NEW key \in Nat, NEW n \in Nat, Times(d, n)
  PROVE  \E left \in [0 .. n -> Parts(n)] : Course(d, key, n, left)
<1> DEFINE S == Parts(n)
           b == <<0, n - 1>>
           D == [x \in S \X (1 .. n) |-> Probe(d, key, x[1])]
           Is(f) == f = [k \in 0 .. n |-> IF k = 0 THEN b ELSE Probe(d, key, f[k - 1])]
           left == CHOOSE f : Is(f)
<1>1. b \in S
  BY DEF Parts
<1>2. \A r \in S : Probe(d, key, r) \in S
  BY ProbeTyped
<1>3. D \in [S \X (1 .. n) -> S]
  <2> HIDE DEF S
  <2> QED
    BY <1>2
<1>4. PICK g : Defined(g, S, b, n, D)
  <2> HIDE DEF S, D, b
  <2> QED
    BY <1>1, <1>3, Recursion
<1>5. ASSUME NEW k \in 1 .. n PROVE g[k] = Probe(d, key, g[k - 1])
  <2> HIDE DEF S
  <2>1. k - 1 \in 0 .. n /\ g[k] = D[<<g[k - 1], k>>] /\ g[k - 1] \in S
    BY <1>4 DEF Defined
  <2>2. g[k - 1] \in S
    BY <2>1
  <2>3. D[<<g[k - 1], k>>] = Probe(d, key, g[k - 1])
    BY <2>2
  <2> HIDE DEF D
  <2> QED
    BY <2>1, <2>3
<1>6. Is(g)
  <2> HIDE DEF b, S, D
  <2>1. g = [k \in 0 .. n |-> g[k]] /\ g[0] = b
    BY <1>4 DEF Defined
  <2>2. \A k \in 0 .. n : g[k] = IF k = 0 THEN b ELSE Probe(d, key, g[k - 1])
    <3> SUFFICES ASSUME NEW k \in 0 .. n PROVE g[k] = IF k = 0 THEN b ELSE Probe(d, key, g[k - 1])
      OBVIOUS
    <3>1. k = 0 \/ k \in 1 .. n
      OBVIOUS
    <3> QED
      BY <1>5, <2>1, <3>1
  <2> QED
    BY <2>1, <2>2
<1>7. Is(left)
  <2> HIDE DEF Is
  <2> QED
    BY <1>6
<1>8. (n - 1) + 1 = n
  OBVIOUS
<1>9. SearchRanges(d, key, 0, n - 1) = {left[k] : k \in 0 .. n}
  BY <1>8 DEF SearchRanges
<1> HIDE DEF left, S, b
<1>10. \A k \in 0 .. n : left[k] = IF k = 0 THEN b ELSE Probe(d, key, left[k - 1])
  BY <1>7
<1>11. \A k \in 0 .. n : left[k] \in S
  <2> DEFINE G == {k \in Nat : k <= n => left[k] \in S}
  <2>1. 0 \in G
    BY <1>1, <1>10
  <2>2. ASSUME NEW k \in Nat, k \in G PROVE k + 1 \in G
    BY <1>2, <1>10, <2>2
  <2>3. Nat \subseteq G
    <3> HIDE DEF G
    <3> QED
      BY <2>1, <2>2, NatSet
  <2> QED
    BY <2>3
<1>12. left \in [0 .. n -> S]
  BY <1>7, <1>11
<1>13. left[0] = b /\ \A k \in 1 .. n : left[k] = Probe(d, key, left[k - 1])
  BY <1>10
<1>14. /\ left \in [0 .. n -> Parts(n)]
       /\ left[0] = <<0, n - 1>>
  BY <1>12, <1>13 DEF S, b
<1> QED
  BY <1>9, <1>13, <1>14 DEF Course

InOrder(d, n) == \A i, j \in 1 .. n : i < j => d[i].time <= d[j].time

\* A search among entries in order finds the filetime if it is there: the part left
\* always contains it, and shrinks.
LEMMA SearchFinds ==
  ASSUME NEW d, NEW key \in Nat, NEW n \in Nat, Times(d, n),
         InOrder(d, n),
         NEW e \in 1 .. n, d[e].time = key
  PROVE  SearchBin(d, key, n) # {}
<1>0. PICK left \in [0 .. n -> Parts(n)] : Course(d, key, n, left)
  BY SearchSteps
<1>1. /\ SearchRanges(d, key, 0, n - 1) = {left[k] : k \in 0 .. n}
      /\ left[0] = <<0, n - 1>>
      /\ \A k \in 1 .. n : left[k] = Probe(d, key, left[k - 1])
  BY <1>0 DEF Course
<1> DEFINE Hit(r) == r[1] <= r[2] /\ d[Half(r) + 1].time = key
           Left(r, k) == r[1] < e /\ e <= r[2] + 1 /\ r[2] - r[1] < n - k
           G == {k \in Nat : k <= n => Hit(left[k]) \/ Left(left[k], k)}
<1>2. 0 \in G
  BY <1>1
<1>3. ASSUME NEW k \in Nat, k \in G, k + 1 <= n PROVE Hit(left[k + 1]) \/ Left(left[k + 1], k + 1)
  <2> DEFINE r == left[k]
             t == left[k + 1]
  <2>1. k \in 0 .. n /\ k + 1 \in 1 .. n /\ (k + 1) - 1 = k
    BY <1>3
  <2>2. r \in Parts(n) /\ t = Probe(d, key, r)
    BY <1>1, <2>1
  <2>3. /\ r[1] \in Nat /\ r[2] \in Int /\ r[2] < n /\ Half(r) \in Int
        /\ r[1] <= r[2] => r[1] <= Half(r) /\ Half(r) <= r[2]
    BY <2>2, HalfTyped
  <2>4. Hit(r) \/ Left(r, k)
    BY <1>3
  <2> HIDE DEF r, t
  <2>5. CASE Hit(r)
    <3>1. t = r
      BY <2>2, <2>5, ProbeTyped
    <3> QED
      BY <2>5, <3>1 DEF t
  <2>6. CASE Left(r, k) /\ ~Hit(r)
    <3>0. r[1] < e /\ e <= r[2] + 1 /\ r[2] - r[1] < n - k
      BY <2>6
    <3>1. r[1] <= r[2] /\ Half(r) + 1 \in 1 .. n
      BY <2>3, <3>0
    <3>2. d[Half(r) + 1].time \in Nat /\ d[Half(r) + 1].time # key
      BY <2>6, <3>1 DEF Times
    <3>3. CASE key < d[Half(r) + 1].time
      <4>1. t = <<r[1], Half(r) - 1>>
        BY <2>2, <3>1, <3>3, ProbeTyped
      <4>2. e < Half(r) + 1
        BY <3>1, <3>2, <3>3 DEF InOrder
      <4>3. Left(t, k + 1)
        BY <2>3, <3>0, <3>1, <4>1, <4>2
      <4> QED
        BY <4>3 DEF t
    <3>4. CASE key > d[Half(r) + 1].time
      <4>1. t = <<Half(r) + 1, r[2]>>
        BY <2>2, <3>1, <3>4, ProbeTyped
      <4>2. e > Half(r) + 1
        BY <3>1, <3>2, <3>4 DEF InOrder
      <4>3. Left(t, k + 1)
        BY <2>3, <3>0, <3>1, <4>1, <4>2
      <4> QED
        BY <4>3 DEF t
    <3> QED
      BY <3>2, <3>3, <3>4
  <2> QED
    BY <2>4, <2>5, <2>6
<1>4. n \in G
  <2>1. \A k \in Nat : k \in G => k + 1 \in G
    BY <1>3
  <2> HIDE DEF G
  <2> QED
    BY <1>2, <2>1, NatSet
<1>5. left[n] \in Parts(n) /\ left[n] \in SearchRanges(d, key, 0, n - 1)
  BY <1>1
<1>6. Hit(left[n])
  BY <1>4, <1>5 DEF Parts
<1>7. Half(left[n]) + 1 \in 1 .. n
  <2> DEFINE x == left[n]
  <2>1. x \in Parts(n) /\ x[1] <= x[2]
    BY <1>5, <1>6
  <2> HIDE DEF x
  <2>2. /\ x[1] \in Nat /\ x[2] \in Int /\ x[2] < n /\ Half(x) \in Int
        /\ x[1] <= Half(x) /\ Half(x) <= x[2]
    BY <2>1, HalfTyped
  <2>3. Half(x) + 1 \in 1 .. n
    BY <2>2
  <2> QED
    BY <2>3 DEF x
<1>8. Half(left[n]) + 1 \in SearchBin(d, key, n)
  BY <1>5, <1>6, <1>7 DEF SearchBin, Half
<1> QED
  BY <1>8

-----------------------------------------------------------------------------
(* What delete_range keeps *)

\* e takes the entries of r to those of d they were: the entries K, in their order.
Selects(d, K, r, e) ==
  /\ e \in [DOMAIN r -> K]
  /\ \A j \in DOMAIN r : r[j] = d[e[j]]
  /\ \A i, j \in DOMAIN r : i < j => e[i] < e[j]
  /\ \A k \in K : \E j \in DOMAIN r : e[j] = k

UpTo(K, n) == {k \in K : k <= n}

LEMMA SelectsOne ==
  ASSUME NEW S, NEW d \in Seq(S), NEW K \in SUBSET DOMAIN d, NEW r \in Seq(S), NEW e,
         NEW n \in Nat, n + 1 \in K, Selects(d, UpTo(K, n), r, e)
  PROVE  /\ Append(r, d[n + 1]) \in Seq(S)
         /\ \E f : Selects(d, UpTo(K, n + 1), Append(r, d[n + 1]), f)
<1> DEFINE q == Append(r, d[n + 1])
           f == [j \in DOMAIN q |-> IF j \in DOMAIN r THEN e[j] ELSE n + 1]
<1>1. d[n + 1] \in S /\ K \subseteq Nat
  BY ElementOfSeq, LenProperties
<1>2. /\ q \in Seq(S)
      /\ Len(q) = Len(r) + 1 /\ q[Len(r) + 1] = d[n + 1]
      /\ \A j \in 1 .. Len(r) : q[j] = r[j]
  BY <1>1, AppendProperties
<1>3. DOMAIN r = 1 .. Len(r) /\ DOMAIN q = 1 .. Len(r) + 1 /\ Len(r) \in Nat
  BY <1>2, LenProperties
<1>4. /\ \A j \in 1 .. Len(r) : /\ e[j] \in UpTo(K, n) /\ r[j] = d[e[j]]
      /\ \A i, j \in 1 .. Len(r) : i < j => e[i] < e[j]
      /\ \A k \in UpTo(K, n) : \E j \in 1 .. Len(r) : e[j] = k
  BY <1>3 DEF Selects
<1>5. /\ \A j \in 1 .. Len(r) : f[j] = e[j]
      /\ f[Len(r) + 1] = n + 1
  BY <1>3
<1> HIDE DEF q, f
<1>6. f \in [DOMAIN q -> UpTo(K, n + 1)]
  <2>1. ASSUME NEW j \in 1 .. Len(r) + 1 PROVE f[j] \in UpTo(K, n + 1)
    <3>1. CASE j = Len(r) + 1
      BY <1>5, <3>1 DEF UpTo
    <3>2. CASE j \in 1 .. Len(r)
      BY <1>1, <1>4, <1>5, <3>2 DEF UpTo
    <3> QED
      BY <1>3, <3>1, <3>2
  <2> QED
    BY <1>3, <2>1 DEF f
<1>7. ASSUME NEW j \in 1 .. Len(r) + 1 PROVE q[j] = d[f[j]]
  <2>1. CASE j = Len(r) + 1
    BY <1>2, <1>5, <2>1
  <2>2. CASE j \in 1 .. Len(r)
    BY <1>2, <1>4, <1>5, <2>2
  <2> QED
    BY <1>3, <2>1, <2>2
<1>8. ASSUME NEW i \in 1 .. Len(r) + 1, NEW j \in 1 .. Len(r) + 1, i < j PROVE f[i] < f[j]
  <2>1. i \in 1 .. Len(r) /\ f[i] = e[i] /\ e[i] \in UpTo(K, n)
    BY <1>3, <1>4, <1>5, <1>8
  <2>2. CASE j = Len(r) + 1
    BY <1>1, <1>5, <2>1, <2>2 DEF UpTo
  <2>3. CASE j \in 1 .. Len(r)
    BY <1>4, <1>5, <1>8, <2>1, <2>3
  <2> QED
    BY <1>3, <2>2, <2>3
<1>9. ASSUME NEW k \in UpTo(K, n + 1) PROVE \E j \in 1 .. Len(r) + 1 : f[j] = k
  <2>1. CASE k = n + 1
    BY <1>3, <1>5, <2>1
  <2>2. CASE k # n + 1
    <3>1. k \in UpTo(K, n)
      BY <1>1, <2>2 DEF UpTo
    <3>2. PICK j \in 1 .. Len(r) : e[j] = k
      BY <1>4, <3>1
    <3> QED
      BY <1>3, <1>5, <3>2
  <2> QED
    BY <2>1, <2>2
<1>10. Selects(d, UpTo(K, n + 1), q, f)
  BY <1>3, <1>6, <1>7, <1>8, <1>9 DEF Selects
<1> QED
  BY <1>2, <1>10 DEF q

LEMMA KeptSelects ==
  ASSUME NEW S, NEW d \in Seq(S), NEW K \in SUBSET DOMAIN d
  PROVE  Kept(d, K) \in Seq(S) /\ \E e : Selects(d, K, Kept(d, K), e)
<1> DEFINE N == Len(d)
           E(x, k) == IF k \in K THEN Append(x, d[k]) ELSE x
           D == [x \in Seq(S) \X (1 .. N) |-> E(x[1], x[2])]
           Is(f) == f = [k \in 0 .. N |->
                           IF k = 0 THEN <<>> ELSE IF k \in K THEN Append(f[k - 1], d[k])
                                                   ELSE f[k - 1]]
           left == CHOOSE f : Is(f)
<1>0. N \in Nat /\ DOMAIN d = 1 .. N /\ \A k \in 1 .. N : d[k] \in S
  BY ElementOfSeq, LenProperties
<1>1. \A x \in Seq(S), k \in 1 .. N : E(x, k) \in Seq(S)
  BY <1>0, AppendProperties
<1>2. <<>> \in Seq(S)
  OBVIOUS
<1>3. D \in [Seq(S) \X (1 .. N) -> Seq(S)]
  <2> HIDE DEF N, E
  <2> QED
    BY <1>1
<1>4. PICK g : Defined(g, Seq(S), <<>>, N, D)
  <2> HIDE DEF D, N
  <2> QED
    BY <1>0, <1>2, <1>3, Recursion
<1>5. ASSUME NEW k \in 1 .. N PROVE g[k] = E(g[k - 1], k)
  <2> HIDE DEF E, N
  <2>1. k - 1 \in 0 .. N /\ g[k] = D[<<g[k - 1], k>>] /\ g[k - 1] \in Seq(S)
    BY <1>4 DEF Defined
  <2>2. <<g[k - 1], k>> \in Seq(S) \X (1 .. N)
    BY <2>1
  <2>3. D[<<g[k - 1], k>>] = E(g[k - 1], k)
    BY <2>2
  <2> HIDE DEF D
  <2> QED
    BY <2>1, <2>3
<1>6. Is(g)
  <2>1. g = [k \in 0 .. N |-> g[k]] /\ g[0] = <<>>
    BY <1>4 DEF Defined
  <2>2. \A k \in 0 .. N : g[k] = IF k = 0 THEN <<>> ELSE E(g[k - 1], k)
    <3> HIDE DEF E, N
    <3> QED
      BY <1>0, <1>5, <2>1
  <2> QED
    BY <2>1, <2>2
<1>7. Is(left)
  <2> HIDE DEF Is
  <2> QED
    BY <1>6
<1>8. Kept(d, K) = left[N]
  BY DEF Kept
<1> HIDE DEF left, D
<1>9. left[0] = <<>> /\ \A k \in 1 .. N : left[k] = E(left[k - 1], k)
  <2>1. \A k \in 0 .. N : left[k] = IF k = 0 THEN <<>> ELSE E(left[k - 1], k)
    BY <1>7
  <2> HIDE DEF N, E
  <2> QED
    BY <1>0, <2>1
<1> DEFINE P(k) == left[k] \in Seq(S) /\ \E e : Selects(d, UpTo(K, k), left[k], e)
           G == {k \in Nat : k <= N => P(k)}
<1> HIDE DEF N
<1>10. 0 \in G
  <2>1. UpTo(K, 0) = {} /\ DOMAIN <<>> = {}
    BY <1>0 DEF UpTo
  <2>2. Selects(d, {}, <<>>, <<>>)
    BY <2>1 DEF Selects
  <2> QED
    BY <1>2, <1>9, <2>1, <2>2
<1>11. ASSUME NEW k \in Nat, k \in G, k + 1 <= N
       PROVE  P(k + 1)
  <2>0. left[k] \in Seq(S) /\ k + 1 \in 1 .. N /\ (k + 1) - 1 = k
    BY <1>0, <1>11
  <2>1. PICK e : Selects(d, UpTo(K, k), left[k], e)
    BY <1>0, <1>11
  <2>2. CASE k + 1 \in K
    <3>1. left[k + 1] = Append(left[k], d[k + 1])
      BY <1>9, <2>0, <2>2
    <3> QED
      BY <2>0, <2>1, <2>2, <3>1, SelectsOne
  <2>3. CASE k + 1 \notin K
    <3>1. left[k + 1] = left[k]
      BY <1>9, <2>0, <2>3
    <3>2. UpTo(K, k + 1) = UpTo(K, k)
      BY <1>0, <2>3 DEF UpTo
    <3> QED
      BY <2>0, <2>1, <3>1, <3>2
  <2> QED
    BY <2>2, <2>3
<1>12. N \in G
  <2>1. ASSUME NEW k \in Nat, k \in G PROVE k + 1 \in G
    <3> HIDE DEF P, Is, E
    <3> QED
      BY <1>11, <2>1
  <2> HIDE DEF G
  <2> QED
    BY <1>0, <1>10, <2>1, NatSet
<1>13. UpTo(K, N) = K
  BY <1>0 DEF UpTo
<1> QED
  BY <1>0, <1>8, <1>12, <1>13

-----------------------------------------------------------------------------
(* The inductive invariant *)

\* TypeOK, with the sets of at most one element said outright.
PostRec == [pc : {"none", "editing", "named", "posted"}, name : Nat]
BusyInv == busy = {} \/ \E n \in DOMAIN dir : busy = {[at |-> n]}
HeldInv == held \in [Sessions -> SUBSET Held] /\ \A s \in Sessions : \A g, h \in held[s] : g = h
TypeInv ==
  /\ dir \in Seq(Header)
  /\ BusyInv
  /\ post \in [Arts -> PostRec]
  /\ HeldInv
  /\ asked \in SUBSET Arts
  /\ marks \in [Arts -> SUBSET Flags]
  /\ died \in BOOLEAN

\* No two articles have one name while they have a file.
NamesInv ==
  \A a, b \in Arts :
    a # b /\ post[a].pc # "none" /\ post[b].pc # "none" => post[a].name # post[b].name

\* Whatever is listed, held or asked for has been posted, and goes by its name.
Posted(h) == post[h.id].pc = "posted" /\ h.time = post[h.id].name
PostedInv ==
  /\ \A i \in DOMAIN dir : Posted(dir[i])
  /\ \A s \in Sessions : \A h \in held[s] : Posted(h.hdr)
  /\ \A a \in asked : post[a].pc = "posted"

\* Before the first death an entry is doubled only by the record being moved.
DoublesInv ==
  \A i, j \in DOMAIN dir :
     i < j /\ dir[i].id = dir[j].id =>
        /\ died \/ (busy = {[at |-> j]} /\ i = j - 1)
        /\ \A k \in i .. j : dir[k].id = dir[i].id

\* Entries move down only: a held article that is listed is at the number held, or below.
Below(h) ==
  h.hdr.id \in Ids(dir) => \E i \in DOMAIN dir : i <= h.ent /\ dir[i].id = h.hdr.id
BelowInv == \A s \in Sessions : \A h \in held[s] : Below(h)

IInv == TypeInv /\ NamesInv /\ PostedInv /\ DoublesInv /\ BelowInv /\ MarksKept

\* The record that is being overwritten has been asked for, or is there twice.
BusyAsked ==
  \A b \in busy : \/ dir[b.at].id \in asked
                  \/ b.at > 1 /\ dir[b.at - 1].id = dir[b.at].id

LEMMA DirFacts ==
  ASSUME NEW d \in Seq(Header)
  PROVE  /\ Len(d) \in Nat /\ DOMAIN d = 1 .. Len(d)
         /\ \A i \in DOMAIN d : d[i] \in Header /\ d[i].id \in Arts /\ d[i].time \in Nat
  <1>1. Len(d) \in Nat /\ DOMAIN d = 1 .. Len(d)
    BY LenProperties
  <1>2. \A i \in 1 .. Len(d) : d[i] \in Header
    BY ElementOfSeq
  <1> QED
    BY <1>1, <1>2 DEF Header

\* A name stands for one article.
LEMMA OneName ==
  ASSUME NamesInv, NEW g \in Header, NEW h \in Header, Posted(g), Posted(h), g.time = h.time
  PROVE  g.id = h.id
BY DEF NamesInv, Posted, Header

\* change_dir and the deletions only ever find an entry with the name looked for.
LEMMA FoundByName ==
  ASSUME NEW d \in Seq(Header), NEW key \in Nat, NEW ent \in Nat \ {0}
  PROVE  /\ \A i \in ChangePos(d, key, ent) : i \in DOMAIN d /\ d[i].time = key
         /\ \A i \in DeletePos(d, key, ent) : i \in DOMAIN d /\ d[i].time = key
         /\ \A i \in LastBefore(d, key, ent) : i \in DOMAIN d /\ d[i].time = key
         /\ \A n \in 0 .. Len(d) : \A i \in SearchBin(d, key, n) : i \in DOMAIN d /\ d[i].time = key
<1>1. Len(d) \in Nat /\ DOMAIN d = 1 .. Len(d)
  BY DirFacts
<1>2. \A n \in 0 .. Len(d) : \A i \in SearchBin(d, key, n) : i \in DOMAIN d /\ d[i].time = key
  BY <1>1 DEF SearchBin
<1>3. \A i \in LastBefore(d, key, ent) : i \in DOMAIN d /\ d[i].time = key
  BY DEF LastBefore
<1>4. Shorter(ent, Len(d)) \in 0 .. Len(d)
  BY <1>1 DEF Shorter
<1>5. \A i \in DeletePos(d, key, ent) : i \in DOMAIN d /\ d[i].time = key
  <2> DEFINE pos == Shorter(ent, Len(d))
  <2>1. CASE pos = 0
    BY <2>1 DEF DeletePos
  <2>2. CASE pos # 0 /\ d[pos].time = key
    BY <1>1, <1>4, <2>2 DEF DeletePos
  <2>3. CASE pos # 0 /\ d[pos].time # key
    <3>1. DeletePos(d, key, ent) \in {SearchBin(d, key, pos), LastBefore(d, key, ent)}
      BY <2>3 DEF DeletePos
    <3> QED
      BY <1>2, <1>3, <1>4, <3>1
  <2> QED
    BY <2>1, <2>2, <2>3
<1>6. \A i \in ChangePos(d, key, ent) : i \in DOMAIN d /\ d[i].time = key
  BY <1>1, <1>2 DEF ChangePos
<1> QED
  BY <1>2, <1>3, <1>5, <1>6

\* Steps that leave the file alone.
LEMMA SameDir ==
  ASSUME IInv, UNCHANGED <<dir, post, marks>>,
         BusyInv', HeldInv', asked' \in SUBSET Arts, died' \in BOOLEAN,
         \A a \in asked' : post[a].pc = "posted",
         died => died',
         busy' = busy \/ busy = {} \/ died',
         \A s \in Sessions : \A h \in held'[s] : h \in held[s] \/ (Posted(h.hdr) /\ Below(h))
  PROVE  IInv'
<1>1. TypeInv'
  BY DEF IInv, TypeInv
<1>2. NamesInv'
  BY DEF IInv, NamesInv
<1>3. PostedInv'
  BY DEF IInv, PostedInv, Posted
<1>4. DoublesInv'
  <2> SUFFICES ASSUME NEW i \in DOMAIN dir, NEW j \in DOMAIN dir, i < j, dir[i].id = dir[j].id
               PROVE  /\ died' \/ (busy' = {[at |-> j]} /\ i = j - 1)
                      /\ \A k \in i .. j : dir[k].id = dir[i].id
    BY DEF DoublesInv
  <2>1. /\ died \/ (busy = {[at |-> j]} /\ i = j - 1)
        /\ \A k \in i .. j : dir[k].id = dir[i].id
    BY DEF IInv, DoublesInv
  <2> QED
    BY <2>1
<1>5. BelowInv'
  BY DEF IInv, BelowInv, Below, Ids
<1>6. MarksKept'
  BY DEF IInv, TypeInv, MarksKept
<1> QED
  BY <1>1, <1>2, <1>3, <1>4, <1>5, <1>6 DEF IInv

\* Steps of an author before the article is in the file.
LEMMA PostStep ==
  ASSUME IInv, UNCHANGED <<dir, busy, held, asked, marks, died>>,
         NEW a \in Arts, NEW q \in PostRec, post[a].pc # "posted", q.pc # "posted",
         q.pc = "none" \/ FreeName(q.name),
         post' = [post EXCEPT ![a] = q]
  PROVE  IInv'
<1>0. post \in [Arts -> PostRec]
  BY DEF IInv, TypeInv
<1>1. /\ \A b \in Arts \ {a} : post'[b] = post[b]
      /\ post'[a] = q
  BY <1>0
<1>2. TypeInv'
  BY DEF IInv, TypeInv, BusyInv, HeldInv
<1>3. NamesInv'
  <2>1. q.pc # "none" => \A b \in Arts : post[b].pc # "none" => post[b].name # q.name
    BY DEF FreeName, Names
  <2> QED
    BY <1>1, <2>1 DEF IInv, NamesInv
<1>4. ASSUME NEW h \in Header, Posted(h) PROVE Posted(h)'
  BY <1>1, <1>4 DEF Posted, Header
<1>5. PostedInv'
  <2>1. \A i \in DOMAIN dir : dir[i] \in Header
    BY DirFacts DEF IInv, TypeInv
  <2>2. \A s \in Sessions : \A h \in held[s] : h.hdr \in Header
    BY DEF IInv, TypeInv, HeldInv, Held
  <2>3. \A i \in DOMAIN dir : Posted(dir[i])'
    BY <1>4, <2>1 DEF IInv, PostedInv, Posted
  <2>4. \A s \in Sessions : \A h \in held[s] : Posted(h.hdr)'
    BY <1>4, <2>2 DEF IInv, PostedInv, Posted
  <2>5. \A b \in asked : post'[b].pc = "posted"
    BY <1>1 DEF IInv, PostedInv, TypeInv
  <2> QED
    BY <2>3, <2>4, <2>5 DEF PostedInv, Posted
<1>6. DoublesInv'
  BY DEF IInv, DoublesInv
<1>7. BelowInv'
  BY DEF IInv, BelowInv, Below, Ids
<1>8. MarksKept'
  BY DEF IInv, MarksKept
<1> QED
  BY <1>2, <1>3, <1>5, <1>6, <1>7, <1>8 DEF IInv

LEMMA AppendKeeps ==
  ASSUME IInv, NEW a \in Arts, AppendPost(a)
  PROVE  IInv' /\ a \notin Ids(dir) /\ a \notin asked /\ Ids(dir') = Ids(dir) \cup {a}
<1> DEFINE F == IF a \in Junk THEN {"del"} ELSE {}
           x == [id |-> a, time |-> post[a].name, flags |-> F]
           n == Len(dir)
<1>0. /\ post \in [Arts -> PostRec] /\ dir \in Seq(Header) /\ busy = {}
      /\ marks \in [Arts -> SUBSET Flags]
  BY DEF IInv, TypeInv, AppendPost, Free
<1>1. /\ post[a].pc = "named" /\ dir' = Append(dir, x)
      /\ post' = [post EXCEPT ![a].pc = "posted"] /\ marks' = [marks EXCEPT ![a] = F]
      /\ UNCHANGED <<busy, held, asked, died>>
  BY DEF AppendPost
<1>2. F \in SUBSET Flags /\ post[a].name \in Nat
  BY <1>0, BoardAssumption DEF PostRec
<1>3. x \in Header
  BY <1>2 DEF Header
<1> HIDE DEF F, x
<1>4. /\ dir' \in Seq(Header) /\ Len(dir') = n + 1 /\ dir'[n + 1] = x
      /\ \A i \in 1 .. n : dir'[i] = dir[i]
  BY <1>0, <1>1, <1>3, AppendProperties
<1>5. /\ n \in Nat /\ DOMAIN dir = 1 .. n /\ DOMAIN dir' = 1 .. n + 1
      /\ \A i \in 1 .. n : dir[i] \in Header /\ dir[i].id \in Arts
  BY <1>0, <1>4, DirFacts
<1>6. x.id = a /\ x.time = post[a].name /\ x.flags = F
  BY DEF x
<1>7. /\ \A i \in 1 .. n : Posted(dir[i]) /\ dir[i].id # a
      /\ \A s \in Sessions : \A h \in held[s] : Posted(h.hdr) /\ h.hdr.id # a
      /\ a \notin asked
  BY <1>1, <1>5 DEF IInv, PostedInv, Posted
<1>8. /\ \A b \in Arts : post'[b].name = post[b].name
      /\ \A b \in Arts \ {a} : post'[b] = post[b]
      /\ post'[a].pc = "posted"
  BY <1>0, <1>1 DEF PostRec
<1>9. TypeInv'
  <2>1. post' \in [Arts -> PostRec]
    BY <1>0, <1>1 DEF PostRec
  <2>2. marks' \in [Arts -> SUBSET Flags]
    BY <1>0, <1>1, <1>2
  <2>3. BusyInv' /\ HeldInv' /\ asked' \in SUBSET Arts /\ died' \in BOOLEAN
    BY <1>0, <1>1 DEF IInv, TypeInv, BusyInv, HeldInv
  <2> QED
    BY <1>4, <2>1, <2>2, <2>3 DEF TypeInv
<1>10. NamesInv'
  BY <1>1, <1>8 DEF IInv, NamesInv
<1>11. PostedInv'
  <2>1. \A h \in Header : Posted(h) => Posted(h)'
    BY <1>8 DEF Posted, Header
  <2>2. \A i \in 1 .. n + 1 : Posted(dir[i])'
    <3> SUFFICES ASSUME NEW i \in 1 .. n + 1
                 PROVE  post'[dir'[i].id].pc = "posted" /\ dir'[i].time = post'[dir'[i].id].name
      BY DEF Posted
    <3>1. CASE i = n + 1
      BY <1>4, <1>6, <1>8, <3>1
    <3>2. CASE i \in 1 .. n
      BY <1>4, <1>5, <1>7, <1>8, <3>2 DEF Posted
    <3> QED
      BY <1>5, <3>1, <3>2
  <2>3. \A s \in Sessions : \A h \in held[s] : Posted(h.hdr)'
    <3> SUFFICES ASSUME NEW s \in Sessions, NEW h \in held[s]
                 PROVE  post'[h.hdr.id].pc = "posted" /\ h.hdr.time = post'[h.hdr.id].name
      BY <1>1 DEF Posted
    <3>1. h.hdr \in Header
      BY DEF IInv, TypeInv, HeldInv, Held
    <3> QED
      BY <1>7, <1>8, <3>1 DEF Posted, Header
  <2>4. \A b \in asked' : post'[b].pc = "posted"
    BY <1>1, <1>8 DEF IInv, PostedInv, TypeInv
  <2> QED
    BY <1>1, <1>5, <2>2, <2>3, <2>4 DEF PostedInv, Posted
<1>12. DoublesInv'
  <2> SUFFICES ASSUME NEW i \in 1 .. n + 1, NEW j \in 1 .. n + 1, i < j, dir'[i].id = dir'[j].id
               PROVE  /\ died' \/ (busy' = {[at |-> j]} /\ i = j - 1)
                      /\ \A k \in i .. j : dir'[k].id = dir'[i].id
    BY <1>5 DEF DoublesInv
  <2>1. i \in 1 .. n
    BY <1>5
  <2>2. j \in 1 .. n
    BY <1>4, <1>5, <1>6, <1>7, <2>1
  <2>3. /\ died \/ (busy = {[at |-> j]} /\ i = j - 1)
        /\ \A k \in i .. j : dir[k].id = dir[i].id
    BY <1>4, <1>5, <2>1, <2>2 DEF IInv, DoublesInv
  <2> QED
    BY <1>1, <1>4, <1>5, <2>1, <2>2, <2>3
<1>13. Ids(dir') = Ids(dir) \cup {a}
  <2>1. \A b : b \in Ids(dir') <=> \E i \in 1 .. n + 1 : b = dir'[i].id
    BY <1>5 DEF Ids
  <2>2. \A b : b \in Ids(dir) <=> \E i \in 1 .. n : b = dir[i].id
    BY <1>5 DEF Ids
  <2>3. \A b \in Ids(dir') : b \in Ids(dir) \cup {a}
    BY <1>4, <1>5, <1>6, <2>1, <2>2
  <2>4. \A b \in Ids(dir) : b \in Ids(dir')
    BY <1>4, <1>5, <2>1, <2>2
  <2>5. a \in Ids(dir')
    BY <1>4, <1>5, <1>6, <2>1
  <2> QED
    BY <2>3, <2>4, <2>5
<1>14. BelowInv'
  <2> SUFFICES ASSUME NEW s \in Sessions, NEW h \in held[s], h.hdr.id \in Ids(dir')
               PROVE  \E i \in 1 .. n + 1 : i <= h.ent /\ dir'[i].id = h.hdr.id
    BY <1>1, <1>5 DEF BelowInv, Below
  <2>1. h.hdr.id \in Ids(dir)
    BY <1>7, <1>13
  <2>2. PICK i \in 1 .. n : i <= h.ent /\ dir[i].id = h.hdr.id
    BY <1>5, <2>1 DEF IInv, BelowInv, Below
  <2>3. i \in 1 .. n + 1
    BY <1>5
  <2> QED
    BY <1>4, <2>2, <2>3
<1>15. MarksKept'
  <2> SUFFICES ASSUME ~died', NEW i \in 1 .. n + 1
               PROVE  dir'[i].flags = marks'[dir'[i].id]
    BY <1>5 DEF MarksKept
  <2>1. CASE i = n + 1
    BY <1>0, <1>1, <1>4, <1>6, <2>1
  <2>2. CASE i \in 1 .. n
    BY <1>0, <1>1, <1>4, <1>5, <1>7, <2>2 DEF IInv, MarksKept
  <2> QED
    BY <1>5, <2>1, <2>2
<1> QED
  BY <1>5, <1>7, <1>9, <1>10, <1>11, <1>12, <1>13, <1>14, <1>15 DEF IInv, Ids

\* change_dir writes a header to the entry with its name.
LEMMA ChangeKeeps ==
  ASSUME IInv, Free, NEW s \in Sessions, NEW h \in held[s],
         NEW i \in DOMAIN dir, dir[i].time = h.hdr.time,
         NEW x \in Header, x.id = dir[i].id, x.time = dir[i].time,
         NEW F \in SUBSET Flags, ~died => F = x.flags,
         NEW H, H = {} \/ H = {[ent |-> h.ent, hdr |-> x]},
         dir' = [dir EXCEPT ![i] = x], held' = [held EXCEPT ![s] = H],
         marks' = [marks EXCEPT ![h.hdr.id] = F],
         UNCHANGED <<busy, post, asked, died>>
  PROVE  IInv' /\ Ids(dir') = Ids(dir)
<1> DEFINE n == Len(dir)
<1>0. /\ dir \in Seq(Header) /\ marks \in [Arts -> SUBSET Flags] /\ busy = {}
      /\ n \in Nat /\ DOMAIN dir = 1 .. n /\ \A j \in 1 .. n : dir[j] \in Header /\ dir[j].id \in Arts
  BY DirFacts DEF IInv, TypeInv, Free
<1>1. /\ dir' \in Seq(Header) /\ DOMAIN dir' = 1 .. n /\ dir'[i] = x
      /\ \A j \in 1 .. n : j # i => dir'[j] = dir[j]
  BY <1>0, ExceptSeq
<1>2. \A j \in 1 .. n : dir'[j].id = dir[j].id /\ dir'[j].time = dir[j].time
  BY <1>0, <1>1
<1>3. h \in Held /\ h.hdr \in Header /\ h.hdr.id \in Arts /\ Posted(h.hdr) /\ Posted(dir[i])
  BY DEF IInv, TypeInv, HeldInv, Held, PostedInv, Header
<1>4. h.hdr.id = dir[i].id
  BY <1>0, <1>3, OneName DEF IInv
<1>5. /\ \A t \in Sessions : t # s => held'[t] = held[t]
      /\ held'[s] = H
  BY DEF IInv, TypeInv, HeldInv
<1>6. \A t \in Sessions : \A g \in held'[t] :
        g \in held[t] \/ (t = s /\ g = [ent |-> h.ent, hdr |-> x])
  BY <1>5
<1>7. [ent |-> h.ent, hdr |-> x] \in Held
  BY <1>3 DEF Held
<1>8. TypeInv'
  <2>1. HeldInv'
    <3>1. held' \in [Sessions -> SUBSET Held]
      BY <1>7 DEF IInv, TypeInv, HeldInv
    <3>2. \A t \in Sessions : \A g, k \in held'[t] : g = k
      BY <1>5 DEF IInv, TypeInv, HeldInv
    <3> QED
      BY <3>1, <3>2 DEF HeldInv
  <2>2. marks' \in [Arts -> SUBSET Flags]
    BY <1>0
  <2>3. BusyInv'
    BY <1>0 DEF BusyInv
  <2> QED
    BY <1>1, <2>1, <2>2, <2>3 DEF IInv, TypeInv
<1>9. NamesInv'
  BY DEF IInv, NamesInv
<1>10. PostedInv'
  <2>1. \A j \in 1 .. n : Posted(dir[j]) /\ Posted(dir[j])'
    BY <1>0, <1>2 DEF IInv, PostedInv, Posted
  <2>2. \A t \in Sessions : \A g \in held'[t] : Posted(g.hdr)'
    <3> SUFFICES ASSUME NEW t \in Sessions, NEW g \in held'[t]
                 PROVE  post[g.hdr.id].pc = "posted" /\ g.hdr.time = post[g.hdr.id].name
      BY DEF Posted
    <3>1. CASE g \in held[t]
      BY <3>1 DEF IInv, PostedInv, Posted
    <3>2. CASE g = [ent |-> h.ent, hdr |-> x]
      BY <1>0, <1>3, <3>2 DEF Posted
    <3> QED
      BY <1>6, <3>1, <3>2
  <2> QED
    BY <1>1, <2>1, <2>2 DEF IInv, PostedInv
<1>11. DoublesInv'
  <2> SUFFICES ASSUME NEW j \in 1 .. n, NEW k \in 1 .. n, j < k, dir[j].id = dir[k].id
               PROVE  /\ died \/ (busy = {[at |-> k]} /\ j = k - 1)
                      /\ \A l \in j .. k : dir'[l].id = dir'[j].id
    BY <1>1, <1>2 DEF DoublesInv
  <2>1. /\ died \/ (busy = {[at |-> k]} /\ j = k - 1)
        /\ \A l \in j .. k : dir[l].id = dir[j].id
    BY <1>0 DEF IInv, DoublesInv
  <2> QED
    BY <1>0, <1>2, <2>1
<1>12. Ids(dir') = Ids(dir)
  <2>1. \A a : /\ a \in Ids(dir') <=> \E j \in 1 .. n : a = dir'[j].id
               /\ a \in Ids(dir) <=> \E j \in 1 .. n : a = dir[j].id
    BY <1>0, <1>1 DEF Ids
  <2> QED
    BY <1>2, <2>1
<1>13. BelowInv'
  <2> SUFFICES ASSUME NEW t \in Sessions, NEW g \in held'[t], g.hdr.id \in Ids(dir)
               PROVE  \E j \in 1 .. n : j <= g.ent /\ dir'[j].id = g.hdr.id
    BY <1>1, <1>12 DEF BelowInv, Below
  <2>1. CASE g \in held[t]
    BY <1>0, <1>2, <2>1 DEF IInv, BelowInv, Below
  <2>2. CASE g = [ent |-> h.ent, hdr |-> x]
    <3>1. \E j \in 1 .. n : j <= h.ent /\ dir[j].id = h.hdr.id
      BY <1>0, <1>4, <2>2 DEF IInv, BelowInv, Below
    <3> QED
      BY <1>2, <1>4, <2>2, <3>1
  <2> QED
    BY <1>6, <2>1, <2>2
<1>14. MarksKept'
  <2> SUFFICES ASSUME ~died, NEW j \in 1 .. n
               PROVE  dir'[j].flags = marks'[dir[j].id]
    BY <1>1, <1>2 DEF MarksKept
  <2>1. CASE j = i
    BY <1>0, <1>1, <1>4, <2>1
  <2>2. CASE j # i
    <3>1. dir[j].id # dir[i].id
      <4>1. \A k, l \in 1 .. n : k < l => dir[k].id # dir[l].id
        BY <1>0 DEF IInv, DoublesInv
      <4> QED
        BY <1>0, <2>2, <4>1
    <3>2. marks'[dir[j].id] = marks[dir[j].id]
      BY <1>0, <1>4, <3>1
    <3> QED
      BY <1>0, <1>1, <2>2, <3>2 DEF IInv, MarksKept
  <2> QED
    BY <2>1, <2>2
<1> QED
  BY <1>8, <1>9, <1>10, <1>11, <1>12, <1>13, <1>14 DEF IInv, Ids

\* A record of the entries behind a deleted one is moved.
LEMMA ShiftKeeps ==
  ASSUME IInv, DelShift
  PROVE  /\ IInv'
         /\ BusyAsked => BusyAsked' /\ Ids(dir') \subseteq Ids(dir) /\ Ids(dir) \ Ids(dir') \subseteq asked
<1> DEFINE n == Len(dir)
<1>0. /\ dir \in Seq(Header) /\ n \in Nat /\ DOMAIN dir = 1 .. n
      /\ \A j \in 1 .. n : dir[j] \in Header
  BY DirFacts DEF IInv, TypeInv
<1>1. PICK p \in 1 .. n : p < n /\ busy = {[at |-> p]} /\ busy' = {[at |-> p + 1]}
                          /\ dir' = [dir EXCEPT ![p] = dir[p + 1]]
                          /\ UNCHANGED <<post, held, asked, marks, died>>
  <2>1. PICK p \in 1 .. n : busy = {[at |-> p]}
    BY <1>0 DEF IInv, TypeInv, BusyInv, DelShift
  <2>2. PICK b \in busy : b.at < n /\ dir' = Shift(dir, b.at) /\ busy' = {[b EXCEPT !.at = @ + 1]}
    BY DEF DelShift
  <2>3. b = [at |-> p] /\ b.at = p /\ [b EXCEPT !.at = @ + 1] = [at |-> p + 1]
    BY <2>1, <2>2
  <2> QED
    BY <2>1, <2>2, <2>3 DEF DelShift, Shift
<1>2. p + 1 \in 1 .. n /\ dir[p + 1] \in Header
  BY <1>0, <1>1
<1>3. /\ dir' \in Seq(Header) /\ DOMAIN dir' = 1 .. n /\ dir'[p] = dir[p + 1]
      /\ \A j \in 1 .. n : j # p => dir'[j] = dir[j]
  BY <1>0, <1>1, <1>2, ExceptSeq
<1>4. dir'[p + 1] = dir[p + 1]
  BY <1>0, <1>1, <1>2, <1>3
<1>5. TypeInv'
  BY <1>1, <1>2, <1>3 DEF IInv, TypeInv, BusyInv, HeldInv
<1>6. NamesInv'
  BY <1>1 DEF IInv, NamesInv
<1>7. PostedInv'
  <2>1. \A j \in 1 .. n : Posted(dir'[j])
    BY <1>0, <1>2, <1>3 DEF IInv, PostedInv
  <2> QED
    BY <1>1, <1>3, <2>1 DEF IInv, PostedInv, Posted
<1>8. DoublesInv'
  <2> SUFFICES ASSUME NEW i \in 1 .. n, NEW j \in 1 .. n, i < j, dir'[i].id = dir'[j].id
               PROVE  /\ died \/ (p + 1 = j /\ i = j - 1)
                      /\ \A k \in i .. j : dir'[k].id = dir'[i].id
    BY <1>1, <1>3 DEF DoublesInv
  <2>0. \A k, l \in 1 .. n : k < l /\ dir[k].id = dir[l].id =>
                 /\ died \/ (p = l /\ k = l - 1)
                 /\ \A m \in k .. l : dir[m].id = dir[k].id
    <3> SUFFICES ASSUME NEW k \in 1 .. n, NEW l \in 1 .. n, k < l, dir[k].id = dir[l].id
                 PROVE  /\ died \/ (p = l /\ k = l - 1)
                        /\ \A m \in k .. l : dir[m].id = dir[k].id
      OBVIOUS
    <3>1. /\ died \/ (busy = {[at |-> l]} /\ k = l - 1)
          /\ \A m \in k .. l : dir[m].id = dir[k].id
      BY <1>0 DEF IInv, DoublesInv
    <3>2. busy = {[at |-> l]} => p = l
      <4>1. busy = {[at |-> l]} => [at |-> p] = [at |-> l]
        BY <1>1
      <4>2. [at |-> p] = [at |-> l] => [at |-> p].at = [at |-> l].at
        OBVIOUS
      <4> QED
        BY <4>1, <4>2
    <3> QED
      BY <3>1, <3>2
  <2>1. CASE i # p /\ j # p
    <3>1. dir[i].id = dir[j].id /\ dir'[i].id = dir[i].id
      BY <1>3, <2>1
    <3>2. died
      BY <1>0, <2>0, <2>1, <3>1
    <3>3. \A k \in i .. j : dir[k].id = dir[i].id
      BY <2>0, <3>1
    <3>4. i < p /\ p < j => p + 1 \in i .. j
      BY <1>0
    <3> QED
      BY <1>0, <1>3, <2>1, <3>1, <3>2, <3>3, <3>4
  <2>2. CASE i = p /\ j = p + 1
    <3>1. \A k \in i .. j : k = p \/ k = p + 1
      BY <1>0, <2>2
    <3> QED
      BY <1>0, <1>3, <1>4, <2>2, <3>1
  <2>3. CASE i = p /\ j > p + 1
    <3>1. dir[p + 1].id = dir[j].id /\ p + 1 < j /\ dir'[i].id = dir[p + 1].id
      BY <1>0, <1>3, <2>3
    <3>2. died /\ \A k \in p + 1 .. j : dir[k].id = dir[p + 1].id
      BY <1>0, <1>2, <2>0, <2>3, <3>1
    <3>3. \A k \in i .. j : k = p \/ (k \in p + 1 .. j /\ k # p)
      BY <1>0, <2>3
    <3> QED
      BY <1>0, <1>3, <2>3, <3>1, <3>2, <3>3
  <2>4. CASE j = p
    <3>1. dir[i].id = dir[p + 1].id /\ i < p + 1 /\ dir'[i].id = dir[i].id
      BY <1>0, <1>3, <2>4
    <3>2. died /\ \A k \in i .. p + 1 : dir[k].id = dir[i].id
      BY <1>0, <1>2, <2>0, <2>4, <3>1
    <3>3. p + 1 \in i .. p + 1 /\ \A k \in i .. j : k \in i .. p + 1
      BY <1>0, <2>4
    <3> QED
      BY <1>0, <1>3, <2>4, <3>1, <3>2, <3>3
  <2> QED
    BY <1>0, <2>1, <2>2, <2>3, <2>4
<1>9. /\ \A a : a \in Ids(dir') <=> \E j \in 1 .. n : a = dir'[j].id
      /\ \A a : a \in Ids(dir) <=> \E j \in 1 .. n : a = dir[j].id
  BY <1>0, <1>3 DEF Ids
<1>10. Ids(dir') \subseteq Ids(dir)
  BY <1>2, <1>3, <1>9
<1>11. BelowInv'
  <2> SUFFICES ASSUME NEW s \in Sessions, NEW h \in held[s], h.hdr.id \in Ids(dir')
               PROVE  \E i \in 1 .. n : i <= h.ent /\ dir'[i].id = h.hdr.id
    BY <1>1, <1>3 DEF BelowInv, Below
  <2>0. h.ent \in Nat
    BY DEF IInv, TypeInv, HeldInv, Held
  <2>1. PICK i \in 1 .. n : i <= h.ent /\ dir[i].id = h.hdr.id
    BY <1>0, <1>10 DEF IInv, BelowInv, Below
  <2>2. PICK j \in 1 .. n : dir'[j].id = h.hdr.id
    BY <1>9
  <2>3. CASE i # p
    BY <1>3, <2>1, <2>3
  <2>4. CASE i = p /\ j <= p
    <3>1. j <= h.ent
      BY <1>0, <2>0, <2>1, <2>4
    <3> QED
      BY <2>2, <3>1
  <2>5. CASE i = p /\ j > p
    <3>1. dir[p].id = dir[j].id
      BY <1>3, <2>1, <2>2, <2>5
    <3>2. p + 1 \in p .. j
      BY <1>0, <2>5
    <3>3. dir[p + 1].id = dir[p].id
      BY <1>0, <2>5, <3>1, <3>2 DEF IInv, DoublesInv
    <3> QED
      BY <1>3, <2>1, <2>5, <3>3
  <2> QED
    BY <2>3, <2>4, <2>5
<1>12. MarksKept'
  <2> SUFFICES ASSUME ~died, NEW j \in 1 .. n
               PROVE  dir'[j].flags = marks[dir'[j].id]
    BY <1>1, <1>3 DEF MarksKept
  <2>1. dir'[j] = dir[j] \/ dir'[j] = dir[p + 1]
    BY <1>3
  <2> QED
    BY <1>0, <1>2, <2>1 DEF IInv, MarksKept
<1>13. ASSUME BusyAsked
       PROVE  BusyAsked' /\ Ids(dir) \ Ids(dir') \subseteq asked
  <2>1. BusyAsked'
    <3>1. p + 1 > 1 /\ (p + 1) - 1 = p /\ dir'[p + 1].id = dir'[p].id
      BY <1>0, <1>3, <1>4
    <3> QED
      BY <1>1, <3>1 DEF BusyAsked
  <2>2. ASSUME NEW a \in Ids(dir), a \notin Ids(dir') PROVE a \in asked
    <3>1. PICK j \in 1 .. n : a = dir[j].id
      BY <1>9
    <3>2. j = p
      BY <1>3, <1>9, <2>2, <3>1
    <3>3. p > 1 => p - 1 \in 1 .. n /\ p - 1 # p
      BY <1>0
    <3>4. ~ (p > 1 /\ dir[p - 1].id = dir[p].id)
      BY <1>3, <1>9, <2>2, <3>1, <3>2, <3>3
    <3> QED
      BY <1>1, <1>13, <3>1, <3>2, <3>4 DEF BusyAsked
  <2> QED
    BY <2>1, <2>2
<1> QED
  BY <1>5, <1>6, <1>7, <1>8, <1>10, <1>11, <1>12, <1>13 DEF IInv

\* The file is cut off behind the last record moved.
LEMMA TruncateKeeps ==
  ASSUME IInv, DelTruncate
  PROVE  /\ IInv' /\ BusyAsked' /\ Ids(dir') \subseteq Ids(dir)
         /\ BusyAsked => Ids(dir) \ Ids(dir') \subseteq asked
<1> DEFINE n == Len(dir)
<1>0. /\ dir \in Seq(Header) /\ n \in Nat /\ DOMAIN dir = 1 .. n
      /\ \A j \in 1 .. n : dir[j] \in Header
  BY DirFacts DEF IInv, TypeInv
<1>1. n \in 1 .. n /\ busy = {[at |-> n]}
  <2>1. PICK p \in 1 .. n : busy = {[at |-> p]}
    BY <1>0 DEF IInv, TypeInv, BusyInv, DelTruncate
  <2>2. PICK b \in busy : b.at = n
    BY DEF DelTruncate
  <2>3. b = [at |-> p] /\ b.at = p
    BY <2>1, <2>2
  <2> QED
    BY <2>1, <2>2, <2>3
<1>2. dir' = SubSeq(dir, 1, n - 1) /\ busy' = {} /\ UNCHANGED <<post, held, asked, marks, died>>
  BY DEF DelTruncate, CutLast
<1>3. /\ dir' \in Seq(Header) /\ DOMAIN dir' = 1 .. n - 1
      /\ \A j \in 1 .. n - 1 : dir'[j] = dir[j]
  <2>1. n - 1 \in 0 .. n
    BY <1>0, <1>1
  <2> QED
    BY <1>0, <1>2, <2>1, SubSeqProperties
<1>4. \A j \in 1 .. n - 1 : j \in 1 .. n /\ j < n
  BY <1>0
<1>n. n \in Nat /\ n >= 1
  BY <1>0, <1>1
<1> HIDE DEF n
<1>5. TypeInv'
  BY <1>2, <1>3 DEF IInv, TypeInv, BusyInv, HeldInv
<1>6. NamesInv'
  BY <1>2 DEF IInv, NamesInv
<1>7. PostedInv'
  <2>1. \A j \in 1 .. n - 1 : Posted(dir'[j])
    BY <1>0, <1>3, <1>4 DEF IInv, PostedInv
  <2> QED
    BY <1>2, <1>3, <2>1 DEF IInv, PostedInv, Posted
<1>8. DoublesInv'
  <2> SUFFICES ASSUME NEW i \in 1 .. n - 1, NEW j \in 1 .. n - 1, i < j, dir'[i].id = dir'[j].id
               PROVE  died' /\ \A k \in i .. j : dir'[k].id = dir'[i].id
    BY <1>3 DEF DoublesInv
  <2>1. /\ died \/ busy = {[at |-> j]}
        /\ \A k \in i .. j : dir[k].id = dir[i].id
    BY <1>0, <1>3, <1>4 DEF IInv, DoublesInv
  <2>2. busy # {[at |-> j]}
    <3>1. [at |-> n].at # [at |-> j].at
      BY <1>4
    <3> QED
      BY <1>1, <3>1
  <2>3. \A k \in i .. j : k \in 1 .. n - 1
    BY <1>0
  <2> QED
    BY <1>2, <1>3, <2>1, <2>2, <2>3
<1>9. /\ \A a : a \in Ids(dir') <=> \E j \in 1 .. n - 1 : a = dir[j].id
      /\ \A a : a \in Ids(dir) <=> \E j \in 1 .. n : a = dir[j].id
  BY <1>0, <1>3 DEF Ids
<1>10. Ids(dir') \subseteq Ids(dir)
  BY <1>4, <1>9
<1>11. BelowInv'
  <2> SUFFICES ASSUME NEW s \in Sessions, NEW h \in held[s], h.hdr.id \in Ids(dir')
               PROVE  \E i \in 1 .. n - 1 : i <= h.ent /\ dir'[i].id = h.hdr.id
    BY <1>2, <1>3 DEF BelowInv, Below
  <2>0. h.ent \in Nat
    BY DEF IInv, TypeInv, HeldInv, Held
  <2>1. PICK i \in 1 .. n : i <= h.ent /\ dir[i].id = h.hdr.id
    BY <1>0, <1>10 DEF IInv, BelowInv, Below
  <2>2. PICK j \in 1 .. n - 1 : dir'[j].id = h.hdr.id
    BY <1>3, <1>9
  <2>3. CASE i # n
    <3>1. i \in 1 .. n - 1
      BY <1>n, <2>3
    <3> QED
      BY <1>3, <2>1, <3>1
  <2>4. CASE i = n
    <3>1. j <= h.ent
      BY <1>0, <2>0, <2>1, <2>4
    <3> QED
      BY <2>2, <3>1
  <2> QED
    BY <2>3, <2>4
<1>12. MarksKept'
  <2> SUFFICES ASSUME ~died, NEW j \in 1 .. n - 1 PROVE dir'[j].flags = marks[dir'[j].id]
    BY <1>2, <1>3 DEF MarksKept
  <2> QED
    BY <1>0, <1>3, <1>4 DEF IInv, MarksKept
<1>13. ASSUME BusyAsked, NEW a \in Ids(dir), a \notin Ids(dir') PROVE a \in asked
  <2>1. PICK j \in 1 .. n : a = dir[j].id
    BY <1>9
  <2>2. j = n
    <3>1. j \in 1 .. n - 1 \/ j = n
      BY <1>n
    <3> QED
      BY <1>9, <1>13, <2>1, <3>1
  <2>3. n > 1 => n - 1 \in 1 .. n - 1
    BY <1>0
  <2>4. ~ (n > 1 /\ dir[n - 1].id = dir[n].id)
    BY <1>9, <1>13, <2>1, <2>2, <2>3
  <2> QED
    BY <1>1, <1>13, <2>1, <2>2, <2>4 DEF BusyAsked
<1> QED
  BY <1>2, <1>5, <1>6, <1>7, <1>8, <1>10, <1>11, <1>12, <1>13 DEF IInv, BusyAsked

\* An entry that is kept does not move up, and one at number i or behind it is preceded
\* by one that ends up at i or below.
LEMMA KeptBelow ==
  ASSUME NEW d, NEW K \in SUBSET Nat, 0 \notin K, NEW r, NEW e, Selects(d, K, r, e),
         NEW m \in Nat, DOMAIN r = 1 .. m, NEW i \in Nat \ {0},
         NEW j \in 1 .. m, e[j] >= i
  PROVE  \E k \in 1 .. j : e[k] >= i /\ k <= i
<1>1. \A k \in 1 .. m : e[k] \in Nat /\ e[k] >= 1
  <2> SUFFICES ASSUME NEW k \in 1 .. m PROVE e[k] \in Nat /\ e[k] >= 1
    OBVIOUS
  <2>1. e[k] \in K
    BY DEF Selects
  <2>2. e[k] \in Nat /\ e[k] # 0
    BY <2>1
  <2> QED
    BY <2>2
<1>2. \A k, l \in 1 .. m : k < l => e[k] < e[l]
  BY DEF Selects
<1> DEFINE G == {k \in Nat : k \in 1 .. m => k <= e[k]}
           H == {k \in Nat : k \in 1 .. m /\ e[k] >= i => \E l \in 1 .. k : e[l] >= i /\ l <= i}
<1>3. \A k \in 1 .. m : k <= e[k]
  <2>1. 0 \in G
    OBVIOUS
  <2>2. ASSUME NEW k \in Nat, k \in G PROVE k + 1 \in G
    <3> SUFFICES ASSUME k + 1 \in 1 .. m PROVE k + 1 <= e[k + 1]
      OBVIOUS
    <3>1. CASE k = 0
      BY <1>1, <3>1
    <3>2. CASE k # 0
      <4>1. k \in 1 .. m /\ k < k + 1
        BY <3>2
      <4>2. k <= e[k] /\ e[k] < e[k + 1] /\ e[k] \in Nat /\ e[k + 1] \in Nat
        BY <1>1, <1>2, <2>2, <4>1
      <4> QED
        BY <4>2
    <3> QED
      BY <3>1, <3>2
  <2>3. Nat \subseteq G
    <3> HIDE DEF G
    <3> QED
      BY <2>1, <2>2, NatSet
  <2> QED
    BY <2>3
<1>4. 0 \in H
  OBVIOUS
<1>5. ASSUME NEW k \in Nat, k \in H PROVE k + 1 \in H
  <2> SUFFICES ASSUME k + 1 \in 1 .. m, e[k + 1] >= i
               PROVE  \E l \in 1 .. k + 1 : e[l] >= i /\ l <= i
    OBVIOUS
  <2>1. CASE k = 0
    BY <2>1
  <2>2. CASE k # 0 /\ e[k] >= i
    <3>1. k \in 1 .. m
      BY <2>2
    <3>2. PICK l \in 1 .. k : e[l] >= i /\ l <= i
      BY <1>5, <2>2, <3>1
    <3> QED
      BY <3>2
  <2>3. CASE k # 0 /\ ~(e[k] >= i)
    <3>1. k \in 1 .. m
      BY <2>3
    <3>2. k <= e[k] /\ e[k] \in Nat
      BY <1>1, <1>3, <3>1
    <3>3. k + 1 <= i
      BY <2>3, <3>2
    <3> QED
      BY <3>3
  <2> QED
    BY <2>1, <2>2, <2>3
<1>6. j \in H
  <2> HIDE DEF H
  <2>1. j \in Nat
    OBVIOUS
  <2> QED
    BY <1>4, <1>5, <2>1, NatSet
<1> QED
  BY <1>6

\* delete_range writes the file anew.
LEMMA RewriteKeeps ==
  ASSUME IInv, NEW K \in SUBSET DOMAIN dir, Rewrite(K)
  PROVE  IInv' /\ BusyAsked' /\ Ids(dir') \subseteq Ids(dir) /\ Ids(dir) \ Ids(dir') \subseteq asked'
<1> DEFINE n == Len(dir)
<1>0. /\ dir \in Seq(Header) /\ n \in Nat /\ DOMAIN dir = 1 .. n
      /\ \A j \in 1 .. n : dir[j] \in Header /\ dir[j].id \in Arts
  BY DirFacts DEF IInv, TypeInv
<1>1. /\ busy = {} /\ dir' = Kept(dir, K)
      /\ asked' = asked \cup {dir[i].id : i \in DOMAIN dir \ K}
      /\ UNCHANGED <<busy, post, held, marks, died>>
  BY DEF Rewrite, Free
<1>2. dir' \in Seq(Header)
  BY <1>0, <1>1, KeptSelects
<1>3. PICK e : Selects(dir, K, dir', e)
  BY <1>0, <1>1, KeptSelects
<1> DEFINE m == Len(dir')
<1>4. m \in Nat /\ DOMAIN dir' = 1 .. m
  BY <1>2, DirFacts
<1> HIDE DEF n, m
<1>5. /\ \A j \in 1 .. m : e[j] \in K /\ e[j] \in 1 .. n /\ dir'[j] = dir[e[j]]
      /\ \A i, j \in 1 .. m : i < j => e[i] < e[j]
      /\ \A k \in K : \E j \in 1 .. m : e[j] = k
  BY <1>0, <1>3, <1>4 DEF Selects
<1>6. TypeInv'
  <2>1. asked' \in SUBSET Arts
    BY <1>0, <1>1 DEF IInv, TypeInv
  <2>2. BusyInv' /\ HeldInv'
    BY <1>1 DEF IInv, TypeInv, BusyInv, HeldInv
  <2> QED
    BY <1>1, <1>2, <2>1, <2>2 DEF IInv, TypeInv
<1>7. NamesInv'
  BY <1>1 DEF IInv, NamesInv
<1>8. PostedInv'
  <2>1. \A j \in 1 .. m : Posted(dir'[j])
    BY <1>0, <1>5 DEF IInv, PostedInv
  <2>2. \A a \in asked' : post[a].pc = "posted"
    BY <1>0, <1>1 DEF IInv, PostedInv, Posted
  <2> QED
    BY <1>1, <1>4, <2>1, <2>2 DEF IInv, PostedInv, Posted
<1>9. DoublesInv'
  <2> SUFFICES ASSUME NEW i \in 1 .. m, NEW j \in 1 .. m, i < j, dir'[i].id = dir'[j].id
               PROVE  died' /\ \A k \in i .. j : dir'[k].id = dir'[i].id
    BY <1>4 DEF DoublesInv
  <2>1. e[i] < e[j] /\ e[i] \in 1 .. n /\ e[j] \in 1 .. n /\ dir[e[i]].id = dir[e[j]].id
    BY <1>5
  <2>2. died /\ \A k \in e[i] .. e[j] : dir[k].id = dir[e[i]].id
    BY <1>0, <1>1, <2>1 DEF IInv, DoublesInv
  <2>3. ASSUME NEW k \in i .. j PROVE dir'[k].id = dir'[i].id
    <3>1. k \in 1 .. m /\ (k = i \/ i < k) /\ (k = j \/ k < j)
      BY <1>4
    <3>2. e[k] \in e[i] .. e[j]
      BY <1>5, <2>1, <3>1
    <3> QED
      BY <1>5, <2>2, <3>1, <3>2
  <2> QED
    BY <1>1, <2>2, <2>3
<1>10. /\ \A a : a \in Ids(dir') <=> \E j \in 1 .. m : a = dir'[j].id
       /\ \A a : a \in Ids(dir) <=> \E j \in 1 .. n : a = dir[j].id
  BY <1>0, <1>4 DEF Ids
<1>11. Ids(dir') \subseteq Ids(dir)
  BY <1>5, <1>10
<1>12. Ids(dir) \ Ids(dir') \subseteq asked'
  <2> SUFFICES ASSUME NEW a \in Ids(dir), a \notin Ids(dir') PROVE a \in asked'
    OBVIOUS
  <2>1. PICK i \in 1 .. n : a = dir[i].id
    BY <1>10
  <2>2. i \notin K
    BY <1>5, <1>10, <2>1
  <2> QED
    BY <1>0, <1>1, <2>1, <2>2
<1>13. BelowInv'
  <2> SUFFICES ASSUME NEW s \in Sessions, NEW h \in held[s], h.hdr.id \in Ids(dir')
               PROVE  \E k \in 1 .. m : k <= h.ent /\ dir'[k].id = h.hdr.id
    BY <1>1, <1>4 DEF BelowInv, Below
  <2>0. h.ent \in Nat
    BY DEF IInv, TypeInv, HeldInv, Held
  <2>1. PICK i \in 1 .. n : i <= h.ent /\ dir[i].id = h.hdr.id
    BY <1>0, <1>11 DEF IInv, BelowInv, Below
  <2>2. PICK j \in 1 .. m : dir'[j].id = h.hdr.id
    BY <1>10
  <2>3. K \in SUBSET Nat /\ 0 \notin K /\ i \in Nat \ {0}
    BY <1>0
  <2>4. CASE e[j] >= i
    <3>1. PICK k \in 1 .. j : e[k] >= i /\ k <= i
      BY <1>3, <1>4, <2>3, <2>4, KeptBelow
    <3>2. k \in 1 .. m /\ (k = j \/ k < j) /\ k <= h.ent
      BY <1>4, <2>0, <2>1, <3>1
    <3>3. e[k] \in i .. e[j] /\ e[k] \in 1 .. n /\ e[j] \in 1 .. n
      BY <1>5, <3>1, <3>2
    <3>4. dir[e[j]].id = h.hdr.id
      BY <1>5, <2>2
    <3>5. dir[e[k]].id = h.hdr.id
      <4>1. CASE i = e[j]
        <5>1. e[k] = i
          BY <3>3, <4>1
        <5> QED
          BY <2>1, <5>1
      <4>2. CASE i # e[j]
        <5>1. i < e[j]
          BY <2>4, <3>3, <4>2
        <5> QED
          BY <1>0, <2>1, <3>3, <3>4, <5>1 DEF IInv, DoublesInv
      <4> QED
        BY <4>1, <4>2
    <3> QED
      BY <1>5, <3>2, <3>5
  <2>5. CASE ~(e[j] >= i)
    <3>1. e[j] >= e[j] /\ e[j] \in Nat \ {0} /\ e[j] < i
      BY <1>5, <2>5
    <3>2. PICK k \in 1 .. j : e[k] >= e[j] /\ k <= e[j]
      BY <1>3, <1>4, <2>3, <3>1, KeptBelow
    <3>3. k = j
      <4>1. k \in 1 .. m /\ (k = j \/ k < j) /\ e[k] \in Nat
        BY <1>4, <1>5
      <4> QED
        BY <1>5, <3>1, <3>2, <4>1
    <3>4. j <= h.ent
      BY <2>0, <2>1, <3>1, <3>2, <3>3
    <3> QED
      BY <2>2, <3>4
  <2> QED
    BY <2>4, <2>5
<1>14. MarksKept'
  <2> SUFFICES ASSUME ~died, NEW j \in 1 .. m PROVE dir'[j].flags = marks[dir'[j].id]
    BY <1>1, <1>4 DEF MarksKept
  <2> QED
    BY <1>0, <1>5 DEF IInv, MarksKept
<1> QED
  BY <1>1, <1>6, <1>7, <1>8, <1>9, <1>11, <1>12, <1>13, <1>14 DEF IInv, BusyAsked

-----------------------------------------------------------------------------
(* The invariant holds *)

LEMMA InitHolds ==
  ASSUME Init
  PROVE  IInv /\ BusyAsked
<1>1. DOMAIN dir = {} /\ dir \in Seq(Header) /\ \A s \in Sessions : held[s] = {}
  BY DEF Init
<1>2. TypeInv
  BY <1>1 DEF Init, TypeInv, BusyInv, HeldInv, PostRec
<1> QED
  BY <1>1, <1>2 DEF Init, IInv, NamesInv, PostedInv, DoublesInv, BelowInv, MarksKept, BusyAsked

\* What is held is a header with its name, and an entry number.
LEMMA HeldFacts ==
  ASSUME IInv, NEW s \in Sessions, NEW h \in held[s]
  PROVE  /\ h.ent \in Nat \ {0} /\ h.hdr \in Header /\ h.hdr.id \in Arts /\ h.hdr.time \in Nat
         /\ Posted(h.hdr) /\ Below(h)
<1>1. h \in Held /\ h.hdr \in Header
  BY DEF IInv, TypeInv, HeldInv, Held
<1> QED
  BY <1>1 DEF IInv, PostedInv, BelowInv, Held, Header

\* Taking an entry as it stands.
LEMMA EntryIsBelow ==
  ASSUME IInv, NEW i \in DOMAIN dir
  PROVE  LET h == [ent |-> i, hdr |-> dir[i]]
         IN  h \in Held /\ Posted(h.hdr) /\ Below(h)
<1>1. dir[i] \in Header /\ i \in Nat \ {0} /\ i <= i
  BY DirFacts DEF IInv, TypeInv
<1>2. Posted(dir[i])
  BY DEF IInv, PostedInv
<1> QED
  BY <1>1, <1>2 DEF Held, Below

\* One session's hold is replaced by at most one thing.
LEMMA HoldOne ==
  ASSUME HeldInv, NEW s \in Sessions, NEW H \in SUBSET Held, \A g, h \in H : g = h,
         held' = [held EXCEPT ![s] = H]
  PROVE  /\ HeldInv'
         /\ \A t \in Sessions : \A h \in held'[t] : h \in held[t] \/ h \in H
<1>1. /\ held' \in [Sessions -> SUBSET Held]
      /\ held'[s] = H /\ \A t \in Sessions : t # s => held'[t] = held[t]
  BY DEF HeldInv
<1> QED
  BY <1>1 DEF HeldInv

LEMMA ReadKeeps ==
  ASSUME IInv, NEW s \in Sessions, NEW i \in DOMAIN dir,
         held' = [held EXCEPT ![s] = {[ent |-> i, hdr |-> dir[i]]}],
         UNCHANGED <<dir, busy, post, asked, marks, died>>
  PROVE  IInv'
<1> DEFINE h == [ent |-> i, hdr |-> dir[i]]
<1>1. h \in Held /\ Posted(h.hdr) /\ Below(h)
  BY EntryIsBelow
<1> HIDE DEF h
<1>2. held' = [held EXCEPT ![s] = {h}] /\ {h} \in SUBSET Held
  BY <1>1 DEF h
<1>3. HeldInv' /\ \A t \in Sessions : \A g \in held'[t] : g \in held[t] \/ g \in {h}
  BY <1>2, HoldOne DEF IInv, TypeInv
<1>4. \A t \in Sessions : \A g \in held'[t] : g \in held[t] \/ (Posted(g.hdr) /\ Below(g))
  BY <1>1, <1>3
<1>5. BusyInv' /\ asked' \in SUBSET Arts /\ died' \in BOOLEAN /\ \A a \in asked' : post[a].pc = "posted"
  BY DEF IInv, TypeInv, BusyInv, PostedInv
<1> QED
  BY <1>3, <1>4, <1>5, SameDir

\* A deletion begins; nobody has moved anything yet.
LEMMA DeleteKeeps ==
  ASSUME IInv, Free, NEW s \in Sessions, NEW h \in held[s],
         NEW i \in DOMAIN dir, busy' = {[at |-> i]},
         asked' = asked \cup {h.hdr.id}, held' = [held EXCEPT ![s] = {}],
         UNCHANGED <<dir, post, marks, died>>
  PROVE  IInv'
<1>1. h.hdr.id \in Arts /\ Posted(h.hdr)
  BY HeldFacts
<1>2. HeldInv' /\ \A t \in Sessions : \A g \in held'[t] : g \in held[t] \/ g \in {}
  <2>1. {} \in SUBSET Held /\ \A g, k \in {} : g = k
    OBVIOUS
  <2>2. HeldInv
    BY DEF IInv, TypeInv
  <2> QED
    BY <2>1, <2>2, HoldOne
<1>3. BusyInv'
  BY DEF IInv, TypeInv, BusyInv
<1>4. asked' \in SUBSET Arts /\ died' \in BOOLEAN /\ \A a \in asked' : post[a].pc = "posted"
  BY <1>1 DEF IInv, TypeInv, PostedInv, Posted
<1>5. \A t \in Sessions : \A g \in held'[t] : g \in held[t] \/ (Posted(g.hdr) /\ Below(g))
  BY <1>2
<1> QED
  BY <1>2, <1>3, <1>4, <1>5, SameDir DEF Free

LEMMA PostingKeeps ==
  ASSUME IInv, NEW a \in Arts, StartPost(a) \/ AbortPost(a) \/ LinkPost(a) \/ StartWebPost(a)
  PROVE  IInv'
<1>1. CASE StartPost(a) \/ LinkPost(a) \/ StartWebPost(a)
  <2>1. PICK p \in {"editing", "named"}, t \in 1 .. MaxNow + Cardinality(Arts) :
          FreeName(t) /\ post' = [post EXCEPT ![a] = [pc |-> p, name |-> t]]
    BY <1>1 DEF StartPost, LinkPost, StartWebPost
  <2>2. t \in Nat
    BY BoardAssumption
  <2> DEFINE q == [pc |-> p, name |-> t]
  <2>3. q \in PostRec /\ q.pc # "posted" /\ FreeName(q.name)
    BY <2>1, <2>2 DEF PostRec
  <2>4. post[a].pc # "posted" /\ UNCHANGED <<dir, busy, held, asked, marks, died>>
    BY <1>1 DEF StartPost, LinkPost, StartWebPost
  <2> HIDE DEF q
  <2>5. post' = [post EXCEPT ![a] = q]
    BY <2>1 DEF q
  <2> QED
    BY <2>3, <2>4, <2>5, PostStep
<1>2. CASE AbortPost(a)
  <2> DEFINE q == [pc |-> "none", name |-> 0]
  <2>1. q \in PostRec /\ q.pc = "none"
    BY DEF PostRec
  <2>2. post[a].pc # "posted" /\ UNCHANGED <<dir, busy, held, asked, marks, died>>
    BY <1>2 DEF AbortPost
  <2>3. post' = [post EXCEPT ![a] = q]
    BY <1>2 DEF AbortPost
  <2> HIDE DEF q
  <2> QED
    BY <2>1, <2>2, <2>3, PostStep
<1> QED
  BY <1>1, <1>2

LEMMA MarkKeeps ==
  ASSUME IInv, NEW s \in Sessions, NEW f \in Flags, Mark(s, f)
  PROVE  IInv' /\ Ids(dir') = Ids(dir)
<1>0. PICK h \in held[s] : \E i \in ChangePos(dir, h.hdr.time, h.ent) :
        LET x == [dir[i] EXCEPT !.flags = Switch(@, f)] IN
        /\ dir' = [dir EXCEPT ![i] = x]
        /\ held' = [held EXCEPT ![s] = {[ent |-> h.ent, hdr |-> x]}]
        /\ marks' = [marks EXCEPT ![h.hdr.id] = Switch(@, f)]
  BY DEF Mark
<1>1. PICK i \in ChangePos(dir, h.hdr.time, h.ent) :
        LET x == [dir[i] EXCEPT !.flags = Switch(@, f)] IN
        /\ dir' = [dir EXCEPT ![i] = x]
        /\ held' = [held EXCEPT ![s] = {[ent |-> h.ent, hdr |-> x]}]
        /\ marks' = [marks EXCEPT ![h.hdr.id] = Switch(@, f)]
  BY <1>0
<1> DEFINE x == [dir[i] EXCEPT !.flags = Switch(@, f)]
           F == Switch(marks[h.hdr.id], f)
           H == {[ent |-> h.ent, hdr |-> x]}
<1>2. dir \in Seq(Header) /\ marks \in [Arts -> SUBSET Flags]
  BY DEF IInv, TypeInv
<1>3. h.ent \in Nat \ {0} /\ h.hdr \in Header /\ h.hdr.id \in Arts /\ h.hdr.time \in Nat /\ Posted(h.hdr)
  BY HeldFacts
<1>4. i \in DOMAIN dir /\ dir[i].time = h.hdr.time
  BY <1>2, <1>3, FoundByName
<1>5. dir[i] \in Header /\ Posted(dir[i])
  BY <1>2, <1>4, DirFacts DEF IInv, PostedInv
<1>6. dir[i].id = h.hdr.id
  BY <1>3, <1>4, <1>5, OneName DEF IInv
<1>7. \A G \in SUBSET Flags : Switch(G, f) \in SUBSET Flags
  BY DEF Switch
<1>8. x \in Header /\ x.id = dir[i].id /\ x.time = dir[i].time /\ x.flags = Switch(dir[i].flags, f)
  BY <1>5, <1>7 DEF Header
<1>9. F \in SUBSET Flags /\ (~died => F = x.flags)
  BY <1>2, <1>3, <1>4, <1>6, <1>7, <1>8 DEF IInv, MarksKept
<1>10. marks' = [marks EXCEPT ![h.hdr.id] = F]
  BY <1>1
<1>11. Free /\ UNCHANGED <<busy, post, asked, died>>
  BY DEF Mark
<1>12. dir' = [dir EXCEPT ![i] = x] /\ held' = [held EXCEPT ![s] = H]
  BY <1>1
<1>13. H = {[ent |-> h.ent, hdr |-> x]}
  OBVIOUS
<1> HIDE DEF x, F, H
<1> QED
  BY <1>4, <1>8, <1>9, <1>10, <1>11, <1>12, <1>13, ChangeKeeps

LEMMA WebEditKeeps ==
  ASSUME IInv, NEW s \in Sessions, WebEdit(s)
  PROVE  IInv' /\ Ids(dir') = Ids(dir)
<1>0. PICK h \in held[s] : \E i \in ChangePos(dir, h.hdr.time, h.ent) :
        /\ dir' = [dir EXCEPT ![i] = h.hdr]
        /\ held' = [held EXCEPT ![s] = {}]
        /\ marks' = [marks EXCEPT ![h.hdr.id] = h.hdr.flags]
  BY DEF WebEdit
<1>1. PICK i \in ChangePos(dir, h.hdr.time, h.ent) :
        /\ dir' = [dir EXCEPT ![i] = h.hdr]
        /\ held' = [held EXCEPT ![s] = {}]
        /\ marks' = [marks EXCEPT ![h.hdr.id] = h.hdr.flags]
  BY <1>0
<1>2. dir \in Seq(Header)
  BY DEF IInv, TypeInv
<1>3. h.ent \in Nat \ {0} /\ h.hdr \in Header /\ h.hdr.id \in Arts /\ h.hdr.time \in Nat /\ Posted(h.hdr)
  BY HeldFacts
<1>4. i \in DOMAIN dir /\ dir[i].time = h.hdr.time
  BY <1>2, <1>3, FoundByName
<1>5. dir[i] \in Header /\ Posted(dir[i])
  BY <1>2, <1>4, DirFacts DEF IInv, PostedInv
<1>6. dir[i].id = h.hdr.id
  BY <1>3, <1>4, <1>5, OneName DEF IInv
<1>7. h.hdr.flags \in SUBSET Flags
  BY <1>3 DEF Header
<1>8. Free /\ UNCHANGED <<busy, post, asked, died>>
  BY DEF WebEdit
<1> QED
  BY <1>1, <1>3, <1>4, <1>6, <1>7, <1>8, ChangeKeeps

LEMMA StepKeeps ==
  ASSUME IInv, [Next]_vars
  PROVE  IInv'
<1>1. CASE UNCHANGED vars
  BY <1>1 DEF vars, IInv, TypeInv, BusyInv, HeldInv, NamesInv, PostedInv, Posted, DoublesInv,
              BelowInv, Below, MarksKept, Ids
<1>2. ASSUME NEW a \in Arts, StartPost(a) \/ AbortPost(a) \/ LinkPost(a) \/ StartWebPost(a)
      PROVE  IInv'
  BY <1>2, PostingKeeps
<1>3. ASSUME NEW a \in Arts, AppendPost(a) PROVE IInv'
  BY <1>3, AppendKeeps
<1>4. ASSUME NEW s \in Staff, ReadPage(s) PROVE IInv'
  <2>1. s \in Sessions
    BY DEF Sessions
  <2> QED
    BY <1>4, <2>1, ReadKeeps DEF ReadPage
<1>5. ASSUME NEW s \in Webs, WebLookup(s) PROVE IInv'
  <2>1. PICK i \in SearchBin(dir, post[s].name, Len(dir)) :
          held' = [held EXCEPT ![s] = {[ent |-> i, hdr |-> dir[i]]}]
    BY <1>5 DEF WebLookup
  <2>2. s \in Sessions /\ dir \in Seq(Header)
    BY DEF Sessions, IInv, TypeInv
  <2>3. i \in DOMAIN dir
    BY <2>2, DirFacts DEF SearchBin
  <2> QED
    BY <1>5, <2>1, <2>2, <2>3, ReadKeeps DEF WebLookup
<1>6. ASSUME NEW s \in Staff, NEW f \in Switched, Mark(s, f) PROVE IInv'
  <2>1. s \in Sessions /\ f \in Flags
    BY BoardAssumption DEF Sessions
  <2> QED
    BY <1>6, <2>1, MarkKeeps
<1>7. ASSUME NEW s \in Webs, WebEdit(s) PROVE IInv'
  <2>1. s \in Sessions
    BY DEF Sessions
  <2> QED
    BY <1>7, <2>1, WebEditKeeps
<1>8. ASSUME NEW s \in Staff, DelStart(s) PROVE IInv'
  <2>1. PICK h \in held[s] : /\ \E i \in DelEntries(h) : busy' = {[at |-> i]}
                             /\ asked' = asked \cup {h.hdr.id}
    BY <1>8 DEF DelStart
  <2>2. PICK i \in DelEntries(h) : busy' = {[at |-> i]}
    BY <2>1
  <2>3. s \in Sessions /\ dir \in Seq(Header)
    BY DEF Sessions, IInv, TypeInv
  <2>4. h.ent \in Nat \ {0} /\ h.hdr.time \in Nat
    BY <2>3, HeldFacts
  <2>5. i \in DOMAIN dir
    BY <2>3, <2>4, FoundByName DEF DelEntries
  <2> QED
    BY <1>8, <2>1, <2>2, <2>3, <2>5, DeleteKeeps DEF DelStart
<1>9. ASSUME NEW s \in Webs, WebDelStart(s) PROVE IInv'
  <2>1. PICK h \in held[s] : /\ h.ent \in DOMAIN dir /\ busy' = {[at |-> h.ent]}
                             /\ asked' = asked \cup {h.hdr.id}
    BY <1>9 DEF WebDelStart
  <2>2. s \in Sessions
    BY DEF Sessions
  <2> QED
    BY <1>9, <2>1, <2>2, DeleteKeeps DEF WebDelStart
<1>10. ASSUME DelShift PROVE IInv'
  BY <1>10, ShiftKeeps
<1>11. ASSUME DelTruncate PROVE IInv'
  BY <1>11, TruncateKeeps
<1>12. ASSUME Die PROVE IInv'
  <2>1. /\ BusyInv' /\ HeldInv' /\ asked' \in SUBSET Arts /\ died' \in BOOLEAN
        /\ \A a \in asked' : post[a].pc = "posted"
    BY <1>12 DEF Die, IInv, TypeInv, BusyInv, HeldInv, PostedInv
  <2>2. died' /\ UNCHANGED <<dir, post, marks>> /\ \A s \in Sessions : \A h \in held'[s] : h \in held[s]
    BY <1>12 DEF Die
  <2> QED
    BY <2>1, <2>2, SameDir
<1>13. ASSUME NEW i, NEW j, DelRange(i, j) PROVE IInv'
  <2>1. RangeStays(i, j) \in SUBSET DOMAIN dir
    BY DEF RangeStays
  <2> QED
    BY <1>13, <2>1, RewriteKeeps DEF DelRange
<1>14. ASSUME DelMarked PROVE IInv'
  <2>1. {k \in DOMAIN dir : Stays(dir[k])} \in SUBSET DOMAIN dir
    OBVIOUS
  <2> QED
    BY <1>14, <2>1, RewriteKeeps DEF DelMarked
<1> QED
  BY <1>1, <1>2, <1>3, <1>4, <1>5, <1>6, <1>7, <1>8, <1>9, <1>10, <1>11, <1>12, <1>13, <1>14
  DEF Next, NextByName, Posting, Deleting, StaffStep

LEMMA Invariant == Spec => []IInv
<1>1. Init => IInv
  BY InitHolds
<1>2. IInv /\ [Next]_vars => IInv'
  BY StepKeeps
<1> QED
  BY <1>1, <1>2, PTL DEF Spec

\* Every component keeps its type; no session holds more than one entry, and at most
\* one deletion is under way.
THEOREM TypeCorrect == Spec => []TypeOK
<1>1. IInv => TypeOK
  <2> SUFFICES ASSUME IInv PROVE TypeOK
    OBVIOUS
  <2>1. ASSUME NEW S, \A x, y \in S : x = y PROVE Cardinality(S) <= 1
    <3>1. CASE S = {}
      BY <3>1, FS_EmptySet
    <3>2. CASE S # {}
      <4>1. PICK x \in S : S = {x}
        BY <2>1, <3>2
      <4>2. Cardinality({x}) = 1
        BY FS_Singleton
      <4> QED
        BY <4>1, <4>2
    <3> QED
      BY <3>1, <3>2
  <2>2. busy \in SUBSET [at : DOMAIN dir] /\ \A x, y \in busy : x = y
    BY DEF IInv, TypeInv, BusyInv
  <2>3. held \in [Sessions -> SUBSET Held] /\ \A s \in Sessions : Cardinality(held[s]) <= 1
    BY <2>1 DEF IInv, TypeInv, HeldInv
  <2>4. Cardinality(busy) <= 1
    BY <2>1, <2>2
  <2> QED
    BY <2>2, <2>3, <2>4 DEF IInv, TypeInv, PostRec, TypeOK
<1> QED
  BY <1>1, Invariant, PTL

\* An article is listed twice only while records are moved or after a death, and then
\* in neighbouring entries.
THEOREM DoublesCorrect == Spec => []DoublesAreNeighbours
<1>1. IInv => DoublesAreNeighbours
  <2> SUFFICES ASSUME IInv, NEW i \in DOMAIN dir, NEW j \in DOMAIN dir, i < j, dir[i].id = dir[j].id
               PROVE  (busy # {} \/ died) /\ \A k \in i .. j : dir[k].id = dir[i].id
    BY DEF DoublesAreNeighbours
  <2> QED
    BY DEF IInv, DoublesInv
<1> QED
  BY <1>1, Invariant, PTL

\* Until an entry has been doubled by a death, an article has the flags last written for
\* it, whatever entry number its writer had in mind.
THEOREM MarksCorrect == Spec => []MarksKept
<1>1. IInv => MarksKept
  BY DEF IInv
<1> QED
  BY <1>1, Invariant, PTL

-----------------------------------------------------------------------------
(* What is held is reached *)

\* A set of numbers up to n has a last one.
LEMMA LastOne ==
  ASSUME NEW n \in Nat, NEW S \in SUBSET (1 .. n), S # {}
  PROVE  \E x \in S : \A y \in S : y <= x
<1> DEFINE Part(k) == {x \in S : x <= k}
           G == {k \in Nat : Part(k) # {} => \E x \in Part(k) : \A y \in Part(k) : y <= x}
<1>0. \A x \in S : x \in Nat /\ x >= 1 /\ x <= n
  OBVIOUS
<1>1. 0 \in G
  <2>1. \A x \in S : ~(x <= 0)
    BY <1>0
  <2> QED
    BY <2>1
<1>2. ASSUME NEW k \in Nat, k \in G PROVE k + 1 \in G
  <2>1. CASE k + 1 \in S
    BY <2>1
  <2>2. CASE k + 1 \notin S
    <3>1. \A x \in S : x <= k + 1 <=> x <= k
      BY <2>2
    <3>2. Part(k + 1) = Part(k)
      BY <3>1
    <3> HIDE DEF Part
    <3> QED
      BY <1>2, <3>2
  <2> QED
    BY <2>1, <2>2
<1>3. n \in G
  <2> HIDE DEF G
  <2> QED
    BY <1>1, <1>2, NatSet
<1>4. Part(n) = S
  BY <1>0
<1> QED
  BY <1>3, <1>4

LEMMA DeletionFinds ==
  ASSUME NEW d \in Seq(Header), NEW key, NEW ent \in Nat,
         NEW i \in DOMAIN d, i <= ent, d[i].time = key
  PROVE  DeletePos(d, key, ent) # {} /\ LastBefore(d, key, ent) # {}
<1> DEFINE n == Len(d)
           pos == Shorter(ent, n)
           S == {m \in 1 .. n : m <= ent /\ d[m].time = key}
<1>1. n \in Nat /\ DOMAIN d = 1 .. n
  BY DirFacts
<1>2. PICK x \in S : \A y \in S : y <= x
  <2>1. S \in SUBSET (1 .. n) /\ S # {}
    BY <1>1
  <2> HIDE DEF S
  <2> QED
    BY <1>1, <2>1, LastOne
<1>3. x \in LastBefore(d, key, ent)
  BY <1>1, <1>2 DEF LastBefore
<1>4. pos # 0
  BY <1>1 DEF Shorter
<1>5. CASE d[pos].time = key
  BY <1>3, <1>4, <1>5 DEF DeletePos
<1>6. CASE d[pos].time # key
  BY <1>3, <1>4, <1>6 DEF DeletePos
<1> QED
  BY <1>3, <1>5, <1>6

LEMMA ChangeFinds ==
  ASSUME NEW d \in Seq(Header), Sorted(d), NEW key \in Nat, NEW ent \in Nat,
         NEW i \in DOMAIN d, i <= ent, d[i].time = key
  PROVE  ChangePos(d, key, ent) # {}
<1> DEFINE n == IF ent \in DOMAIN d THEN ent ELSE Len(d)
<1>1. Len(d) \in Nat /\ DOMAIN d = 1 .. Len(d)
  BY DirFacts
<1>2. n \in 0 .. Len(d) /\ i \in 1 .. n
  BY <1>1
<1> HIDE DEF n
<1>3. Times(d, n)
  <2>1. \A m \in 1 .. n : m \in DOMAIN d
    BY <1>1, <1>2
  <2> QED
    BY <2>1, DirFacts DEF Times
<1>4. \A k, l \in 1 .. n : k < l => d[k].time <= d[l].time
  <2>1. \A m \in 1 .. n : m \in DOMAIN d
    BY <1>1, <1>2
  <2> QED
    BY <2>1 DEF Sorted
<1>5. SearchBin(d, key, n) # {}
  BY <1>2, <1>3, <1>4, SearchFinds DEF InOrder
<1> QED
  BY <1>5 DEF ChangePos, n

\* A deletion always reaches a listed article by the name a session holds, and a change
\* does so in a file that is in order, however entries have moved in between.
THEOREM HeldCorrect == Spec => []HeldIsReached
<1>1. IInv => HeldIsReached
  <2> SUFFICES ASSUME IInv, NEW s \in Sessions, NEW h \in held[s], h.hdr.id \in Ids(dir)
               PROVE  /\ DeletePos(dir, h.hdr.time, h.ent) # {}
                      /\ Sorted(dir) => ChangePos(dir, h.hdr.time, h.ent) # {}
    BY DEF HeldIsReached
  <2>1. h.ent \in Nat /\ h.hdr.time \in Nat /\ Posted(h.hdr) /\ Below(h)
    BY HeldFacts
  <2>2. PICK i \in DOMAIN dir : i <= h.ent /\ dir[i].id = h.hdr.id
    BY <2>1 DEF Below
  <2>3. dir \in Seq(Header) /\ Posted(dir[i])
    BY DEF IInv, TypeInv, PostedInv
  <2>4. dir[i].time = h.hdr.time
    BY <2>1, <2>2, <2>3 DEF Posted
  <2> QED
    BY <2>1, <2>2, <2>3, <2>4, DeletionFinds, ChangeFinds
<1> QED
  BY <1>1, Invariant, PTL

-----------------------------------------------------------------------------
(* The directory implements Articles *)

LEMMA MapsDelete ==
  ASSUME asked' \in SUBSET Arts, asked \subseteq asked',
         Ids(dir') \subseteq Ids(dir), Ids(dir) \ Ids(dir') \subseteq asked'
  PROVE  List!Next
<1>1. List!Delete
  BY DEF List!Delete, Ids
<1> QED
  BY <1>1 DEF List!Next

LEMMA StartMaps ==
  ASSUME IInv, NEW s \in Sessions, DelStart(s)
  PROVE  BusyAsked' /\ List!Next
<1>1. PICK h \in held[s] : /\ \E i \in DelEntries(h) : busy' = {[at |-> i]}
                           /\ asked' = asked \cup {h.hdr.id}
  BY DEF DelStart
<1>2. PICK i \in DelEntries(h) : busy' = {[at |-> i]}
  BY <1>1
<1>3. dir \in Seq(Header) /\ asked \in SUBSET Arts /\ dir' = dir
  BY DEF IInv, TypeInv, DelStart
<1>4. h.ent \in Nat \ {0} /\ h.hdr \in Header /\ h.hdr.id \in Arts /\ h.hdr.time \in Nat /\ Posted(h.hdr)
  BY HeldFacts
<1>5. i \in DOMAIN dir /\ dir[i].time = h.hdr.time
  BY <1>3, <1>4, FoundByName DEF DelEntries
<1>6. dir[i] \in Header /\ Posted(dir[i])
  BY <1>3, <1>5, DirFacts DEF IInv, PostedInv
<1>7. dir[i].id = h.hdr.id
  BY <1>4, <1>5, <1>6, OneName DEF IInv
<1>8. BusyAsked'
  BY <1>1, <1>2, <1>3, <1>7 DEF BusyAsked
<1>9. asked' \in SUBSET Arts /\ asked \subseteq asked'
  BY <1>1, <1>3, <1>4
<1> QED
  BY <1>3, <1>8, <1>9, MapsDelete

LEMMA StepMaps ==
  ASSUME IInv, BusyAsked, [NextByName]_vars
  PROVE  BusyAsked' /\ [List!Next]_<<Ids(dir), asked>>
<1>0. asked \in SUBSET Arts
  BY DEF IInv, TypeInv
<1>1. ASSUME UNCHANGED <<dir, busy, asked>>
      PROVE  BusyAsked' /\ [List!Next]_<<Ids(dir), asked>>
  BY <1>1 DEF BusyAsked, Ids
<1>2. CASE UNCHANGED vars
  BY <1>1, <1>2 DEF vars
<1>3. ASSUME NEW a \in Arts, StartPost(a) \/ AbortPost(a) \/ LinkPost(a) \/ StartWebPost(a)
      PROVE  UNCHANGED <<dir, busy, asked>>
  BY <1>3 DEF StartPost, AbortPost, LinkPost, StartWebPost
<1>4. ASSUME NEW a \in Arts, AppendPost(a)
      PROVE  BusyAsked' /\ [List!Next]_<<Ids(dir), asked>>
  <2>1. a \notin Ids(dir) /\ a \notin asked /\ Ids(dir') = Ids(dir) \cup {a}
    BY <1>4, AppendKeeps
  <2>2. busy' = {} /\ asked' = asked
    BY <1>4 DEF AppendPost, Free
  <2>3. Ids(dir)' = Ids(dir')
    BY DEF Ids
  <2>4. List!Post(a)
    BY <2>1, <2>2, <2>3 DEF List!Post
  <2> QED
    BY <2>2, <2>4 DEF BusyAsked, List!Next
<1>5. ASSUME NEW s \in Sessions, ReadPage(s) \/ WebLookup(s)
      PROVE  UNCHANGED <<dir, busy, asked>>
  BY <1>5 DEF ReadPage, WebLookup
<1>6. ASSUME Ids(dir') = Ids(dir), asked' = asked, busy' = {}
      PROVE  BusyAsked' /\ [List!Next]_<<Ids(dir), asked>>
  BY <1>6 DEF BusyAsked, Ids
<1>7. ASSUME NEW s \in Staff, NEW f \in Switched, Mark(s, f)
      PROVE  BusyAsked' /\ [List!Next]_<<Ids(dir), asked>>
  <2>1. s \in Sessions /\ f \in Flags
    BY BoardAssumption DEF Sessions
  <2>2. asked' = asked /\ busy' = {}
    BY <1>7 DEF Mark, Free
  <2> QED
    BY <1>6, <1>7, <2>1, <2>2, MarkKeeps
<1>8. ASSUME NEW s \in Webs, WebEdit(s)
      PROVE  BusyAsked' /\ [List!Next]_<<Ids(dir), asked>>
  <2>1. s \in Sessions
    BY DEF Sessions
  <2>2. asked' = asked /\ busy' = {}
    BY <1>8 DEF WebEdit, Free
  <2> QED
    BY <1>6, <1>8, <2>1, <2>2, WebEditKeeps
<1>9. ASSUME NEW s \in Staff, DelStart(s)
      PROVE  BusyAsked' /\ [List!Next]_<<Ids(dir), asked>>
  BY <1>9, StartMaps DEF Sessions
<1>10. ASSUME DelShift PROVE BusyAsked' /\ [List!Next]_<<Ids(dir), asked>>
  <2>1. asked' = asked
    BY <1>10 DEF DelShift
  <2> QED
    BY <1>0, <1>10, <2>1, ShiftKeeps, MapsDelete
<1>11. ASSUME DelTruncate PROVE BusyAsked' /\ [List!Next]_<<Ids(dir), asked>>
  <2>1. asked' = asked
    BY <1>11 DEF DelTruncate
  <2> QED
    BY <1>0, <1>11, <2>1, TruncateKeeps, MapsDelete
<1>12. ASSUME Die PROVE BusyAsked' /\ [List!Next]_<<Ids(dir), asked>>
  BY <1>6, <1>12 DEF Die
<1>13. ASSUME NEW K \in SUBSET DOMAIN dir, Rewrite(K)
       PROVE  BusyAsked' /\ [List!Next]_<<Ids(dir), asked>>
  <2>1. IInv' /\ BusyAsked' /\ Ids(dir') \subseteq Ids(dir) /\ Ids(dir) \ Ids(dir') \subseteq asked'
    BY <1>13, RewriteKeeps
  <2>2. asked' \in SUBSET Arts /\ asked \subseteq asked'
    BY <1>13, <2>1 DEF IInv, TypeInv, Rewrite
  <2> QED
    BY <2>1, <2>2, MapsDelete
<1>14. ASSUME NEW i, NEW j, DelRange(i, j)
       PROVE  BusyAsked' /\ [List!Next]_<<Ids(dir), asked>>
  <2>1. RangeStays(i, j) \in SUBSET DOMAIN dir
    BY DEF RangeStays
  <2> QED
    BY <1>13, <1>14, <2>1 DEF DelRange
<1>15. ASSUME DelMarked PROVE BusyAsked' /\ [List!Next]_<<Ids(dir), asked>>
  <2>1. {k \in DOMAIN dir : Stays(dir[k])} \in SUBSET DOMAIN dir
    OBVIOUS
  <2> QED
    BY <1>13, <1>15, <2>1 DEF DelMarked
<1>16. CASE Posting
  BY <1>1, <1>3, <1>4, <1>16 DEF Posting
<1>17. CASE Deleting
  BY <1>10, <1>11, <1>12, <1>14, <1>15, <1>17 DEF Deleting
<1>18. ASSUME NEW s \in Staff, StaffStep(s)
       PROVE  BusyAsked' /\ [List!Next]_<<Ids(dir), asked>>
  BY <1>1, <1>5, <1>7, <1>9, <1>18 DEF StaffStep, Sessions
<1>19. ASSUME NEW s \in Webs, WebLookup(s) \/ WebEdit(s)
       PROVE  BusyAsked' /\ [List!Next]_<<Ids(dir), asked>>
  BY <1>1, <1>5, <1>8, <1>19 DEF Sessions
<1> QED
  BY <1>2, <1>16, <1>17, <1>18, <1>19 DEF NextByName

\* Where every deletion looks for the name of its article, nothing leaves the directory
\* that nobody has asked to delete, and nothing comes back.
THEOREM Refinement == ByNameSpec => ImplementsArticles
<1>1. Init => IInv /\ BusyAsked /\ List!Init
  <2>1. Init => List!Init
    BY DEF Init, List!Init, Ids
  <2> QED
    BY <2>1, InitHolds
<1>2. IInv /\ BusyAsked /\ [NextByName]_vars
        => IInv' /\ BusyAsked' /\ [List!Next]_<<Ids(dir), asked>>
  <2> SUFFICES ASSUME IInv, BusyAsked, [NextByName]_vars
               PROVE  IInv' /\ BusyAsked' /\ [List!Next]_<<Ids(dir), asked>>
    OBVIOUS
  <2>1. [Next]_vars
    BY DEF Next
  <2> QED
    BY <2>1, StepKeeps, StepMaps
<1> QED
  BY <1>1, <1>2, PTL DEF ByNameSpec, ImplementsArticles, List!Spec
=============================================================================
