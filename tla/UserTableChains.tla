-------------------------- MODULE UserTableChains --------------------------
(***************************************************************************)
(* Proofs about the chains of UserTable: they partition the slots, the     *)
(* count of empty slots is right, no userid is registered twice, and the   *)
(* table implements UserDir; with deaths and failed writes, a lookup under *)
(* the lock still finds one slot at most.  A chain is what can be reached  *)
(* from its head, the least closed set, so that what unlinking a node and  *)
(* pushing one do to it is proved from closed sets alone.                  *)
(***************************************************************************)
EXTENDS UserTableProofs

-----------------------------------------------------------------------------
(* One chain *)

ClosedIn(nx, S) == \A t \in S : nx[t] # 0 => nx[t] \in S
ReachIn(nx, i) == {s \in Slots : /\ i # 0
                                /\ \A S \in SUBSET Slots : i \in S /\ ClosedIn(nx, S) => s \in S}

\* Nothing but what is on the chain leads to a node of it, and at most one node does;
\* none leads to the head.
Line(nx, i) ==
  /\ \A t, u \in ReachIn(nx, i) : nx[t] # 0 /\ nx[t] = nx[u] => t = u
  /\ \A t \in ReachIn(nx, i) : nx[t] # i

Nexts == [Slots -> 0 .. MAXUSERS]

LEMMA SlotsFacts ==
  /\ Slots \subseteq Nat /\ 0 \notin Slots
  /\ \A i \in 0 .. MAXUSERS : i # 0 => i \in Slots
  /\ \A i \in Slots : i \in 0 .. MAXUSERS
BY ConstantsAssumption DEF Slots

LEMMA ReachFacts ==
  ASSUME NEW nx \in Nexts, NEW i \in 0 .. MAXUSERS
  PROVE  /\ ReachIn(nx, i) \in SUBSET Slots
         /\ i # 0 => i \in ReachIn(nx, i)
         /\ i = 0 => ReachIn(nx, i) = {}
         /\ ClosedIn(nx, ReachIn(nx, i))
<1>1. i # 0 => i \in ReachIn(nx, i)
  BY SlotsFacts DEF ReachIn
<1>2. ASSUME NEW t \in ReachIn(nx, i), nx[t] # 0 PROVE nx[t] \in ReachIn(nx, i)
  <2>1. t \in Slots /\ nx[t] \in Slots /\ i # 0
    BY <1>2, SlotsFacts DEF ReachIn, Nexts
  <2>2. ASSUME NEW S \in SUBSET Slots, i \in S, ClosedIn(nx, S) PROVE nx[t] \in S
    <3>1. t \in S
      BY <2>2 DEF ReachIn
    <3> QED BY <1>2, <2>2, <3>1 DEF ClosedIn
  <2> QED BY <2>1, <2>2 DEF ReachIn
<1>3. ClosedIn(nx, ReachIn(nx, i))
  BY <1>2 DEF ClosedIn
<1> QED BY <1>1, <1>3 DEF ReachIn

LEMMA ReachLeast ==
  ASSUME NEW nx, NEW i, NEW S \in SUBSET Slots, i \in S, ClosedIn(nx, S)
  PROVE  ReachIn(nx, i) \subseteq S
BY DEF ReachIn

\* What happens elsewhere does not matter to a chain.
LEMMA ReachSame ==
  ASSUME NEW nx \in Nexts, NEW ny \in Nexts, NEW i \in 0 .. MAXUSERS,
         \A t \in ReachIn(nx, i) : ny[t] = nx[t]
  PROVE  ReachIn(ny, i) = ReachIn(nx, i) /\ (Line(nx, i) => Line(ny, i))
<1> DEFINE R == ReachIn(nx, i)
           T == ReachIn(ny, i)
<1>1. CASE i = 0
  BY <1>1, ReachFacts DEF Line
<1>2. CASE i # 0
  <2>1. /\ R \in SUBSET Slots /\ i \in R /\ ClosedIn(nx, R)
        /\ T \in SUBSET Slots /\ i \in T /\ ClosedIn(ny, T)
    BY <1>2, ReachFacts
  <2>2. ClosedIn(ny, R)
    BY <2>1 DEF ClosedIn
  <2>3. T \subseteq R
    <3> HIDE DEF R
    <3> QED BY <2>1, <2>2, ReachLeast
  <2>4. ClosedIn(nx, T)
    BY <2>1, <2>3 DEF ClosedIn
  <2>5. R \subseteq T
    <3> HIDE DEF T
    <3> QED BY <2>1, <2>4, ReachLeast
  <2>6. T = R
    BY <2>3, <2>5
  <2> HIDE DEF R, T
  <2>7. Line(nx, i) => Line(ny, i)
    BY <2>6 DEF Line, R, T
  <2> QED BY <2>6, <2>7 DEF R, T
<1> QED BY <1>1, <1>2

\* The head is taken off.
LEMMA WithoutHead ==
  ASSUME NEW nx \in Nexts, NEW i \in Slots, Line(nx, i)
  PROVE  ReachIn(nx, nx[i]) = ReachIn(nx, i) \ {i} /\ Line(nx, nx[i])
<1> DEFINE R == ReachIn(nx, i)
           T == ReachIn(nx, nx[i])
<1>0. i # 0 /\ i \in 0 .. MAXUSERS /\ nx[i] \in 0 .. MAXUSERS /\ (nx[i] # 0 => nx[i] \in Slots)
  BY SlotsFacts DEF Nexts
<1>1. R \in SUBSET Slots /\ i \in R /\ ClosedIn(nx, R)
  BY <1>0, ReachFacts
<1>2. T \in SUBSET Slots /\ (nx[i] # 0 => nx[i] \in T) /\ (nx[i] = 0 => T = {}) /\ ClosedIn(nx, T)
  BY <1>0, ReachFacts
<1>3. /\ \A t, u \in R : nx[t] # 0 /\ nx[t] = nx[u] => t = u
      /\ \A t \in R : nx[t] # i
  BY DEF Line
<1>4. T \subseteq R \ {i}
  <2>1. R \ {i} \in SUBSET Slots /\ ClosedIn(nx, R \ {i})
    BY <1>1, <1>3 DEF ClosedIn
  <2>2. nx[i] # 0 => nx[i] \in R \ {i}
    BY <1>1, <1>3 DEF ClosedIn
  <2> HIDE DEF R
  <2> QED BY <1>2, <2>1, <2>2, ReachLeast
<1>5. R \subseteq T \cup {i}
  <2>1. T \cup {i} \in SUBSET Slots /\ ClosedIn(nx, T \cup {i}) /\ i \in T \cup {i}
    BY <1>2 DEF ClosedIn
  <2> HIDE DEF T
  <2> QED BY <2>1, ReachLeast
<1>6. T = R \ {i}
  BY <1>4, <1>5
<1>7. \A t \in T : nx[t] # nx[i]
  BY <1>1, <1>2, <1>3, <1>6
<1> HIDE DEF R, T
<1>8. Line(nx, nx[i])
  BY <1>3, <1>6, <1>7 DEF Line, R, T
<1> QED BY <1>6, <1>8 DEF R, T

\* ny is nx but for the node before i on the chain from h, which is led past i.
PastIt(nx, h, i, ny) ==
  ny = [nx EXCEPT ![CHOOSE k \in ReachIn(nx, h) : nx[k] = i] = nx[i]]

\* A node behind the head has one before it on the chain.
LEMMA WithoutInner ==
  ASSUME NEW nx \in Nexts, NEW h \in 0 .. MAXUSERS, Line(nx, h),
         NEW i \in ReachIn(nx, h), i # h,
         NEW ny, PastIt(nx, h, i, ny)
  PROVE  /\ \E k \in ReachIn(nx, h) : nx[k] = i
         /\ ny \in Nexts
         /\ \A t \in Slots \ ReachIn(nx, h) : ny[t] = nx[t]
         /\ ReachIn(ny, h) = ReachIn(nx, h) \ {i}
         /\ Line(ny, h)
<1> DEFINE R == ReachIn(nx, h)
           T == ReachIn(ny, h)
           k == CHOOSE k \in R : nx[k] = i
<1>0. h # 0
  BY ReachFacts
<1>1. R \in SUBSET Slots /\ h \in R /\ ClosedIn(nx, R) /\ i \in Slots /\ i # 0
  BY <1>0, ReachFacts, SlotsFacts
<1>2. /\ \A t, u \in R : nx[t] # 0 /\ nx[t] = nx[u] => t = u
      /\ \A t \in R : nx[t] # h
  BY DEF Line
<1>3. \E t \in R \ {i} : nx[t] = i
  <2> SUFFICES ASSUME \A t \in R \ {i} : nx[t] # i PROVE FALSE
    OBVIOUS
  <2>1. R \ {i} \in SUBSET Slots /\ ClosedIn(nx, R \ {i}) /\ h \in R \ {i}
    BY <1>1 DEF ClosedIn
  <2>2. R \subseteq R \ {i}
    <3> DEFINE Q == R \ {i}
    <3>1. Q \in SUBSET Slots /\ ClosedIn(nx, Q) /\ h \in Q
      BY <2>1
    <3> HIDE DEF Q
    <3>2. R \subseteq Q
      BY <3>1, ReachLeast
    <3> QED BY <3>2 DEF Q
  <2> QED BY <2>2
<1>4. k \in R /\ nx[k] = i
  BY <1>3
<1>5. k # i
  BY <1>1, <1>2, <1>3, <1>4
<1>6. ny = [nx EXCEPT ![k] = nx[i]]
  BY DEF PastIt
<1> HIDE DEF k
<1>7. ny \in Nexts
  BY <1>1, <1>6 DEF Nexts
<1>8. /\ ny[k] = nx[i] /\ k \in Slots
      /\ \A t \in Slots : t # k => ny[t] = nx[t]
  BY <1>1, <1>4, <1>6 DEF Nexts
<1>9. T \in SUBSET Slots /\ h \in T /\ ClosedIn(ny, T)
  BY <1>0, <1>7, ReachFacts
<1>10. T \subseteq R \ {i}
  <2> DEFINE Q == R \ {i}
  <2>1. ASSUME NEW t \in Q, ny[t] # 0 PROVE ny[t] \in Q
    <3>1. CASE t = k
      <4>1. nx[i] \in R
        BY <1>1, <1>8, <2>1, <3>1 DEF ClosedIn
      <4>2. nx[i] # i
        BY <1>1, <1>2, <1>4, <1>5
      <4> QED BY <1>8, <3>1, <4>1, <4>2
    <3>2. CASE t # k
      <4>1. ny[t] = nx[t] /\ nx[t] \in R
        BY <1>1, <1>8, <2>1, <3>2 DEF ClosedIn
      <4>2. nx[t] # i
        BY <1>1, <1>2, <1>4, <2>1, <3>2
      <4> QED BY <4>1, <4>2
    <3> QED BY <3>1, <3>2
  <2>2. Q \in SUBSET Slots /\ h \in Q /\ ClosedIn(ny, Q)
    BY <1>1, <2>1 DEF ClosedIn
  <2> HIDE DEF Q
  <2>3. T \subseteq Q
    BY <2>2, ReachLeast
  <2> QED BY <2>3 DEF Q
<1>11. R \subseteq T \cup {i}
  <2> DEFINE Q == IF k \in T THEN T \cup {i} ELSE T
  <2>1. ASSUME NEW t \in Q, nx[t] # 0 PROVE nx[t] \in Q
    <3>1. CASE t = k
      BY <1>4, <1>9, <3>1
    <3>2. CASE t = i /\ t # k
      <4>1. k \in T
        BY <1>10, <2>1, <3>2
      <4>2. nx[t] \in T
        BY <1>8, <1>9, <2>1, <3>2, <4>1 DEF ClosedIn
      <4> QED BY <4>2
    <3>3. CASE t # k /\ t # i
      <4>1. t \in T /\ ny[t] = nx[t]
        BY <1>8, <1>9, <2>1, <3>3
      <4> QED BY <1>9, <2>1, <4>1 DEF ClosedIn
    <3> QED BY <3>1, <3>2, <3>3
  <2>2. Q \in SUBSET Slots /\ h \in Q /\ ClosedIn(nx, Q) /\ Q \subseteq T \cup {i}
    BY <1>1, <1>9, <2>1 DEF ClosedIn
  <2> HIDE DEF Q
  <2>3. R \subseteq Q
    BY <2>2, ReachLeast
  <2> QED BY <2>2, <2>3
<1>12. T = R \ {i}
  BY <1>10, <1>11
<1>13. /\ \A t, u \in T : ny[t] # 0 /\ ny[t] = ny[u] => t = u
       /\ \A t \in T : ny[t] # h
  <2>1. \A t \in T : t \in R /\ t # i /\ t \in Slots
    BY <1>1, <1>12
  <2>2. ASSUME NEW t \in T, NEW u \in T, ny[t] # 0, ny[t] = ny[u] PROVE t = u
    BY <1>1, <1>2, <1>8, <2>1, <2>2
  <2>3. ASSUME NEW t \in T PROVE ny[t] # h
    BY <1>1, <1>2, <1>8, <2>1
  <2> QED BY <2>2, <2>3
<1>14. \A t \in Slots \ R : ny[t] = nx[t]
  BY <1>4, <1>8
<1> HIDE DEF R, T
<1>15. Line(ny, h)
  BY <1>13 DEF Line, T
<1> QED BY <1>4, <1>7, <1>12, <1>14, <1>15 DEF R, T

LeadsTo(nx, i, h, ny) == ny = [nx EXCEPT ![i] = h]

\* A node that is on no chain becomes the head of one.
LEMMA WithNew ==
  ASSUME NEW nx \in Nexts, NEW h \in 0 .. MAXUSERS, Line(nx, h),
         NEW i \in Slots, i \notin ReachIn(nx, h),
         NEW ny, LeadsTo(nx, i, h, ny)
  PROVE  /\ ny \in Nexts
         /\ ReachIn(ny, i) = ReachIn(nx, h) \cup {i}
         /\ Line(ny, i)
<1> DEFINE R == ReachIn(nx, h)
           T == ReachIn(ny, i)
<1>1. i # 0 /\ i \in 0 .. MAXUSERS /\ ny \in Nexts
  BY SlotsFacts DEF Nexts, LeadsTo
<1>2. ny[i] = h /\ \A t \in Slots : t # i => ny[t] = nx[t]
  BY DEF Nexts, LeadsTo
<1>3. R \in SUBSET Slots /\ (h # 0 => h \in R) /\ (h = 0 => R = {}) /\ ClosedIn(nx, R)
  BY ReachFacts
<1>4. T \in SUBSET Slots /\ i \in T /\ ClosedIn(ny, T)
  BY <1>1, ReachFacts
<1>5. /\ \A t, u \in R : nx[t] # 0 /\ nx[t] = nx[u] => t = u
      /\ \A t \in R : nx[t] # h
  BY DEF Line
<1>6. T \subseteq R \cup {i}
  <2> DEFINE Q == R \cup {i}
  <2>1. Q \in SUBSET Slots /\ i \in Q /\ ClosedIn(ny, Q)
    BY <1>2, <1>3 DEF ClosedIn
  <2> HIDE DEF Q
  <2>2. T \subseteq Q
    BY <2>1, ReachLeast
  <2> QED BY <2>2 DEF Q
<1>7. R \subseteq T
  <2>1. CASE h = 0
    BY <1>3, <2>1
  <2>2. CASE h # 0
    <3> DEFINE Q == T \cap R
    <3>1. h \in T
      BY <1>2, <1>4, <2>2 DEF ClosedIn
    <3>2. ClosedIn(nx, Q)
      <4> SUFFICES ASSUME NEW t \in Q, nx[t] # 0 PROVE nx[t] \in Q
        BY DEF ClosedIn
      <4>1. ny[t] = nx[t]
        BY <1>2, <1>3
      <4> QED BY <1>3, <1>4, <4>1 DEF ClosedIn
    <3>3. Q \in SUBSET Slots /\ h \in Q /\ Q \subseteq T
      BY <1>3, <2>2, <3>1
    <3> HIDE DEF Q
    <3>4. R \subseteq Q
      BY <3>2, <3>3, ReachLeast
    <3> QED BY <3>3, <3>4
  <2> QED BY <2>1, <2>2
<1>8. T = R \cup {i}
  BY <1>4, <1>6, <1>7
<1>9. /\ \A t, u \in T : ny[t] # 0 /\ ny[t] = ny[u] => t = u
      /\ \A t \in T : ny[t] # i
  <2>1. \A t \in T : t = i \/ (t \in R /\ t # i /\ ny[t] = nx[t])
    BY <1>2, <1>3, <1>8
  <2>2. ASSUME NEW t \in T, NEW u \in T, ny[t] # 0, ny[t] = ny[u] PROVE t = u
    BY <1>2, <1>5, <2>1, <2>2
  <2>3. ASSUME NEW t \in T PROVE ny[t] # i
    <3>1. CASE t = i
      <4>1. h # i
        BY <1>1, <1>3
      <4> QED BY <1>2, <3>1, <4>1
    <3>2. CASE t # i
      <4>1. t \in R /\ ny[t] = nx[t]
        BY <2>1, <3>2
      <4> QED BY <1>1, <1>3, <4>1 DEF ClosedIn
    <3> QED BY <3>1, <3>2
  <2> QED BY <2>2, <2>3
<1> HIDE DEF R, T
<1>10. Line(ny, i)
  BY <1>9 DEF Line, T
<1> QED BY <1>1, <1>8, <1>10 DEF R, T

-----------------------------------------------------------------------------
(* All chains: they are lines, and share no node. *)

Chains == 0 .. UCACHE_HASHSIZE
ChainIn(hd, nx, h) == ReachIn(nx, hd[h])

Shape(hd, nx) ==
  /\ \A h \in Chains : Line(nx, hd[h])
  /\ \A g, h \in Chains : g # h => ChainIn(hd, nx, g) \cap ChainIn(hd, nx, h) = {}

\* The other chains stay as they are.
OnlyChain(hd, nx, hy, ny, h, S) ==
  /\ ChainIn(hy, ny, h) = S
  /\ \A g \in Chains \ {h} : ChainIn(hy, ny, g) = ChainIn(hd, nx, g)

LEMMA OneChain ==
  ASSUME NEW hd \in [Chains -> 0 .. MAXUSERS], NEW nx \in Nexts, Shape(hd, nx),
         NEW hy \in [Chains -> 0 .. MAXUSERS], NEW ny \in Nexts,
         NEW h \in Chains, NEW S, ChainIn(hy, ny, h) = S, Line(ny, hy[h]),
         NEW i \in Slots, S \subseteq ChainIn(hd, nx, h) \cup {i},
         \A g \in Chains \ {h} : i \notin ChainIn(hd, nx, g),
         \A g \in Chains \ {h} : /\ hy[g] = hd[g]
                                 /\ \A t \in ChainIn(hd, nx, g) : ny[t] = nx[t]
  PROVE  Shape(hy, ny) /\ OnlyChain(hd, nx, hy, ny, h, S)
<1>1. ASSUME NEW g \in Chains \ {h}
      PROVE  ChainIn(hy, ny, g) = ChainIn(hd, nx, g) /\ Line(ny, hy[g])
  <2>1. hd[g] \in 0 .. MAXUSERS /\ Line(nx, hd[g])
    BY DEF Shape
  <2>2. \A t \in ReachIn(nx, hd[g]) : ny[t] = nx[t]
    BY DEF ChainIn
  <2>3. ReachIn(ny, hd[g]) = ReachIn(nx, hd[g]) /\ Line(ny, hd[g])
    BY <2>1, <2>2, ReachSame
  <2> QED BY <2>3 DEF ChainIn
<1>2. \A g \in Chains : Line(ny, hy[g])
  BY <1>1
<1>3. ASSUME NEW f \in Chains, NEW g \in Chains, f # g
      PROVE  ChainIn(hy, ny, f) \cap ChainIn(hy, ny, g) = {}
  <2>1. ChainIn(hd, nx, f) \cap ChainIn(hd, nx, g) = {}
    BY <1>3 DEF Shape
  <2> QED BY <1>1, <1>3, <2>1
<1> QED BY <1>1, <1>2, <1>3 DEF Shape, OnlyChain

\* What Unlink(h, i) makes of heads hd and successors nx.
Unlinked(hd, nx, hy, ny, h, i) ==
  IF hd[h] = i
  THEN hy = [hd EXCEPT ![h] = nx[i]] /\ ny = nx
  ELSE /\ ny = [nx EXCEPT ![CHOOSE k \in ChainIn(hd, nx, h) : nx[k] = i] = nx[i]]
       /\ hy = hd

LEMMA UnlinkChain ==
  ASSUME NEW hd \in [Chains -> 0 .. MAXUSERS], NEW nx \in Nexts, Shape(hd, nx),
         NEW hy, NEW ny, NEW h \in Chains, NEW i \in ChainIn(hd, nx, h),
         Unlinked(hd, nx, hy, ny, h, i)
  PROVE  Shape(hy, ny) /\ OnlyChain(hd, nx, hy, ny, h, ChainIn(hd, nx, h) \ {i})
<1>1. hd[h] \in 0 .. MAXUSERS /\ Line(nx, hd[h]) /\ i \in ReachIn(nx, hd[h])
  BY DEF Shape, ChainIn
<1>2. i \in Slots
  BY <1>1, ReachFacts
<1>3. /\ hy \in [Chains -> 0 .. MAXUSERS] /\ ny \in Nexts
      /\ ChainIn(hy, ny, h) = ChainIn(hd, nx, h) \ {i} /\ Line(ny, hy[h])
      /\ \A g \in Chains \ {h} : hy[g] = hd[g]
      /\ \A t \in Slots \ ReachIn(nx, hd[h]) : ny[t] = nx[t]
  <2>1. CASE hd[h] = i
    <3>1. nx[i] \in 0 .. MAXUSERS
      BY <1>2 DEF Nexts
    <3>2. hy \in [Chains -> 0 .. MAXUSERS] /\ hy[h] = nx[i] /\ ny = nx
      BY <2>1, <3>1 DEF Unlinked
    <3>3. ReachIn(nx, nx[i]) = ReachIn(nx, i) \ {i} /\ Line(nx, nx[i])
      BY <1>1, <1>2, <2>1, WithoutHead
    <3>4. \A g \in Chains \ {h} : hy[g] = hd[g]
      BY <2>1 DEF Unlinked
    <3> QED BY <2>1, <3>2, <3>3, <3>4 DEF ChainIn
  <2>2. CASE hd[h] # i
    <3> DEFINE m == hd[h]
    <3>1. PastIt(nx, m, i, ny) /\ hy = hd
      BY <2>2 DEF Unlinked, ChainIn, PastIt
    <3>2. m \in 0 .. MAXUSERS /\ Line(nx, m) /\ i \in ReachIn(nx, m) /\ i # m
      BY <1>1, <2>2
    <3> HIDE DEF m
    <3>3. /\ ny \in Nexts
          /\ \A t \in Slots \ ReachIn(nx, m) : ny[t] = nx[t]
          /\ ReachIn(ny, m) = ReachIn(nx, m) \ {i}
          /\ Line(ny, m)
      BY <3>1, <3>2, WithoutInner
    <3> QED BY <3>1, <3>3 DEF ChainIn, m
  <2> QED BY <2>1, <2>2
<1>4. ASSUME NEW g \in Chains \ {h}
      PROVE  i \notin ChainIn(hd, nx, g) /\ \A t \in ChainIn(hd, nx, g) : ny[t] = nx[t]
  <2>1. ChainIn(hd, nx, g) \cap ChainIn(hd, nx, h) = {}
    BY DEF Shape
  <2>2. ChainIn(hd, nx, g) \subseteq Slots
    BY DEF ChainIn, ReachIn
  <2> QED BY <1>3, <2>1, <2>2 DEF ChainIn
<1> DEFINE S == ChainIn(hd, nx, h) \ {i}
<1>5. ChainIn(hy, ny, h) = S /\ S \subseteq ChainIn(hd, nx, h) \cup {i}
  BY <1>3
<1> HIDE DEF S
<1>6. Shape(hy, ny) /\ OnlyChain(hd, nx, hy, ny, h, S)
  BY <1>2, <1>3, <1>4, <1>5, OneChain
<1> QED BY <1>6 DEF S

\* What Push(h, i) makes of them.
Pushed(hd, nx, hy, ny, h, i) == ny = [nx EXCEPT ![i] = hd[h]] /\ hy = [hd EXCEPT ![h] = i]

LEMMA PushChain ==
  ASSUME NEW hd \in [Chains -> 0 .. MAXUSERS], NEW nx \in Nexts, Shape(hd, nx),
         NEW hy, NEW ny, NEW h \in Chains, NEW i \in Slots,
         \A g \in Chains : i \notin ChainIn(hd, nx, g),
         Pushed(hd, nx, hy, ny, h, i)
  PROVE  Shape(hy, ny) /\ OnlyChain(hd, nx, hy, ny, h, ChainIn(hd, nx, h) \cup {i})
<1>1. hd[h] \in 0 .. MAXUSERS /\ Line(nx, hd[h]) /\ i \notin ReachIn(nx, hd[h])
  BY DEF Shape, ChainIn
<1>2. ny \in Nexts /\ ReachIn(ny, i) = ReachIn(nx, hd[h]) \cup {i} /\ Line(ny, i)
  <2> DEFINE m == hd[h]
  <2>1. /\ m \in 0 .. MAXUSERS /\ Line(nx, m) /\ i \notin ReachIn(nx, m)
        /\ LeadsTo(nx, i, m, ny)
    BY <1>1 DEF LeadsTo, Pushed
  <2> HIDE DEF m
  <2>2. ny \in Nexts /\ ReachIn(ny, i) = ReachIn(nx, m) \cup {i} /\ Line(ny, i)
    BY <2>1, WithNew
  <2> QED BY <2>2 DEF m
<1>3. i \in 0 .. MAXUSERS /\ hy \in [Chains -> 0 .. MAXUSERS] /\ hy[h] = i
  BY SlotsFacts DEF Pushed
<1>4. \A g \in Chains \ {h} : hy[g] = hd[g]
  BY DEF Pushed
<1>5. ASSUME NEW g \in Chains \ {h}, NEW t \in ChainIn(hd, nx, g) PROVE ny[t] = nx[t]
  <2>1. t \in Slots /\ t # i
    BY DEF ChainIn, ReachIn
  <2> QED BY <2>1 DEF Nexts, Pushed
<1>8. \A g \in Chains \ {h} : i \notin ChainIn(hd, nx, g)
  OBVIOUS
<1> DEFINE S == ChainIn(hd, nx, h) \cup {i}
<1>6. ChainIn(hy, ny, h) = S /\ S \subseteq ChainIn(hd, nx, h) \cup {i} /\ Line(ny, hy[h])
  BY <1>2, <1>3 DEF ChainIn
<1> HIDE DEF S
<1>7. Shape(hy, ny) /\ OnlyChain(hd, nx, hy, ny, h, S)
  BY <1>2, <1>3, <1>4, <1>5, <1>6, <1>8, OneChain
<1> QED BY <1>7 DEF S

-----------------------------------------------------------------------------
(* The chains load_ucache builds *)

\* nx leads from each node of E to the one after it in the order of f.
Ordered(nx, f, E) ==
  /\ \A t \in E : nx[t] = 0 => \A k \in E : f[k] <= f[t]
  /\ \A t \in E : nx[t] # 0 => /\ nx[t] \in E /\ f[t] < f[nx[t]]
                              /\ \A k \in E : f[t] < f[k] => f[nx[t]] <= f[k]

LEMMA NatSetMax ==
  ASSUME NEW S \in SUBSET (0 .. MAXUSERS), S # {}
  PROVE  \E i \in S : \A k \in S : k <= i
<1> DEFINE T == {MAXUSERS - i : i \in S}
<1>1. T \in SUBSET Nat /\ T # {}
  <2>1. ASSUME NEW i \in S PROVE MAXUSERS - i \in Nat
    <3>1. i \in 0 .. MAXUSERS
      OBVIOUS
    <3> QED BY <3>1, ConstantsAssumption
  <2>2. PICK i \in S : TRUE
    OBVIOUS
  <2>3. MAXUSERS - i \in T
    BY <2>2
  <2> QED BY <2>1, <2>3
<1>2. PICK t \in T : \A k \in T : t <= k
  <2> HIDE DEF T
  <2> QED BY <1>1, NatMin
<1>3. PICK i \in S : t = MAXUSERS - i
  OBVIOUS
<1>4. ASSUME NEW k \in S PROVE k <= i
  <2>1. MAXUSERS - k \in T
    OBVIOUS
  <2>2. k \in Int /\ i \in Int /\ MAXUSERS - i <= MAXUSERS - k
    BY <1>2, <1>3, <2>1
  <2> QED BY <2>2, ConstantsAssumption
<1> QED BY <1>4

LEMMA OrderedChain ==
  ASSUME NEW nx \in Nexts, NEW E \in SUBSET Slots, NEW f \in [Slots -> 0 .. MAXUSERS],
         \A s, t \in Slots : f[s] = f[t] => s = t,
         Ordered(nx, f, E), NEW h \in E, \A k \in E : f[h] <= f[k]
  PROVE  ReachIn(nx, h) = E /\ Line(nx, h)
<1> DEFINE R == ReachIn(nx, h)
<1>1. h # 0 /\ h \in 0 .. MAXUSERS /\ \A s \in Slots : f[s] \in Nat
  BY SlotsFacts
<1>2. R \in SUBSET Slots /\ h \in R /\ ClosedIn(nx, R)
  BY <1>1, ReachFacts
<1>3. /\ \A t \in E : nx[t] = 0 => \A k \in E : f[k] <= f[t]
      /\ \A t \in E : nx[t] # 0 => /\ nx[t] \in E /\ f[t] < f[nx[t]]
                                  /\ \A k \in E : f[t] < f[k] => f[nx[t]] <= f[k]
  BY DEF Ordered
<1>4. R \subseteq E
  <2>1. ClosedIn(nx, E)
    BY <1>3 DEF ClosedIn
  <2> QED BY <2>1, ReachLeast
<1> HIDE DEF R
<1>5. ASSUME NEW k \in E, k \notin R PROVE FALSE
  <2> DEFINE M == {f[s] : s \in E \ R}
  <2>1. M \in SUBSET Nat /\ M # {}
    <3>1. \A s \in E \ R : f[s] \in Nat
      BY <1>1
    <3>2. f[k] \in M
      BY <1>5
    <3> QED BY <3>1, <3>2
  <2>2. PICK v \in M : \A w \in M : v <= w
    <3> HIDE DEF M
    <3> QED BY <2>1, NatMin
  <2>3. PICK m \in E \ R : v = f[m]
    OBVIOUS
  <2>4. \A s \in E \ R : f[m] <= f[s]
    BY <2>2, <2>3
  <2> DEFINE P == {f[s] : s \in {u \in E : f[u] < f[m]}}
  <2>5. f[h] < f[m]
    <3>1. h # m /\ h \in Slots /\ m \in Slots /\ f[h] <= f[m]
      BY <1>2, <2>3
    <3>2. f[h] # f[m]
      BY <3>1
    <3> QED BY <1>1, <3>1, <3>2
  <2>6. P \in SUBSET (0 .. MAXUSERS) /\ P # {}
    BY <2>5
  <2>7. PICK x \in P : \A y \in P : y <= x
    <3> HIDE DEF P
    <3> QED BY <2>6, NatSetMax
  <2>8. PICK u \in E : f[u] < f[m] /\ x = f[u]
    OBVIOUS
  <2>9. \A s \in E : f[s] < f[m] => f[s] <= f[u]
    BY <2>7, <2>8
  <2> HIDE DEF M, P
  <2>10. u \in R
    <3>1. f[u] \in Nat /\ f[m] \in Nat
      BY <1>1
    <3> QED BY <2>4, <2>8, <3>1
  <2>11. nx[u] # 0
    <3>1. f[u] \in Nat /\ f[m] \in Nat
      BY <1>1
    <3> QED BY <1>3, <2>8, <3>1
  <2>12. nx[u] \in E /\ f[u] < f[nx[u]] /\ f[nx[u]] <= f[m]
    BY <1>3, <2>8, <2>11
  <2>13. f[nx[u]] = f[m]
    <3>1. f[u] \in Nat /\ f[m] \in Nat /\ f[nx[u]] \in Nat
      BY <1>1, <2>12
    <3>2. ~(f[nx[u]] < f[m])
      BY <2>9, <2>12, <3>1
    <3> QED BY <2>12, <3>1, <3>2
  <2>14. nx[u] = m
    BY <2>12, <2>13
  <2>15. nx[u] \in R
    BY <1>2, <2>10, <2>11 DEF ClosedIn
  <2> QED BY <2>3, <2>14, <2>15
<1>6. R = E
  BY <1>4, <1>5
<1>7. ASSUME NEW t \in E, NEW u \in E, nx[t] # 0, nx[t] = nx[u], f[t] < f[u] PROVE FALSE
  <2>1. f[nx[t]] <= f[u] /\ f[u] < f[nx[u]] /\ f[nx[t]] \in Nat /\ f[u] \in Nat
    BY <1>1, <1>3, <1>7
  <2> QED BY <1>7, <2>1
<1>8. ASSUME NEW t \in E, NEW u \in E, nx[t] # 0, nx[t] = nx[u] PROVE t = u
  <2>1. f[t] \in Nat /\ f[u] \in Nat
    BY <1>1
  <2>2. ~(f[t] < f[u]) /\ ~(f[u] < f[t])
    BY <1>7, <1>8
  <2>3. f[t] = f[u]
    BY <2>1, <2>2
  <2> QED BY <2>3
<1>9. ASSUME NEW t \in E PROVE nx[t] # h
  <2> SUFFICES ASSUME nx[t] = h PROVE FALSE
    OBVIOUS
  <2>1. f[t] < f[h] /\ f[h] <= f[t] /\ f[t] \in Nat /\ f[h] \in Nat
    BY <1>1, <1>3
  <2> QED BY <2>1
<1> QED BY <1>6, <1>8, <1>9 DEF Line, R

LEMMA LeastIs ==
  ASSUME NEW S \in SUBSET Slots
  PROVE  /\ S = {} => Least(S) = 0
         /\ S # {} => Least(S) \in S /\ \A k \in S : Least(S) <= k
<1>1. CASE S # {}
  <2>1. S \in SUBSET Nat
    BY SlotsFacts
  <2>2. PICK i \in S : \A k \in S : i <= k
    BY <1>1, <2>1, NatMin
  <2> QED BY <1>1, <2>2 DEF Least
<1> QED BY <1>1 DEF Least

LEMMA GreatestIs ==
  ASSUME NEW S \in SUBSET Slots
  PROVE  /\ S = {} => Greatest(S) = 0
         /\ S # {} => Greatest(S) \in S /\ \A k \in S : k <= Greatest(S)
<1>1. CASE S # {}
  <2>1. S \in SUBSET (0 .. MAXUSERS)
    BY SlotsFacts
  <2>2. PICK i \in S : \A k \in S : k <= i
    BY <1>1, <2>1, NatSetMax
  <2> QED BY <1>1, <2>2 DEF Greatest
<1> QED BY <1>1 DEF Greatest

LEMMA EmptyChain ==
  ASSUME NEW r \in [Slots -> Userec]
  PROVE  LET L == Loaded(r)
         IN  ChainIn(L.head, L.next, 0) = Empty(r) /\ Line(L.next, L.head[0])
<1> DEFINE nx == Loaded(r).next
           E == Empty(r)
           f == [s \in Slots |-> s]
           h == Least(E)
<1>1. nx \in Nexts /\ E \in SUBSET Slots /\ f \in [Slots -> 0 .. MAXUSERS]
  BY LoadedTyped, SlotsFacts DEF Nexts, Empty
<1>2. \A s, t \in Slots : f[s] = f[t] => s = t
  OBVIOUS
<1>3. 0 \in Chains /\ Loaded(r).head[0] = h
  BY ConstantsAssumption DEF Loaded, Chains
<1>4. ASSUME NEW t \in E PROVE nx[t] = Least({k \in E : k > t})
  BY DEF Loaded, Empty
<1>5. Ordered(nx, f, E)
  <2>1. ASSUME NEW t \in E
        PROVE  /\ nx[t] = 0 => \A k \in E : k <= t
               /\ nx[t] # 0 => /\ nx[t] \in E /\ t < nx[t]
                              /\ \A k \in E : t < k => nx[t] <= k
    <3> DEFINE S == {k \in E : k > t}
    <3>1. S \in SUBSET Slots /\ \A k \in S : k # 0 /\ k \in E /\ t < k
      BY <1>1, SlotsFacts
    <3>5. t \in Nat /\ \A k \in E : k \in Nat
      BY <1>1, SlotsFacts
    <3>6. \A k \in E : k \notin S => ~(k > t)
      OBVIOUS
    <3>2. \A k \in E : k \notin S => k <= t
      <4> HIDE DEF S, E
      <4> QED BY <3>5, <3>6
    <3>3. \A k \in E : t < k => k \in S
      BY <1>1, SlotsFacts
    <3>4. nx[t] = Least(S)
      BY <1>4
    <3> HIDE DEF S, nx, E
    <3> QED BY <3>1, <3>2, <3>3, <3>4, LeastIs
  <2>2. \A t \in E : t \in Slots /\ (nx[t] # 0 => nx[t] \in Slots)
    BY <1>1, SlotsFacts DEF Nexts
  <2>3. \A t \in Slots : f[t] = t
    OBVIOUS
  <2> HIDE DEF f, nx, E
  <2> QED BY <1>1, <2>1, <2>2, <2>3 DEF Ordered
<1>6. CASE E = {}
  <2>1. h = 0
    BY <1>6 DEF Least
  <2> HIDE DEF h, nx, E
  <2>2. 0 \in 0 .. MAXUSERS
    BY ConstantsAssumption
  <2> QED BY <1>1, <1>3, <1>6, <2>1, <2>2, ReachFacts DEF ChainIn, Line, nx, E
<1>7. CASE E # {}
  <2>1. h \in E /\ \A k \in E : h <= k
    BY <1>1, <1>7, LeastIs
  <2>2. \A k \in E : f[h] <= f[k]
    BY <1>1, <2>1
  <2> HIDE DEF h, nx, E, f
  <2>3. ReachIn(nx, h) = E /\ Line(nx, h)
    BY <1>1, <1>2, <1>5, <2>1, <2>2, OrderedChain
  <2> QED BY <1>3, <2>3 DEF ChainIn, nx, E
<1> QED BY <1>6, <1>7

LEMMA HashingChain ==
  ASSUME NEW r \in [Slots -> Userec], NEW g \in 1 .. UCACHE_HASHSIZE
  PROVE  LET L == Loaded(r)
         IN  ChainIn(L.head, L.next, g) = Hashing(r, g) /\ Line(L.next, L.head[g])
<1> DEFINE nx == Loaded(r).next
           E == Hashing(r, g)
           f == [s \in Slots |-> MAXUSERS - s]
           h == Greatest(E)
<1>1. nx \in Nexts /\ E \in SUBSET Slots
  BY LoadedTyped DEF Nexts, Hashing
<1>8. /\ \A s \in Slots : MAXUSERS - s \in 0 .. MAXUSERS
      /\ \A s, t \in Slots : MAXUSERS - s = MAXUSERS - t => s = t
      /\ \A s, t \in Slots : MAXUSERS - s < MAXUSERS - t <=> t < s
      /\ \A s, t \in Slots : MAXUSERS - s <= MAXUSERS - t <=> t <= s
  BY ConstantsAssumption DEF Slots
<1>2. f \in [Slots -> 0 .. MAXUSERS] /\ \A s, t \in Slots : f[s] = f[t] => s = t
  BY <1>8
<1>3. g \in Chains /\ g # 0 /\ Loaded(r).head[g] = h
  BY ConstantsAssumption DEF Loaded, Chains
<1>4. ASSUME NEW t \in E PROVE nx[t] = Greatest({k \in E : k < t})
  BY DEF Loaded, Hashing
<1>5. Ordered(nx, f, E)
  <2>1. ASSUME NEW t \in E
        PROVE  /\ nx[t] = 0 => \A k \in E : t <= k
               /\ nx[t] # 0 => /\ nx[t] \in E /\ nx[t] < t
                              /\ \A k \in E : k < t => k <= nx[t]
    <3> DEFINE S == {k \in E : k < t}
    <3>1. S \in SUBSET Slots /\ \A k \in S : k # 0 /\ k \in E /\ k < t
      BY <1>1, SlotsFacts
    <3>5. t \in Nat /\ \A k \in E : k \in Nat
      BY <1>1, SlotsFacts
    <3>6. \A k \in E : k \notin S => ~(k < t)
      OBVIOUS
    <3>2. \A k \in E : k \notin S => t <= k
      <4> HIDE DEF S, E
      <4> QED BY <3>5, <3>6
    <3>3. \A k \in E : k < t => k \in S
      BY <1>1, SlotsFacts
    <3>4. nx[t] = Greatest(S)
      BY <1>4
    <3> HIDE DEF S, nx, E
    <3> QED BY <3>1, <3>2, <3>3, <3>4, GreatestIs
  <2>2. \A t \in E : t \in Slots /\ (nx[t] # 0 => nx[t] \in Slots)
    BY <1>1, SlotsFacts DEF Nexts
  <2>3. /\ \A s, t \in Slots : f[s] < f[t] <=> t < s
        /\ \A s, t \in Slots : f[s] <= f[t] <=> t <= s
    BY <1>8
  <2> HIDE DEF f, nx, E
  <2>4. \A t \in E : nx[t] = 0 => \A k \in E : f[k] <= f[t]
    BY <1>1, <2>1, <2>2, <2>3
  <2>5. ASSUME NEW t \in E, nx[t] # 0
        PROVE  /\ nx[t] \in E /\ f[t] < f[nx[t]]
               /\ \A k \in E : f[t] < f[k] => f[nx[t]] <= f[k]
    BY <1>1, <2>1, <2>2, <2>3, <2>5
  <2> QED BY <2>4, <2>5 DEF Ordered
<1>6. CASE E = {}
  <2>1. h = 0
    BY <1>6 DEF Greatest
  <2> HIDE DEF h, nx, E
  <2>2. 0 \in 0 .. MAXUSERS
    BY ConstantsAssumption
  <2> QED BY <1>1, <1>3, <1>6, <2>1, <2>2, ReachFacts DEF ChainIn, Line, nx, E
<1>7. CASE E # {}
  <2>1. h \in E /\ \A k \in E : k <= h
    BY <1>1, <1>7, GreatestIs
  <2>2. \A k \in E : f[h] <= f[k]
    BY <1>1, <1>8, <2>1
  <2> HIDE DEF h, nx, E, f
  <2>3. ReachIn(nx, h) = E /\ Line(nx, h)
    BY <1>1, <1>2, <1>5, <2>1, <2>2, OrderedChain
  <2> QED BY <1>3, <2>3 DEF ChainIn, nx, E
<1> QED BY <1>6, <1>7

LEMMA LoadedChains ==
  ASSUME NEW r \in [Slots -> Userec]
  PROVE  LET L == Loaded(r)
         IN  /\ Shape(L.head, L.next)
             /\ ChainIn(L.head, L.next, 0) = Empty(r)
             /\ \A g \in 1 .. UCACHE_HASHSIZE : ChainIn(L.head, L.next, g) = Hashing(r, g)
<1> DEFINE hd == Loaded(r).head
           nx == Loaded(r).next
<1>1. \A g \in Chains : g = 0 \/ g \in 1 .. UCACHE_HASHSIZE
  BY ConstantsAssumption DEF Chains
<1>2. ChainIn(hd, nx, 0) = Empty(r) /\ Line(nx, hd[0])
  BY EmptyChain
<1>3. \A g \in 1 .. UCACHE_HASHSIZE : ChainIn(hd, nx, g) = Hashing(r, g) /\ Line(nx, hd[g])
  BY HashingChain
<1> HIDE DEF hd, nx
<1>4. ASSUME NEW g \in Chains, NEW h \in Chains, g # h
      PROVE  ChainIn(hd, nx, g) \cap ChainIn(hd, nx, h) = {}
  <2>1. CASE g = 0
    BY <1>1, <1>2, <1>3, <1>4, <2>1 DEF Empty, Hashing
  <2>2. CASE h = 0
    BY <1>1, <1>2, <1>3, <1>4, <2>2 DEF Empty, Hashing
  <2>3. CASE g # 0 /\ h # 0
    BY <1>1, <1>3, <1>4, <2>3 DEF Hashing
  <2> QED BY <2>1, <2>2, <2>3
<1>5. Shape(hd, nx)
  BY <1>1, <1>2, <1>3, <1>4 DEF Shape
<1> QED BY <1>2, <1>3, <1>5 DEF hd, nx

-----------------------------------------------------------------------------
(***************************************************************************)
(* Whatever fails.  The slot that insertuserec or deluserec has in hand is *)
(* on no chain; a chain other than 0 holds slots whose userid hashes to    *)
(* it, none twice; while insertuserec or deluserec is at work on a userid, *)
(* no slot on the chain has it.  Some slots may be on no chain.            *)
(***************************************************************************)
On(h) == ChainIn(head, next, h)

HashedOnly ==
  \A h \in 1 .. UCACHE_HASHSIZE : \A s \in On(h) : rec[s].id # NoName /\ Hash[rec[s].id] = h
OnceOn ==
  \A h \in 1 .. UCACHE_HASHSIZE : \A s, t \in On(h) : rec[s].id = rec[t].id => s = t
HandOff ==
  \A p \in Procs : act[p].pc \in Locked => \A h \in Chains : act[p].at \notin On(h)
Alone ==
  \A p \in Procs : act[p].pc \in {"insert", "link", "delete"} =>
     \A s \in On(Hash[act[p].id]) : rec[s].id # act[p].id
Named ==
  \A p \in Procs : act[p].pc \in {"link", "delete"} => rec[act[p].at].id = act[p].id

ListInv == Shape(head, next) /\ HashedOnly /\ OnceOn /\ HandOff /\ Alone /\ Named

LEMMA ChainIs == \A h : Chain(h) = On(h)
BY DEF Chain, Reach, On, ChainIn, ReachIn, Closed, ClosedIn

LEMMA OnSlots == \A h : On(h) \subseteq Slots
BY DEF On, ChainIn, ReachIn

LEMMA HashChain ==
  /\ \A n \in Names : Hash[n] \in 1 .. UCACHE_HASHSIZE /\ Hash[n] \in Chains /\ Hash[n] # 0
  /\ \A h \in 1 .. UCACHE_HASHSIZE : h \in Chains /\ h # 0
  /\ \A h \in Chains : h # 0 => h \in 1 .. UCACHE_HASHSIZE
  /\ 0 \in Chains
BY ConstantsAssumption DEF Chains

\* Steps that move no chain and write no userid.  After a fault a process may have let its
\* slot go.
IdsSame == \A s \in Slots : rec'[s].id = rec[s].id
HandsSame ==
  \A p \in Procs : act'[p].pc \in Locked \/ act[p].pc \in Locked =>
     act'[p].pc = act[p].pc /\ act'[p].at = act[p].at /\ act'[p].id = act[p].id
HandsKept ==
  \A p \in Procs : act'[p].pc \in Locked =>
     /\ act[p].pc \in Locked /\ act'[p].at = act[p].at /\ act'[p].id = act[p].id
     /\ act'[p].pc \in {act[p].pc, "empty"}

LEMMA ListKept ==
  ASSUME IInv, ListInv, head' = head, next' = next, IdsSame, HandsKept
  PROVE  ListInv'
<1>1. \A h : On(h)' = On(h)
  BY DEF On, ChainIn
<1>2. Shape(head, next)'
  BY DEF ListInv
<1>3. HashedOnly' /\ OnceOn'
  BY <1>1, OnSlots DEF ListInv, HashedOnly, OnceOn, IdsSame
<1>4. HandOff'
  BY <1>1 DEF ListInv, HandOff, HandsKept
<1>5. Alone'
  <2> SUFFICES ASSUME NEW p \in Procs, act'[p].pc \in {"insert", "link", "delete"},
                      NEW s \in ChainIn(head', next', Hash[act'[p].id])
               PROVE  rec'[s].id # act'[p].id
    BY DEF Alone, On
  <2>1. act[p].pc \in {"insert", "link", "delete"} /\ act'[p].id = act[p].id
    BY DEF HandsKept, Locked
  <2>2. s \in On(Hash[act[p].id]) /\ s \in Slots
    BY <2>1, OnSlots DEF On
  <2> QED BY <2>1, <2>2 DEF ListInv, Alone, IdsSame
<1>6. Named'
  <2> SUFFICES ASSUME NEW p \in Procs, act'[p].pc \in {"link", "delete"}
               PROVE  rec'[act'[p].at].id = act'[p].id
    BY DEF Named
  <2>1. act[p].pc \in {"link", "delete"} /\ act'[p].id = act[p].id /\ act'[p].at = act[p].at
    BY DEF HandsKept, Locked
  <2>2. act[p].at \in Slots
    BY <2>1, Own DEF Knows
  <2> QED BY <2>1, <2>2 DEF ListInv, Named, IdsSame
<1> QED BY <1>2, <1>3, <1>4, <1>5, <1>6 DEF ListInv

\* A slot is taken off its chain.
LEMMA ListTake ==
  ASSUME IInv, ListInv, NEW p \in Procs, NEW h \in Chains, NEW i \in On(h), Unlink(h, i),
         NEW a, act' = [act EXCEPT ![p] = a], a.at = i, a.id \in Names,
         \/ a.pc = "insert"
         \/ a.pc = "delete" /\ rec[i].id = a.id,
         ~lock, rec' = rec, \A s \in On(Hash[a.id]) \ {i} : rec[s].id # a.id
  PROVE  ListInv' /\ OnlyChain(head, next, head', next', h, On(h) \ {i})
<1>1. Unlinked(head, next, head', next', h, i)
  BY DEF Unlink, Unlinked, Chain, Reach, ChainIn, ReachIn, Closed, ClosedIn
<1>2. /\ head \in [Chains -> 0 .. MAXUSERS] /\ next \in Nexts
      /\ Shape(head, next) /\ i \in ChainIn(head, next, h)
  BY DEF IInv, TypeOK, ListInv, Chains, Nexts, On
<1>3. /\ Shape(head', next')
      /\ OnlyChain(head, next, head', next', h, ChainIn(head, next, h) \ {i})
  BY <1>1, <1>2, UnlinkChain
<1>4. On(h)' = On(h) \ {i} /\ \A g \in Chains \ {h} : On(g)' = On(g)
  BY <1>3 DEF OnlyChain, On
<1>5. \A g \in Chains : On(g)' \subseteq On(g) /\ i \notin On(g)'
  <2>1. \A g \in Chains \ {h} : i \notin On(g)
    BY DEF ListInv, Shape, On
  <2> QED BY <1>4, <2>1
<1>6. HashedOnly' /\ OnceOn'
  BY <1>5, HashChain DEF ListInv, HashedOnly, OnceOn
<1>7. /\ act'[p] = a /\ i \in Slots
      /\ \A q \in Procs \ {p} : act'[q].pc \notin Locked
  BY OnSlots DEF IInv, TypeOK, Mutex
<1>8. HandOff'
  BY <1>5, <1>7 DEF HandOff
<1>9. Alone'
  <2> SUFFICES ASSUME NEW q \in Procs, act'[q].pc \in {"insert", "link", "delete"},
                      NEW s \in ChainIn(head', next', Hash[act'[q].id])
               PROVE  rec'[s].id # act'[q].id
    BY DEF Alone, On
  <2>1. q = p /\ act'[q] = a
    BY <1>7 DEF Locked
  <2> DEFINE g == Hash[a.id]
  <2>2. s \in ChainIn(head', next', g) /\ g \in Chains
    BY <2>1, HashChain
  <2> HIDE DEF g
  <2>4. s \in On(g) \ {i}
    BY <1>5, <2>2 DEF On
  <2>3. s \in On(Hash[a.id]) \ {i}
    BY <2>4 DEF g
  <2> QED BY <2>1, <2>3
<1>10. Named'
  <2> SUFFICES ASSUME NEW q \in Procs, act'[q].pc \in {"link", "delete"}
               PROVE  rec'[act'[q].at].id = act'[q].id
    BY DEF Named
  <2>1. q = p /\ act'[q] = a
    BY <1>7 DEF Locked
  <2> QED BY <2>1
<1> QED BY <1>3, <1>6, <1>8, <1>9, <1>10 DEF ListInv, On

\* The slot in hand is put on a chain.
LEMMA ListPut ==
  ASSUME IInv, ListInv, NEW p \in Procs, act[p].pc \in Locked,
         NEW h \in Chains, NEW i \in Slots, i = act[p].at, Push(h, i),
         act' = [act EXCEPT ![p] = Idle], rec' = rec,
         h # 0 => /\ rec[i].id # NoName /\ Hash[rec[i].id] = h
                  /\ \A s \in On(h) : rec[s].id # rec[i].id
  PROVE  ListInv' /\ OnlyChain(head, next, head', next', h, On(h) \cup {i})
<1>1. Pushed(head, next, head', next', h, i)
  BY DEF Push, Pushed
<1>2. /\ head \in [Chains -> 0 .. MAXUSERS] /\ next \in Nexts
      /\ Shape(head, next) /\ \A g \in Chains : i \notin ChainIn(head, next, g)
  BY DEF IInv, TypeOK, ListInv, Chains, Nexts, On, HandOff
<1>3. /\ Shape(head', next')
      /\ OnlyChain(head, next, head', next', h, ChainIn(head, next, h) \cup {i})
  BY <1>1, <1>2, PushChain
<1>4. On(h)' = On(h) \cup {i} /\ \A g \in Chains \ {h} : On(g)' = On(g)
  BY <1>3 DEF OnlyChain, On
<1>5. \A q \in Procs : act'[q].pc \notin Locked
  BY DEF IInv, TypeOK, Mutex, Locked, Idle
<1>6. HandOff' /\ Alone' /\ Named'
  BY <1>5 DEF HandOff, Alone, Named, Locked
<1>7. HashedOnly'
  BY <1>4, HashChain DEF ListInv, HashedOnly
<1>8. OnceOn'
  <2> SUFFICES ASSUME NEW g \in 1 .. UCACHE_HASHSIZE, NEW s \in On(g)', NEW t \in On(g)',
                      rec[s].id = rec[t].id
               PROVE  s = t
    BY DEF OnceOn
  <2>1. CASE g = h
    <3>1. g # 0 /\ s \in On(g) \cup {i} /\ t \in On(g) \cup {i}
      BY <1>4, <2>1, HashChain
    <3> QED BY <2>1, <3>1 DEF ListInv, OnceOn
  <2>2. CASE g # h
    BY <1>4, <2>2, HashChain DEF ListInv, OnceOn
  <2> QED BY <2>1, <2>2
<1> QED BY <1>3, <1>6, <1>7, <1>8 DEF ListInv, On

\* The record in hand is written.
LEMMA ListWrite ==
  ASSUME IInv, ListInv, NEW p \in Procs, act[p].pc \in Locked,
         head' = head, next' = next,
         \A s \in Slots : s # act[p].at => rec'[s] = rec[s],
         NEW a, act' = [act EXCEPT ![p] = a], a.at = act[p].at, a.id = act[p].id,
         \/ a.pc = "empty"
         \/ act[p].pc = "insert" /\ a.pc = "link" /\ rec'[a.at].id = a.id
  PROVE  ListInv'
<1>1. \A h : On(h)' = On(h)
  BY DEF On, ChainIn
<1>2. Shape(head, next)'
  BY DEF ListInv
<1>3. \A h \in Chains : \A s \in On(h) : s \in Slots /\ rec'[s] = rec[s]
  BY OnSlots DEF ListInv, HandOff
<1>4. HashedOnly'
  BY <1>1, <1>3, HashChain DEF ListInv, HashedOnly
<1>5. OnceOn'
  BY <1>1, <1>3, HashChain DEF ListInv, OnceOn
<1>6. /\ act'[p] = a
      /\ \A q \in Procs \ {p} : act'[q].pc \notin Locked
  BY DEF IInv, TypeOK, Mutex
<1>7. HandOff'
  BY <1>1, <1>6 DEF ListInv, HandOff
<1>8. Alone'
  <2> SUFFICES ASSUME NEW q \in Procs, act'[q].pc \in {"insert", "link", "delete"},
                      NEW s \in ChainIn(head', next', Hash[act'[q].id])
               PROVE  rec'[s].id # act'[q].id
    BY DEF Alone, On
  <2>1. q = p /\ act'[q] = a
    BY <1>6 DEF Locked
  <2>2. act[p].pc = "insert" /\ a.pc = "link"
    BY <2>1
  <2>3. s \in On(Hash[act[p].id])
    BY <2>1 DEF On
  <2>4. rec[s].id # act[p].id
    BY <2>2, <2>3 DEF ListInv, Alone
  <2>5. Hash[act[p].id] \in Chains
    BY <2>2, Own, HashChain DEF Knows
  <2>6. rec'[s] = rec[s]
    BY <1>3, <2>3, <2>5
  <2> QED BY <2>1, <2>4, <2>6
<1>9. Named'
  <2> SUFFICES ASSUME NEW q \in Procs, act'[q].pc \in {"link", "delete"}
               PROVE  rec'[act'[q].at].id = act'[q].id
    BY DEF Named
  <2>1. q = p /\ act'[q] = a
    BY <1>6 DEF Locked
  <2> QED BY <2>1
<1> QED BY <1>2, <1>4, <1>5, <1>7, <1>8, <1>9 DEF ListInv

\* The chains are built from the records, which have every userid once.
LEMMA ListLoaded ==
  ASSUME rec \in [Slots -> Userec], Unique(rec),
         head = Loaded(rec).head, next = Loaded(rec).next,
         \A p \in Procs : act[p] = Idle
  PROVE  /\ ListInv
         /\ On(0) = Empty(rec) /\ \A h \in 1 .. UCACHE_HASHSIZE : On(h) = Hashing(rec, h)
<1>1. /\ Shape(head, next) /\ On(0) = Empty(rec)
      /\ \A h \in 1 .. UCACHE_HASHSIZE : On(h) = Hashing(rec, h)
  BY LoadedChains DEF On
<1>2. HashedOnly /\ OnceOn
  BY <1>1 DEF HashedOnly, OnceOn, Hashing, Unique
<1>3. HandOff /\ Alone /\ Named
  BY DEF HandOff, Alone, Named, Locked, Idle
<1> QED BY <1>1, <1>2, <1>3 DEF ListInv

\* Lookups, kickouts, updates and time.
Calm == head' = head /\ next' = next /\ empties' = empties /\ IdsSame /\ HandsSame

\* What lookups and changes of records leave alone.
Linked == <<head, next, empties>>

LEMMA LookupLeaves ==
  ASSUME NEW p \in Procs, Lookup(p)
  PROVE  Linked' = Linked /\ (KickWrite(p) \/ (rec' = rec /\ regs' = regs))
<1>1. ASSUME NEW n, NEW op, Walk(p, n, op) PROVE UNCHANGED <<rec, head, next, empties, regs>>
  BY <1>1 DEF Walk
<1>2. CASE WalkOn(p)
  BY <1>2 DEF WalkOn, Linked
<1>3. CASE WalkMiss(p)
  BY <1>3 DEF WalkMiss, Linked
<1>4. CASE WalkHit(p)
  BY <1>4 DEF WalkHit, Linked
<1>5. CASE KickWrite(p)
  BY <1>5 DEF KickWrite, Linked
<1>6. CASE \E n \in Names, op \in {"get", "kick"} : Walk(p, n, op)
  BY <1>1, <1>6 DEF Linked
<1> QED
  BY <1>2, <1>3, <1>4, <1>5, <1>6 DEF Lookup

LEMMA ChangeLeaves ==
  ASSUME NEW p \in Procs, Change(p)
  PROVE  Linked' = Linked /\ (UpdWrite(p) \/ (rec' = rec /\ regs' = regs))
<1>1. CASE Update(p) \/ Drop(p)
  BY <1>1 DEF Update, Drop, Linked
<1>2. CASE UpdCheck(p) \/ UpdWrite(p)
  BY <1>2 DEF UpdCheck, UpdWrite, Linked
<1> QED
  BY <1>1, <1>2 DEF Change

LEMMA CalmCall ==
  ASSUME IInv, NEW p \in Procs, Lookup(p) \/ Change(p)
  PROVE  Calm
<1> DEFINE o == act[p]
<1>1. PICK a : act' = [act EXCEPT ![p] = a] /\ a.pc \notin Locked /\ o.pc \notin Locked
  <2>1. o \in Action /\ Idle.pc \notin Locked
    BY Own DEF Idle, Locked
  <2>2. ASSUME NEW n \in Names, NEW op \in {"get", "kick"}, Walk(p, n, op)
        PROVE  \E a : act' = [act EXCEPT ![p] = a] /\ a.pc \notin Locked /\ o.pc \notin Locked
    <3> DEFINE a == [Idle EXCEPT !.pc = "walk", !.op = op, !.id = n, !.at = head[Hash[n]]]
    <3>1. act' = [act EXCEPT ![p] = a] /\ a.pc \notin Locked /\ o.pc \notin Locked
      BY <2>1, <2>2 DEF Walk, Idle, Locked
    <3> QED BY <3>1
  <2>3. CASE WalkOn(p)
    <3> DEFINE a == [o EXCEPT !.at = next[o.at]]
    <3>1. act' = [act EXCEPT ![p] = a] /\ o.pc = "walk"
      BY <2>3 DEF WalkOn, IInv, TypeOK
    <3>2. a.pc = "walk"
      BY <2>1, <3>1 DEF Action
    <3> QED BY <3>1, <3>2 DEF Locked
  <2>4. CASE WalkMiss(p) \/ Drop(p) \/ KickWrite(p) \/ UpdWrite(p)
    <3>1. act' = [act EXCEPT ![p] = Idle] /\ o.pc \in {"walk", "hold", "kick", "update"}
      BY <2>4 DEF WalkMiss, Drop, KickWrite, UpdWrite
    <3> QED BY <2>1, <3>1 DEF Locked
  <2>5. CASE WalkHit(p)
    <3> DEFINE x == IF o.op = "kick" THEN "kick" ELSE "hold"
               b == [o EXCEPT !.pc = "check"]
               c == [o EXCEPT !.pc = x, !.copy = rec[o.at]]
    <3>1. o.pc = "walk" /\ \E a \in {b, Idle, c} : act' = [act EXCEPT ![p] = a]
      BY <2>5 DEF WalkHit
    <3>2. b.pc = "check" /\ c.pc = x /\ x \in {"kick", "hold"}
      BY <2>1 DEF Action
    <3> HIDE DEF b, c, x, o
    <3> QED BY <2>1, <3>1, <3>2 DEF Locked
  <2>6. CASE Update(p)
    <3> DEFINE b == [o EXCEPT !.pc = "check"]
               c == [o EXCEPT !.pc = "walk", !.op = "update", !.at = head[Hash[o.id]]]
    <3>1. o.pc = "hold" /\ \E a \in {b, c} : act' = [act EXCEPT ![p] = a]
      BY <2>6 DEF Update, IInv, TypeOK
    <3>2. b.pc = "check" /\ c.pc = "walk"
      BY <2>1 DEF Action
    <3> HIDE DEF b, c, o
    <3> QED BY <3>1, <3>2 DEF Locked
  <2>7. CASE UpdCheck(p)
    <3> DEFINE b == [o EXCEPT !.pc = "update"]
    <3>1. o.pc = "check" /\ \E a \in {b, Idle} : act' = [act EXCEPT ![p] = a]
      BY <2>7 DEF UpdCheck
    <3>2. b.pc = "update"
      BY <2>1 DEF Action
    <3> HIDE DEF b, o
    <3> QED BY <2>1, <3>1, <3>2 DEF Locked
  <2> QED BY <2>2, <2>3, <2>4, <2>5, <2>6, <2>7 DEF Lookup, Change
<1>2. HandsSame
  BY <1>1 DEF HandsSame, IInv, TypeOK
<1>3. head' = head /\ next' = next /\ empties' = empties
  BY LookupLeaves, ChangeLeaves DEF Linked
<1>4. IdsSame
  <2>1. CASE rec' = rec
    BY <2>1 DEF IdsSame
  <2>2. CASE KickWrite(p) \/ UpdWrite(p)
    <3>1. /\ o.copy \in Userec /\ o.at \in Slots /\ rec[o.at].id = o.copy.id
          /\ rec \in [Slots -> Userec]
      BY <2>2, Own DEF KickWrite, UpdWrite, Knows, Action
    <3>2. \E k : rec' = [rec EXCEPT ![o.at] = [o.copy EXCEPT !.kickout = k]]
      BY <2>2 DEF KickWrite, UpdWrite
    <3> HIDE DEF o
    <3> QED BY <3>1, <3>2 DEF IdsSame, Userec
  <2>3. rec' = rec \/ KickWrite(p) \/ UpdWrite(p)
    BY LookupLeaves, ChangeLeaves
  <2> QED BY <2>1, <2>2, <2>3
<1> QED BY <1>2, <1>3, <1>4 DEF Calm

LEMMA CalmRest ==
  ASSUME IInv, Day \/ UNCHANGED vars
  PROVE  Calm
<1>1. CASE Day
  <2>1. rec \in [Slots -> Userec]
    BY DEF IInv, TypeOK
  <2>2. IdsSame
    BY <1>1, <2>1 DEF Day, Userec, IdsSame
  <2> QED BY <1>1, <2>2 DEF Day, Calm, HandsSame
<1>2. CASE UNCHANGED vars
  BY <1>2 DEF vars, Calm, IdsSame, HandsSame
<1> QED BY <1>1, <1>2

LEMMA ListCalm ==
  ASSUME IInv, ListInv, Calm
  PROVE  ListInv'
<1>1. HandsKept
  BY DEF Calm, HandsSame, HandsKept
<1> QED BY <1>1, ListKept DEF Calm

LEMMA ListFault ==
  ASSUME IInv, ListInv, Fault
  PROVE  ListInv'
<1>1. PICK p \in Procs : InsFail(p) \/ DelFail(p) \/ Die(p)
  BY DEF Fault
<1>2. head' = head /\ next' = next /\ IdsSame
  BY <1>1 DEF InsFail, DelFail, Die, IdsSame
<1>3. CASE InsFail(p) \/ Die(p)
  <2>1. act' = [act EXCEPT ![p] = Idle] /\ Idle.pc \notin Locked
    BY <1>3 DEF InsFail, Die, Idle, Locked
  <2>2. HandsKept
    BY <2>1 DEF HandsKept, IInv, TypeOK
  <2> QED BY <1>2, <2>2, ListKept
<1>4. CASE DelFail(p)
  <2> DEFINE a == [act[p] EXCEPT !.pc = "empty"]
  <2>1. act[p] \in Action /\ act[p].pc = "delete" /\ act' = [act EXCEPT ![p] = a]
    BY <1>4, Own DEF DelFail, IInv, TypeOK
  <2>2. a.pc = "empty" /\ a.at = act[p].at /\ a.id = act[p].id
    BY <2>1 DEF Action
  <2> HIDE DEF a
  <2>3. HandsKept
    BY <2>1, <2>2 DEF HandsKept, IInv, TypeOK, Locked
  <2> QED BY <1>2, <2>3, ListKept
<1> QED BY <1>1, <1>3, <1>4

\* A slot goes from chain h into the hand of p, or back.
TakenBy(p, h, i, pc) ==
  /\ ~lock /\ act'[p].at = i /\ act'[p].pc = pc
  /\ OnlyChain(head, next, head', next', h, On(h) \ {i})
PutOn(p, h) ==
  /\ act' = [act EXCEPT ![p] = Idle]
  /\ OnlyChain(head, next, head', next', h, On(h) \cup {act[p].at})

LEMMA InsTakeList ==
  ASSUME IInv, ListInv, NEW p \in Procs, NEW n \in Names, InsTake(p, n)
  PROVE  /\ ListInv'
         /\ \E i \in On(0) : rec[i].id = NoName /\ TakenBy(p, 0, i, "insert")
<1> DEFINE A(i) == [Idle EXCEPT !.pc = "insert", !.id = n, !.at = i]
<1>1. PICK i \in Slots : /\ i \in Chain(0) /\ rec[i].id = NoName
                        /\ Unlink(0, i) /\ act' = [act EXCEPT ![p] = A(i)]
  BY DEF InsTake, First
<1> DEFINE a == A(i)
<1>2. a.pc = "insert" /\ a.id = n /\ a.at = i /\ act' = [act EXCEPT ![p] = a]
  BY <1>1 DEF Idle
<1>3. i \in On(0) /\ 0 \in Chains
  BY <1>1, ChainIs, HashChain
<1>4. ~lock /\ rec' = rec /\ Unlink(0, i)
  BY <1>1 DEF InsTake
<1>5. \A s \in On(Hash[n]) \ {i} : rec[s].id # n
  BY ChainIs DEF InsTake, Found
<1> HIDE DEF a
<1>6. \A s \in On(Hash[a.id]) \ {i} : rec[s].id # a.id
  BY <1>2, <1>5
<1>7. a.id \in Names
  BY <1>2
<1>8. ListInv' /\ OnlyChain(head, next, head', next', 0, On(0) \ {i})
  BY <1>2, <1>3, <1>4, <1>6, <1>7, ListTake
<1>9. act'[p] = a
  BY <1>2 DEF IInv, TypeOK
<1> QED BY <1>1, <1>2, <1>3, <1>4, <1>8, <1>9 DEF TakenBy

LEMMA DelUnlinkList ==
  ASSUME IInv, ListInv, NEW p \in Procs, NEW n \in Names, DelUnlink(p, n)
  PROVE  /\ ListInv'
         /\ \E i \in On(Hash[n]) : rec[i].id = n /\ TakenBy(p, Hash[n], i, "delete")
<1> DEFINE A(i) == [Idle EXCEPT !.pc = "delete", !.id = n, !.at = i]
           h == Hash[n]
<1>1. PICK i \in Slots : /\ i \in Chain(h) /\ rec[i].id = n
                        /\ Unlink(h, i) /\ act' = [act EXCEPT ![p] = A(i)]
  BY DEF DelUnlink, First, Found
<1> DEFINE a == A(i)
<1>2. a.pc = "delete" /\ a.id = n /\ a.at = i /\ act' = [act EXCEPT ![p] = a]
  BY <1>1 DEF Idle
<1>3. i \in On(h) /\ h \in Chains /\ h \in 1 .. UCACHE_HASHSIZE
  BY <1>1, ChainIs, HashChain
<1>4. ~lock /\ rec' = rec /\ Unlink(h, i)
  BY <1>1 DEF DelUnlink
<1>5. \A s \in On(h) \ {i} : rec[s].id # n
  BY <1>1, <1>3 DEF ListInv, OnceOn
<1> HIDE DEF a
<1>6. \A s \in On(Hash[a.id]) \ {i} : rec[s].id # a.id
  BY <1>2, <1>5
<1> HIDE DEF h
<1>7. a.id \in Names /\ rec[i].id = a.id
  BY <1>1, <1>2
<1>8. ListInv' /\ OnlyChain(head, next, head', next', h, On(h) \ {i})
  BY <1>2, <1>3, <1>4, <1>6, <1>7, ListTake
<1>9. act'[p] = a
  BY <1>2 DEF IInv, TypeOK
<1>10. TakenBy(p, h, i, "delete")
  BY <1>2, <1>4, <1>8, <1>9 DEF TakenBy
<1> QED BY <1>1, <1>3, <1>8, <1>10 DEF h

LEMMA ToEmptyList ==
  ASSUME IInv, ListInv, NEW p \in Procs, InsAbort(p) \/ DelLink(p)
  PROVE  ListInv' /\ PutOn(p, 0)
<1> DEFINE i == act[p].at
<1>1. act[p].pc \in Locked /\ i \in Slots /\ 0 \in Chains
  BY Own, HashChain DEF InsAbort, DelLink, Locked, Knows
<1>2. Push(0, i) /\ act' = [act EXCEPT ![p] = Idle] /\ rec' = rec
  BY DEF InsAbort, DelLink
<1>3. i = act[p].at
  OBVIOUS
<1> HIDE DEF i
<1>4. ListInv' /\ OnlyChain(head, next, head', next', 0, On(0) \cup {i})
  BY <1>1, <1>2, <1>3, ListPut
<1> QED BY <1>2, <1>3, <1>4 DEF PutOn

LEMMA ToHashList ==
  ASSUME IInv, ListInv, NEW p \in Procs, InsLink(p) \/ DelAbort(p)
  PROVE  ListInv' /\ PutOn(p, Hash[act[p].id])
<1> DEFINE i == act[p].at
           h == Hash[act[p].id]
<1>1. /\ act[p].pc \in {"link", "delete"} /\ act[p].pc \in Locked
      /\ i \in Slots /\ act[p].id \in Names
  BY Own DEF InsLink, DelAbort, Locked, Knows
<1>2. Push(h, i) /\ act' = [act EXCEPT ![p] = Idle] /\ rec' = rec
  BY DEF InsLink, DelAbort
<1>3. rec[i].id = act[p].id /\ \A s \in On(h) : rec[s].id # rec[i].id
  BY <1>1 DEF ListInv, Named, Alone
<1>4. h \in Chains /\ Hash[rec[i].id] = h /\ rec[i].id # NoName
  BY <1>1, <1>3, HashChain, ConstantsAssumption
<1>5. i = act[p].at
  OBVIOUS
<1> HIDE DEF i, h
<1>6. ListInv' /\ OnlyChain(head, next, head', next', h, On(h) \cup {i})
  BY <1>1, <1>2, <1>3, <1>4, <1>5, ListPut
<1>7. PutOn(p, h)
  BY <1>2, <1>5, <1>6 DEF PutOn
<1> QED BY <1>6, <1>7 DEF h

LEMMA WriteList ==
  ASSUME IInv, ListInv, NEW p \in Procs, InsWrite(p) \/ DelWrite(p)
  PROVE  ListInv'
<1> DEFINE o == act[p]
<1>1. o \in Action /\ rec \in [Slots -> Userec] /\ o.pc \in {"insert", "delete"} /\ o.at \in Slots
  BY Own DEF InsWrite, DelWrite, Knows
<1>2. /\ head' = head /\ next' = next
      /\ \A s \in Slots : s # o.at => rec'[s] = rec[s]
  BY <1>1 DEF InsWrite, DelWrite
<1>3. CASE InsWrite(p)
  <2> DEFINE a == [o EXCEPT !.pc = "link"]
  <2>1. act' = [act EXCEPT ![p] = a] /\ o.pc = "insert" /\ rec'[o.at].id = o.id
    BY <1>1, <1>3 DEF InsWrite, IInv, TypeOK
  <2>2. a.pc = "link" /\ a.at = o.at /\ a.id = o.id
    BY <1>1 DEF Action
  <2> HIDE DEF a
  <2> QED BY <1>1, <1>2, <2>1, <2>2, ListWrite DEF Locked
<1>4. CASE DelWrite(p)
  <2> DEFINE a == [o EXCEPT !.pc = "empty"]
  <2>1. act' = [act EXCEPT ![p] = a] /\ o.pc = "delete"
    BY <1>1, <1>4 DEF DelWrite, IInv, TypeOK
  <2>2. a.pc = "empty" /\ a.at = o.at /\ a.id = o.id
    BY <1>1 DEF Action
  <2> HIDE DEF a
  <2> QED BY <1>1, <1>2, <2>1, <2>2, ListWrite DEF Locked
<1> QED BY <1>3, <1>4

LEMMA BootList ==
  ASSUME IInv, Boot
  PROVE  /\ ListInv'
         /\ On(0)' = Empty(rec) /\ \A h \in 1 .. UCACHE_HASHSIZE : On(h)' = Hashing(rec, h)
<1>1. /\ rec' \in [Slots -> Userec] /\ Unique(rec)' /\ rec' = rec
      /\ head' = Loaded(rec').head /\ next' = Loaded(rec').next
      /\ \A p \in Procs : act'[p] = Idle
  BY DEF Boot, IInv, TypeOK, Unique
<1>2. Shape(head', next')
  BY <1>1, LoadedChains
<1>3. On(0)' = Empty(rec) /\ \A h \in 1 .. UCACHE_HASHSIZE : On(h)' = Hashing(rec, h)
  BY <1>1, LoadedChains DEF On
<1>4. HashedOnly' /\ OnceOn'
  BY <1>1, <1>3 DEF HashedOnly, OnceOn, Hashing, Unique, Boot
<1>5. HandOff' /\ Alone' /\ Named'
  BY <1>1 DEF HandOff, Alone, Named, Locked, Idle
<1> QED BY <1>2, <1>3, <1>4, <1>5 DEF ListInv

LEMMA ListStep ==
  ASSUME IInv, ListInv, [Next \/ Fault]_vars
  PROVE  ListInv'
<1>1. ASSUME NEW p \in Procs, Insert(p) PROVE ListInv'
  BY <1>1, InsTakeList, ToEmptyList, ToHashList, WriteList DEF Insert
<1>2. ASSUME NEW p \in Procs, Delete(p) PROVE ListInv'
  BY <1>2, DelUnlinkList, ToEmptyList, ToHashList, WriteList DEF Delete
<1>3. ASSUME NEW p \in Procs, Lookup(p) \/ Change(p) PROVE ListInv'
  BY <1>3, CalmCall, ListCalm
<1>4. CASE Day \/ UNCHANGED vars
  BY <1>4, CalmRest, ListCalm
<1>5. CASE Boot
  BY <1>5, BootList
<1>6. CASE Fault
  BY <1>6, ListFault
<1> QED BY <1>1, <1>2, <1>3, <1>4, <1>5, <1>6 DEF Next

LEMMA InitialUnique ==
  ASSUME Init
  PROVE  rec \in [Slots -> Userec] /\ Unique(rec)
<1>1. rec \in [Slots -> Userec]
  BY Initial DEF IInv, TypeOK
<1>2. \A i \in Slots : rec[i].id # NoName => i = 1
  BY DEF Init, Zeroed
<1>3. Unique(rec)
  BY <1>2, ConstantsAssumption DEF Unique
<1> QED BY <1>1, <1>3

LEMMA ListInitial == Init => ListInv
<1> SUFFICES ASSUME Init PROVE ListInv
  OBVIOUS
<1>1. /\ head = Loaded(rec).head /\ next = Loaded(rec).next
      /\ \A p \in Procs : act[p] = Idle
  BY DEF Init
<1> QED BY <1>1, InitialUnique, ListLoaded

LEMMA ListAlways == FaultySpec => []ListInv
<1>1. IInv /\ ListInv /\ [Next \/ Fault]_vars => ListInv'
  BY ListStep
<1> QED BY <1>1, ListInitial, Invariant, PTL DEF FaultySpec

(***************************************************************************)
(* Whatever the interleaving, and whatever fails: a userid is on its chain *)
(* once, so that insertuserec and deluserec never work on another slot     *)
(* than the one users are found in.                                        *)
(***************************************************************************)
THEOREM FoundInOneSlot == FaultySpec => []ListedOnce
<1>1. ListInv => ListedOnce
  <2> SUFFICES ASSUME ListInv, NEW n \in Names, NEW i \in Chain(Hash[n]),
                      NEW k \in Chain(Hash[n]), rec[i].id = n, rec[k].id = n
               PROVE  i = k
    BY DEF ListedOnce
  <2>1. i \in On(Hash[n]) /\ k \in On(Hash[n]) /\ Hash[n] \in 1 .. UCACHE_HASHSIZE
    BY ChainIs, HashChain
  <2> QED BY <2>1 DEF ListInv, OnceOn
<1> QED BY <1>1, ListAlways, PTL

-----------------------------------------------------------------------------
(***************************************************************************)
(* When nothing fails.  Every slot but the one in hand is on the chain of  *)
(* its userid, the empty ones are counted, and no userid has two slots:    *)
(* what insertuserec writes in its slot was on no chain, so nowhere.       *)
(***************************************************************************)
Hand == {act[p].at : p \in {q \in Procs : act[q].pc \in Locked}}
Place(n) == IF n = NoName THEN 0 ELSE Hash[n]

Listed == \A i \in Slots \ Hand : i \in On(Place(rec[i].id))
Emptied == \A p \in Procs : act[p].pc = "empty" => rec[act[p].at].id = NoName
Counted == empties = Cardinality(Empty(rec) \ Hand)

ExactInv == Unique(rec) /\ Listed /\ Emptied /\ Counted

LEMMA PlaceTyped == \A n \in Names \cup {NoName} : Place(n) \in Chains
BY HashChain DEF Place

LEMMA HandIs ==
  ASSUME Mutex
  PROVE  /\ \A p \in Procs : act[p].pc \in Locked => Hand = {act[p].at}
         /\ (\A p \in Procs : act[p].pc \notin Locked) => Hand = {}
         /\ ~lock => Hand = {}
<1>1. ASSUME NEW p \in Procs, act[p].pc \in Locked PROVE Hand = {act[p].at}
  <2>1. \A q \in Procs : act[q].pc \in Locked => q = p
    BY <1>1 DEF Mutex
  <2> QED BY <1>1, <2>1 DEF Hand
<1>2. (\A p \in Procs : act[p].pc \notin Locked) => Hand = {}
  BY DEF Hand
<1>3. ~lock => \A p \in Procs : act[p].pc \notin Locked
  BY DEF Mutex
<1> QED BY <1>1, <1>2, <1>3

LEMMA EmptyFinite ==
  ASSUME NEW r, NEW S
  PROVE  IsFiniteSet(Empty(r) \ S)
<1>1. IsFiniteSet(Slots)
  BY ConstantsAssumption, FS_Interval DEF Slots
<1>2. Empty(r) \ S \subseteq Slots
  BY DEF Empty
<1> QED BY <1>1, <1>2, FS_Subset

LEMMA ExactCalm ==
  ASSUME IInv, ExactInv, Calm
  PROVE  ExactInv'
<1>1. \A i \in Slots : rec'[i].id = rec[i].id
  BY DEF Calm, IdsSame
<1>2. Hand' = Hand
  BY DEF Calm, HandsSame, Hand
<1>3. Unique(rec)'
  BY <1>1 DEF ExactInv, Unique
<1>4. Listed'
  <2> SUFFICES ASSUME NEW i \in Slots \ Hand
               PROVE  i \in ChainIn(head', next', Place(rec'[i].id))
    BY <1>2 DEF Listed, On
  <2> QED BY <1>1 DEF ExactInv, Listed, On, Calm
<1>5. Emptied'
  <2> SUFFICES ASSUME NEW p \in Procs, act'[p].pc = "empty" PROVE rec'[act'[p].at].id = NoName
    BY DEF Emptied
  <2>1. act[p].pc = "empty" /\ act'[p].at = act[p].at
    BY DEF Calm, HandsSame, Locked
  <2>2. act[p].at \in Slots
    BY <2>1, Own DEF Knows
  <2> QED BY <1>1, <2>1, <2>2 DEF ExactInv, Emptied
<1>6. Counted'
  <2>1. Empty(rec') = Empty(rec)
    BY <1>1 DEF Empty
  <2>2. empties' = empties
    BY DEF Calm
  <2> QED BY <1>2, <2>1, <2>2 DEF ExactInv, Counted
<1> QED BY <1>3, <1>4, <1>5, <1>6 DEF ExactInv

LEMMA ExactTake ==
  ASSUME IInv, IInv', ExactInv, NEW p \in Procs, NEW i \in Slots,
         NEW pc \in {"insert", "delete"},
         TakenBy(p, Place(rec[i].id), i, pc), rec' = rec,
         empties' = IF rec[i].id = NoName THEN empties - 1 ELSE empties
  PROVE  ExactInv'
<1> DEFINE h == Place(rec[i].id)
<1>1. rec[i].id \in Names \cup {NoName} /\ h \in Chains
  BY PlaceTyped DEF IInv, TypeOK, Userec
<1>2. /\ act'[p].at = i /\ act'[p].pc \in {"insert", "delete"} /\ ~lock
      /\ ChainIn(head', next', h) = On(h) \ {i}
      /\ \A g \in Chains \ {h} : ChainIn(head', next', g) = On(g)
  BY DEF TakenBy, OnlyChain, On
<1>3. Hand = {}
  BY <1>2, HandIs DEF IInv
<1>4. Mutex' /\ act'[p].pc \in Locked
  BY <1>2 DEF IInv, Locked
<1>5. Hand' = {i}
  <2>1. \A q \in Procs : act'[q].pc \in Locked => q = p
    BY <1>4 DEF Mutex
  <2> QED BY <1>2, <1>4, <2>1 DEF Hand
<1>6. Unique(rec)'
  BY DEF ExactInv, Unique
<1>7. Listed'
  <2> SUFFICES ASSUME NEW k \in Slots \ {i}
               PROVE  k \in ChainIn(head', next', Place(rec[k].id))
    BY <1>5 DEF Listed, On
  <2> DEFINE g == Place(rec[k].id)
  <2>1. g \in Chains
    BY PlaceTyped DEF IInv, TypeOK, Userec
  <2>2. k \in On(g)
    BY <1>3 DEF ExactInv, Listed
  <2> HIDE DEF g, h
  <2>3. k \in ChainIn(head', next', g)
    BY <1>2, <2>1, <2>2
  <2> QED BY <2>3 DEF g
<1>8. Emptied'
  <2>1. \A q \in Procs : act'[q].pc # "empty"
    BY <1>2, <1>4 DEF Mutex, Locked
  <2> QED BY <2>1 DEF Emptied
<1>9. Counted'
  <2>1. empties = Cardinality(Empty(rec))
    BY <1>3 DEF ExactInv, Counted
  <2>2. CASE rec[i].id = NoName
    <3> DEFINE E == Empty(rec)
    <3>1. IsFiniteSet(E \ {}) /\ E \ {} = E
      BY EmptyFinite
    <3>2. i \in E /\ IsFiniteSet(E)
      BY <2>2, <3>1 DEF Empty
    <3> HIDE DEF E
    <3>3. Cardinality(E \ {i}) = Cardinality(E) - 1
      BY <3>2, FS_RemoveElement
    <3> QED BY <1>5, <2>1, <2>2, <3>3 DEF Counted, E
  <2>3. CASE rec[i].id # NoName
    <3>1. Empty(rec) \ {i} = Empty(rec)
      BY <2>3 DEF Empty
    <3> QED BY <1>5, <2>1, <2>3, <3>1 DEF Counted
  <2> QED BY <2>2, <2>3
<1> QED BY <1>6, <1>7, <1>8, <1>9 DEF ExactInv

LEMMA ExactPut ==
  ASSUME IInv, ExactInv, NEW p \in Procs, act[p].pc \in Locked,
         NEW i \in Slots, i = act[p].at, PutOn(p, Place(rec[i].id)), rec' = rec,
         empties' = IF rec[i].id = NoName THEN empties + 1 ELSE empties
  PROVE  ExactInv'
<1> DEFINE h == Place(rec[i].id)
<1>1. rec[i].id \in Names \cup {NoName} /\ h \in Chains
  BY PlaceTyped DEF IInv, TypeOK, Userec
<1>2. /\ act' = [act EXCEPT ![p] = Idle]
      /\ ChainIn(head', next', h) = On(h) \cup {i}
      /\ \A g \in Chains \ {h} : ChainIn(head', next', g) = On(g)
  BY DEF PutOn, OnlyChain, On
<1>3. Hand = {i}
  BY HandIs DEF IInv
<1>4. \A q \in Procs : act'[q].pc \notin Locked
  BY <1>2 DEF IInv, TypeOK, Mutex, Locked, Idle
<1>5. Hand' = {}
  BY <1>4 DEF Hand
<1>6. Unique(rec)'
  BY DEF ExactInv, Unique
<1>7. Listed'
  <2> SUFFICES ASSUME NEW k \in Slots
               PROVE  k \in ChainIn(head', next', Place(rec[k].id))
    BY <1>5 DEF Listed, On
  <2> DEFINE g == Place(rec[k].id)
  <2>1. g \in Chains
    BY PlaceTyped DEF IInv, TypeOK, Userec
  <2>2. k \in On(g) \/ k = i
    BY <1>3 DEF ExactInv, Listed
  <2>4. k = i => g = h
    OBVIOUS
  <2> HIDE DEF g, h
  <2>3. k \in ChainIn(head', next', g)
    BY <1>2, <2>1, <2>2, <2>4
  <2> QED BY <2>3 DEF g
<1>8. Emptied'
  BY <1>4 DEF Emptied, Locked
<1>9. Counted'
  <2>1. empties = Cardinality(Empty(rec) \ {i}) /\ IsFiniteSet(Empty(rec) \ {i})
    BY <1>3, EmptyFinite DEF ExactInv, Counted
  <2>2. CASE rec[i].id = NoName
    <3> DEFINE T == Empty(rec) \ {i}
    <3>1. i \notin T /\ T \cup {i} = Empty(rec) /\ IsFiniteSet(T)
      BY <2>1, <2>2 DEF Empty
    <3>2. Cardinality(T \cup {i}) = Cardinality(T) + 1
      BY <3>1, FS_AddElement
    <3> QED BY <1>5, <2>1, <2>2, <3>1, <3>2 DEF Counted
  <2>3. CASE rec[i].id # NoName
    <3>1. Empty(rec) \ {i} = Empty(rec)
      BY <2>3 DEF Empty
    <3> QED BY <1>5, <2>1, <2>3, <3>1 DEF Counted
  <2> QED BY <2>2, <2>3
<1> QED BY <1>6, <1>7, <1>8, <1>9 DEF ExactInv

\* insertuserec and deluserec write the record they have in hand.  A userid that is not on
\* its chain is nowhere.
LEMMA ExactWrite ==
  ASSUME IInv, ListInv, ExactInv, NEW p \in Procs, InsWrite(p) \/ DelWrite(p)
  PROVE  ExactInv'
<1> DEFINE o == act[p]
           i == o.at
           n == rec'[i].id
<1>1. /\ o \in Action /\ rec \in [Slots -> Userec] /\ i \in Slots
      /\ o.pc \in Locked /\ o.pc \in {"insert", "delete"}
      /\ o.pc = "insert" => rec[i].id = NoName
  BY Own DEF InsWrite, DelWrite, Knows, Locked
<1>2. /\ head' = head /\ next' = next /\ empties' = empties
      /\ \A k \in Slots : k # i => rec'[k] = rec[k]
  BY <1>1 DEF InsWrite, DelWrite
<1>3. /\ act'[p].pc \in {"link", "empty"} /\ act'[p].at = i
      /\ act'[p].pc = "empty" => n = NoName
      /\ \A q \in Procs \ {p} : act'[q].pc \notin Locked
  <2>1. ASSUME InsWrite(p) PROVE act'[p] = [o EXCEPT !.pc = "link"]
    BY <2>1 DEF InsWrite, IInv, TypeOK
  <2>2. ASSUME DelWrite(p)
        PROVE  act'[p] = [o EXCEPT !.pc = "empty"] /\ n = NoName
    BY <1>1, <2>2 DEF DelWrite, IInv, TypeOK, Zeroed
  <2>3. \A q \in Procs \ {p} : act'[q] = act[q]
    BY DEF InsWrite, DelWrite, IInv, TypeOK
  <2>4. \A q \in Procs \ {p} : act[q].pc \notin Locked
    BY <1>1 DEF IInv, Mutex
  <2>5. act'[p].pc \in {"link", "empty"} /\ act'[p].at = i
    BY <1>1, <2>1, <2>2 DEF Action
  <2>6. act'[p].pc = "empty" => n = NoName
    BY <1>1, <2>1, <2>2 DEF Action
  <2> QED BY <2>3, <2>4, <2>5, <2>6
<1>4. Hand = {i}
  BY <1>1, HandIs DEF IInv
<1>5. Hand' = {i}
  <2>1. act'[p].pc \in Locked
    BY <1>3 DEF Locked
  <2> QED BY <1>3, <2>1 DEF Hand
<1>6. \A k \in Slots \ {i} : n # NoName => rec[k].id # n
  <2>1. CASE InsWrite(p)
    <3>1. n = o.id /\ o.id \in Names /\ o.pc = "insert"
      BY <1>1, <2>1, Own DEF InsWrite, Knows
    <3>2. \A s \in On(Hash[o.id]) : rec[s].id # o.id
      BY <3>1 DEF ListInv, Alone
    <3>3. Place(o.id) = Hash[o.id]
      BY <3>1, ConstantsAssumption DEF Place
    <3> QED BY <1>4, <3>1, <3>2, <3>3 DEF ExactInv, Listed
  <2>2. CASE DelWrite(p)
    BY <1>1, <2>2 DEF DelWrite, Zeroed
  <2> QED BY <2>1, <2>2
<1>7. Unique(rec)'
  <2> SUFFICES ASSUME NEW j \in Slots, NEW k \in Slots,
                      rec'[j].id # NoName, rec'[j].id = rec'[k].id, j # k
               PROVE  FALSE
    BY DEF Unique
  <2>1. CASE j = i
    BY <1>2, <1>6, <2>1
  <2>2. CASE k = i
    BY <1>2, <1>6, <2>2
  <2>3. CASE j # i /\ k # i
    BY <1>2, <2>3 DEF ExactInv, Unique
  <2> QED BY <2>1, <2>2, <2>3
<1>8. Listed'
  <2> SUFFICES ASSUME NEW k \in Slots \ {i}
               PROVE  k \in ChainIn(head', next', Place(rec'[k].id))
    BY <1>5 DEF Listed, On
  <2> QED BY <1>2, <1>4 DEF ExactInv, Listed, On
<1>9. Emptied'
  <2> SUFFICES ASSUME NEW q \in Procs, act'[q].pc = "empty" PROVE rec'[act'[q].at].id = NoName
    BY DEF Emptied
  <2>1. q = p
    BY <1>3 DEF Locked
  <2> QED BY <1>3, <2>1
<1>10. Counted'
  <2>1. Empty(rec') \ {i} = Empty(rec) \ {i}
    BY <1>2 DEF Empty
  <2> QED BY <1>2, <1>4, <1>5, <2>1 DEF ExactInv, Counted
<1> QED BY <1>7, <1>8, <1>9, <1>10 DEF ExactInv

\* The chains have just been built.
JustLoaded ==
  /\ rec \in [Slots -> Userec] /\ Unique(rec) /\ empties = Cardinality(Empty(rec))
  /\ head = Loaded(rec).head /\ next = Loaded(rec).next
  /\ \A p \in Procs : act[p] = Idle

LEMMA ExactLoaded == JustLoaded => ExactInv
<1> SUFFICES ASSUME JustLoaded PROVE ExactInv
  OBVIOUS
<1>0. /\ rec \in [Slots -> Userec] /\ Unique(rec) /\ empties = Cardinality(Empty(rec))
      /\ head = Loaded(rec).head /\ next = Loaded(rec).next
      /\ \A p \in Procs : act[p] = Idle
  BY DEF JustLoaded
<1>1. /\ On(0) = Empty(rec)
      /\ \A h \in 1 .. UCACHE_HASHSIZE : On(h) = Hashing(rec, h)
  BY <1>0, LoadedChains DEF On
<1>2. Hand = {} /\ Emptied
  BY <1>0 DEF Hand, Emptied, Locked, Idle
<1>3. ASSUME NEW i \in Slots PROVE i \in On(Place(rec[i].id))
  <2>1. CASE rec[i].id = NoName
    BY <1>1, <2>1 DEF Place, Empty
  <2>2. CASE rec[i].id # NoName
    <3> DEFINE h == Hash[rec[i].id]
    <3>1. h \in 1 .. UCACHE_HASHSIZE /\ i \in Hashing(rec, h)
      BY <1>0, <2>2, HashChain DEF Userec, Hashing
    <3>2. Place(rec[i].id) = h
      BY <2>2 DEF Place
    <3> HIDE DEF h
    <3> QED BY <1>1, <3>1, <3>2
  <2> QED BY <2>1, <2>2
<1>4. Listed
  BY <1>3 DEF Listed
<1>5. Empty(rec) \ {} = Empty(rec)
  OBVIOUS
<1>6. Counted
  BY <1>0, <1>2, <1>5 DEF Counted
<1> QED BY <1>0, <1>2, <1>4, <1>6 DEF ExactInv

LEMMA ExactLoadedNext == JustLoaded' => ExactInv'
BY ExactLoaded, PTL

LEMMA ExactStep ==
  ASSUME IInv, ListInv, ExactInv, [Next]_vars
  PROVE  ExactInv'
<1>0. IInv'
  BY Inductive
<1>1. ASSUME NEW p \in Procs, NEW n \in Names, InsTake(p, n) PROVE ExactInv'
  <2>1. PICK i \in On(0) : rec[i].id = NoName /\ TakenBy(p, 0, i, "insert")
    BY <1>1, InsTakeList
  <2>2. i \in Slots /\ Place(rec[i].id) = 0
    BY <2>1, OnSlots DEF Place
  <2>3. rec' = rec /\ empties' = IF rec[i].id = NoName THEN empties - 1 ELSE empties
    BY <1>1, <2>1 DEF InsTake
  <2>4. TakenBy(p, Place(rec[i].id), i, "insert")
    BY <2>1, <2>2
  <2> QED BY <1>0, <2>2, <2>3, <2>4, ExactTake
<1>2. ASSUME NEW p \in Procs, NEW n \in Names, DelUnlink(p, n) PROVE ExactInv'
  <2>1. PICK i \in On(Hash[n]) : rec[i].id = n /\ TakenBy(p, Hash[n], i, "delete")
    BY <1>2, DelUnlinkList
  <2>2. i \in Slots /\ Place(rec[i].id) = Hash[n] /\ rec[i].id # NoName
    BY <2>1, OnSlots, ConstantsAssumption DEF Place
  <2>3. rec' = rec /\ empties' = IF rec[i].id = NoName THEN empties - 1 ELSE empties
    BY <1>2, <2>2 DEF DelUnlink
  <2>4. TakenBy(p, Place(rec[i].id), i, "delete")
    BY <2>1, <2>2
  <2> QED BY <1>0, <2>2, <2>3, <2>4, ExactTake
<1>3. ASSUME NEW p \in Procs, InsAbort(p) \/ DelLink(p) PROVE ExactInv'
  <2> DEFINE i == act[p].at
  <2>1. act[p].pc \in Locked /\ i \in Slots /\ rec[i].id = NoName
    BY <1>3, Own DEF InsAbort, DelLink, Locked, Knows, ExactInv, Emptied
  <2>2. PutOn(p, 0) /\ Place(rec[i].id) = 0
    BY <1>3, <2>1, ToEmptyList DEF Place
  <2>3. rec' = rec /\ empties' = IF rec[i].id = NoName THEN empties + 1 ELSE empties
    BY <1>3, <2>1 DEF InsAbort, DelLink
  <2>4. PutOn(p, Place(rec[i].id)) /\ i = act[p].at
    BY <2>2
  <2> HIDE DEF i
  <2> QED BY <2>1, <2>3, <2>4, ExactPut
<1>4. ASSUME NEW p \in Procs, InsLink(p) \/ DelAbort(p) PROVE ExactInv'
  <2> DEFINE i == act[p].at
  <2>1. act[p].pc \in Locked /\ i \in Slots /\ rec[i].id = act[p].id /\ rec[i].id # NoName
    BY <1>4, Own, ConstantsAssumption DEF InsLink, DelAbort, Locked, Knows, ListInv, Named
  <2>2. PutOn(p, Hash[act[p].id])
    BY <1>4, ToHashList
  <2>3. rec' = rec /\ empties' = IF rec[i].id = NoName THEN empties + 1 ELSE empties
    BY <1>4, <2>1 DEF InsLink, DelAbort
  <2>4. PutOn(p, Place(rec[i].id)) /\ i = act[p].at
    BY <2>1, <2>2 DEF Place
  <2> HIDE DEF i
  <2> QED BY <2>1, <2>3, <2>4, ExactPut
<1>5. ASSUME NEW p \in Procs, Insert(p) \/ Delete(p) PROVE ExactInv'
  BY <1>1, <1>2, <1>3, <1>4, <1>5, ExactWrite DEF Insert, Delete
<1>6. ASSUME NEW p \in Procs, Lookup(p) \/ Change(p) PROVE ExactInv'
  BY <1>6, CalmCall, ExactCalm
<1>7. CASE Day \/ UNCHANGED vars
  BY <1>7, CalmRest, ExactCalm
<1>8. CASE Boot
  <2>1. rec' = rec /\ rec \in [Slots -> Userec]
    BY <1>8 DEF Boot, IInv, TypeOK
  <2>2. JustLoaded'
    BY <1>8, <2>1 DEF Boot, JustLoaded, Unique
  <2> QED BY <2>2, ExactLoadedNext
<1> QED BY <1>5, <1>6, <1>7, <1>8 DEF Next

LEMMA ExactAlways == Spec => [](IInv /\ ListInv /\ ExactInv)
<1>1. Init => IInv /\ ListInv /\ ExactInv
  <2>1. Init => JustLoaded
    BY InitialUnique DEF Init, JustLoaded
  <2> QED BY <2>1, Initial, ListInitial, ExactLoaded
<1>2. IInv /\ ListInv /\ ExactInv /\ [Next]_vars => IInv' /\ ListInv' /\ ExactInv'
  BY Inductive, ListStep, ExactStep
<1> QED BY <1>1, <1>2, PTL DEF Spec

LEMMA PromptIsSpec == PromptSpec => Spec
<1>1. [Next /\ (Day => \A p \in Procs : act[p].pc # "hold")]_vars => [Next]_vars
  OBVIOUS
<1> QED BY <1>1, PTL DEF PromptSpec, Spec

(***************************************************************************)
(* Between two locked sections chain 0 has the empty slots, and each other *)
(* chain the slots whose userid hashes to it.                              *)
(***************************************************************************)
THEOREM ChainsPartition == Spec => []ChainsExact
<1>1. IInv /\ ListInv /\ ExactInv => ChainsExact
  <2> SUFFICES ASSUME IInv, ListInv, ExactInv, ~lock
               PROVE  /\ Chain(0) = Empty(rec)
                      /\ \A h \in 1 .. UCACHE_HASHSIZE : Chain(h) = Hashing(rec, h)
    BY DEF ChainsExact
  <2>1. \A i \in Slots : i \in On(Place(rec[i].id))
    BY HandIs DEF IInv, ExactInv, Listed
  <2>2. ASSUME NEW h \in 1 .. UCACHE_HASHSIZE PROVE Chain(h) = Hashing(rec, h)
    <3>1. On(h) \subseteq Hashing(rec, h)
      BY OnSlots DEF ListInv, HashedOnly, Hashing
    <3>2. Hashing(rec, h) \subseteq On(h)
      BY <2>1 DEF Hashing, Place
    <3> QED BY <3>1, <3>2, ChainIs
  <2>3. On(0) \subseteq Empty(rec)
    <3> SUFFICES ASSUME NEW i \in On(0), rec[i].id # NoName PROVE FALSE
      BY OnSlots DEF Empty
    <3> DEFINE h == Hash[rec[i].id]
    <3>1. i \in Slots /\ rec[i].id \in Names
      BY OnSlots DEF IInv, TypeOK, Userec
    <3>2. h \in Chains /\ h # 0 /\ i \in On(h) /\ 0 \in Chains
      BY <2>1, <3>1, HashChain DEF Place
    <3> HIDE DEF h
    <3> QED BY <3>2 DEF ListInv, Shape, On
  <2>4. Empty(rec) \subseteq On(0)
    BY <2>1 DEF Empty, Place
  <2> QED BY <2>2, <2>3, <2>4, ChainIs
<1> QED BY <1>1, ExactAlways, PTL

(***************************************************************************)
(* Between two locked sections next[0] is the number of empty slots, so    *)
(* that usersum is the number of registered users.                         *)
(***************************************************************************)
THEOREM UsersCounted == Spec => []UsersumExact
<1>1. IInv /\ ListInv /\ ExactInv => UsersumExact
  <2> SUFFICES ASSUME IInv, ExactInv, ~lock PROVE empties = Cardinality(Empty(rec))
    BY DEF UsersumExact
  <2>1. Hand = {} /\ Empty(rec) \ {} = Empty(rec)
    BY HandIs DEF IInv
  <2> QED BY <2>1 DEF ExactInv, Counted
<1> QED BY <1>1, ExactAlways, PTL

(***************************************************************************)
(* At every moment, in the middle of a registration too, .PASSWDS has no   *)
(* userid twice: load_ucache does not refuse to build the hash.            *)
(***************************************************************************)
THEOREM AlwaysBoots == Spec => []CanBoot
<1>1. IInv /\ ListInv /\ ExactInv => CanBoot
  BY DEF ExactInv, CanBoot
<1> QED BY <1>1, ExactAlways, PTL

-----------------------------------------------------------------------------
(***************************************************************************)
(* The table implements UserDir when copies are used within 23 hours.      *)
(* UpdWrite and KickWrite write the registration they have read.  That it  *)
(* is still the one in the slot is what Copied is for: the user the copy   *)
(* was made of is registered, in some slot, and cannot have been buried    *)
(* since, because that takes a Day after the kickout.                      *)
(***************************************************************************)
Holds(a) == a.pc \in {"hold", "check", "update", "kick"} \/ (a.pc = "walk" /\ a.op = "update")

Registered(r, c) == \E i \in Slots : r[i].id = c.id /\ r[i].reg = c.reg /\ r[i].kickout # 2

Copied(a, r) ==
  /\ Holds(a) => a.copy.id = a.id /\ Registered(r, a.copy)
  /\ a.pc = "kick" => a.op = "kick"
  /\ a.op = "kick" => a.id # Sysop

CopyInv == \A p \in Procs : Copied(act[p], rec)

\* What the records of users who have not been kicked out long ago become in a step.
Persist(r, s) ==
  \A i \in Slots : r[i].id \in Names /\ r[i].kickout # 2 =>
     s[i].id = r[i].id /\ s[i].reg = r[i].reg /\ s[i].kickout # 2

LEMMA CopyStep ==
  ASSUME IInv, CopyInv, NEW p \in Procs, NEW a, act' = [act EXCEPT ![p] = a],
         Persist(rec, rec'), Copied(a, rec) \/ Copied(a, rec'), Holds(a) => a.copy.id \in Names
  PROVE  CopyInv'
<1>1. ASSUME NEW b, Copied(b, rec), Holds(b) => b.copy.id \in Names PROVE Copied(b, rec')
  BY <1>1 DEF Copied, Registered, Persist
<1>2. \A q \in Procs : Holds(act[q]) => act[q].copy.id \in Names
  BY Own DEF Holds, Knows
<1>3. ASSUME NEW q \in Procs PROVE Copied(act'[q], rec')
  <2>1. CASE q = p
    BY <1>1, <2>1 DEF IInv, TypeOK
  <2>2. CASE q # p
    <3>1. act'[q] = act[q]
      BY <2>2 DEF IInv, TypeOK
    <3>2. Copied(act[q], rec)
      BY DEF CopyInv
    <3> QED BY <1>1, <1>2, <3>1, <3>2
  <2> QED BY <2>1, <2>2
<1> QED BY <1>3 DEF CopyInv

LEMMA IdleCopied == \A r : Copied(Idle, r) /\ ~Holds(Idle)
BY DEF Copied, Holds, Idle

LEMMA PersistSame == rec' = rec => Persist(rec, rec')
BY DEF Persist

\* The slot found has the registration of the copy.
LEMMA CopyFits ==
  ASSUME IInv, ExactInv, CopyInv, NEW p \in Procs, act[p].pc \in {"kick", "update"}
  PROVE  /\ act[p].at \in Slots /\ act[p].copy \in Userec
         /\ act[p].copy.id \in Names
         /\ rec[act[p].at].id = act[p].copy.id /\ rec[act[p].at].reg = act[p].copy.reg
         /\ rec[act[p].at].kickout # 2
<1> DEFINE o == act[p]
<1>1. /\ o.at \in Slots /\ o.copy \in Userec /\ o.copy.id \in Names
      /\ rec[o.at].id = o.copy.id /\ rec[o.at].kickout # 2
  BY Own DEF Knows, Action
<1>2. PICK i \in Slots : rec[i].id = o.copy.id /\ rec[i].reg = o.copy.reg
  BY DEF CopyInv, Copied, Holds, Registered
<1>3. i = o.at
  BY <1>1, <1>2, ConstantsAssumption DEF ExactInv, Unique
<1> QED BY <1>1, <1>2, <1>3

LEMMA LateWritePersists ==
  ASSUME IInv, ExactInv, CopyInv, NEW p \in Procs, KickWrite(p) \/ UpdWrite(p)
  PROVE  /\ Persist(rec, rec')
         /\ \A k \in Slots : k # act[p].at => rec'[k] = rec[k]
         /\ rec'[act[p].at].id = act[p].copy.id /\ rec'[act[p].at].reg = act[p].copy.reg
         /\ KickWrite(p) => rec'[act[p].at].kickout = 1
         /\ UpdWrite(p) => rec'[act[p].at].kickout = rec[act[p].at].kickout
<1> DEFINE o == act[p]
<1>1. /\ o.at \in Slots /\ o.copy \in Userec /\ rec[o.at].id = o.copy.id
      /\ rec[o.at].reg = o.copy.reg /\ rec[o.at].kickout # 2 /\ rec \in [Slots -> Userec]
  BY Own, CopyFits DEF KickWrite, UpdWrite
<1>2. PICK k \in {1, rec[o.at].kickout} :
        /\ rec' = [rec EXCEPT ![o.at] = [o.copy EXCEPT !.kickout = k]]
        /\ KickWrite(p) => k = 1
        /\ UpdWrite(p) => k = rec[o.at].kickout
  <2>1. ~(KickWrite(p) /\ UpdWrite(p))
    BY DEF KickWrite, UpdWrite
  <2> QED BY <2>1 DEF KickWrite, UpdWrite
<1> DEFINE x == [o.copy EXCEPT !.kickout = k]
<1>3. x.id = o.copy.id /\ x.reg = o.copy.reg /\ x.kickout = k /\ k # 2
  BY <1>1 DEF Userec
<1>4. rec' = [rec EXCEPT ![o.at] = x]
  BY <1>2
<1> HIDE DEF x, o
<1>5. rec'[o.at] = x /\ \A j \in Slots : j # o.at => rec'[j] = rec[j]
  BY <1>1, <1>4
<1>6. Persist(rec, rec')
  BY <1>1, <1>3, <1>5 DEF Persist
<1> QED BY <1>2, <1>3, <1>5, <1>6 DEF o

\* insertuserec writes a userid that nobody has, in a record that nobody has.
LEMMA InsWriteFacts ==
  ASSUME IInv, ListInv, ExactInv, NEW p \in Procs, InsWrite(p)
  PROVE  /\ act[p].at \in Slots /\ rec[act[p].at].id = NoName /\ act[p].id \in Names
         /\ \A k \in Slots : rec[k].id # act[p].id
         /\ rec'[act[p].at] = [id |-> act[p].id, kickout |-> 0, reg |-> regs + 1]
         /\ \A k \in Slots : k # act[p].at => rec'[k] = rec[k]
<1> DEFINE o == act[p]
<1>1. /\ o.pc = "insert" /\ o.at \in Slots /\ o.id \in Names /\ rec[o.at].id = NoName
      /\ rec \in [Slots -> Userec] /\ o.id # NoName
  BY Own, ConstantsAssumption DEF InsWrite, Knows
<1>2. Hand = {o.at}
  BY <1>1, HandIs DEF IInv, Locked
<1>3. \A s \in On(Hash[o.id]) : rec[s].id # o.id
  BY <1>1 DEF ListInv, Alone
<1>4. Place(o.id) = Hash[o.id]
  BY <1>1 DEF Place
<1>5. \A k \in Slots : rec[k].id # o.id
  BY <1>1, <1>2, <1>3, <1>4 DEF ExactInv, Listed
<1>6. /\ rec'[o.at] = [id |-> o.id, kickout |-> 0, reg |-> regs + 1]
      /\ \A k \in Slots : k # o.at => rec'[k] = rec[k]
  BY <1>1 DEF InsWrite
<1> QED BY <1>1, <1>5, <1>6

LEMMA DelWriteFacts ==
  ASSUME IInv, ListInv, ExactInv, NEW p \in Procs, DelWrite(p)
  PROVE  /\ act[p].at \in Slots /\ rec[act[p].at].id = act[p].id /\ act[p].id \in Names
         /\ rec[act[p].at].kickout = 2
         /\ rec'[act[p].at] = Zeroed
         /\ \A k \in Slots : k # act[p].at => rec'[k] = rec[k] /\ rec[k].id # act[p].id
<1> DEFINE o == act[p]
<1>1. /\ o.pc = "delete" /\ o.at \in Slots /\ o.id \in Names /\ rec[o.at].kickout = 2
      /\ rec \in [Slots -> Userec] /\ o.id # NoName
  BY Own, ConstantsAssumption DEF DelWrite, Knows
<1>2. rec[o.at].id = o.id
  BY <1>1 DEF ListInv, Named
<1>3. rec'[o.at] = Zeroed /\ \A k \in Slots : k # o.at => rec'[k] = rec[k]
  BY <1>1 DEF DelWrite
<1>4. \A k \in Slots : k # o.at => rec[k].id # o.id
  BY <1>1, <1>2 DEF ExactInv, Unique
<1> QED BY <1>1, <1>2, <1>3, <1>4

LEMMA CopyLookup ==
  ASSUME IInv, ListInv, ExactInv, CopyInv, NEW p \in Procs, Lookup(p) \/ Change(p)
  PROVE  CopyInv'
<1> DEFINE o == act[p]
<1>1. o \in Action /\ Copied(o, rec) /\ Knows(o, rec) /\ (Holds(o) => o.copy.id \in Names)
  BY Own DEF CopyInv, Holds, Knows
<1>2. ASSUME act' = [act EXCEPT ![p] = Idle], Persist(rec, rec') PROVE CopyInv'
  BY <1>2, IdleCopied, CopyStep
<1>3. ASSUME NEW n \in Names, NEW op \in {"get", "kick"}, Walk(p, n, op) PROVE CopyInv'
  <2> DEFINE a == [Idle EXCEPT !.pc = "walk", !.op = op, !.id = n, !.at = head[Hash[n]]]
  <2>1. act' = [act EXCEPT ![p] = a] /\ rec' = rec /\ (n = Sysop => op # "kick")
    BY <1>3 DEF Walk
  <2>2. a.pc = "walk" /\ a.op = op /\ a.id = n
    BY DEF Idle
  <2> HIDE DEF a
  <2>3. Copied(a, rec) /\ ~Holds(a)
    BY <2>1, <2>2 DEF Copied, Holds
  <2> QED BY <2>1, <2>3, PersistSame, CopyStep
<1>4. CASE WalkOn(p)
  <2> DEFINE a == [o EXCEPT !.at = next[o.at]]
  <2>1. act' = [act EXCEPT ![p] = a] /\ rec' = rec
    BY <1>4 DEF WalkOn, IInv, TypeOK
  <2>2. a.pc = o.pc /\ a.op = o.op /\ a.id = o.id /\ a.copy = o.copy
    BY <1>1 DEF Action
  <2> HIDE DEF a, o
  <2>3. Copied(a, rec) /\ (Holds(a) => a.copy.id \in Names)
    BY <1>1, <2>2 DEF Copied, Holds
  <2> QED BY <2>1, <2>3, PersistSame, CopyStep
<1>5. CASE WalkMiss(p) \/ Drop(p)
  BY <1>2, <1>5, PersistSame DEF WalkMiss, Drop
<1>6. CASE KickWrite(p) \/ UpdWrite(p)
  BY <1>2, <1>6, LateWritePersists DEF KickWrite, UpdWrite
<1>7. CASE WalkHit(p)
  <2> DEFINE r == rec[o.at]
             x == IF o.op = "kick" THEN "kick" ELSE "hold"
             b == [o EXCEPT !.pc = "check"]
             c == [o EXCEPT !.pc = x, !.copy = r]
  <2>1. /\ o.pc = "walk" /\ o.at # 0 /\ r.id = o.id /\ rec' = rec
        /\ \/ o.op = "update" /\ act' = [act EXCEPT ![p] = b]
           \/ act' = [act EXCEPT ![p] = Idle]
           \/ r.kickout = 0 /\ act' = [act EXCEPT ![p] = c]
    BY <1>7 DEF WalkHit
  <2>2. o.at \in Slots /\ o.id \in Names
    BY <1>1, <2>1, SlotsFacts DEF Action, Knows
  <2>3. /\ b.pc = "check" /\ b.op = o.op /\ b.id = o.id /\ b.copy = o.copy
        /\ c.pc = x /\ c.op = o.op /\ c.id = o.id /\ c.copy = r
    BY <1>1 DEF Action
  <2> HIDE DEF b, c
  <2>4. ASSUME o.op = "update", act' = [act EXCEPT ![p] = b] PROVE CopyInv'
    <3>1. Copied(b, rec) /\ (Holds(b) => b.copy.id \in Names)
      BY <1>1, <2>1, <2>3, <2>4 DEF Copied, Holds
    <3> HIDE DEF o
    <3> QED BY <2>1, <2>4, <3>1, PersistSame, CopyStep
  <2>5. ASSUME r.kickout = 0, act' = [act EXCEPT ![p] = c] PROVE CopyInv'
    <3>1. Registered(rec, r)
      BY <2>2, <2>5 DEF Registered
    <3>2. c.pc = "kick" => c.op = "kick"
      BY <2>3
    <3>3. c.op = "kick" => c.id # Sysop
      BY <1>1, <2>3 DEF Copied
    <3>4. Copied(c, rec) /\ c.copy.id \in Names
      BY <2>1, <2>2, <2>3, <3>1, <3>2, <3>3 DEF Copied
    <3> HIDE DEF o
    <3> QED BY <2>1, <2>5, <3>4, PersistSame, CopyStep
  <2> QED BY <1>2, <2>1, <2>4, <2>5, PersistSame
<1>8. CASE Update(p)
  <2> DEFINE b == [o EXCEPT !.pc = "check"]
             c == [o EXCEPT !.pc = "walk", !.op = "update", !.at = head[Hash[o.id]]]
  <2>1. o.pc = "hold" /\ rec' = rec /\ \E a \in {b, c} : act' = [act EXCEPT ![p] = a]
    BY <1>8 DEF Update, IInv, TypeOK
  <2>2. /\ b.pc = "check" /\ b.op = o.op /\ b.id = o.id /\ b.copy = o.copy
        /\ c.pc = "walk" /\ c.op = "update" /\ c.id = o.id /\ c.copy = o.copy
    BY <1>1 DEF Action
  <2> HIDE DEF b, c, o
  <2>3. Copied(b, rec) /\ Copied(c, rec) /\ b.copy.id \in Names /\ c.copy.id \in Names
    BY <1>1, <2>1, <2>2 DEF Copied, Holds
  <2> QED BY <2>1, <2>3, PersistSame, CopyStep
<1>9. CASE UpdCheck(p)
  <2> DEFINE b == [o EXCEPT !.pc = "update"]
  <2>1. o.pc = "check" /\ rec' = rec /\ \E a \in {b, Idle} : act' = [act EXCEPT ![p] = a]
    BY <1>9 DEF UpdCheck
  <2>2. b.pc = "update" /\ b.op = o.op /\ b.id = o.id /\ b.copy = o.copy
    BY <1>1 DEF Action
  <2> HIDE DEF b, o
  <2>3. Copied(b, rec) /\ b.copy.id \in Names
    BY <1>1, <2>1, <2>2 DEF Copied, Holds
  <2>4. act' = [act EXCEPT ![p] = b] => CopyInv'
    BY <2>1, <2>3, PersistSame, CopyStep
  <2> QED BY <1>2, <2>1, <2>4, PersistSame
<1> QED BY <1>3, <1>4, <1>5, <1>6, <1>7, <1>8, <1>9 DEF Lookup, Change

LEMMA CopyLocked ==
  ASSUME IInv, ListInv, ExactInv, CopyInv, NEW p \in Procs, Insert(p) \/ Delete(p)
  PROVE  CopyInv'
<1> DEFINE o == act[p]
<1>1. o \in Action /\ Copied(o, rec)
  BY Own DEF CopyInv
<1>2. CASE InsAbort(p) \/ InsLink(p) \/ DelAbort(p) \/ DelLink(p)
  <2>1. act' = [act EXCEPT ![p] = Idle] /\ rec' = rec
    BY <1>2 DEF InsAbort, InsLink, DelAbort, DelLink
  <2> QED BY <2>1, IdleCopied, PersistSame, CopyStep
<1>3. ASSUME NEW n \in Names, InsTake(p, n) \/ DelUnlink(p, n) PROVE CopyInv'
  <2> DEFINE A(x, i) == [Idle EXCEPT !.pc = x, !.id = n, !.at = i]
  <2>1. PICK x \in {"insert", "delete"} : \E i \in Slots : act' = [act EXCEPT ![p] = A(x, i)]
    BY <1>3 DEF InsTake, DelUnlink
  <2>2. PICK i \in Slots : act' = [act EXCEPT ![p] = A(x, i)]
    BY <2>1
  <2> DEFINE a == A(x, i)
  <2>3. a.pc = x /\ a.op = "get" /\ act' = [act EXCEPT ![p] = a] /\ rec' = rec
    BY <1>3, <2>2 DEF Idle, InsTake, DelUnlink
  <2> HIDE DEF a
  <2>4. Copied(a, rec) /\ ~Holds(a)
    BY <2>3 DEF Copied, Holds
  <2>5. act' = [act EXCEPT ![p] = a] /\ Persist(rec, rec')
    BY <2>3, PersistSame
  <2> QED BY <2>4, <2>5, CopyStep
<1>4. ASSUME NEW x \in {"link", "empty"}, act' = [act EXCEPT ![p] = [o EXCEPT !.pc = x]],
             Persist(rec, rec')
      PROVE  CopyInv'
  <2> DEFINE a == [o EXCEPT !.pc = x]
  <2>1. a.pc = x /\ a.op = o.op /\ a.id = o.id /\ act' = [act EXCEPT ![p] = a]
    BY <1>1, <1>4 DEF Action
  <2> HIDE DEF a, o
  <2>2. Copied(a, rec) /\ ~Holds(a)
    BY <1>1, <2>1 DEF Copied, Holds
  <2> QED BY <1>4, <2>1, <2>2, CopyStep
<1>5. CASE InsWrite(p)
  <2>3. rec[o.at].id \notin Names /\ \A k \in Slots : k # o.at => rec'[k] = rec[k]
    BY <1>5, InsWriteFacts, ConstantsAssumption
  <2>1. Persist(rec, rec')
    BY <2>3 DEF Persist
  <2>2. act' = [act EXCEPT ![p] = [o EXCEPT !.pc = "link"]]
    BY <1>5 DEF InsWrite, IInv, TypeOK
  <2> QED BY <1>4, <2>1, <2>2
<1>6. CASE DelWrite(p)
  <2>1. Persist(rec, rec')
    BY <1>6, DelWriteFacts DEF Persist
  <2>2. act' = [act EXCEPT ![p] = [o EXCEPT !.pc = "empty"]]
    BY <1>6 DEF DelWrite, IInv, TypeOK
  <2> QED BY <1>4, <2>1, <2>2
<1> QED BY <1>2, <1>3, <1>5, <1>6 DEF Insert, Delete

PromptNext == Next /\ (Day => \A p \in Procs : act[p].pc # "hold")

LEMMA CopyAlways ==
  ASSUME IInv, ListInv, ExactInv, CopyInv, [PromptNext]_vars
  PROVE  CopyInv'
<1>1. ASSUME NEW p \in Procs, Insert(p) \/ Delete(p) \/ Lookup(p) \/ Change(p) PROVE CopyInv'
  BY <1>1, CopyLocked, CopyLookup
<1>2. CASE Day /\ \A p \in Procs : act[p].pc # "hold"
  <2>1. \A p \in Procs : act[p].pc = "idle" /\ act'[p] = act[p]
    BY <1>2, Own DEF Day, Action
  <2> QED BY <2>1 DEF CopyInv, Copied, Holds
<1>3. CASE Boot
  BY <1>3, IdleCopied DEF Boot, CopyInv
<1>4. CASE UNCHANGED vars
  BY <1>4 DEF vars, CopyInv
<1> QED BY <1>1, <1>2, <1>3, <1>4 DEF PromptNext, Next

\* What UserDir sees of the records r.
SlotIn(r, n) == IF \E i \in Slots : r[i].id = n
                THEN CHOOSE i \in Slots : r[i].id = n ELSE 0
DirOf(r) ==
  [n \in Names |->
     LET i == SlotIn(r, n)
     IN  IF i = 0 THEN [slot |-> 0, reg |-> 0, dead |-> FALSE]
         ELSE [slot |-> i, reg |-> r[i].reg, dead |-> r[i].kickout # 0]]
Absent == [slot |-> 0, reg |-> 0, dead |-> FALSE]
Present(i, x) == [slot |-> i, reg |-> x.reg, dead |-> x.kickout # 0]

LEMMA EntryIs ==
  ASSUME NEW r, Unique(r), NEW i \in Slots, r[i].id \in Names
  PROVE  DirOf(r)[r[i].id] = Present(i, r[i])
<1> DEFINE n == r[i].id
<1>1. n \in Names /\ n # NoName
  BY ConstantsAssumption
<1>2. \A k \in Slots : r[k].id = n => k = i
  BY <1>1 DEF Unique
<1>3. SlotIn(r, n) = i
  BY <1>2 DEF SlotIn
<1>4. i # 0
  BY SlotsFacts
<1> HIDE DEF n
<1>5. DirOf(r)[n] = Present(i, r[i])
  BY <1>1, <1>3, <1>4 DEF DirOf, Present
<1> QED BY <1>5 DEF n

LEMMA EntryNone ==
  ASSUME NEW r, NEW n \in Names, \A i \in Slots : r[i].id # n
  PROVE  DirOf(r)[n] = Absent
BY DEF DirOf, SlotIn, Absent

LEMMA EntrySame ==
  ASSUME NEW r, NEW s, Unique(r), Unique(s), NEW n \in Names,
         \A i \in Slots : (r[i].id = n <=> s[i].id = n)
                         /\ (r[i].id = n => r[i].reg = s[i].reg
                                            /\ (r[i].kickout = 0 <=> s[i].kickout = 0))
  PROVE  DirOf(s)[n] = DirOf(r)[n]
<1>1. CASE \E i \in Slots : r[i].id = n
  <2>1. PICK i \in Slots : r[i].id = n
    BY <1>1
  <2>2. s[i].id = n /\ r[i].reg = s[i].reg /\ (r[i].kickout = 0 <=> s[i].kickout = 0)
    BY <2>1
  <2>3. DirOf(r)[n] = Present(i, r[i]) /\ DirOf(s)[n] = Present(i, s[i])
    BY <2>1, <2>2, EntryIs
  <2> QED BY <2>2, <2>3 DEF Present
<1>2. CASE \A i \in Slots : r[i].id # n
  BY <1>2, EntryNone
<1> QED BY <1>1, <1>2

LEMMA DirFunction == \A r : DirOf(r) = [n \in Names |-> DirOf(r)[n]]
BY DEF DirOf

\* The actions of UserDir, in terms of the records.
LEMMA DirActions ==
  /\ \A n : Dir!Register(n) <=>
        /\ DirOf(rec)[n] = Absent
        /\ \E i \in Slots \ {DirOf(rec)[m].slot : m \in Names} :
             DirOf(rec') = [DirOf(rec) EXCEPT ![n] = [slot |-> i, reg |-> regs + 1,
                                                      dead |-> FALSE]]
        /\ regs' = regs + 1
  /\ \A n : Dir!KickOut(n) <=>
        /\ n # Sysop /\ DirOf(rec)[n].slot # 0
        /\ DirOf(rec') = [DirOf(rec) EXCEPT ![n].dead = TRUE]
        /\ regs' = regs
  /\ \A n : Dir!Bury(n) <=>
        /\ DirOf(rec)[n].dead
        /\ DirOf(rec') = [DirOf(rec) EXCEPT ![n] = Absent]
        /\ regs' = regs
<1>1. \A n : Dir!Register(n) <=>
        /\ DirOf(rec)[n] = Absent
        /\ \E i \in Slots \ {DirOf(rec)[m].slot : m \in Names} :
             DirOf(rec') = [DirOf(rec) EXCEPT ![n] = [slot |-> i, reg |-> regs + 1,
                                                      dead |-> FALSE]]
        /\ regs' = regs + 1
  BY DEF Dir!Register, Dir!NotThere, DirOf, SlotIn, SlotOf, Absent
<1>2. \A n : Dir!KickOut(n) <=>
        /\ n # Sysop /\ DirOf(rec)[n].slot # 0
        /\ DirOf(rec') = [DirOf(rec) EXCEPT ![n].dead = TRUE]
        /\ regs' = regs
  BY DEF Dir!KickOut, DirOf, SlotIn, SlotOf
<1>3. \A n : Dir!Bury(n) <=>
        /\ DirOf(rec)[n].dead
        /\ DirOf(rec') = [DirOf(rec) EXCEPT ![n] = Absent]
        /\ regs' = regs
  BY DEF Dir!Bury, Dir!NotThere, DirOf, SlotIn, SlotOf, Absent
<1> QED BY <1>1, <1>2, <1>3

\* The entries of all users but n stay.
OthersSame(r, s, n) ==
  \A i \in Slots : \A m \in Names \ {n} :
     (r[i].id = m <=> s[i].id = m)
     /\ (r[i].id = m => r[i].reg = s[i].reg /\ (r[i].kickout = 0 <=> s[i].kickout = 0))

LEMMA DirChange ==
  ASSUME NEW r, NEW s, Unique(r), Unique(s), NEW n \in Names, OthersSame(r, s, n)
  PROVE  DirOf(s) = [DirOf(r) EXCEPT ![n] = DirOf(s)[n]]
<1>1. ASSUME NEW m \in Names \ {n} PROVE DirOf(s)[m] = DirOf(r)[m]
  <2>1. \A i \in Slots : (r[i].id = m <=> s[i].id = m)
                         /\ (r[i].id = m => r[i].reg = s[i].reg
                                            /\ (r[i].kickout = 0 <=> s[i].kickout = 0))
    BY DEF OthersSame
  <2> QED BY <2>1, EntrySame
<1> DEFINE F == DirOf(r)
           G == DirOf(s)
<1>2. F = [m \in Names |-> F[m]] /\ G = [m \in Names |-> G[m]]
  BY DirFunction
<1> HIDE DEF F, G
<1>3. \A m \in Names : m # n => G[m] = F[m]
  BY <1>1 DEF F, G
<1>4. G = [F EXCEPT ![n] = G[n]]
  BY <1>2, <1>3
<1> QED BY <1>4 DEF F, G

LEMMA DirStays ==
  ASSUME NEW r, NEW s, Unique(r), Unique(s),
         \A i \in Slots : /\ s[i].id = r[i].id
                          /\ r[i].id # NoName => s[i].reg = r[i].reg
                          /\ r[i].kickout = 0 <=> s[i].kickout = 0
  PROVE  DirOf(s) = DirOf(r)
<1>1. ASSUME NEW m \in Names PROVE DirOf(s)[m] = DirOf(r)[m]
  BY EntrySame, ConstantsAssumption
<1> DEFINE F == DirOf(r)
           G == DirOf(s)
<1>2. F = [m \in Names |-> F[m]] /\ G = [m \in Names |-> G[m]]
  BY DirFunction
<1> HIDE DEF F, G
<1>3. \A m \in Names : G[m] = F[m]
  BY <1>1 DEF F, G
<1>4. G = F
  BY <1>2, <1>3
<1> QED BY <1>4 DEF F, G

Core == IInv /\ ListInv /\ ExactInv /\ CopyInv

LEMMA MapsRegister ==
  ASSUME Core, Unique(rec'), NEW p \in Procs, InsWrite(p)
  PROVE  Dir!Next
<1> DEFINE n == act[p].id
           i == act[p].at
<1>1. /\ i \in Slots /\ n \in Names /\ rec[i].id = NoName
      /\ \A k \in Slots : rec[k].id # n
      /\ rec'[i] = [id |-> n, kickout |-> 0, reg |-> regs + 1]
      /\ \A k \in Slots : k # i => rec'[k] = rec[k]
  BY InsWriteFacts DEF Core
<1> HIDE DEF n, i
<1>2. rec'[i].id = n /\ rec'[i].kickout = 0 /\ rec'[i].reg = regs + 1 /\ n # NoName
  BY <1>1, ConstantsAssumption
<1>3. Unique(rec)
  BY DEF Core, ExactInv
<1>4. OthersSame(rec, rec', n)
  BY <1>1, <1>2, ConstantsAssumption DEF OthersSame
<1>5. DirOf(rec') = [DirOf(rec) EXCEPT ![n] = DirOf(rec')[n]]
  BY <1>1, <1>3, <1>4, DirChange
<1>6. DirOf(rec')[n] = Present(i, rec'[i])
  BY <1>1, <1>2, EntryIs
<1>7. Present(i, rec'[i]) = [slot |-> i, reg |-> regs + 1, dead |-> FALSE]
  BY <1>2 DEF Present
<1>8. DirOf(rec') = [DirOf(rec) EXCEPT ![n] = [slot |-> i, reg |-> regs + 1, dead |-> FALSE]]
  BY <1>5, <1>6, <1>7
<1>9. DirOf(rec)[n] = Absent
  BY <1>1, EntryNone
<1>10. ASSUME NEW m \in Names PROVE DirOf(rec)[m].slot # i
  <2>1. CASE \E k \in Slots : rec[k].id = m
    <3>1. PICK k \in Slots : rec[k].id = m
      BY <2>1
    <3>2. DirOf(rec)[m] = Present(k, rec[k])
      BY <1>3, <3>1, EntryIs
    <3>3. k # i
      BY <1>1, <3>1, ConstantsAssumption
    <3> QED BY <3>2, <3>3 DEF Present
  <2>2. CASE \A k \in Slots : rec[k].id # m
    <3>1. DirOf(rec)[m] = Absent
      BY <2>2, EntryNone
    <3> QED BY <1>1, <3>1, SlotsFacts DEF Absent
  <2> QED BY <2>1, <2>2
<1>11. i \in Slots \ {DirOf(rec)[m].slot : m \in Names}
  BY <1>1, <1>10
<1>12. regs' = regs + 1
  BY DEF InsWrite
<1>13. Dir!Register(n)
  BY <1>8, <1>9, <1>11, <1>12, DirActions
<1> QED BY <1>1, <1>13 DEF Dir!Next

LEMMA MadeDead ==
  ASSUME NEW a, NEW b, NEW c, NEW e, e = [slot |-> a, reg |-> b, dead |-> c]
  PROVE  [e EXCEPT !.dead = TRUE] = [slot |-> a, reg |-> b, dead |-> TRUE]
<1> DEFINE f == [e EXCEPT !.dead = TRUE]
           g == [slot |-> a, reg |-> b, dead |-> TRUE]
           D == {"slot", "reg", "dead"}
<1>1. f = [x \in D |-> IF x = "dead" THEN TRUE ELSE e[x]]
  BY Zenon
<1>2. g = [x \in D |-> g[x]]
  BY Zenon
<1>3. g["slot"] = e["slot"] /\ g["reg"] = e["reg"] /\ g["dead"] = TRUE
  OBVIOUS
<1>4. \A x \in D : g[x] = IF x = "dead" THEN TRUE ELSE e[x]
  BY <1>3
<1> HIDE DEF f, g
<1>5. f = g
  BY <1>1, <1>2, <1>4
<1> QED BY <1>5 DEF f, g

LEMMA MapsKick ==
  ASSUME Core, Unique(rec'), NEW p \in Procs, KickWrite(p)
  PROVE  Dir!Next
<1> DEFINE n == act[p].copy.id
           i == act[p].at
<1>1. /\ i \in Slots /\ n \in Names /\ rec[i].id = n /\ rec[i].reg = act[p].copy.reg
      /\ rec'[i].id = n /\ rec'[i].reg = act[p].copy.reg /\ rec'[i].kickout = 1
      /\ \A k \in Slots : k # i => rec'[k] = rec[k]
  BY CopyFits, LateWritePersists DEF Core, KickWrite
<1>2. n # Sysop
  BY DEF Core, CopyInv, Copied, Holds, KickWrite
<1> HIDE DEF n, i
<1>3. Unique(rec) /\ n # NoName
  BY <1>1, ConstantsAssumption DEF Core, ExactInv
<1>4. OthersSame(rec, rec', n)
  BY <1>1 DEF OthersSame
<1>5. DirOf(rec') = [DirOf(rec) EXCEPT ![n] = DirOf(rec')[n]]
  BY <1>1, <1>3, <1>4, DirChange
<1>6. DirOf(rec')[n] = Present(i, rec'[i]) /\ DirOf(rec)[n] = Present(i, rec[i])
  BY <1>1, <1>3, EntryIs
<1>7. DirOf(rec')[n] = [DirOf(rec)[n] EXCEPT !.dead = TRUE] /\ DirOf(rec)[n].slot # 0
  <2>1. (rec'[i].kickout # 0) = TRUE
    BY <1>1
  <2>2. DirOf(rec')[n] = [slot |-> i, reg |-> rec'[i].reg, dead |-> TRUE]
    BY <1>6, <2>1 DEF Present
  <2> DEFINE c == rec[i].kickout # 0
  <2>3. DirOf(rec)[n] = [slot |-> i, reg |-> rec'[i].reg, dead |-> c] /\ i # 0
    BY <1>1, <1>6, SlotsFacts DEF Present
  <2> HIDE DEF c
  <2>4. [DirOf(rec)[n] EXCEPT !.dead = TRUE] = [slot |-> i, reg |-> rec'[i].reg, dead |-> TRUE]
    BY <2>3, MadeDead
  <2>5. DirOf(rec)[n].slot = i
    BY <2>3
  <2> QED BY <2>2, <2>3, <2>4, <2>5
<1>8. DirOf(rec') = [DirOf(rec) EXCEPT ![n].dead = TRUE]
  BY <1>5, <1>7
<1>9. regs' = regs
  BY DEF KickWrite
<1>10. Dir!KickOut(n)
  BY <1>2, <1>7, <1>8, <1>9, DirActions
<1> QED BY <1>1, <1>10 DEF Dir!Next

LEMMA MapsBury ==
  ASSUME Core, Unique(rec'), NEW p \in Procs, DelWrite(p)
  PROVE  Dir!Next
<1> DEFINE n == act[p].id
           i == act[p].at
<1>1. /\ i \in Slots /\ rec[i].id = n /\ n \in Names /\ rec[i].kickout = 2
      /\ rec'[i] = Zeroed
      /\ \A k \in Slots : k # i => rec'[k] = rec[k] /\ rec[k].id # n
  BY DelWriteFacts DEF Core
<1> HIDE DEF n, i
<1>2. rec'[i].id = NoName /\ n # NoName
  BY <1>1, ConstantsAssumption DEF Zeroed
<1>3. Unique(rec)
  BY DEF Core, ExactInv
<1>4. OthersSame(rec, rec', n)
  BY <1>1, <1>2, ConstantsAssumption DEF OthersSame
<1>5. DirOf(rec') = [DirOf(rec) EXCEPT ![n] = DirOf(rec')[n]]
  BY <1>1, <1>3, <1>4, DirChange
<1>6. \A k \in Slots : rec'[k].id # n
  BY <1>1, <1>2
<1>7. DirOf(rec')[n] = Absent /\ DirOf(rec)[n] = Present(i, rec[i])
  BY <1>1, <1>3, <1>6, EntryNone, EntryIs
<1>8. DirOf(rec)[n].dead
  <2>1. (rec[i].kickout # 0) = TRUE
    BY <1>1
  <2>2. DirOf(rec)[n] = [slot |-> i, reg |-> rec[i].reg, dead |-> TRUE]
    BY <1>7, <2>1 DEF Present
  <2> QED BY <2>2
<1>9. DirOf(rec') = [DirOf(rec) EXCEPT ![n] = Absent] /\ regs' = regs
  BY <1>5, <1>7 DEF DelWrite
<1>10. Dir!Bury(n)
  BY <1>8, <1>9, DirActions
<1> QED BY <1>1, <1>10 DEF Dir!Next

LEMMA MapsStep ==
  ASSUME Core, Unique(rec'), [PromptNext]_vars
  PROVE  Dir!Next \/ (DirOf(rec') = DirOf(rec) /\ regs' = regs)
<1>1. Unique(rec) /\ rec \in [Slots -> Userec]
  BY DEF Core, ExactInv, IInv, TypeOK
<1>2. ASSUME NEW p \in Procs, InsWrite(p) \/ KickWrite(p) \/ DelWrite(p) PROVE Dir!Next
  BY <1>2, MapsRegister, MapsKick, MapsBury
<1>3. ASSUME NEW p \in Procs, UpdWrite(p)
      PROVE  DirOf(rec') = DirOf(rec) /\ regs' = regs
  <2> DEFINE i == act[p].at
  <2>1. /\ i \in Slots /\ rec'[i].id = rec[i].id /\ rec'[i].reg = rec[i].reg
        /\ rec'[i].kickout = rec[i].kickout
        /\ \A k \in Slots : k # i => rec'[k] = rec[k]
    BY <1>3, CopyFits, LateWritePersists DEF Core, UpdWrite
  <2> HIDE DEF i
  <2>2. \A k \in Slots : /\ rec'[k].id = rec[k].id
                         /\ rec[k].id # NoName => rec'[k].reg = rec[k].reg
                         /\ rec[k].kickout = 0 <=> rec'[k].kickout = 0
    BY <2>1
  <2> QED BY <1>1, <1>3, <2>2, DirStays DEF UpdWrite
<1>4. ASSUME Day PROVE DirOf(rec') = DirOf(rec) /\ regs' = regs
  <2>1. \A k \in Slots : /\ rec'[k].id = rec[k].id
                         /\ rec[k].id # NoName => rec'[k].reg = rec[k].reg
                         /\ rec[k].kickout = 0 <=> rec'[k].kickout = 0
    BY <1>1, <1>4 DEF Day, Userec
  <2> QED BY <1>1, <1>4, <2>1, DirStays DEF Day
<1>5. \/ rec' = rec /\ regs' = regs
      \/ Day
      \/ \E p \in Procs : InsWrite(p) \/ DelWrite(p) \/ KickWrite(p) \/ UpdWrite(p)
  <2>1. ASSUME NEW p \in Procs, Insert(p) PROVE InsWrite(p) \/ (rec' = rec /\ regs' = regs)
    BY <2>1 DEF Insert, InsTake, InsAbort, InsLink
  <2>2. ASSUME NEW p \in Procs, Delete(p) PROVE DelWrite(p) \/ (rec' = rec /\ regs' = regs)
    BY <2>2 DEF Delete, DelUnlink, DelAbort, DelLink
  <2>3. ASSUME NEW p \in Procs, Lookup(p) PROVE KickWrite(p) \/ (rec' = rec /\ regs' = regs)
    BY <2>3, LookupLeaves
  <2>4. ASSUME NEW p \in Procs, Change(p) PROVE UpdWrite(p) \/ (rec' = rec /\ regs' = regs)
    BY <2>4, ChangeLeaves
  <2>5. Boot \/ UNCHANGED vars => rec' = rec /\ regs' = regs
    BY DEF Boot, vars
  <2> QED BY <2>1, <2>2, <2>3, <2>4, <2>5 DEF PromptNext, Next
<1> QED BY <1>2, <1>3, <1>4, <1>5

LEMMA MapsInit == Init => Dir!Init
<1> SUFFICES ASSUME Init PROVE Dir!Init
  OBVIOUS
<1>1. Unique(rec) /\ 1 \in Slots /\ Sysop \in Names /\ Sysop # NoName
  BY InitialUnique, ConstantsAssumption DEF Slots
<1>2. rec[1].id = Sysop /\ rec[1].reg = 0 /\ rec[1].kickout = 0
      /\ \A i \in Slots : i # 1 => rec[i].id = NoName
  BY <1>1 DEF Init, Zeroed
<1>3. DirOf(rec)[Sysop] = [slot |-> 1, reg |-> 0, dead |-> FALSE]
  <2>1. DirOf(rec)[Sysop] = Present(1, rec[1])
    BY <1>1, <1>2, EntryIs
  <2> QED BY <1>2, <2>1 DEF Present
<1>4. \A n \in Names \ {Sysop} : DirOf(rec)[n] = Absent
  <2>1. \A n \in Names \ {Sysop} : \A i \in Slots : rec[i].id # n
    BY <1>2, ConstantsAssumption
  <2> QED BY <2>1, EntryNone
<1> DEFINE F == DirOf(rec)
<1>5. F = [n \in Names |-> F[n]]
  BY DirFunction
<1>6. F = [n \in Names |-> IF n = Sysop THEN [slot |-> 1, reg |-> 0, dead |-> FALSE] ELSE Absent]
  <2> HIDE DEF F
  <2>1. \A n \in Names : F[n] = IF n = Sysop THEN [slot |-> 1, reg |-> 0, dead |-> FALSE]
                                ELSE Absent
    BY <1>3, <1>4 DEF F
  <2> QED BY <1>5, <2>1
<1>7. regs = 0
  BY DEF Init
<1> QED BY <1>6, <1>7 DEF Dir!Init, Dir!NotThere, DirOf, SlotIn, SlotOf, Absent

(***************************************************************************)
(* While copies are used within 23 hours, the user table keeps UserDir's   *)
(* promises: a user keeps the slot and the registration until buried, only *)
(* a user kicked out is buried, SYSOP is not kicked out, and every new     *)
(* registration gets a slot that nobody has.                               *)
(***************************************************************************)
THEOREM Refinement == PromptSpec => ImplementsDir
<1>1. Init => Core /\ Dir!Init
  <2>1. Init => JustLoaded
    BY InitialUnique DEF Init, JustLoaded
  <2>2. Init => CopyInv
    BY IdleCopied DEF Init, CopyInv
  <2> QED BY <2>1, <2>2, Initial, ListInitial, ExactLoaded, MapsInit DEF Core
<1>2. Core /\ [PromptNext]_vars => Core' /\ [Dir!Next]_<<DirOf(rec), regs>>
  <2> SUFFICES ASSUME Core, [PromptNext]_vars
               PROVE  Core' /\ [Dir!Next]_<<DirOf(rec), regs>>
    OBVIOUS
  <2>1. [Next]_vars /\ [Next \/ Fault]_vars
    BY DEF PromptNext
  <2>2. Core'
    BY <2>1, Inductive, ListStep, ExactStep, CopyAlways DEF Core
  <2>3. Unique(rec')
    BY <2>2 DEF Core, ExactInv, Unique
  <2>4. DirOf(rec)' = DirOf(rec')
    BY DEF DirOf, SlotIn
  <2> QED BY <2>2, <2>3, <2>4, MapsStep
<1>3. PromptSpec => Init /\ [][PromptNext]_vars
  BY DEF PromptSpec, PromptNext
<1>4. [Dir!Next]_<<DirOf(rec), regs>> <=>
      [Dir!Next]_<<[n \in Names |->
                      LET i == SlotOf(n)
                      IN  IF i = 0 THEN [slot |-> 0, reg |-> 0, dead |-> FALSE]
                          ELSE [slot |-> i, reg |-> rec[i].reg,
                                dead |-> rec[i].kickout # 0]], regs>>
  BY DEF DirOf, SlotIn, SlotOf
<1> QED BY <1>1, <1>2, <1>3, <1>4, PTL DEF ImplementsDir, Dir!Spec
=============================================================================
