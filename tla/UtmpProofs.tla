----------------------------- MODULE UtmpProofs -----------------------------
(***************************************************************************)
(* Proofs about Utmp for every size of the table, every set of users,      *)
(* processes and requests, and every interleaving of Next (deaths inside   *)
(* utmp_kickidle and stale logouts included): first the types, then the    *)
(* free list, activeuser and uindex.                                       *)
(***************************************************************************)
EXTENDS Utmp, FiniteSetTheorems, WellFoundedInduction, TLAPS

(***************************************************************************)
(* What the record updates of the actions do to the types.                 *)
(***************************************************************************)
PStates == {"new", "checked", "entering", "online", "leaving", "dead"}

LEMMA ProcState ==
  ASSUME NEW f \in [Procs -> Process], NEW p \in Procs, NEW st \in PStates
  PROVE  [f EXCEPT ![p].st = st] \in [Procs -> Process]
BY DEF Process, PStates

LEMMA ProcSignalled ==
  ASSUME NEW f \in [Procs -> Process], NEW p \in Procs
  PROVE  [f EXCEPT ![p].st = Signalled(@)] \in [Procs -> Process]
BY DEF Process, PStates, Signalled

LEMMA SlotRecord ==
  ASSUME NEW f \in [Slots -> UserInfo], NEW s \in Slots, NEW x \in UserInfo
  PROVE  [f EXCEPT ![s] = x] \in [Slots -> UserInfo]
OBVIOUS

\* Steps that leave the sessions where they are: only the time of last use,
\* the kick flag and what Touch copies may change.
SameSessions(f, g) ==
  \A t \in Slots : /\ g[t].active = f[t].active
                   /\ g[t].pid = f[t].pid
                   /\ g[t].uid = f[t].uid

LEMMA SlotAge ==
  ASSUME NEW f \in [Slots -> UserInfo], NEW s \in Slots, NEW x \in 0 .. 2
  PROVE  /\ [f EXCEPT ![s].age = x] \in [Slots -> UserInfo]
         /\ SameSessions(f, [f EXCEPT ![s].age = x])
<1>1. [f EXCEPT ![s].age = x] \in [Slots -> UserInfo]
  BY DEF UserInfo
<1>2. SameSessions(f, [f EXCEPT ![s].age = x])
  BY DEF UserInfo, SameSessions
<1> QED BY <1>1, <1>2

LEMMA SlotKick ==
  ASSUME NEW f \in [Slots -> UserInfo], NEW s \in Slots
  PROVE  /\ [f EXCEPT ![s].kicked = TRUE] \in [Slots -> UserInfo]
         /\ SameSessions(f, [f EXCEPT ![s].kicked = TRUE])
<1>1. [f EXCEPT ![s].kicked = TRUE] \in [Slots -> UserInfo]
  BY DEF UserInfo
<1>2. SameSessions(f, [f EXCEPT ![s].kicked = TRUE])
  BY DEF UserInfo, SameSessions
<1> QED BY <1>1, <1>2

LEMMA SlotTouch ==
  ASSUME NEW f \in [Slots -> UserInfo], NEW s \in Slots, NEW h \in Hosts,
         NEW u \in Users \cup {Guest, Nobody}
  PROVE  LET g == [f EXCEPT ![s].age = 0, ![s].from = h, ![s].userid = u,
                            ![s].kicked = FALSE]
         IN  g \in [Slots -> UserInfo] /\ SameSessions(f, g)
<1> DEFINE a == [f EXCEPT ![s].age = 0]
           b == [a EXCEPT ![s].from = h]
           c == [b EXCEPT ![s].userid = u]
           d == [c EXCEPT ![s].kicked = FALSE]
<1>1. a \in [Slots -> UserInfo] /\ SameSessions(f, a)
  <2>1. 0 \in 0 .. 2
    OBVIOUS
  <2> QED BY <2>1, SlotAge
<1>2. b \in [Slots -> UserInfo] /\ SameSessions(a, b)
  <2> HIDE DEF a
  <2>1. b \in [Slots -> UserInfo]
    BY <1>1 DEF UserInfo
  <2>2. SameSessions(a, b)
    BY <1>1 DEF UserInfo, SameSessions
  <2> QED BY <2>1, <2>2
<1>3. c \in [Slots -> UserInfo] /\ SameSessions(b, c)
  <2> HIDE DEF b
  <2>1. c \in [Slots -> UserInfo]
    <3>1. b[s] \in UserInfo
      BY <1>2
    <3>2. [b[s] EXCEPT !.userid = u] \in UserInfo
      BY <3>1 DEF UserInfo
    <3> QED BY <1>2, <3>2
  <2>2. SameSessions(b, c)
    BY <1>2 DEF UserInfo, SameSessions
  <2> QED BY <2>1, <2>2
<1>4. d \in [Slots -> UserInfo] /\ SameSessions(c, d)
  <2> HIDE DEF c
  <2>1. d \in [Slots -> UserInfo]
    <3>1. c[s] \in UserInfo
      BY <1>3
    <3>2. [c[s] EXCEPT !.kicked = FALSE] \in UserInfo
      BY <3>1 DEF UserInfo
    <3> QED BY <1>3, <3>2
  <2>2. SameSessions(c, d)
    BY <1>3 DEF UserInfo, SameSessions
  <2> QED BY <2>1, <2>2
<1>5. SameSessions(f, d)
  <2> HIDE DEF a, b, c, d
  <2> QED BY <1>1, <1>2, <1>3, <1>4 DEF SameSessions
<1> QED BY <1>4, <1>5

LEMMA EmptyTyped == Empty \in UserInfo
BY ConstantsAssumption DEF Empty, UserInfo

LEMMA SessionTyped ==
  ASSUME NEW u \in Users \cup {Guest, Nobody}, NEW pid \in {WWW} \cup Procs,
         NEW host \in Hosts
  PROVE  Session(u, pid, host) \in UserInfo
BY DEF Session, UserInfo

LEMMA GoneTyped == Gone \in Process
BY ConstantsAssumption DEF Gone, Process

LEMMA NoReqTyped == NoReq \in Request
BY ConstantsAssumption DEF NoReq, Request

LEMMA IndexEntry ==
  ASSUME NEW ix \in [Users -> [Idx -> 0 .. MAXACTIVE]],
         NEW u \in Users, NEW i \in Idx, NEW x \in 0 .. MAXACTIVE
  PROVE  [ix EXCEPT ![u][i] = x] \in [Users -> [Idx -> 0 .. MAXACTIVE]]
OBVIOUS

LEMMA NatMin ==
  ASSUME NEW S \in SUBSET Nat, S # {}
  PROVE  \E i \in S : \A k \in S : i <= k
<1> DEFINE R == {ss \in Nat \X Nat : ss[1] < ss[2]}
<1>1. IsWellFoundedOn(R, Nat)
  BY NatLessThanWellFounded DEF OpToRel
<1>2. PICK i \in S : \A k \in S : ~ (<<k, i>> \in R)
  <2> HIDE DEF R
  <2> QED BY <1>1, WFMin
<1>3. ASSUME NEW k \in S PROVE i <= k
  <2>1. k \in Nat /\ i \in Nat
    OBVIOUS
  <2>2. k < i => <<k, i>> \in R
    BY <2>1
  <2> QED BY <1>2, <2>1, <2>2
<1> QED BY <1>3

LEMMA Min1In ==
  ASSUME NEW S \in SUBSET Idx, S # {}
  PROVE  Min1(S) \in S
<1>1. S \in SUBSET Nat
  BY ConstantsAssumption DEF Idx
<1> QED BY <1>1, NatMin DEF Min1

IndexRows == [Users -> [Idx -> 0 .. MAXACTIVE]]

LEMMA AddTyped ==
  ASSUME NEW ix \in IndexRows, NEW u, NEW s \in Slots
  PROVE  add_uindex(ix, u, s) \in IndexRows
<1> DEFINE room == {i \in Idx : \/ ix[u][i] = 0
                                \/ ~uinfo[ix[u][i]].active
                                \/ uinfo[ix[u][i]].uid # u}
<1>1. CASE u \in Users /\ room # {}
  <2>1. Min1(room) \in Idx
    BY <1>1, Min1In
  <2>2. s \in 0 .. MAXACTIVE
    BY ConstantsAssumption DEF Slots
  <2>3. [ix EXCEPT ![u][Min1(room)] = s] \in IndexRows
    BY <1>1, <2>1, <2>2, IndexEntry DEF IndexRows
  <2> QED BY <2>3 DEF add_uindex
<1>2. CASE ~(u \in Users /\ room # {})
  BY <1>2 DEF add_uindex
<1> QED BY <1>1, <1>2

LEMMA RemoveTyped ==
  ASSUME NEW ix \in IndexRows, NEW u, NEW s
  PROVE  remove_uindex(ix, u, s) \in IndexRows
<1> DEFINE mine == {i \in Idx : ix[u][i] = s}
<1>1. CASE u \in Users /\ mine # {}
  <2>1. Min1(mine) \in Idx
    BY <1>1, Min1In
  <2>2. 0 \in 0 .. MAXACTIVE
    BY ConstantsAssumption
  <2>3. [ix EXCEPT ![u][Min1(mine)] = 0] \in IndexRows
    BY <1>1, <2>1, <2>2, IndexEntry DEF IndexRows
  <2> QED BY <2>3 DEF remove_uindex
<1>2. CASE ~(u \in Users /\ mine # {})
  BY <1>2 DEF remove_uindex
<1> QED BY <1>1, <1>2

(***************************************************************************)
(* The two operations that change more than a field of the table.          *)
(***************************************************************************)
LEMMA IncrTyped == \A n \in 0 .. USHRT_MAX : Incr(n) \in 0 .. USHRT_MAX
BY ConstantsAssumption DEF Incr

LEMMA DecrTyped == \A n \in 0 .. USHRT_MAX : Decr(n) \in 0 .. USHRT_MAX
BY ConstantsAssumption DEF Decr

LEMMA HeadIsSlot == SlotForLogin => head[0] \in Slots
BY ConstantsAssumption DEF SlotForLogin, Slots

LEMMA LoginTyped ==
  ASSUME TableOK, SlotForLogin,
         NEW up \in UserInfo, NEW ix \in IndexRows, NEW pid \in {WWW} \cup Procs,
         utmp_login(up, ix, pid)
  PROVE  TableOK' /\ LockOK'
<1> DEFINE j == head[0]
           g == up.userid = Guest /\ up.pid = WWW
           h == MaskHash[up.from]
<1>1. j \in Slots
  BY HeadIsSlot
<1>2. h \in 1 .. UTMPHASH_SIZE /\ h \in 0 .. UTMPHASH_SIZE
  <2>1. up.from \in Hosts
    BY DEF UserInfo
  <2> QED BY <2>1, ConstantsAssumption
<1>3. 0 \in 0 .. UTMPHASH_SIZE /\ j \in 0 .. MAXACTIVE /\ 0 \in 0 .. MAXACTIVE
  BY <1>1, ConstantsAssumption DEF Slots
<1>4. head' \in [0 .. UTMPHASH_SIZE -> 0 .. MAXACTIVE]
  BY <1>1, <1>2, <1>3 DEF TableOK, utmp_login
<1>5. next' \in [Slots -> 0 .. MAXACTIVE]
  BY <1>1, <1>2, <1>3 DEF TableOK, utmp_login
<1>6. uinfo' \in [Slots -> UserInfo]
  BY <1>1, SlotRecord DEF TableOK, utmp_login
<1>7. uindex' \in IndexRows
  BY <1>1, AddTyped DEF utmp_login
<1>8. activeuser' \in Int /\ wwwguestnum' \in 0 .. USHRT_MAX
  BY IncrTyped DEF TableOK, utmp_login
<1>9. LockOK'
  <2>1. kn' \in {1, MAXACTIVE + 1}
    BY DEF utmp_login
  <2>2. kn' \in 0 .. MAXACTIVE + 1 /\ ki' \in 0 .. MAXACTIVE
    BY <2>1, ConstantsAssumption DEF utmp_login
  <2>3. due' \in BOOLEAN /\ pc' = "scan" /\ holder' \in {0, WWW} \cup Procs
    BY DEF utmp_login
  <2> QED BY <2>2, <2>3 DEF LockOK
<1> QED BY <1>4, <1>5, <1>6, <1>7, <1>8, <1>9 DEF TableOK, IndexRows

LEMMA FreeTyped ==
  ASSUME TableOK, NEW s \in Slots, FreeSlot(s), wwwguestnum' \in 0 .. USHRT_MAX
  PROVE  TableOK'
<1>1. 0 \in 0 .. UTMPHASH_SIZE /\ s \in 0 .. MAXACTIVE
  BY ConstantsAssumption DEF Slots
<1>2. head' \in [0 .. UTMPHASH_SIZE -> 0 .. MAXACTIVE]
  BY <1>1 DEF TableOK, FreeSlot
<1>3. next' \in [Slots -> 0 .. MAXACTIVE]
  BY <1>1 DEF TableOK, FreeSlot
<1>4. uinfo' \in [Slots -> UserInfo]
  BY SlotRecord, EmptyTyped DEF TableOK, FreeSlot
<1>5. uindex' \in IndexRows
  BY RemoveTyped DEF FreeSlot, TableOK, IndexRows
<1>6. activeuser' \in Int
  BY DEF TableOK, FreeSlot
<1> QED BY <1>2, <1>3, <1>4, <1>5, <1>6 DEF TableOK, IndexRows

LEMMA StaleTyped ==
  ASSUME NEW u \in Users, NEW S \in SUBSET Idx
  PROVE  {u} \X S \in SUBSET (Users \X Idx)
OBVIOUS

LEMMA TodoSet ==
  ASSUME NEW f \in [Procs \cup Reqs -> SUBSET (Users \X Idx)],
         NEW a \in Procs \cup Reqs, NEW T \in SUBSET (Users \X Idx)
  PROVE  [f EXCEPT ![a] = T] \in [Procs \cup Reqs -> SUBSET (Users \X Idx)]
OBVIOUS

LEMMA OrphanedTyped ==
  ASSUME req \in [Reqs -> Request], NEW s
  PROVE  Orphaned(s) \in [Reqs -> Request]
BY DEF Orphaned, Request

LEMMA OrphanedSame ==
  ASSUME req \in [Reqs -> Request], NEW s \in Slots
  PROVE  \A r \in Reqs : /\ Orphaned(s)[r].slot = req[r].slot
                         /\ Orphaned(s)[r] # NoReq => req[r] # NoReq
<1> SUFFICES ASSUME NEW r \in Reqs
             PROVE  /\ Orphaned(s)[r].slot = req[r].slot
                    /\ Orphaned(s)[r] # NoReq => req[r] # NoReq
  OBVIOUS
<1>1. CASE req[r].slot # s
  BY <1>1 DEF Orphaned
<1>2. CASE req[r].slot = s
  <2>1. Orphaned(s)[r] = [req[r] EXCEPT !.live = FALSE]
    BY <1>2 DEF Orphaned
  <2>2. Orphaned(s)[r].slot = req[r].slot
    BY <2>1 DEF Request
  <2>3. req[r] # NoReq
    BY <1>2 DEF NoReq, Slots
  <2> QED BY <2>2, <2>3
<1> QED BY <1>1, <1>2

(***************************************************************************)
(* The control part of the invariant: what a program counter or a handle   *)
(* says about the slot it names.  A slot utmp_kickidle has decided to free *)
(* stays active until it does, because everything else that deactivates a  *)
(* slot needs the lock.                                                    *)
(***************************************************************************)
HasSlot == {"entering", "online", "leaving"}

KnOK ==
  /\ pc = "scan" => kn # 0
  /\ pc \in {"walk", "release"} => kn \in Slots /\ uinfo[kn].active
HandlesOK ==
  /\ \A p \in Procs : proc[p].st \in HasSlot => proc[p].slot \in Slots
  /\ \A r \in Reqs : req[r] # NoReq => req[r].slot \in Slots
HolderOK == holder \in Procs => proc[holder].st = "entering"
Control == KnOK /\ HandlesOK /\ HolderOK

TypeInv == TypeOK /\ Control

LEMMA InitTyped == Init => TypeInv
<1> SUFFICES ASSUME Init PROVE TypeInv
  OBVIOUS
<1>1. TableOK
  BY EmptyTyped, ConstantsAssumption DEF Init, TableOK, Slots
<1>2. LockOK
  BY ConstantsAssumption DEF Init, LockOK
<1>3. ActorsOK
  BY NoReqTyped, ConstantsAssumption DEF Init, ActorsOK, Process
<1>4. Control
  BY ConstantsAssumption DEF Init, Control, KnOK, HandlesOK, HolderOK, HasSlot
<1> QED BY <1>1, <1>2, <1>3, <1>4 DEF TypeInv, TypeOK

(***************************************************************************)
(* Steps of utmp_kickidle.                                                 *)
(***************************************************************************)
LEMMA KickidleTyped ==
  ASSUME TypeInv, Kickidle PROVE TypeInv'
<1> USE DEF TypeInv, TypeOK
<1>1. CASE KickSkip
  <2>1. TableOK'
    BY <1>1 DEF KickSkip, TableOK, shm
  <2>2. kn' \in 1 .. MAXACTIVE + 1
    BY <1>1, ConstantsAssumption DEF KickSkip, Slots
  <2>3. LockOK'
    BY <1>1, <2>2 DEF KickSkip, LockOK
  <2>4. Hangup(kn) \in [Procs -> Process]
    <3>1. ASSUME Alive(uinfo[kn].pid)
          PROVE  [proc EXCEPT ![uinfo[kn].pid].st = Signalled(@)]
                    \in [Procs -> Process]
      BY <3>1, ProcSignalled DEF Alive, ActorsOK
    <3> QED BY <3>1 DEF Hangup, ActorsOK
  <2>5. ActorsOK'
    BY <1>1, <2>4 DEF KickSkip, ActorsOK
  <2>6. KnOK'
    BY <1>1, <2>2 DEF KickSkip, KnOK
  <2>7. HandlesOK'
    BY <1>1, <2>4 DEF KickSkip, Control, HandlesOK, HasSlot, Hangup, Signalled,
                      ActorsOK, Alive
  <2>8. HolderOK'
    BY <1>1, <2>4 DEF KickSkip, Control, HolderOK, Hangup, Signalled, ActorsOK,
                      Alive
  <2> QED BY <2>1, <2>3, <2>5, <2>6, <2>7, <2>8 DEF Control
<1>2. CASE KickDecide
  <2>1. kn \in Slots /\ uinfo[kn].active /\ kn \in 1 .. MAXACTIVE
    BY <1>2 DEF KickDecide, Expired, Slots
  <2>2. MaskHash[uinfo[kn].from] \in 0 .. UTMPHASH_SIZE
    <3>1. uinfo[kn].from \in Hosts
      BY <2>1 DEF TableOK, UserInfo
    <3>2. MaskHash[uinfo[kn].from] \in 1 .. UTMPHASH_SIZE
      BY <3>1, ConstantsAssumption
    <3> QED BY <3>2, ConstantsAssumption
  <2>3. head' \in [0 .. UTMPHASH_SIZE -> 0 .. MAXACTIVE]
    BY <1>2, <2>1, <2>2 DEF KickDecide, TableOK
  <2>4. TableOK'
    BY <1>2, <2>3 DEF KickDecide, TableOK
  <2>5. pc' \in {"walk", "release"} /\ ki' \in 0 .. MAXACTIVE
    BY <1>2, <2>2 DEF KickDecide, TableOK, LockOK
  <2>6. LockOK'
    BY <1>2, <2>5 DEF KickDecide, LockOK
  <2>7. ActorsOK'
    BY <1>2 DEF KickDecide, ActorsOK
  <2>8. Control'
    BY <1>2, <2>1, <2>5 DEF KickDecide, Control, KnOK, HandlesOK,
                                  HolderOK
  <2> QED BY <2>4, <2>6, <2>7, <2>8
<1>3. CASE KickWalk
  <2>1. kn \in Slots /\ uinfo[kn].active
    BY <1>3 DEF KickWalk, Control, KnOK
  <2>2. CASE ki = 0
    BY <1>3, <2>1, <2>2 DEF KickWalk, TableOK, LockOK, ActorsOK, Control, KnOK,
                            HandlesOK, HolderOK
  <2>3. CASE ki # 0
    <3>1. ki \in Slots /\ next[ki] \in 0 .. MAXACTIVE
                       /\ next[kn] \in 0 .. MAXACTIVE
      BY <2>1, <2>3, ConstantsAssumption DEF LockOK, TableOK, Slots
    <3>2. next' \in [Slots -> 0 .. MAXACTIVE]
      BY <1>3, <2>1, <3>1 DEF KickWalk, TableOK
    <3>3. TableOK'
      BY <1>3, <3>2 DEF KickWalk, TableOK
    <3>4. pc' \in {"walk", "release"} /\ ki' \in 0 .. MAXACTIVE
      BY <1>3, <2>3, <3>1, ConstantsAssumption DEF KickWalk
    <3>5. LockOK' /\ ActorsOK' /\ Control'
      BY <1>3, <2>1, <3>4 DEF KickWalk, LockOK, ActorsOK, Control, KnOK,
                              HandlesOK, HolderOK
    <3> QED BY <3>3, <3>5
  <2> QED BY <2>2, <2>3
<1>4. CASE KickRelease
  <2>1. kn \in Slots
    BY <1>4 DEF KickRelease, Control, KnOK
  <2>2. wwwguestnum' \in 0 .. USHRT_MAX
    BY <1>4, DecrTyped DEF KickRelease, TableOK
  <2>3. TableOK'
    BY <1>4, <2>1, <2>2, FreeTyped DEF KickRelease
  <2>4. kn' \in 1 .. MAXACTIVE + 1
    BY <1>4, <2>1, ConstantsAssumption DEF KickRelease, Slots
  <2>5. LockOK'
    BY <1>4, <2>4 DEF KickRelease, LockOK
  <2>6. ActorsOK'
    BY <1>4, OrphanedTyped DEF KickRelease, ActorsOK
  <2>7. KnOK'
    BY <1>4, <2>4 DEF KickRelease, KnOK
  <2>8. HandlesOK' /\ HolderOK'
    BY <1>4, <2>1, OrphanedSame DEF KickRelease, Control, HandlesOK, HolderOK, ActorsOK
  <2> QED BY <2>3, <2>5, <2>6, <2>7, <2>8 DEF Control
<1>5. CASE Unlock
  <2>1. TableOK' /\ LockOK' /\ KnOK'
    BY <1>5, ConstantsAssumption DEF Unlock, shm, TableOK, LockOK, KnOK
  <2>2. proc' \in [Procs -> Process]
    BY <1>5, ProcState DEF Unlock, PStates, ActorsOK
  <2>3. ActorsOK'
    BY <1>5, <2>2 DEF Unlock, ActorsOK
  <2>4. HandlesOK' /\ HolderOK'
    BY <1>5, ConstantsAssumption
    DEF Unlock, Control, HandlesOK, HolderOK, HasSlot, ActorsOK
  <2> QED BY <2>1, <2>3, <2>4 DEF Control
<1> QED BY <1>1, <1>2, <1>3, <1>4, <1>5 DEF Kickidle

(***************************************************************************)
(* Steps of telnet processes.                                              *)
(***************************************************************************)
LEMMA StaleIdx ==
  ASSUME NEW u PROVE StaleEntries(u) \in SUBSET Idx
BY DEF StaleEntries

LEMMA KickedProcess ==
  ASSUME TypeOK, NEW u \in Users, TelnetEntries(u) # {}
  PROVE  uinfo[uindex[u][Min1(TelnetEntries(u))]].pid \in Procs
<1> DEFINE i == Min1(TelnetEntries(u))
<1>1. TelnetEntries(u) \in SUBSET Idx
  BY DEF TelnetEntries, LiveEntries
<1>2. i \in TelnetEntries(u)
  BY <1>1, Min1In
<1>3. i \in Idx /\ uindex[u][i] # 0 /\ uinfo[uindex[u][i]].pid > WWW
  BY <1>2 DEF TelnetEntries, LiveEntries
<1>4. uindex[u][i] \in Slots
  BY <1>3, ConstantsAssumption DEF TypeOK, TableOK, Slots
<1>5. uinfo[uindex[u][i]].pid \in {0, WWW} \cup Procs
  BY <1>4 DEF TypeOK, TableOK, UserInfo
<1> QED BY <1>3, <1>5 DEF WWW

LEMMA ProcChecked ==
  ASSUME NEW f \in [Procs -> Process], NEW p \in Procs,
         NEW u \in Users \cup {Guest}
  PROVE  [f EXCEPT ![p].st = "checked", ![p].user = u] \in [Procs -> Process]
<1>1. [f[p] EXCEPT !.st = "checked", !.user = u] \in Process
  BY DEF Process
<1> QED BY <1>1

KickedProc(f, p, q, u) ==
  [[f EXCEPT ![q].st = Signalled(@)] EXCEPT ![p].st = "checked", ![p].user = u]

LEMMA ProcKicked ==
  ASSUME NEW f \in [Procs -> Process], NEW p \in Procs, NEW q \in Procs,
         NEW u \in Users
  PROVE  LET g == KickedProc(f, p, q, u) IN
         /\ g \in [Procs -> Process]
         /\ \A x \in Procs :
               /\ g[x].st \in HasSlot => f[x].st \in HasSlot
               /\ g[x].slot = f[x].slot
               /\ x # p /\ f[x].st = "entering" => g[x].st = "entering"
<1> DEFINE e == [f EXCEPT ![q].st = Signalled(@)]
           g == [e EXCEPT ![p].st = "checked", ![p].user = u]
<1>1. e \in [Procs -> Process]
  BY ProcSignalled
<1>2. \A x \in Procs : /\ e[x].slot = f[x].slot
                       /\ x # q => e[x] = f[x]
                       /\ e[q].st = Signalled(f[q].st)
  BY DEF Process
<1>3. \A x \in Procs : /\ e[x].st \in HasSlot => f[x].st \in HasSlot
                       /\ f[x].st = "entering" => e[x].st = "entering"
  BY <1>2 DEF Signalled, HasSlot
<1>4. g = [e EXCEPT ![p].st = "checked", ![p].user = u]
  OBVIOUS
<1> HIDE DEF e, g
<1>5. g \in [Procs -> Process]
  BY <1>1, <1>4, ProcChecked
<1>6. \A x \in Procs : /\ g[x].slot = e[x].slot
                       /\ x # p => g[x] = e[x]
                       /\ g[p].st = "checked"
  BY <1>1, <1>4 DEF Process
<1>7. \A x \in Procs : /\ g[x].st \in HasSlot => f[x].st \in HasSlot
                       /\ g[x].slot = f[x].slot
                       /\ x # p /\ f[x].st = "entering" => g[x].st = "entering"
  BY <1>2, <1>3, <1>6 DEF HasSlot
<1>8. g = KickedProc(f, p, q, u)
  BY DEF g, e, KickedProc
<1> QED BY <1>5, <1>7, <1>8

LEMMA TelnetTyped ==
  ASSUME TypeInv, NEW p \in Procs, Telnet(p) PROVE TypeInv'
<1> USE DEF TypeInv, TypeOK
<1>1. ASSUME NEW u \in Users \cup {Guest}, Enter(p, u) PROVE TypeInv'
  <2>1. TableOK' /\ LockOK'
    BY <1>1 DEF Enter, shm, lock, TableOK, LockOK
  <2>2. proc' \in [Procs -> Process]
    <3>1. proc \in [Procs -> Process]
      BY DEF ActorsOK
    <3>2. proc' = [proc EXCEPT ![p].st = "checked", ![p].user = u]
      BY <1>1 DEF Enter
    <3> QED BY <3>1, <3>2, ProcChecked
  <2>3. todo' \in [Procs \cup Reqs -> SUBSET (Users \X Idx)]
    <3>1. CASE u \in Users
      <4>1. {u} \X StaleEntries(u) \in SUBSET (Users \X Idx)
        BY <3>1, StaleIdx, StaleTyped
      <4> QED BY <1>1, <4>1, TodoSet DEF Enter, ActorsOK
    <3>2. CASE u \notin Users
      BY <1>1, <3>2 DEF Enter, ActorsOK
    <3> QED BY <3>1, <3>2
  <2>4. ActorsOK'
    BY <1>1, <2>2, <2>3 DEF Enter, ActorsOK
  <2>5. Control'
    BY <1>1 DEF Enter, Control, KnOK, HandlesOK, HolderOK, HasSlot, ActorsOK,
                shm, lock
  <2> QED BY <2>1, <2>4, <2>5
<1>2. ASSUME NEW u \in Users, EnterKicking(p, u) PROVE TypeInv'
  <2> DEFINE q == uinfo[uindex[u][Min1(TelnetEntries(u))]].pid
  <2>1. q \in Procs
    BY <1>2, KickedProcess DEF EnterKicking
  <2>2. proc' = KickedProc(proc, p, q, u)
    BY <1>2 DEF EnterKicking, KickedProc
  <2> HIDE DEF q
  <2>3. /\ proc' \in [Procs -> Process]
        /\ \A x \in Procs :
              /\ proc'[x].st \in HasSlot => proc[x].st \in HasSlot
              /\ proc'[x].slot = proc[x].slot
              /\ x # p /\ proc[x].st = "entering" =>
                    proc'[x].st = "entering"
    BY <2>1, <2>2, ProcKicked DEF ActorsOK
  <2>4. proc' \in [Procs -> Process]
    BY <2>3
  <2>5. {u} \X StaleEntries(u) \in SUBSET (Users \X Idx)
    BY StaleIdx, StaleTyped
  <2>6. TableOK' /\ LockOK' /\ ActorsOK'
    BY <1>2, <2>4, <2>5, TodoSet
    DEF EnterKicking, shm, lock, TableOK, LockOK, ActorsOK
  <2>7. KnOK'
    BY <1>2 DEF EnterKicking, Control, KnOK, shm, lock
  <2>8. holder # p
    BY <1>2 DEF EnterKicking, Control, HolderOK
  <2>9. HandlesOK' /\ HolderOK'
    <3>1. UNCHANGED <<req, holder>>
      BY <1>2 DEF EnterKicking, lock
    <3>2. HandlesOK'
      BY <2>3, <3>1 DEF Control, HandlesOK
    <3>3. HolderOK'
      BY <2>3, <2>8, <3>1 DEF Control, HolderOK
    <3> QED BY <3>2, <3>3
  <2> QED BY <2>6, <2>7, <2>9 DEF Control
<1>3. CASE TelnetLogin(p)
  <2>1. proc[p].user \in Users \cup {Guest, Nobody}
    BY DEF ActorsOK, Process
  <2>2. CASE SlotForLogin
    <3>1. Session(proc[p].user, p, TelnetHost) \in UserInfo
      BY <2>1, SessionTyped, ConstantsAssumption
    <3>2. utmp_login(Session(proc[p].user, p, TelnetHost), uindex, p)
      BY <1>3, <2>2 DEF TelnetLogin
    <3>3. TableOK' /\ LockOK'
      BY <2>2, <3>1, <3>2, LoginTyped DEF TableOK, IndexRows
    <3>4. proc' = [proc EXCEPT ![p].st = "entering", ![p].slot = head[0]]
          /\ UNCHANGED <<req, todo>>
      BY <1>3, <2>2 DEF TelnetLogin
    <3>5. head[0] \in Slots /\ head[0] \in 0 .. MAXACTIVE
      BY <2>2, HeadIsSlot, ConstantsAssumption DEF Slots
    <3>6. ActorsOK'
      BY <3>4, <3>5 DEF ActorsOK, Process
    <3>7. HandlesOK' /\ HolderOK' /\ KnOK'
      BY <3>2, <3>4, <3>5, ConstantsAssumption
      DEF Control, HandlesOK, HolderOK, KnOK, ActorsOK, utmp_login
    <3> QED BY <3>3, <3>6, <3>7 DEF Control
  <2>3. CASE ~SlotForLogin
    <3>1. proc' = [proc EXCEPT ![p] = Gone] /\ UNCHANGED <<shm, lock, req, todo>>
      BY <1>3, <2>3 DEF TelnetLogin
    <3>2. TableOK' /\ LockOK' /\ ActorsOK'
      BY <3>1, GoneTyped DEF shm, lock, TableOK, LockOK, ActorsOK
    <3>3. p # holder
      BY <1>3 DEF TelnetLogin, Control, HolderOK
    <3>4. Control'
      BY <3>1, <3>3 DEF shm, lock, Control, KnOK, HandlesOK, HolderOK, Gone,
                        HasSlot, ActorsOK
    <3> QED BY <3>2, <3>4
  <2> QED BY <2>2, <2>3
<1>4. CASE Touch(p)
  <2>1. proc[p].slot \in Slots /\ proc[p].user \in Users \cup {Guest, Nobody}
    BY <1>4 DEF Touch, Control, HandlesOK, HasSlot, ActorsOK, Process
  <2> DEFINE g == [uinfo EXCEPT ![proc[p].slot].age = 0,
                                 ![proc[p].slot].from = TelnetHost,
                                 ![proc[p].slot].userid = proc[p].user,
                                 ![proc[p].slot].kicked = FALSE]
  <2>a. uinfo \in [Slots -> UserInfo] /\ TelnetHost \in Hosts
    BY ConstantsAssumption DEF TableOK
  <2>b. uinfo' = g
    BY <1>4 DEF Touch
  <2>c. g \in [Slots -> UserInfo] /\ SameSessions(uinfo, g)
    BY <2>1, <2>a, SlotTouch
  <2>2. uinfo' \in [Slots -> UserInfo]
    BY <2>b, <2>c
  <2>3. SameSessions(uinfo, uinfo')
    BY <2>b, <2>c
  <2> QED BY <1>4, <2>2, <2>3
          DEF Touch, TableOK, LockOK, ActorsOK, Control, KnOK, HandlesOK,
              HolderOK, lock, SameSessions
<1>5. CASE Leave(p)
  <2>1. proc' \in [Procs -> Process]
    BY <1>5, ProcState DEF Leave, PStates, ActorsOK
  <2>2. todo' \in [Procs \cup Reqs -> SUBSET (Users \X Idx)]
    BY <1>5, StaleIdx, StaleTyped, TodoSet DEF Leave, ActorsOK
  <2>3. TableOK' /\ LockOK' /\ ActorsOK'
    BY <1>5, <2>1, <2>2 DEF Leave, TableOK, LockOK, ActorsOK, shm, lock
  <2>4. Control'
    BY <1>5 DEF Leave, Control, KnOK, HandlesOK, HolderOK, HasSlot, ActorsOK,
                shm, lock
  <2> QED BY <2>3, <2>4
<1>6. CASE TelnetLogout(p)
  <2> DEFINE s == proc[p].slot
  <2>1. s \in Slots
    BY <1>6 DEF TelnetLogout, Control, HandlesOK, HasSlot
  <2>2. TableOK' /\ req' \in [Reqs -> Request]
        /\ \A r \in Reqs : req'[r] # NoReq => req[r] # NoReq
                                              /\ req'[r].slot = req[r].slot
    <3>1. CASE uinfo[s].active
      <4>1. FreeSlot(s) /\ req' = Orphaned(s) /\ UNCHANGED wwwguestnum
        BY <1>6, <3>1 DEF TelnetLogout
      <4>2. TableOK'
        BY <2>1, <4>1, FreeTyped DEF TableOK
      <4> QED BY <2>1, <4>1, <4>2, OrphanedTyped, OrphanedSame DEF ActorsOK
    <3>2. CASE ~uinfo[s].active
      BY <1>6, <3>2 DEF TelnetLogout, shm, TableOK, ActorsOK
    <3> QED BY <3>1, <3>2
  <2>3. proc' = [proc EXCEPT ![p] = Gone] /\ UNCHANGED <<lock, todo>>
        /\ pc = "free" /\ proc[p].st = "leaving"
    BY <1>6 DEF TelnetLogout
  <2>4. LockOK' /\ ActorsOK'
    BY <2>2, <2>3, GoneTyped DEF lock, LockOK, ActorsOK
  <2>5. KnOK' /\ HolderOK'
    BY <2>3 DEF lock, Control, KnOK, HolderOK, ActorsOK
  <2>6. HandlesOK'
    BY <2>2, <2>3 DEF Control, HandlesOK, Gone, HasSlot, ActorsOK
  <2> QED BY <2>2, <2>4, <2>5, <2>6 DEF Control
<1>7. CASE Die(p)
  <2>1. {} \in SUBSET (Users \X Idx)
    OBVIOUS
  <2>2. TableOK' /\ ActorsOK'
    BY <1>7, <2>1, GoneTyped, TodoSet DEF Die, shm, TableOK, ActorsOK
  <2>3. LockOK'
    BY <1>7, ConstantsAssumption DEF Die, shm, LockOK
  <2>4. Control'
    BY <1>7, ConstantsAssumption
    DEF Die, shm, Control, KnOK, HandlesOK, HolderOK, Gone, HasSlot, ActorsOK
  <2> QED BY <2>2, <2>3, <2>4
<1> QED BY <1>1, <1>2, <1>3, <1>4, <1>5, <1>6, <1>7 DEF Telnet

(***************************************************************************)
(* Steps of web requests.                                                  *)
(***************************************************************************)
LEMMA WwwLoginTyped ==
  ASSUME TypeInv, NEW u \in Users, NEW host \in Hosts, WwwLogin(u, host)
  PROVE  TypeInv'
<1> USE DEF TypeInv, TypeOK
<1> DEFINE counted == [uindex EXCEPT ![u] =
                         [i \in Idx |-> IF i \in StaleEntries(u)
                                        THEN 0 ELSE uindex[u][i]]]
<1>1. counted \in IndexRows
  <2>1. 0 \in 0 .. MAXACTIVE
    BY ConstantsAssumption
  <2> QED BY <2>1 DEF IndexRows, TableOK
<1>2. ActorsOK' /\ UNCHANGED <<proc, req, todo>> /\ pc = "free"
  BY DEF WwwLogin, ActorsOK
<1>3. CASE SlotForLogin /\ Cardinality(LiveEntries(u)) < WwwLimit
  <2>1. utmp_login(Session(u, WWW, host), counted, WWW)
    BY <1>3 DEF WwwLogin
  <2>2. Session(u, WWW, host) \in UserInfo
    BY SessionTyped
  <2> HIDE DEF counted
  <2>3. TableOK' /\ LockOK'
    BY <1>1, <1>3, <2>1, <2>2, LoginTyped
  <2>4. Control'
    BY <1>2, <2>1, ConstantsAssumption
    DEF Control, KnOK, HandlesOK, HolderOK, utmp_login, WWW
  <2> QED BY <1>2, <2>3, <2>4
<1>4. CASE ~(SlotForLogin /\ Cardinality(LiveEntries(u)) < WwwLimit)
  <2>1. uindex' = counted
        /\ UNCHANGED <<head, next, uinfo, activeuser, wwwguestnum, lock>>
    BY <1>4 DEF WwwLogin
  <2> HIDE DEF counted
  <2> QED BY <1>1, <1>2, <2>1 DEF IndexRows, TableOK, LockOK, Control, KnOK,
                                  HandlesOK, HolderOK, lock
<1> QED BY <1>3, <1>4

LEMMA GuestLoginTyped ==
  ASSUME TypeInv, NEW host \in Hosts, GuestLogin(host) PROVE TypeInv'
<1> USE DEF TypeInv, TypeOK
<1>1. ActorsOK' /\ UNCHANGED <<proc, req, todo>> /\ pc = "free"
  BY DEF GuestLogin, ActorsOK
<1>2. CASE Looping(RealHash[host])
  <2>1. pc' = "hung" /\ holder' = WWW /\ UNCHANGED <<shm, due, kn, ki>>
    BY <1>2 DEF GuestLogin
  <2>2. TableOK' /\ LockOK'
    BY <2>1 DEF shm, TableOK, LockOK
  <2>3. Control'
    BY <1>1, <2>1, ConstantsAssumption
    DEF Control, KnOK, HandlesOK, HolderOK, WWW
  <2> QED BY <1>1, <2>2, <2>3
<1>3. CASE ~Looping(RealHash[host])
  <2>1. SlotForLogin /\ utmp_login(Session(Guest, WWW, host), uindex, WWW)
    BY <1>3 DEF GuestLogin
  <2>2. Session(Guest, WWW, host) \in UserInfo
    BY SessionTyped
  <2>3. TableOK' /\ LockOK'
    BY <2>1, <2>2, LoginTyped DEF TableOK, IndexRows
  <2>4. Control'
    BY <1>1, <2>1, ConstantsAssumption
    DEF Control, KnOK, HandlesOK, HolderOK, utmp_login, WWW
  <2> QED BY <1>1, <2>3, <2>4
<1> QED BY <1>2, <1>3

LEMMA ReqFields ==
  ASSUME NEW f \in [Reqs -> Request], NEW r \in Reqs,
         NEW u \in Users \cup {Guest, Nobody}
  PROVE  [f EXCEPT ![r].counted = TRUE, ![r].uid = u] \in [Reqs -> Request]
<1>1. f[r] \in Request
  OBVIOUS
<1>2. [f[r] EXCEPT !.counted = TRUE, !.uid = u] \in Request
  BY <1>1 DEF Request
<1> QED BY <1>2

LEMMA PageTyped ==
  ASSUME TypeInv, NEW r \in Reqs, Page(r) PROVE TypeInv'
<1> USE DEF TypeInv, TypeOK
<1>1. ASSUME NEW s \in Slots, ReqStart(r, s) PROVE TypeInv'
  <2>1. uinfo' = [uinfo EXCEPT ![s].age = 0]
    BY <1>1 DEF ReqStart
  <2>2. uinfo' \in [Slots -> UserInfo] /\ SameSessions(uinfo, uinfo')
    <3>1. 0 \in 0 .. 2
      OBVIOUS
    <3> QED BY <2>1, <3>1, SlotAge DEF TableOK
  <2>3. TableOK'
    BY <1>1, <2>2 DEF ReqStart, TableOK
  <2>4. uinfo[s].uid \in Users \cup {Guest, Nobody} /\ s \in 0 .. MAXACTIVE
    BY ConstantsAssumption DEF TableOK, UserInfo, Slots
  <2>5. req' \in [Reqs -> Request]
    BY <1>1, <2>4 DEF ReqStart, ActorsOK, Request
  <2>6. LockOK' /\ ActorsOK'
    BY <1>1, <2>5 DEF ReqStart, LockOK, ActorsOK, lock
  <2>7. Control'
    BY <1>1, <2>2 DEF ReqStart, Control, KnOK, HandlesOK, HolderOK, ActorsOK,
                      lock, SameSessions
  <2> QED BY <2>3, <2>6, <2>7
<1>2. CASE ReqEnd(r)
  <2>1. req[r].slot \in Slots
    BY <1>2 DEF ReqEnd, Control, HandlesOK
  <2>2. uinfo' \in [Slots -> UserInfo] /\ SameSessions(uinfo, uinfo')
    <3>1. CASE UNCHANGED uinfo
      BY <3>1 DEF TableOK, SameSessions
    <3>2. CASE uinfo' = [uinfo EXCEPT ![req[r].slot].kicked = TRUE]
      BY <2>1, <3>2, SlotKick DEF TableOK
    <3> QED BY <1>2, <3>1, <3>2 DEF ReqEnd
  <2>3. TableOK' /\ LockOK'
    BY <1>2, <2>2 DEF ReqEnd, TableOK, LockOK, lock
  <2>4. ActorsOK'
    BY <1>2, NoReqTyped DEF ReqEnd, ActorsOK
  <2>5. Control'
    BY <1>2, <2>2 DEF ReqEnd, Control, KnOK, HandlesOK, HolderOK, ActorsOK,
                      lock, SameSessions
  <2> QED BY <2>3, <2>4, <2>5
<1>3. CASE LogoutCount(r)
  <2>1. PICK u \in IF uinfo[req[r].slot].active THEN {uinfo[req[r].slot].uid}
                                                ELSE Users :
               /\ req' = [req EXCEPT ![r].counted = TRUE, ![r].uid = u]
               /\ todo' = [todo EXCEPT ![r] =
                             IF u \in Users THEN {u} \X StaleEntries(u) ELSE {}]
    BY <1>3 DEF LogoutCount
  <2>2. req[r].slot \in Slots /\ req[r] # NoReq
    BY <1>3 DEF LogoutCount, Control, HandlesOK
  <2>3. u \in Users \cup {Guest, Nobody}
    BY <2>2 DEF TableOK, UserInfo
  <2>4. req' \in [Reqs -> Request]
    BY <2>1, <2>3, ReqFields DEF ActorsOK
  <2>5. (IF u \in Users THEN {u} \X StaleEntries(u) ELSE {})
          \in SUBSET (Users \X Idx)
    BY StaleIdx, StaleTyped
  <2>6. todo' \in [Procs \cup Reqs -> SUBSET (Users \X Idx)]
    BY <2>1, <2>5, TodoSet DEF ActorsOK
  <2>7. TableOK' /\ LockOK' /\ ActorsOK'
    BY <1>3, <2>4, <2>6 DEF LogoutCount, TableOK, LockOK, ActorsOK, shm, lock
  <2>8. \A x \in Reqs : req'[x].slot = req[x].slot
    BY <2>1 DEF ActorsOK, Request
  <2>9. \A x \in Reqs : req'[x] # NoReq => req[x] # NoReq
    BY <2>1, <2>2 DEF ActorsOK
  <2>10. Control'
    BY <1>3, <2>8, <2>9 DEF LogoutCount, Control, KnOK, HandlesOK, HolderOK,
                            shm, lock
  <2> QED BY <2>7, <2>10
<1>4. CASE WwwLogout(r)
  <2> DEFINE s == req[r].slot
             u == req[r].uid
  <2>1. s \in Slots
    BY <1>4 DEF WwwLogout, Control, HandlesOK, NoReq
  <2>2. TableOK' /\ req' \in [Reqs -> Request]
        /\ \A x \in Reqs : req'[x] # NoReq => req[x] # NoReq
                                              /\ req'[x].slot = req[x].slot
    <3>1. CASE uinfo[s].active
      <4>1. FreeSlot(s) /\ req' = [Orphaned(s) EXCEPT ![r] = NoReq]
            /\ UNCHANGED wwwguestnum
        BY <1>4, <3>1 DEF WwwLogout
      <4>2. TableOK'
        BY <2>1, <4>1, FreeTyped DEF TableOK
      <4>3. Orphaned(s) \in [Reqs -> Request]
        BY OrphanedTyped DEF ActorsOK
      <4> QED BY <2>1, <4>1, <4>2, <4>3, OrphanedSame, NoReqTyped DEF ActorsOK
    <3>2. CASE ~uinfo[s].active
      BY <1>4, <3>2, NoReqTyped DEF WwwLogout, shm, TableOK, ActorsOK
    <3> QED BY <3>1, <3>2
  <2>3. todo' \in [Procs \cup Reqs -> SUBSET (Users \X Idx)]
    <3>1. CASE UNCHANGED todo
      BY <3>1 DEF ActorsOK
    <3>2. CASE u \in Users /\ todo' = [todo EXCEPT ![r] =
                 {u} \X {i \in StaleEntries(u) : uindex[u][i] # s}]
      <4>1. {i \in StaleEntries(u) : uindex[u][i] # s} \in SUBSET Idx
        BY StaleIdx
      <4>2. {u} \X {i \in StaleEntries(u) : uindex[u][i] # s}
              \in SUBSET (Users \X Idx)
        BY <3>2, <4>1, StaleTyped
      <4> QED BY <3>2, <4>2, TodoSet DEF ActorsOK
    <3> QED BY <1>4, <3>1, <3>2 DEF WwwLogout
  <2>4. UNCHANGED <<lock, proc>> /\ pc = "free"
    BY <1>4 DEF WwwLogout
  <2>5. LockOK' /\ ActorsOK'
    BY <2>2, <2>3, <2>4 DEF lock, LockOK, ActorsOK
  <2>6. Control'
    BY <2>2, <2>4 DEF lock, Control, KnOK, HandlesOK, HolderOK
  <2> QED BY <2>2, <2>5, <2>6
<1> QED BY <1>1, <1>2, <1>3, <1>4 DEF Page

LEMMA KickTyped ==
  ASSUME TypeInv, NEW s \in Slots, Kick(s) \/ Age(s) PROVE TypeInv'
<1> USE DEF TypeInv, TypeOK
<1>1. uinfo' \in [Slots -> UserInfo] /\ SameSessions(uinfo, uinfo')
  <2>1. CASE Kick(s)
    BY <2>1, SlotKick DEF Kick, TableOK
  <2>2. CASE Age(s)
    <3>1. uinfo' = [uinfo EXCEPT ![s].age = uinfo[s].age + 1]
      BY <2>2 DEF Age
    <3>2. uinfo[s].age + 1 \in 0 .. 2
      BY <2>2 DEF Age, TableOK, UserInfo
    <3> QED BY <3>1, <3>2, SlotAge DEF TableOK
  <2> QED BY <2>1, <2>2
<1> QED BY <1>1 DEF Kick, Age, TableOK, LockOK, ActorsOK, Control, KnOK,
                    HandlesOK, HolderOK, lock, SameSessions

LEMMA ClearTyped ==
  ASSUME TypeInv, NEW a \in Procs \cup Reqs, ClearEntry(a) PROVE TypeInv'
<1> USE DEF TypeInv, TypeOK
<1>1. PICK e \in todo[a] : /\ uindex' = [uindex EXCEPT ![e[1]][e[2]] = 0]
                           /\ todo' = [todo EXCEPT ![a] = todo[a] \ {e}]
  BY DEF ClearEntry
<1>2. todo[a] \in SUBSET (Users \X Idx)
  BY DEF ActorsOK
<1>3. e[1] \in Users /\ e[2] \in Idx /\ 0 \in 0 .. MAXACTIVE
  BY <1>2, ConstantsAssumption
<1>4. uindex' \in IndexRows
  BY <1>1, <1>3, IndexEntry DEF TableOK, IndexRows
<1>5. todo' \in [Procs \cup Reqs -> SUBSET (Users \X Idx)]
  BY <1>1, <1>2, TodoSet DEF ActorsOK
<1> QED BY <1>4, <1>5 DEF ClearEntry, TableOK, LockOK, ActorsOK, Control, KnOK,
                          HandlesOK, HolderOK, lock, IndexRows

LEMMA NextTyped == TypeInv /\ [Next]_vars => TypeInv'
<1> SUFFICES ASSUME TypeInv, [Next]_vars PROVE TypeInv'
  OBVIOUS
<1>1. CASE CgiDie
  BY <1>1, ConstantsAssumption
  DEF CgiDie, TypeInv, TypeOK, TableOK, LockOK, ActorsOK, Control, KnOK,
      HandlesOK, HolderOK, shm
<1>2. CASE Minute
  BY <1>2 DEF Minute, TypeInv, TypeOK, TableOK, LockOK, ActorsOK, Control, KnOK,
              HandlesOK, HolderOK, shm
<1>3. CASE UNCHANGED vars
  BY <1>3 DEF vars, TypeInv, TypeOK, TableOK, LockOK, ActorsOK, Control, KnOK,
              HandlesOK, HolderOK, shm, lock
<1> QED
  BY <1>1, <1>2, <1>3, KickidleTyped, TelnetTyped, WwwLoginTyped,
     GuestLoginTyped, PageTyped, KickTyped, ClearTyped
  DEF Next

\* The table is typed, wwwguestnum stays an unsigned short, and every handle
\* a process, a request or utmp_kickidle holds is a slot number: no access to
\* uinfo and guesthash_next is out of bounds.
THEOREM TypeCorrect == Spec => []TypeOK
<1>1. Spec => []TypeInv
  BY InitTyped, NextTyped, PTL DEF Spec
<1>2. TypeInv => TypeOK
  BY DEF TypeInv
<1> QED BY <1>1, <1>2, PTL

-----------------------------------------------------------------------------
(***************************************************************************)
(* What the audit of local_utl/checkshm.c looks for in the session table:  *)
(* the free list, activeuser and uindex agree with the slots, whatever     *)
(* requests, kicks, deaths and stale logouts do.                           *)
(*                                                                         *)
(* Every step of Next does one of three things to the table: it takes the  *)
(* head of the free list for a session, it gives an active slot back, or   *)
(* it leaves the sessions where they are (TableStep).  The invariants are  *)
(* then proved for these three kinds of steps.                             *)
(***************************************************************************)

\* uindex with some entries set to 0.
Thinned(ix) == \A u \in Users, i \in Idx : ix[u][i] \in {0, uindex[u][i]}

LoginStep ==
  \E up \in UserInfo, ix \in IndexRows, pid \in {WWW} \cup Procs :
     /\ up.active /\ Thinned(ix)
     /\ SlotForLogin /\ utmp_login(up, ix, pid)

FreeStep == \E s \in Slots : uinfo[s].active /\ FreeSlot(s)

\* Guest chains may change, but only at slots whose successor is active.
QuietStep ==
  /\ SameSessions(uinfo, uinfo')
  /\ activeuser' = activeuser
  /\ head'[0] = head[0]
  /\ Thinned(uindex')
  /\ \A k \in Slots : next'[k] # next[k] =>
        next[k] \in Slots /\ uinfo[next[k]].active

LEMMA StillQuiet ==
  ASSUME UNCHANGED <<head, next, activeuser>>, Thinned(uindex'),
         SameSessions(uinfo, uinfo')
  PROVE  QuietStep
BY DEF QuietStep

LEMMA NothingMoves == UNCHANGED shm => QuietStep
BY DEF shm, QuietStep, Thinned, SameSessions

LEMMA KickidleStep ==
  ASSUME TypeInv, Kickidle PROVE FreeStep \/ QuietStep
<1> USE DEF TypeInv, TypeOK
<1>1. CASE KickSkip \/ Unlock
  BY <1>1, NothingMoves DEF KickSkip, Unlock
<1>2. CASE KickDecide
  <2>1. kn \in Slots
    BY <1>2 DEF KickDecide
  <2>2. MaskHash[uinfo[kn].from] # 0
    <3>1. uinfo[kn].from \in Hosts
      BY <2>1 DEF TableOK, UserInfo
    <3>2. MaskHash[uinfo[kn].from] \in 1 .. UTMPHASH_SIZE
      BY <3>1, ConstantsAssumption
    <3> QED BY <3>2, ConstantsAssumption
  <2>3. head'[0] = head[0]
    <3>1. \/ head' = head
          \/ head' = [head EXCEPT ![MaskHash[uinfo[kn].from]] = next[kn]]
      BY <1>2 DEF KickDecide
    <3>2. 0 \in 0 .. UTMPHASH_SIZE
      BY ConstantsAssumption
    <3> QED BY <2>2, <3>1, <3>2 DEF TableOK
  <2> QED BY <1>2, <2>3 DEF KickDecide, QuietStep, Thinned, SameSessions
<1>3. CASE KickWalk
  <2>1. kn \in Slots /\ uinfo[kn].active
    BY <1>3 DEF KickWalk, Control, KnOK
  <2>2. \A k \in Slots : next'[k] # next[k] => next[k] = kn
    BY <1>3 DEF KickWalk, TableOK
  <2> QED BY <1>3, <2>1, <2>2 DEF KickWalk, QuietStep, Thinned, SameSessions
<1>4. CASE KickRelease
  BY <1>4 DEF KickRelease, FreeStep, Control, KnOK
<1> QED BY <1>1, <1>2, <1>3, <1>4 DEF Kickidle

LEMMA TelnetStep ==
  ASSUME TypeInv, NEW p \in Procs, Telnet(p)
  PROVE  LoginStep \/ FreeStep \/ QuietStep
<1> USE DEF TypeInv, TypeOK
<1>1. CASE \/ \E u \in Users \cup {Guest} : Enter(p, u)
           \/ \E u \in Users : EnterKicking(p, u)
           \/ Leave(p) \/ Die(p)
  BY <1>1, NothingMoves DEF Enter, EnterKicking, Leave, Die
<1>2. CASE TelnetLogin(p)
  <2>1. CASE SlotForLogin
    <3>1. proc[p].user \in Users \cup {Guest, Nobody}
      BY DEF ActorsOK, Process
    <3>2. Session(proc[p].user, p, TelnetHost) \in UserInfo
      BY <3>1, SessionTyped, ConstantsAssumption
    <3>3. utmp_login(Session(proc[p].user, p, TelnetHost), uindex, p)
      BY <1>2, <2>1 DEF TelnetLogin
    <3>4. Session(proc[p].user, p, TelnetHost).active
      BY DEF Session
    <3>5. uindex \in IndexRows /\ Thinned(uindex)
      BY DEF TableOK, IndexRows, Thinned
    <3> QED BY <2>1, <3>2, <3>3, <3>4, <3>5 DEF LoginStep
  <2>2. CASE ~SlotForLogin
    BY <1>2, <2>2, NothingMoves DEF TelnetLogin
  <2> QED BY <2>1, <2>2
<1>3. CASE Touch(p)
  <2>1. proc[p].slot \in Slots /\ proc[p].user \in Users \cup {Guest, Nobody}
    BY <1>3 DEF Touch, Control, HandlesOK, HasSlot, ActorsOK, Process
  <2>2. SameSessions(uinfo, uinfo')
    BY <1>3, <2>1, SlotTouch, ConstantsAssumption DEF Touch, TableOK
  <2>3. Thinned(uindex')
    BY <1>3 DEF Touch, Thinned
  <2> QED BY <1>3, <2>2, <2>3, StillQuiet DEF Touch
<1>4. CASE TelnetLogout(p)
  <2>1. proc[p].slot \in Slots
    BY <1>4 DEF TelnetLogout, Control, HandlesOK, HasSlot
  <2>2. CASE uinfo[proc[p].slot].active
    BY <1>4, <2>1, <2>2 DEF TelnetLogout, FreeStep
  <2>3. CASE ~uinfo[proc[p].slot].active
    BY <1>4, <2>3, NothingMoves DEF TelnetLogout
  <2> QED BY <2>2, <2>3
<1> QED BY <1>1, <1>2, <1>3, <1>4 DEF Telnet

LEMMA WebStep ==
  ASSUME TypeInv,
         \/ \E u \in Users, host \in Hosts : WwwLogin(u, host)
         \/ \E host \in Hosts : GuestLogin(host)
         \/ \E r \in Reqs : Page(r)
  PROVE  LoginStep \/ FreeStep \/ QuietStep
<1> USE DEF TypeInv, TypeOK
<1>1. ASSUME NEW u \in Users, NEW host \in Hosts, WwwLogin(u, host)
      PROVE  LoginStep \/ QuietStep
  <2> DEFINE counted == [uindex EXCEPT ![u] =
                           [i \in Idx |-> IF i \in StaleEntries(u)
                                          THEN 0 ELSE uindex[u][i]]]
  <2>1. counted \in IndexRows /\ Thinned(counted)
    <3>1. 0 \in 0 .. MAXACTIVE
      BY ConstantsAssumption
    <3> QED BY <3>1 DEF IndexRows, TableOK, Thinned
  <2>2. CASE SlotForLogin /\ Cardinality(LiveEntries(u)) < WwwLimit
    <3>1. utmp_login(Session(u, WWW, host), counted, WWW)
      BY <1>1, <2>2 DEF WwwLogin
    <3>2. Session(u, WWW, host) \in UserInfo
      BY SessionTyped
    <3>3. Session(u, WWW, host).active
      BY DEF Session
    <3> HIDE DEF counted
    <3> QED BY <2>1, <2>2, <3>1, <3>2, <3>3 DEF LoginStep
  <2>3. CASE ~(SlotForLogin /\ Cardinality(LiveEntries(u)) < WwwLimit)
    <3>1. uindex' = counted /\ UNCHANGED <<head, next, uinfo, activeuser>>
      BY <1>1, <2>3 DEF WwwLogin
    <3>2. SameSessions(uinfo, uinfo')
      BY <3>1 DEF SameSessions
    <3>3. Thinned(uindex')
      <4> HIDE DEF counted
      <4> QED BY <2>1, <3>1 DEF Thinned
    <3> QED BY <3>1, <3>2, <3>3, StillQuiet
  <2> QED BY <2>2, <2>3
<1>2. ASSUME NEW host \in Hosts, GuestLogin(host)
      PROVE  LoginStep \/ QuietStep
  <2>1. CASE Looping(RealHash[host])
    BY <1>2, <2>1, NothingMoves DEF GuestLogin
  <2>2. CASE ~Looping(RealHash[host])
    <3>1. SlotForLogin /\ utmp_login(Session(Guest, WWW, host), uindex, WWW)
      BY <1>2, <2>2 DEF GuestLogin
    <3>2. Session(Guest, WWW, host) \in UserInfo
      BY SessionTyped
    <3>3. Session(Guest, WWW, host).active
      BY DEF Session
    <3>4. uindex \in IndexRows /\ Thinned(uindex)
      BY DEF TableOK, IndexRows, Thinned
    <3> QED BY <3>1, <3>2, <3>3, <3>4 DEF LoginStep
  <2> QED BY <2>1, <2>2
<1>3. ASSUME NEW r \in Reqs, Page(r) PROVE FreeStep \/ QuietStep
  <2>1. ASSUME NEW s \in Slots, ReqStart(r, s) PROVE QuietStep
    <3>1. 0 \in 0 .. 2
      OBVIOUS
    <3>2. SameSessions(uinfo, uinfo')
      BY <2>1, <3>1, SlotAge DEF ReqStart, TableOK
    <3>3. Thinned(uindex')
      BY <2>1 DEF ReqStart, Thinned
    <3> QED BY <2>1, <3>2, <3>3, StillQuiet DEF ReqStart
  <2>2. CASE ReqEnd(r)
    <3>1. req[r].slot \in Slots
      BY <2>2 DEF ReqEnd, Control, HandlesOK
    <3>2. SameSessions(uinfo, uinfo')
      <4>1. CASE UNCHANGED uinfo
        BY <4>1 DEF SameSessions
      <4>2. CASE uinfo' = [uinfo EXCEPT ![req[r].slot].kicked = TRUE]
        BY <3>1, <4>2, SlotKick DEF TableOK
      <4> QED BY <2>2, <4>1, <4>2 DEF ReqEnd
    <3>3. Thinned(uindex')
      BY <2>2 DEF ReqEnd, Thinned
    <3> QED BY <2>2, <3>2, <3>3, StillQuiet DEF ReqEnd
  <2>3. CASE LogoutCount(r)
    BY <2>3, NothingMoves DEF LogoutCount
  <2>4. CASE WwwLogout(r)
    <3>1. req[r].slot \in Slots
      BY <2>4 DEF WwwLogout, Control, HandlesOK, NoReq
    <3>2. CASE uinfo[req[r].slot].active
      BY <2>4, <3>1, <3>2 DEF WwwLogout, FreeStep
    <3>3. CASE ~uinfo[req[r].slot].active
      BY <2>4, <3>3, NothingMoves DEF WwwLogout
    <3> QED BY <3>2, <3>3
  <2> QED BY <1>3, <2>1, <2>2, <2>3, <2>4 DEF Page
<1> QED BY <1>1, <1>2, <1>3

LEMMA OtherStep ==
  ASSUME TypeInv,
         \/ \E s \in Slots : Kick(s) \/ Age(s)
         \/ CgiDie \/ Minute
         \/ \E a \in Procs \cup Reqs : ClearEntry(a)
         \/ UNCHANGED vars
  PROVE  QuietStep
<1> USE DEF TypeInv, TypeOK
<1>1. ASSUME NEW s \in Slots, Kick(s) PROVE QuietStep
  <2>1. SameSessions(uinfo, uinfo') /\ Thinned(uindex')
    BY <1>1, SlotKick DEF Kick, TableOK, Thinned
  <2> QED BY <1>1, <2>1, StillQuiet DEF Kick
<1>2. ASSUME NEW s \in Slots, Age(s) PROVE QuietStep
  <2>1. uinfo' = [uinfo EXCEPT ![s].age = uinfo[s].age + 1]
    BY <1>2 DEF Age
  <2>2. uinfo[s].age + 1 \in 0 .. 2
    <3>1. uinfo[s] \in UserInfo /\ uinfo[s].age < 2
      BY <1>2 DEF Age, TableOK
    <3> QED BY <3>1 DEF UserInfo
  <2>3. SameSessions(uinfo, uinfo')
    BY <2>1, <2>2, SlotAge DEF TableOK
  <2>4. Thinned(uindex')
    BY <1>2 DEF Age, Thinned
  <2> QED BY <1>2, <2>3, <2>4, StillQuiet DEF Age
<1>3. CASE CgiDie \/ Minute \/ UNCHANGED vars
  BY <1>3, NothingMoves DEF CgiDie, Minute, vars
<1>4. ASSUME NEW a \in Procs \cup Reqs, ClearEntry(a) PROVE QuietStep
  <2>1. PICK e \in todo[a] : uindex' = [uindex EXCEPT ![e[1]][e[2]] = 0]
    BY <1>4 DEF ClearEntry
  <2>2. Thinned(uindex')
    BY <2>1 DEF Thinned, TableOK
  <2>3. SameSessions(uinfo, uinfo')
    BY <1>4 DEF ClearEntry, SameSessions
  <2> QED BY <1>4, <2>2, <2>3, StillQuiet DEF ClearEntry
<1> QED BY <1>1, <1>2, <1>3, <1>4

LEMMA TableStep ==
  ASSUME TypeInv, [Next]_vars PROVE LoginStep \/ FreeStep \/ QuietStep
BY KickidleStep, TelnetStep, WebStep, OtherStep DEF Next

-----------------------------------------------------------------------------
(***************************************************************************)
(* The free list.  FreeListExact is not inductive: that the list holds all *)
(* inactive slots says nothing of what follows an inactive slot.  FreeList *)
(* adds that next leads from inactive slots to inactive slots, never to    *)
(* the head and never from two of them to one.                             *)
(***************************************************************************)
FreeOnly ==
  /\ head[0] # 0 => head[0] \in Inactive
  /\ \A s \in Inactive : next[s] # 0 => next[s] \in Inactive

FreeOnce ==
  /\ \A s \in Inactive : head[0] # 0 => next[s] # head[0]
  /\ \A s, t \in Inactive : next[s] # 0 /\ next[s] = next[t] => s = t

FreeAll ==
  /\ Inactive # {} => head[0] # 0
  /\ \A S \in SUBSET Inactive : head[0] \in S /\ Closed(S) => S = Inactive

FreeList == FreeOnly /\ FreeOnce /\ FreeAll

\* Taking the head of the list.
LEMMA PopKeeps == ASSUME TypeOK, FreeList, LoginStep PROVE FreeList'
<1> DEFINE j == head[0]
<1>1. PICK up \in UserInfo, ix \in IndexRows, pid \in {WWW} \cup Procs :
         /\ up.active /\ SlotForLogin /\ utmp_login(up, ix, pid)
  BY DEF LoginStep
<1>2. j \in Slots /\ j # 0 /\ j \in Inactive
  BY <1>1, HeadIsSlot DEF FreeList, FreeOnly, Slots
<1>3. Inactive' = Inactive \ {j}
  BY <1>1, <1>2 DEF utmp_login, Inactive, TypeOK, TableOK
<1>4. \A s \in Slots : s # j => next'[s] = next[s]
  BY <1>1, <1>2 DEF utmp_login, TypeOK, TableOK
<1>5. head'[0] = next[j]
  <2>1. up.from \in Hosts
    BY DEF UserInfo
  <2>2. MaskHash[up.from] \in 1 .. UTMPHASH_SIZE
    BY <2>1, ConstantsAssumption
  <2>3. MaskHash[up.from] # 0 /\ 0 \in 0 .. UTMPHASH_SIZE
    BY <2>2, ConstantsAssumption
  <2> QED BY <1>1, <2>3 DEF utmp_login, TypeOK, TableOK
<1> USE DEF FreeList
<1>6. FreeOnly'
  BY <1>2, <1>3, <1>4, <1>5 DEF FreeOnly, FreeOnce, Inactive
<1>7. FreeOnce'
  BY <1>2, <1>3, <1>4, <1>5 DEF FreeOnly, FreeOnce, Inactive
<1>8. FreeAll'
  <2>1. ASSUME NEW S \in SUBSET (Inactive \ {j}), next[j] \in S,
               \A t \in S : next'[t] # 0 => next'[t] \in S
        PROVE  S = Inactive \ {j}
    <3>1. Closed(S \cup {j})
      BY <1>4, <2>1 DEF Closed, Inactive
    <3>2. S \cup {j} = Inactive
      BY <1>2, <3>1 DEF FreeAll
    <3> QED BY <3>2
  <2>2. ASSUME next[j] = 0 PROVE Inactive \ {j} = {}
    <3>1. Closed({j})
      BY <2>2 DEF Closed
    <3> QED BY <1>2, <3>1 DEF FreeAll
  <2> QED BY <1>3, <1>5, <2>1, <2>2 DEF FreeAll, Closed
<1> QED BY <1>6, <1>7, <1>8

\* Giving an active slot back.
LEMMA PushKeeps == ASSUME TypeOK, FreeList, FreeStep PROVE FreeList'
<1>1. PICK s \in Slots : uinfo[s].active /\ FreeSlot(s)
  BY DEF FreeStep
<1>2. s # 0 /\ s \notin Inactive
  BY <1>1 DEF Slots, Inactive
<1>3. Inactive' = Inactive \cup {s}
  BY <1>1 DEF FreeSlot, Inactive, Empty, TypeOK, TableOK
<1>4. next'[s] = head[0] /\ \A t \in Slots : t # s => next'[t] = next[t]
  BY <1>1 DEF FreeSlot, TypeOK, TableOK
<1>5. head'[0] = s
  <2>1. 0 \in 0 .. UTMPHASH_SIZE
    BY ConstantsAssumption
  <2> QED BY <1>1, <2>1 DEF FreeSlot, TypeOK, TableOK
<1> USE DEF FreeList
<1>6. FreeOnly'
  BY <1>2, <1>3, <1>4, <1>5 DEF FreeOnly, Inactive
<1>7. FreeOnce'
  BY <1>2, <1>3, <1>4, <1>5 DEF FreeOnly, FreeOnce, Inactive
<1>8. FreeAll'
  <2>1. ASSUME NEW S \in SUBSET (Inactive \cup {s}), s \in S,
               \A t \in S : next'[t] # 0 => next'[t] \in S
        PROVE  S = Inactive \cup {s}
    <3>1. Closed(S \ {s})
      BY <1>2, <1>4, <2>1 DEF Closed, FreeOnly, Inactive
    <3>2. CASE head[0] = 0
      BY <2>1, <3>2 DEF FreeAll
    <3>3. CASE head[0] # 0
      <4>1. head[0] \in S \ {s}
        BY <1>2, <1>4, <2>1, <3>3 DEF FreeOnly
      <4>2. S \ {s} = Inactive
        BY <3>1, <4>1, <2>1 DEF FreeAll
      <4> QED BY <2>1, <4>2
    <3> QED BY <3>2, <3>3
  <2> QED BY <1>2, <1>3, <1>5, <2>1 DEF FreeAll, Closed
<1> QED BY <1>6, <1>7, <1>8

\* Everything else leaves what follows an inactive slot alone.
LEMMA QuietKeeps == ASSUME TypeOK, FreeList, QuietStep PROVE FreeList'
<1>1. Inactive' = Inactive
  BY DEF QuietStep, SameSessions, Inactive
<1>2. \A t \in Inactive : next'[t] = next[t]
  BY DEF QuietStep, FreeList, FreeOnly, Inactive, Slots
<1>3. head'[0] = head[0]
  BY DEF QuietStep
<1>4. \A S \in SUBSET Inactive : Closed(S)' <=> Closed(S)
  BY <1>2 DEF Closed
<1> QED BY <1>1, <1>2, <1>3, <1>4 DEF FreeList, FreeOnly, FreeOnce, FreeAll

LEMMA InitFree == Init => FreeList
<1> SUFFICES ASSUME Init PROVE FreeList
  OBVIOUS
<1>1. head[0] = 1 /\ Inactive = Slots /\ 1 \in Slots
  BY ConstantsAssumption DEF Init, Inactive, Empty, Slots
<1>2. \A s \in Slots : next[s] = IF s = MAXACTIVE THEN 0 ELSE s + 1
  BY DEF Init
<1>3. FreeOnly /\ FreeOnce
  BY <1>1, <1>2, ConstantsAssumption DEF FreeOnly, FreeOnce, Slots
<1>4. ASSUME NEW S \in SUBSET Slots, 1 \in S, Closed(S) PROVE S = Slots
  <2> SUFFICES ASSUME Slots \ S # {} PROVE FALSE
    OBVIOUS
  <2>1. PICK m \in Slots \ S : \A k \in Slots \ S : m <= k
    <3>1. Slots \ S \in SUBSET Nat
      BY ConstantsAssumption DEF Slots
    <3> QED BY <3>1, NatMin
  <2>2. m \in Nat /\ m > 1 /\ m - 1 \in Slots /\ m - 1 # MAXACTIVE
    BY <1>4, <2>1, ConstantsAssumption DEF Slots
  <2>3. m - 1 \in S
    BY <2>1, <2>2
  <2>4. next[m - 1] = m
    BY <1>2, <2>2
  <2> QED BY <1>4, <2>1, <2>2, <2>3, <2>4 DEF Closed
<1>5. FreeAll
  BY <1>1, <1>4 DEF FreeAll
<1> QED BY <1>3, <1>5 DEF FreeList

LEMMA FreeListImplies == TypeOK /\ FreeList => FreeListExact
<1> SUFFICES ASSUME TypeOK, FreeList PROVE Reach(head[0]) = Inactive
  BY DEF FreeListExact
<1> USE DEF FreeList
<1>1. CASE head[0] = 0
  BY <1>1 DEF Reach, FreeAll
<1>2. CASE head[0] # 0
  <2>1. Inactive \in SUBSET Slots /\ head[0] \in Inactive /\ Closed(Inactive)
    BY <1>2 DEF FreeOnly, Closed, Inactive
  <2>2. Reach(head[0]) \subseteq Inactive
    BY <2>1 DEF Reach
  <2>3. ASSUME NEW S \in SUBSET Slots, head[0] \in S, Closed(S)
        PROVE  Inactive \subseteq S
    <3>1. Closed(S \cap Inactive)
      BY <2>1, <2>3 DEF Closed
    <3>2. S \cap Inactive = Inactive
      BY <2>1, <2>3, <3>1 DEF FreeAll
    <3> QED BY <3>2
  <2>4. Inactive \subseteq Reach(head[0])
    BY <1>2, <2>1, <2>3 DEF Reach
  <2> QED BY <2>2, <2>4
<1> QED BY <1>1, <1>2

\* No slot is handed out twice and none is lost, whatever the order of logins,
\* logouts (late ones included), kicks, deaths inside the locked section and
\* guest chains that run into the free list: utmp_login always finds the head
\* of a list of exactly the inactive slots.
THEOREM FreeListCorrect == Spec => []FreeListExact
<1> DEFINE IInv == TypeInv /\ FreeList
<1>1. Init => IInv
  BY InitTyped, InitFree
<1>2. IInv /\ [Next]_vars => IInv'
  BY NextTyped, TableStep, PopKeeps, PushKeeps, QuietKeeps DEF TypeInv
<1>3. IInv => FreeListExact
  BY FreeListImplies DEF TypeInv
<1> QED BY <1>1, <1>2, <1>3, PTL DEF Spec

-----------------------------------------------------------------------------
(***************************************************************************)
(* activeuser.                                                             *)
(***************************************************************************)
Counted == IsFiniteSet(Active) /\ activeuser = Cardinality(Active)

LEMMA InitCounted == Init => Counted
<1> SUFFICES ASSUME Init PROVE Counted
  OBVIOUS
<1>1. Active = {} /\ activeuser = 0
  BY DEF Init, Active, Empty
<1> QED BY <1>1, FS_EmptySet DEF Counted

LEMMA CountKept ==
  ASSUME TypeOK, FreeList, Counted, LoginStep \/ FreeStep \/ QuietStep
  PROVE  Counted'
<1>1. CASE LoginStep
  <2>1. PICK up \in UserInfo, ix \in IndexRows, pid \in {WWW} \cup Procs :
           /\ up.active /\ SlotForLogin /\ utmp_login(up, ix, pid)
    BY <1>1 DEF LoginStep
  <2>2. head[0] \in Slots /\ head[0] \notin Active
    BY <2>1, HeadIsSlot DEF FreeList, FreeOnly, Inactive, Active, Slots
  <2>3. Active' = Active \cup {head[0]} /\ activeuser' = activeuser + 1
    BY <2>1, <2>2 DEF utmp_login, Active, TypeOK, TableOK
  <2> QED BY <2>2, <2>3, FS_AddElement DEF Counted
<1>2. CASE FreeStep
  <2>1. PICK s \in Slots : uinfo[s].active /\ FreeSlot(s)
    BY <1>2 DEF FreeStep
  <2>2. s \in Active /\ Active' = Active \ {s} /\ activeuser' = activeuser - 1
    BY <2>1 DEF FreeSlot, Active, Empty, TypeOK, TableOK
  <2> QED BY <2>2, FS_RemoveElement DEF Counted
<1>3. CASE QuietStep
  <2>1. Active' = Active /\ activeuser' = activeuser
    BY <1>3 DEF QuietStep, SameSessions, Active
  <2> QED BY <2>1 DEF Counted
<1> QED BY <1>1, <1>2, <1>3

\* activeuser, an unsigned short decremented on three paths, is the number of
\* active slots, so it never wraps and login_query's test of it is exact.
THEOREM ActiveUserCorrect == Spec => []ActiveUserExact
<1> DEFINE IInv == TypeInv /\ FreeList /\ Counted
<1>1. Init => IInv
  BY InitTyped, InitFree, InitCounted
<1>2. IInv /\ [Next]_vars => IInv'
  BY NextTyped, TableStep, PopKeeps, PushKeeps, QuietKeeps, CountKept
  DEF TypeInv
<1>3. IInv => ActiveUserExact
  BY DEF Counted, ActiveUserExact
<1> QED BY <1>1, <1>2, <1>3, PTL DEF Spec

-----------------------------------------------------------------------------
(***************************************************************************)
(* uindex.                                                                 *)
(***************************************************************************)

\* The property, for a table f and rows ix.
Sound(ix, f) ==
  \A u \in Users : \A i \in Idx : ix[u][i] # 0 =>
     /\ f[ix[u][i]].active /\ f[ix[u][i]].uid = u
     /\ \A k \in Idx : ix[u][k] = ix[u][i] => k = i

\* add_uindex changes at most one entry, and sets it to s.
LEMMA AddOne ==
  ASSUME NEW ix \in IndexRows, NEW u, NEW s \in Slots
  PROVE  \/ add_uindex(ix, u, s) = ix
         \/ /\ u \in Users /\ \A i \in Idx : ix[u][i] # s
            /\ \E i \in Idx : add_uindex(ix, u, s) = [ix EXCEPT ![u][i] = s]
<1> DEFINE room == {i \in Idx : \/ ix[u][i] = 0
                                \/ ~uinfo[ix[u][i]].active
                                \/ uinfo[ix[u][i]].uid # u}
<1>1. room # {} => Min1(room) \in Idx
  BY Min1In
<1> QED BY <1>1 DEF add_uindex

\* remove_uindex changes at most one entry, and no entry of s is left unless
\* there were two.
LEMMA RemoveOne ==
  ASSUME NEW ix \in IndexRows, NEW u \in Users, NEW s \in Slots,
         \A i, k \in Idx : ix[u][i] = s /\ ix[u][k] = s => i = k
  PROVE  LET jx == remove_uindex(ix, u, s)
         IN  /\ \A v \in Users, i \in Idx : jx[v][i] \in {0, ix[v][i]}
             /\ \A i \in Idx : jx[u][i] # s
<1> DEFINE mine == {i \in Idx : ix[u][i] = s}
           jx == remove_uindex(ix, u, s)
<1>1. s # 0
  BY DEF Slots
<1>2. CASE mine = {}
  <2>1. jx = ix
    BY <1>2 DEF remove_uindex
  <2> QED BY <1>2, <2>1
<1>3. CASE mine # {}
  <2>1. Min1(mine) \in mine
    BY <1>3, Min1In
  <2>2. jx = [ix EXCEPT ![u][Min1(mine)] = 0]
    BY <1>3 DEF remove_uindex
  <2> HIDE DEF jx
  <2>3. \A v \in Users, i \in Idx :
           jx[v][i] = IF v = u /\ i = Min1(mine) THEN 0 ELSE ix[v][i]
    BY <2>1, <2>2 DEF IndexRows
  <2> QED BY <1>1, <2>1, <2>3 DEF jx
<1> QED BY <1>2, <1>3

LEMMA ThinnedSound ==
  ASSUME NEW f, NEW ix \in IndexRows, NEW jx, Sound(ix, f),
         \A u \in Users, i \in Idx : jx[u][i] \in {0, ix[u][i]}
  PROVE  Sound(jx, f)
BY DEF Sound

LEMMA SoundKept ==
  ASSUME TypeOK, FreeList, UIndexSound, LoginStep \/ FreeStep \/ QuietStep
  PROVE  UIndexSound'
<1>1. Sound(uindex, uinfo) /\ uindex \in IndexRows
  BY DEF UIndexSound, Sound, TypeOK, TableOK, IndexRows
<1>2. Sound(uindex', uinfo') => UIndexSound'
  BY DEF UIndexSound, Sound
<1>3. CASE LoginStep
  <2> DEFINE j == head[0]
  <2>1. PICK up \in UserInfo, ix \in IndexRows, pid \in {WWW} \cup Procs :
           /\ up.active /\ Thinned(ix) /\ SlotForLogin
           /\ utmp_login(up, ix, pid)
    BY <1>3 DEF LoginStep
  <2>2. j \in Slots /\ j # 0 /\ ~uinfo[j].active
    BY <2>1, HeadIsSlot DEF FreeList, FreeOnly, Inactive, Slots
  <2>3. Sound(ix, uinfo)
    BY <1>1, <2>1, ThinnedSound DEF Thinned
  <2>4. \A u \in Users, i \in Idx : ix[u][i] # j /\ ix[u][i] \in 0 .. MAXACTIVE
    BY <2>2, <2>3 DEF Sound, IndexRows
  <2>5. /\ uinfo'[j] = up /\ uindex' = add_uindex(ix, up.uid, j)
        /\ \A s \in Slots : s # j => uinfo'[s] = uinfo[s]
    BY <2>1, <2>2 DEF utmp_login, TypeOK, TableOK
  <2>6. Sound(ix, uinfo')
    <3>1. \A u \in Users, i \in Idx : ix[u][i] # 0 =>
             uinfo'[ix[u][i]] = uinfo[ix[u][i]]
      BY <2>4, <2>5 DEF Slots
    <3> QED BY <2>3, <3>1 DEF Sound
  <2>7. CASE uindex' = ix
    BY <1>2, <2>6, <2>7
  <2>8. ASSUME NEW i \in Idx, up.uid \in Users,
               uindex' = [ix EXCEPT ![up.uid][i] = j]
        PROVE  Sound(uindex', uinfo')
    <3>1. \A u \in Users, k \in Idx :
             uindex'[u][k] = IF u = up.uid /\ k = i THEN j ELSE ix[u][k]
      BY <2>8 DEF IndexRows
    <3> QED BY <2>1, <2>4, <2>5, <2>6, <3>1 DEF Sound
  <2>9. \/ uindex' = ix
        \/ up.uid \in Users /\ \E i \in Idx : uindex' = [ix EXCEPT ![up.uid][i] = j]
    <3> DEFINE u == up.uid
    <3>1. j \in Slots
      BY <2>2
    <3> HIDE DEF j, u
    <3>2. \/ add_uindex(ix, u, j) = ix
          \/ /\ u \in Users /\ \A i \in Idx : ix[u][i] # j
             /\ \E i \in Idx : add_uindex(ix, u, j) = [ix EXCEPT ![u][i] = j]
      BY <3>1, AddOne
    <3> QED BY <2>5, <3>2 DEF u
  <2> QED BY <1>2, <2>7, <2>8, <2>9
<1>4. CASE FreeStep
  <2>1. PICK s \in Slots : uinfo[s].active /\ FreeSlot(s)
    BY <1>4 DEF FreeStep
  <2>2. /\ uindex' = remove_uindex(uindex, uinfo[s].uid, s)
        /\ \A t \in Slots : t # s => uinfo'[t] = uinfo[t]
    BY <2>1 DEF FreeSlot, TypeOK, TableOK
  <2>3. /\ \A u \in Users, i \in Idx : uindex'[u][i] \in {0, uindex[u][i]}
        /\ \A u \in Users, i \in Idx : uindex'[u][i] # s
    <3>1. \A u \in Users, i \in Idx : uindex[u][i] = s => uinfo[s].uid = u
      BY <1>1 DEF Sound, Slots
    <3>2. CASE uinfo[s].uid \in Users
      <4>1. \A i, k \in Idx :
               uindex[uinfo[s].uid][i] = s /\ uindex[uinfo[s].uid][k] = s
                 => i = k
        BY <1>1, <3>2 DEF Sound, Slots
      <4> QED BY <1>1, <2>2, <3>1, <3>2, <4>1, RemoveOne DEF Slots
    <3>3. CASE uinfo[s].uid \notin Users
      <4>1. uindex' = uindex
        BY <2>2, <3>3 DEF remove_uindex
      <4> QED BY <3>1, <3>3, <4>1
    <3> QED BY <3>2, <3>3
  <2>4. Sound(uindex', uinfo)
    BY <1>1, <2>3, ThinnedSound
  <2>5. \A u \in Users, i \in Idx : uindex'[u][i] \in 0 .. MAXACTIVE
    <3>1. 0 \in 0 .. MAXACTIVE
      BY ConstantsAssumption
    <3>2. \A u \in Users, i \in Idx : uindex[u][i] \in 0 .. MAXACTIVE
      BY DEF TypeOK, TableOK
    <3> QED BY <2>3, <3>1, <3>2
  <2>6. \A u \in Users, i \in Idx : uindex'[u][i] # 0 =>
           uinfo'[uindex'[u][i]] = uinfo[uindex'[u][i]]
    BY <2>2, <2>3, <2>5 DEF Slots
  <2>7. Sound(uindex', uinfo')
    BY <2>4, <2>6 DEF Sound
  <2> QED BY <1>2, <2>7
<1>5. CASE QuietStep
  <2>1. Sound(uindex', uinfo)
    BY <1>1, <1>5, ThinnedSound DEF QuietStep, Thinned
  <2>2. \A u \in Users, i \in Idx : uindex'[u][i] # 0 => uindex'[u][i] \in Slots
    BY <1>5 DEF QuietStep, Thinned, TypeOK, TableOK, Slots
  <2>3. Sound(uindex', uinfo')
    BY <1>5, <2>1, <2>2 DEF Sound, QuietStep, SameSessions
  <2> QED BY <1>2, <2>3
<1> QED BY <1>3, <1>4, <1>5

\* An entry of uindex always names an active slot of its user, and each slot
\* at most once, although count_uindex clears entries without the lock: what
\* it may clear too much is lost, never somebody else's.
THEOREM UIndexCorrect == Spec => []UIndexSound
<1> DEFINE IInv == TypeInv /\ FreeList /\ UIndexSound
<1>1. Init => IInv
  <2>1. Init => UIndexSound
    BY DEF Init, UIndexSound
  <2> QED BY <2>1, InitTyped, InitFree
<1>2. IInv /\ [Next]_vars => IInv'
  BY NextTyped, TableStep, PopKeeps, PushKeeps, QuietKeeps, SoundKept
  DEF TypeInv
<1>3. IInv => UIndexSound
  OBVIOUS
<1> QED BY <1>1, <1>2, <1>3, PTL DEF Spec
=============================================================================
