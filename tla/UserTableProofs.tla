-------------------------- MODULE UserTableProofs --------------------------
(***************************************************************************)
(* Proofs about UserTable for every number of slots, every set of userids  *)
(* and processes, every interleaving, and failed writes and deaths.        *)
(***************************************************************************)
EXTENDS UserTable, FiniteSetTheorems, WellFoundedInduction, TLAPS

(***************************************************************************)
(* The chains load_ucache builds consist of slots.                         *)
(***************************************************************************)
LEMMA NatMin ==
  ASSUME NEW S \in SUBSET Nat, S # {}
  PROVE  \E i \in S : \A k \in S : i <= k
<1> DEFINE R == {ss \in Nat \X Nat : ss[1] < ss[2]}
<1>1. IsWellFoundedOn(R, Nat)
  BY NatLessThanWellFounded DEF OpToRel
<1>2. PICK i \in S : \A k \in S : ~ (<<k, i>> \in R)
  <2> HIDE DEF R
  <2> QED BY <1>1, WFMin
<1>3. ASSUME NEW k \in S PROVE i <= k
  <2>1. k \in Nat /\ i \in Nat
    OBVIOUS
  <2>2. k < i => <<k, i>> \in R
    BY <2>1
  <2> QED BY <1>2, <2>1, <2>2
<1> QED BY <1>3

LEMMA LeastTyped ==
  ASSUME NEW S \in SUBSET Slots
  PROVE  Least(S) \in 0 .. MAXUSERS
<1>1. CASE S = {}
  BY <1>1, ConstantsAssumption DEF Least
<1>2. CASE S # {}
  <2>1. S \in SUBSET Nat
    BY ConstantsAssumption DEF Slots
  <2>2. Least(S) \in S
    BY <1>2, <2>1, NatMin DEF Least
  <2>3. Least(S) \in Slots
    BY <2>2
  <2> QED BY <2>3, ConstantsAssumption DEF Slots
<1> QED BY <1>1, <1>2

LEMMA GreatestTyped ==
  ASSUME NEW S \in SUBSET Slots
  PROVE  Greatest(S) \in 0 .. MAXUSERS
<1>1. CASE S = {}
  BY <1>1, ConstantsAssumption DEF Greatest
<1>2. CASE S # {}
  <2> DEFINE T == {MAXUSERS - i : i \in S}
  <2>1. T \in SUBSET Nat /\ T # {}
    <3>1. ASSUME NEW i \in S PROVE MAXUSERS - i \in Nat
      <4>1. i \in Slots
        OBVIOUS
      <4> QED BY <4>1, ConstantsAssumption DEF Slots
    <3>2. PICK i \in S : TRUE
      BY <1>2
    <3>3. MAXUSERS - i \in T
      BY <3>2
    <3> QED BY <3>1, <3>3
  <2>2. PICK t \in T : \A k \in T : t <= k
    <3> HIDE DEF T
    <3> QED BY <2>1, NatMin
  <2>3. PICK i \in S : t = MAXUSERS - i
    OBVIOUS
  <2>4. \A k \in S : k <= i
    <3>1. SUFFICES ASSUME NEW k \in S PROVE k <= i
      OBVIOUS
    <3>2. MAXUSERS - k \in T
      OBVIOUS
    <3>3. MAXUSERS - i <= MAXUSERS - k
      BY <2>2, <2>3, <3>2
    <3>4. k \in Slots /\ i \in Slots
      OBVIOUS
    <3> QED BY <3>3, <3>4, ConstantsAssumption DEF Slots
  <2>5. Greatest(S) \in S
    BY <1>2, <2>4 DEF Greatest
  <2>6. Greatest(S) \in Slots
    BY <2>5
  <2> QED BY <2>6, ConstantsAssumption DEF Slots
<1> QED BY <1>1, <1>2

LEMMA LoadedTyped ==
  ASSUME NEW r \in [Slots -> Userec]
  PROVE  /\ Loaded(r).head \in [0 .. UCACHE_HASHSIZE -> 0 .. MAXUSERS]
         /\ Loaded(r).next \in [Slots -> 0 .. MAXUSERS]
<1>1. \A h : Hashing(r, h) \in SUBSET Slots
  BY DEF Hashing
<1>2. Empty(r) \in SUBSET Slots
  BY DEF Empty
<1>3. \A h : Greatest(Hashing(r, h)) \in 0 .. MAXUSERS
  BY <1>1, GreatestTyped
<1>4. Least(Empty(r)) \in 0 .. MAXUSERS
  BY <1>2, LeastTyped
<1>5. \A i \in Slots : Least({k \in Empty(r) : k > i}) \in 0 .. MAXUSERS
  BY <1>2, LeastTyped
<1>6. \A h : \A i \in Slots :
        Greatest({k \in Hashing(r, h) : k < i}) \in 0 .. MAXUSERS
  BY <1>1, GreatestTyped
<1>7. Loaded(r).head \in [0 .. UCACHE_HASHSIZE -> 0 .. MAXUSERS]
  BY <1>3, <1>4 DEF Loaded
<1>8. Loaded(r).next \in [Slots -> 0 .. MAXUSERS]
  BY <1>5, <1>6 DEF Loaded
<1> QED BY <1>7, <1>8

(***************************************************************************)
(* The invariant: what a process in the middle of a call knows about the   *)
(* slot it works on.  A slot that is being emptied was kicked out more     *)
(* than 23 hours ago, one that is about to be written to was not: the two  *)
(* are never the same.                                                     *)
(***************************************************************************)
Locked == {"insert", "link", "delete", "empty"}

Mutex ==
  /\ \A p \in Procs : act[p].pc \in Locked => lock
  /\ \A p, q \in Procs : act[p].pc \in Locked /\ act[q].pc \in Locked => p = q

\* a is what a process is doing while the records are r.
Knows(a, r) ==
  /\ a.pc # "idle" => a.id \in Names
  /\ a.pc \notin {"idle", "walk"} => a.at \in Slots
  /\ a.pc \in {"hold", "check", "update", "kick"} \/ a.op = "update"
       => a.copy.id \in Names
  /\ a.pc = "insert" => r[a.at].id = NoName
  /\ a.pc = "delete" => r[a.at].kickout = 2
  /\ a.pc \in {"kick", "update"} => /\ r[a.at].id = a.copy.id
                                    /\ r[a.at].kickout # 2

EmptyNotKicked == \A i \in Slots : rec[i].id = NoName => rec[i].kickout = 0

IInv == /\ TypeOK
        /\ Mutex
        /\ \A p \in Procs : Knows(act[p], rec)
        /\ EmptyNotKicked

\* Every step: one process goes from act[p] to a, and the records change in
\* one slot at most.
LEMMA OneProc ==
  ASSUME IInv, NEW p \in Procs, NEW a \in Action, NEW r \in [Slots -> Userec],
         Knows(a, r),
         \A q \in Procs \ {p} : Knows(act[q], rec) => Knows(act[q], r),
         act' = [act EXCEPT ![p] = a], rec' = r
  PROVE  /\ act' \in [Procs -> Action]
         /\ rec' \in [Slots -> Userec]
         /\ \A q \in Procs : Knows(act'[q], rec')
BY DEF IInv, TypeOK

LEMMA KeepMutex ==
  ASSUME IInv, NEW p \in Procs, NEW a \in Action,
         act' = [act EXCEPT ![p] = a],
         \/ a.pc \in Locked /\ act[p].pc \in Locked /\ lock' = lock
         \/ a.pc \in Locked /\ ~lock /\ lock' = TRUE
         \/ a.pc \notin Locked /\ act[p].pc \in Locked
         \/ a.pc \notin Locked /\ act[p].pc \notin Locked /\ lock' = lock
  PROVE  Mutex'
BY DEF IInv, TypeOK, Mutex

LEMMA PushTyped ==
  ASSUME TypeOK, NEW h \in 0 .. UCACHE_HASHSIZE, NEW i \in Slots, Push(h, i)
  PROVE  /\ head' \in [0 .. UCACHE_HASHSIZE -> 0 .. MAXUSERS]
         /\ next' \in [Slots -> 0 .. MAXUSERS]
<1>1. i \in 0 .. MAXUSERS
  BY ConstantsAssumption DEF Slots
<1> QED BY <1>1 DEF TypeOK, Push

LEMMA UnlinkTyped ==
  ASSUME TypeOK, NEW h \in 0 .. UCACHE_HASHSIZE, NEW i \in Slots, Unlink(h, i)
  PROVE  /\ head' \in [0 .. UCACHE_HASHSIZE -> 0 .. MAXUSERS]
         /\ next' \in [Slots -> 0 .. MAXUSERS]
<1> DEFINE k == CHOOSE k \in Chain(h) : next[k] = i
<1>1. next[i] \in 0 .. MAXUSERS
  BY DEF TypeOK
<1>2. CASE head[h] = i
  BY <1>1, <1>2 DEF TypeOK, Unlink
<1>3. CASE head[h] # i
  <2>1. next' = [next EXCEPT ![k] = next[i]] /\ head' = head
    BY <1>3 DEF Unlink
  <2> HIDE DEF k
  <2> QED BY <1>1, <2>1 DEF TypeOK
<1> QED BY <1>2, <1>3

LEMMA IdleTyped == Idle \in Action /\ Zeroed \in Userec
BY ConstantsAssumption DEF Idle, Zeroed, Action, Userec, Calls
(***************************************************************************)
(* Steps that leave the records alone.                                     *)
(***************************************************************************)
LEMMA QuietStep ==
  ASSUME IInv, NEW p \in Procs, NEW a \in Action, Knows(a, rec),
         act' = [act EXCEPT ![p] = a], rec' = rec,
         \/ a.pc \in Locked /\ act[p].pc \in Locked /\ lock' = lock
         \/ a.pc \in Locked /\ ~lock /\ lock' = TRUE
         \/ a.pc \notin Locked /\ act[p].pc \in Locked /\ lock' = FALSE
         \/ a.pc \notin Locked /\ act[p].pc \notin Locked /\ lock' = lock,
         head' \in [0 .. UCACHE_HASHSIZE -> 0 .. MAXUSERS],
         next' \in [Slots -> 0 .. MAXUSERS],
         empties' \in Int, regs' = regs
  PROVE  IInv'
<1>1. /\ act' \in [Procs -> Action]
      /\ rec' \in [Slots -> Userec]
      /\ \A q \in Procs : Knows(act'[q], rec')
  <2>1. rec \in [Slots -> Userec]
    BY DEF IInv, TypeOK
  <2> QED BY <2>1, OneProc
<1>2. Mutex'
  BY KeepMutex
<1>3. TypeOK'
  BY <1>1 DEF IInv, TypeOK
<1>4. EmptyNotKicked'
  BY DEF IInv, EmptyNotKicked
<1> QED BY <1>1, <1>2, <1>3, <1>4 DEF IInv

LEMMA IdleKnows == \A r : Knows(Idle, r)
BY DEF Knows, Idle

LEMMA Return ==
  ASSUME IInv, NEW p \in Procs, act' = [act EXCEPT ![p] = Idle], rec' = rec,
         lock' = (lock /\ act[p].pc \notin Locked),
         head' \in [0 .. UCACHE_HASHSIZE -> 0 .. MAXUSERS],
         next' \in [Slots -> 0 .. MAXUSERS],
         empties' \in Int, regs' = regs
  PROVE  IInv'
<1>1. Idle.pc \notin Locked
  BY DEF Idle, Locked
<1>2. lock \in BOOLEAN
  BY DEF IInv, TypeOK
<1> QED BY <1>1, <1>2, IdleTyped, IdleKnows, QuietStep

\* What the invariant says of one process.
LEMMA Own ==
  ASSUME IInv, NEW p \in Procs
  PROVE  /\ act[p] \in Action
         /\ Knows(act[p], rec)
         /\ act[p].pc \in Locked => lock
         /\ rec \in [Slots -> Userec]
         /\ head \in [0 .. UCACHE_HASHSIZE -> 0 .. MAXUSERS]
         /\ next \in [Slots -> 0 .. MAXUSERS]
         /\ empties \in Int /\ lock \in BOOLEAN /\ regs \in 0 .. MaxRegs
BY DEF IInv, TypeOK, Mutex

LEMMA HashTyped ==
  ASSUME NEW n \in Names
  PROVE  Hash[n] \in 0 .. UCACHE_HASHSIZE /\ 0 \in 0 .. UCACHE_HASHSIZE
BY ConstantsAssumption

LEMMA InsTakeInv ==
  ASSUME IInv, NEW p \in Procs, NEW n \in Names, InsTake(p, n)
  PROVE  IInv'
<1>1. PICK i \in Slots :
        /\ First({k \in Chain(0) : rec[k].id = NoName}, i)
        /\ Unlink(0, i)
        /\ act' = [act EXCEPT ![p] = [Idle EXCEPT !.pc = "insert",
                                                  !.id = n, !.at = i]]
  BY DEF InsTake
<1> DEFINE a == [Idle EXCEPT !.pc = "insert", !.id = n, !.at = i]
<1>2. i \in 0 .. MAXUSERS
  BY ConstantsAssumption DEF Slots
<1>3. a \in Action
  BY <1>2, IdleTyped DEF Action, Calls, Idle
<1>4. a.pc = "insert" /\ a.id = n /\ a.at = i /\ a.op = "get"
  BY DEF Idle
<1>5. Knows(a, rec)
  <2> HIDE DEF a
  <2>1. rec[i].id = NoName
    BY <1>1 DEF First
  <2> QED BY <1>4, <2>1 DEF Knows
<1>6. /\ head' \in [0 .. UCACHE_HASHSIZE -> 0 .. MAXUSERS]
      /\ next' \in [Slots -> 0 .. MAXUSERS]
  BY <1>1, HashTyped, UnlinkTyped DEF IInv
<1>7. ~lock /\ lock' = TRUE /\ rec' = rec /\ regs' = regs /\ empties' \in Int
  BY Own DEF InsTake
<1>8. a.pc \in Locked
  BY <1>4 DEF Locked
<1> HIDE DEF a
<1> QED BY <1>1, <1>3, <1>5, <1>6, <1>7, <1>8, QuietStep DEF a

LEMMA DelUnlinkInv ==
  ASSUME IInv, NEW p \in Procs, NEW n \in Names, DelUnlink(p, n)
  PROVE  IInv'
<1>1. PICK i \in Slots :
        /\ MayDelete(i)
        /\ Unlink(Hash[n], i)
        /\ act' = [act EXCEPT ![p] = [Idle EXCEPT !.pc = "delete",
                                                  !.id = n, !.at = i]]
  BY DEF DelUnlink
<1> DEFINE a == [Idle EXCEPT !.pc = "delete", !.id = n, !.at = i]
<1>2. i \in 0 .. MAXUSERS
  BY ConstantsAssumption DEF Slots
<1>3. a \in Action
  BY <1>2, IdleTyped DEF Action, Calls, Idle
<1>4. a.pc = "delete" /\ a.id = n /\ a.at = i /\ a.op = "get"
  BY DEF Idle
<1>5. Knows(a, rec)
  <2> HIDE DEF a
  <2> QED BY <1>1, <1>4 DEF Knows, MayDelete
<1>6. /\ head' \in [0 .. UCACHE_HASHSIZE -> 0 .. MAXUSERS]
      /\ next' \in [Slots -> 0 .. MAXUSERS]
  BY <1>1, HashTyped, UnlinkTyped DEF IInv
<1>7. ~lock /\ lock' = TRUE /\ rec' = rec /\ regs' = regs /\ empties' \in Int
  BY Own DEF DelUnlink
<1>8. a.pc \in Locked
  BY <1>4 DEF Locked
<1> HIDE DEF a
<1> QED BY <1>1, <1>3, <1>5, <1>6, <1>7, <1>8, QuietStep DEF a

LEMMA LinkInv ==
  ASSUME IInv, NEW p \in Procs,
         InsAbort(p) \/ InsLink(p) \/ DelAbort(p) \/ DelLink(p)
  PROVE  IInv'
<1>1. act[p].pc \in Locked /\ act[p].at \in Slots /\ act[p].id \in Names
  BY Own DEF Knows, Locked, InsAbort, InsLink, DelAbort, DelLink
<1>2. PICK h \in 0 .. UCACHE_HASHSIZE : Push(h, act[p].at)
  BY <1>1, HashTyped DEF InsAbort, InsLink, DelAbort, DelLink
<1>3. /\ head' \in [0 .. UCACHE_HASHSIZE -> 0 .. MAXUSERS]
      /\ next' \in [Slots -> 0 .. MAXUSERS]
  BY <1>1, <1>2, PushTyped DEF IInv
<1>4. /\ act' = [act EXCEPT ![p] = Idle] /\ rec' = rec /\ lock' = FALSE
      /\ regs' = regs /\ empties' \in Int
  BY Own DEF InsAbort, InsLink, DelAbort, DelLink
<1> QED BY <1>1, <1>3, <1>4, Return

\* Lookups and updateuserec up to its write: neither the lock nor the table
\* is touched.
Quiet == UNCHANGED <<rec, head, next, empties, lock, regs>>

LEMMA UnlockedStep ==
  ASSUME IInv, NEW p \in Procs, NEW a \in Action, Knows(a, rec),
         act' = [act EXCEPT ![p] = a], Quiet,
         act[p].pc \notin Locked, a.pc \notin Locked
  PROVE  IInv'
BY Own, QuietStep DEF Quiet

LEMMA WalkInv ==
  ASSUME IInv, NEW p \in Procs, NEW n \in Names, NEW op \in {"get", "kick"},
         Walk(p, n, op)
  PROVE  IInv'
<1> DEFINE a == [Idle EXCEPT !.pc = "walk", !.op = op, !.id = n,
                             !.at = head[Hash[n]]]
<1>1. head[Hash[n]] \in 0 .. MAXUSERS
  BY HashTyped DEF IInv, TypeOK
<1>2. a \in Action
  BY <1>1, IdleTyped DEF Action, Calls, Idle
<1>3. a.pc = "walk" /\ a.id = n /\ a.op = op /\ act[p].pc = "idle"
  BY DEF Idle, Walk
<1>4. act' = [act EXCEPT ![p] = a] /\ Quiet
  BY DEF Walk, Quiet
<1> HIDE DEF a
<1>5. Knows(a, rec)
  BY <1>3 DEF Knows
<1> QED BY <1>2, <1>3, <1>4, <1>5, UnlockedStep DEF Locked

LEMMA WalkOnInv ==
  ASSUME IInv, NEW p \in Procs, WalkOn(p)
  PROVE  IInv'
<1> DEFINE a == [act[p] EXCEPT !.at = next[act[p].at]]
<1>1. act[p] \in Action /\ Knows(act[p], rec) /\ act[p].pc = "walk"
      /\ act[p].at # 0
  BY Own DEF WalkOn
<1>2. next[act[p].at] \in 0 .. MAXUSERS
  <2>1. act[p].at \in Slots
    BY <1>1, ConstantsAssumption DEF Action, Slots
  <2> QED BY <2>1, Own
<1>3. a \in Action
  BY <1>1, <1>2 DEF Action
<1>4. a.pc = "walk" /\ a.id = act[p].id /\ a.op = act[p].op
      /\ a.copy = act[p].copy
  BY <1>1 DEF Action
<1>5. act' = [act EXCEPT ![p] = a] /\ Quiet
  BY <1>1 DEF WalkOn, Quiet, IInv, TypeOK
<1> HIDE DEF a
<1>6. Knows(a, rec)
  BY <1>1, <1>4 DEF Knows
<1> QED BY <1>1, <1>3, <1>4, <1>5, <1>6, UnlockedStep DEF Locked

LEMMA WalkHitInv ==
  ASSUME IInv, NEW p \in Procs, WalkHit(p)
  PROVE  IInv'
<1> DEFINE o == act[p]
           r == rec[o.at]
<1>1. o \in Action /\ Knows(o, rec) /\ o.pc = "walk" /\ o.at # 0
      /\ r.id = o.id /\ Quiet
  BY Own DEF WalkHit, Quiet
<1>2. o.at \in Slots
  BY <1>1, ConstantsAssumption DEF Action, Slots
<1>3. r \in Userec
  BY <1>2, Own
<1>4. o.id \in Names
  BY <1>1 DEF Knows
<1>5. CASE o.op = "update"
  <2> DEFINE a == [o EXCEPT !.pc = "check"]
  <2>1. a \in Action
    BY <1>1 DEF Action, Calls
  <2>2. a.pc = "check" /\ a.id = o.id /\ a.at = o.at /\ a.copy = o.copy
        /\ a.op = o.op
    BY <1>1 DEF Action
  <2>3. act' = [act EXCEPT ![p] = a]
    BY <1>5 DEF WalkHit
  <2> HIDE DEF a
  <2>4. Knows(a, rec)
    BY <1>1, <1>2, <1>5, <2>2 DEF Knows
  <2> HIDE DEF o
  <2> QED BY <1>1, <2>1, <2>2, <2>3, <2>4, UnlockedStep DEF Locked, o
<1>6. CASE o.op # "update" /\ r.kickout # 0
  <2>1. act' = [act EXCEPT ![p] = Idle]
    BY <1>6 DEF WalkHit
  <2>2. Idle.pc \notin Locked /\ act[p].pc \notin Locked
    BY <1>1 DEF Locked, Idle
  <2> QED BY <1>1, <2>1, <2>2, IdleTyped, IdleKnows, UnlockedStep
<1>7. CASE o.op # "update" /\ r.kickout = 0
  <2>1. PICK x \in {"kick", "hold"} :
          /\ act' = [act EXCEPT ![p] = [o EXCEPT !.pc = x, !.copy = r]]
    BY <1>7 DEF WalkHit
  <2> DEFINE a == [o EXCEPT !.pc = x, !.copy = r]
  <2>2. a \in Action
    BY <1>1, <1>3 DEF Action, Calls
  <2>3. a.pc = x /\ a.id = o.id /\ a.at = o.at /\ a.copy = r /\ a.op = o.op
    BY <1>1 DEF Action
  <2>4. act' = [act EXCEPT ![p] = a]
    BY <2>1
  <2> HIDE DEF a
  <2>5. Knows(a, rec)
    BY <1>1, <1>2, <1>4, <1>7, <2>3 DEF Knows
  <2> HIDE DEF o, r
  <2> QED BY <1>1, <2>2, <2>3, <2>4, <2>5, UnlockedStep DEF Locked, o
<1> QED BY <1>5, <1>6, <1>7

LEMMA UpdateInv ==
  ASSUME IInv, NEW p \in Procs, Update(p)
  PROVE  IInv'
<1> DEFINE o == act[p]
           h == head[Hash[o.id]]
<1>1. o \in Action /\ Knows(o, rec) /\ o.pc = "hold" /\ Quiet
  BY Own DEF Update, Quiet
<1>2. o.id \in Names /\ o.at \in Slots /\ o.copy.id \in Names
  BY <1>1 DEF Knows
<1>3. h \in 0 .. MAXUSERS
  BY <1>2, HashTyped, Own
<1>4. CASE act' = [act EXCEPT ![p].pc = "check"]
  <2> DEFINE a == [o EXCEPT !.pc = "check"]
  <2>1. a \in Action
    BY <1>1 DEF Action, Calls
  <2>2. a.pc = "check" /\ a.id = o.id /\ a.at = o.at /\ a.copy = o.copy
    BY <1>1 DEF Action
  <2>3. act' = [act EXCEPT ![p] = a]
    BY <1>4 DEF IInv, TypeOK
  <2> HIDE DEF a
  <2>4. Knows(a, rec)
    BY <1>2, <2>2 DEF Knows
  <2> HIDE DEF o
  <2> QED BY <1>1, <2>1, <2>2, <2>3, <2>4, UnlockedStep DEF Locked, o
<1>5. CASE act' = [act EXCEPT ![p].pc = "walk", ![p].op = "update",
                              ![p].at = h]
  <2> DEFINE a == [o EXCEPT !.pc = "walk", !.op = "update", !.at = h]
  <2>1. a \in Action
    BY <1>1, <1>3 DEF Action, Calls
  <2>2. a.pc = "walk" /\ a.id = o.id /\ a.copy = o.copy
    BY <1>1 DEF Action
  <2>3. act' = [act EXCEPT ![p] = a]
    BY <1>5 DEF IInv, TypeOK
  <2> HIDE DEF a
  <2>4. Knows(a, rec)
    BY <1>2, <2>2 DEF Knows
  <2> HIDE DEF o
  <2> QED BY <1>1, <2>1, <2>2, <2>3, <2>4, UnlockedStep DEF Locked, o
<1> QED BY <1>4, <1>5 DEF Update

LEMMA UpdCheckInv ==
  ASSUME IInv, NEW p \in Procs, UpdCheck(p)
  PROVE  IInv'
<1> DEFINE o == act[p]
<1>1. o \in Action /\ Knows(o, rec) /\ o.pc = "check" /\ Quiet
  BY Own DEF UpdCheck, Quiet
<1>2. o.id \in Names /\ o.at \in Slots /\ o.copy.id \in Names
  BY <1>1 DEF Knows
<1>3. CASE rec[o.at].id = o.copy.id /\ rec[o.at].kickout = 0
  <2> DEFINE a == [o EXCEPT !.pc = "update"]
  <2>1. a \in Action
    BY <1>1 DEF Action, Calls
  <2>2. a.pc = "update" /\ a.id = o.id /\ a.at = o.at /\ a.copy = o.copy
    BY <1>1 DEF Action
  <2>3. act' = [act EXCEPT ![p] = a]
    BY <1>3 DEF UpdCheck
  <2> HIDE DEF a
  <2>4. Knows(a, rec)
    BY <1>2, <1>3, <2>2 DEF Knows
  <2> HIDE DEF o
  <2> QED BY <1>1, <2>1, <2>2, <2>3, <2>4, UnlockedStep DEF Locked, o
<1>4. CASE ~(rec[o.at].id = o.copy.id /\ rec[o.at].kickout = 0)
  <2>1. act' = [act EXCEPT ![p] = Idle]
    BY <1>4 DEF UpdCheck
  <2>2. Idle.pc \notin Locked /\ act[p].pc \notin Locked
    BY <1>1 DEF Locked, Idle
  <2> QED BY <1>1, <2>1, <2>2, IdleTyped, IdleKnows, UnlockedStep
<1> QED BY <1>3, <1>4

\* Calls that end without having changed anything, and what may go wrong.
LEMMA EndInv ==
  ASSUME IInv, NEW p \in Procs,
         WalkMiss(p) \/ Drop(p) \/ InsFail(p) \/ Die(p)
  PROVE  IInv'
<1>1. /\ act' = [act EXCEPT ![p] = Idle] /\ rec' = rec /\ regs' = regs
      /\ head' = head /\ next' = next /\ empties' = empties
      /\ lock' = (lock /\ act[p].pc \notin Locked)
  BY Own DEF WalkMiss, Drop, InsFail, Die, Locked
<1> QED BY <1>1, Own, Return

LEMMA DelFailInv ==
  ASSUME IInv, NEW p \in Procs, DelFail(p)
  PROVE  IInv'
<1> DEFINE o == act[p]
           a == [o EXCEPT !.pc = "empty"]
<1>1. o \in Action /\ Knows(o, rec) /\ o.pc = "delete"
  BY Own DEF DelFail
<1>2. a \in Action
  BY <1>1 DEF Action, Calls
<1>3. a.pc = "empty" /\ a.id = o.id /\ a.at = o.at /\ a.copy = o.copy
      /\ a.op = o.op
  BY <1>1 DEF Action
<1>4. /\ act' = [act EXCEPT ![p] = a] /\ rec' = rec /\ regs' = regs
      /\ head' = head /\ next' = next /\ empties' = empties /\ lock' = lock
  BY DEF DelFail, IInv, TypeOK
<1> HIDE DEF a
<1>5. Knows(a, rec)
  BY <1>1, <1>3 DEF Knows
<1> HIDE DEF o
<1>6. a.pc \in Locked /\ act[p].pc \in Locked
  BY <1>1, <1>3 DEF Locked, o
<1> QED BY <1>2, <1>4, <1>5, <1>6, Own, QuietStep

(***************************************************************************)
(* Steps that write a record.                                              *)
(***************************************************************************)
\* The record of slot i becomes x: what a process that is doing a and works on
\* slot i must find there.
Suits(a, i, x) ==
  /\ a.pc = "insert" /\ a.at = i => x.id = NoName
  /\ a.pc = "delete" /\ a.at = i => x.kickout = 2
  /\ a.pc \in {"kick", "update"} /\ a.at = i
       => x.id = a.copy.id /\ x.kickout # 2

LEMMA WriteStep ==
  ASSUME IInv, NEW p \in Procs, NEW a \in Action, NEW i \in Slots,
         NEW x \in Userec,
         rec' = [rec EXCEPT ![i] = x], act' = [act EXCEPT ![p] = a],
         Knows(a, rec'), x.id = NoName => x.kickout = 0,
         \A q \in Procs \ {p} : Suits(act[q], i, x),
         a.pc \in Locked <=> act[p].pc \in Locked,
         lock' = lock, head' = head, next' = next, empties' = empties,
         regs' \in 0 .. MaxRegs
  PROVE  IInv'
<1>1. rec \in [Slots -> Userec] /\ rec' \in [Slots -> Userec]
  BY DEF IInv, TypeOK
<1>2. ASSUME NEW q \in Procs \ {p} PROVE Knows(act[q], rec')
  <2>1. Knows(act[q], rec)
    BY DEF IInv
  <2>2. \A j \in Slots : rec'[j] = IF j = i THEN x ELSE rec[j]
    BY <1>1
  <2> QED BY <2>1, <2>2 DEF Knows, Suits
<1>3. /\ act' \in [Procs -> Action]
      /\ \A q \in Procs : Knows(act'[q], rec')
  BY <1>1, <1>2, OneProc
<1>4. Mutex'
  BY KeepMutex
<1>5. TypeOK'
  BY <1>1, <1>3 DEF IInv, TypeOK
<1>6. EmptyNotKicked'
  BY <1>1 DEF IInv, EmptyNotKicked
<1> QED BY <1>3, <1>4, <1>5, <1>6 DEF IInv

LEMMA OthersUnlocked ==
  ASSUME IInv, NEW p \in Procs, act[p].pc \in Locked
  PROVE  \A q \in Procs \ {p} : act[q].pc \notin {"insert", "delete"}
BY DEF IInv, Mutex, Locked

LEMMA InsWriteInv ==
  ASSUME IInv, NEW p \in Procs, InsWrite(p)
  PROVE  IInv'
<1> DEFINE o == act[p]
           x == [id |-> o.id, kickout |-> 0, reg |-> regs + 1]
           a == [o EXCEPT !.pc = "link"]
<1>1. o \in Action /\ Knows(o, rec) /\ o.pc = "insert"
  BY Own DEF InsWrite
<1>2. o.id \in Names /\ o.at \in Slots /\ rec[o.at].id = NoName
  BY <1>1 DEF Knows
<1>3. x \in Userec /\ x.id \in Names /\ x.kickout = 0
  <2>1. regs + 1 \in 0 .. MaxRegs
    BY Own, ConstantsAssumption DEF InsWrite
  <2> QED BY <1>2, <2>1 DEF Userec
<1>4. a \in Action
  BY <1>1 DEF Action, Calls
<1>5. a.pc = "link" /\ a.id = o.id /\ a.at = o.at /\ a.copy = o.copy
      /\ a.op = o.op
  BY <1>1 DEF Action
<1>6. /\ rec' = [rec EXCEPT ![o.at] = x] /\ act' = [act EXCEPT ![p] = a]
      /\ lock' = lock /\ head' = head /\ next' = next /\ empties' = empties
  BY DEF InsWrite, IInv, TypeOK
<1>11. regs' \in 0 .. MaxRegs
  <2>1. regs \in 0 .. MaxRegs /\ regs < MaxRegs /\ regs' = regs + 1
    BY Own DEF InsWrite
  <2> QED BY <2>1, ConstantsAssumption
<1> HIDE DEF a, x
<1>7. Knows(a, rec')
  BY <1>1, <1>5 DEF Knows
<1>8. ASSUME NEW q \in Procs \ {p} PROVE Suits(act[q], o.at, x)
  <2>1. act[q].pc \notin {"insert", "delete"}
    BY <1>1, OthersUnlocked DEF Locked
  <2>2. act[q].pc \in {"kick", "update"} => rec[act[q].at].id \in Names
    BY DEF IInv, Knows
  <2> QED BY <1>2, <2>1, <2>2, ConstantsAssumption DEF Suits
<1>9. a.pc \in Locked <=> act[p].pc \in Locked
  BY <1>1, <1>5 DEF Locked
<1>10. x.id = NoName => x.kickout = 0
  BY <1>3
<1> HIDE DEF o
<1> QED BY <1>2, <1>3, <1>4, <1>6, <1>7, <1>8, <1>9, <1>10, <1>11, WriteStep

LEMMA DelWriteInv ==
  ASSUME IInv, NEW p \in Procs, DelWrite(p)
  PROVE  IInv'
<1> DEFINE o == act[p]
           a == [o EXCEPT !.pc = "empty"]
<1>1. o \in Action /\ Knows(o, rec) /\ o.pc = "delete"
  BY Own DEF DelWrite
<1>2. o.at \in Slots /\ rec[o.at].kickout = 2
  BY <1>1 DEF Knows
<1>3. Zeroed \in Userec /\ Zeroed.kickout = 0
  BY IdleTyped DEF Zeroed
<1>4. a \in Action
  BY <1>1 DEF Action, Calls
<1>5. a.pc = "empty" /\ a.id = o.id /\ a.at = o.at /\ a.copy = o.copy
      /\ a.op = o.op
  BY <1>1 DEF Action
<1>6. /\ rec' = [rec EXCEPT ![o.at] = Zeroed]
      /\ act' = [act EXCEPT ![p] = a]
      /\ lock' = lock /\ head' = head /\ next' = next /\ empties' = empties
      /\ regs' \in 0 .. MaxRegs
  BY Own DEF DelWrite, IInv, TypeOK
<1> HIDE DEF a
<1>7. Knows(a, rec')
  BY <1>1, <1>5 DEF Knows
<1>8. ASSUME NEW q \in Procs \ {p} PROVE Suits(act[q], o.at, Zeroed)
  <2>1. act[q].pc \notin {"insert", "delete"}
    BY <1>1, OthersUnlocked DEF Locked
  <2>2. act[q].pc \in {"kick", "update"} => rec[act[q].at].kickout # 2
    BY DEF IInv, Knows
  <2> QED BY <1>2, <2>1, <2>2 DEF Suits
<1>9. a.pc \in Locked <=> act[p].pc \in Locked
  BY <1>1, <1>5 DEF Locked
<1> HIDE DEF o
<1> QED BY <1>2, <1>3, <1>4, <1>6, <1>7, <1>8, <1>9, WriteStep

\* kickoutuserec and updateuserec: the slot keeps its userid, and is not one
\* that is being filled or emptied.
LEMMA LateWriteInv ==
  ASSUME IInv, NEW p \in Procs, KickWrite(p) \/ UpdWrite(p)
  PROVE  IInv'
<1> DEFINE o == act[p]
<1>1. o \in Action /\ Knows(o, rec) /\ o.pc \in {"kick", "update"}
  BY Own DEF KickWrite, UpdWrite
<1>2. /\ o.at \in Slots /\ o.copy.id \in Names /\ o.copy \in Userec
      /\ rec[o.at].id = o.copy.id /\ rec[o.at].kickout # 2
  BY <1>1 DEF Knows, Action
<1>3. rec[o.at] \in Userec
  BY <1>2, Own
<1>4. PICK k \in {0, 1} : rec' = [rec EXCEPT ![o.at] =
                                    [o.copy EXCEPT !.kickout = k]]
  <2>1. CASE KickWrite(p)
    BY <2>1 DEF KickWrite
  <2>2. CASE UpdWrite(p)
    <3>1. rec[o.at].kickout \in {0, 1}
      BY <1>2, <1>3 DEF Userec
    <3> QED BY <2>2, <3>1 DEF UpdWrite
  <2> QED BY <2>1, <2>2
<1> DEFINE x == [o.copy EXCEPT !.kickout = k]
<1>5. x \in Userec /\ x.id = o.copy.id /\ x.kickout # 2
  BY <1>2 DEF Userec
<1>6. /\ act' = [act EXCEPT ![p] = Idle]
      /\ lock' = lock /\ head' = head /\ next' = next /\ empties' = empties
      /\ regs' \in 0 .. MaxRegs
  BY Own DEF KickWrite, UpdWrite
<1>7. rec' = [rec EXCEPT ![o.at] = x]
  BY <1>4
<1> HIDE DEF x
<1>8. ASSUME NEW q \in Procs \ {p} PROVE Suits(act[q], o.at, x)
  <2>1. Knows(act[q], rec)
    BY DEF IInv
  <2>2. act[q].pc \in {"insert", "delete"} => act[q].at # o.at
    BY <1>2, <2>1, ConstantsAssumption DEF Knows
  <2>3. act[q].pc \in {"kick", "update"} /\ act[q].at = o.at
          => x.id = act[q].copy.id
    BY <1>2, <1>5, <2>1 DEF Knows
  <2> QED BY <1>5, <2>2, <2>3 DEF Suits
<1>9. Idle.pc \in Locked <=> act[p].pc \in Locked
  BY <1>1 DEF Locked, Idle
<1>10. x.id = NoName => x.kickout = 0
  BY <1>2, <1>5, ConstantsAssumption
<1> HIDE DEF o
<1> QED BY <1>2, <1>5, <1>6, <1>7, <1>8, <1>9, <1>10, IdleTyped, IdleKnows,
           WriteStep

LEMMA DayInv ==
  ASSUME IInv, Day
  PROVE  IInv'
<1>1. rec \in [Slots -> Userec]
  BY DEF IInv, TypeOK
<1>2. \A i \in Slots : /\ rec'[i].id = rec[i].id
                       /\ rec'[i].kickout = 0 <=> rec[i].kickout = 0
  BY <1>1 DEF Day, Userec
<1>3. rec' \in [Slots -> Userec]
  <2>1. ASSUME NEW i \in Slots
        PROVE  [rec[i] EXCEPT !.kickout = 2] \in Userec
    BY <1>1 DEF Userec
  <2> QED BY <1>1, <2>1 DEF Day
<1>4. /\ act' = act /\ head' = head /\ next' = next /\ empties' = empties
      /\ lock' = lock /\ regs' = regs
  BY DEF Day
<1>5. TypeOK'
  BY <1>3, <1>4 DEF IInv, TypeOK
<1>6. Mutex'
  BY <1>4 DEF IInv, Mutex
<1>7. ASSUME NEW q \in Procs PROVE Knows(act'[q], rec')
  <2>1. act[q].pc \notin Calls /\ Knows(act[q], rec)
    BY DEF Day, IInv
  <2> QED BY <1>4, <2>1 DEF Knows, Calls
<1>8. EmptyNotKicked'
  BY <1>2 DEF IInv, EmptyNotKicked
<1> QED BY <1>5, <1>6, <1>7, <1>8 DEF IInv

LEMMA BootInv ==
  ASSUME TypeOK, EmptyNotKicked, Cardinality(Empty(rec)) \in Int, Boot
  PROVE  IInv'
<1>1. TypeOK'
  <2>1. rec \in [Slots -> Userec]
    BY DEF TypeOK
  <2> QED BY <2>1, LoadedTyped, IdleTyped DEF TypeOK, Boot
<1>2. \A q \in Procs : act'[q] = Idle
  BY DEF Boot
<1>3. Mutex'
  BY <1>2 DEF Mutex, Locked, Idle
<1>4. \A q \in Procs : Knows(act'[q], rec')
  BY <1>2, IdleKnows
<1>5. EmptyNotKicked'
  BY DEF EmptyNotKicked, Boot
<1> QED BY <1>1, <1>3, <1>4, <1>5 DEF IInv

LEMMA EmptyCount ==
  ASSUME NEW r
  PROVE  Cardinality(Empty(r)) \in Nat
<1>1. IsFiniteSet(Slots)
  BY ConstantsAssumption, FS_Interval DEF Slots
<1>2. Empty(r) \subseteq Slots
  BY DEF Empty
<1> QED BY <1>1, <1>2, FS_Subset, FS_CardinalityType

LEMMA Initial == Init => IInv
<1> SUFFICES ASSUME Init PROVE IInv
  OBVIOUS
<1>1. rec \in [Slots -> Userec]
  <2>1. [Zeroed EXCEPT !.id = Sysop] \in Userec
    BY ConstantsAssumption DEF Zeroed, Userec
  <2> QED BY <2>1, IdleTyped DEF Init
<1>2. TypeOK
  <2>1. /\ head \in [0 .. UCACHE_HASHSIZE -> 0 .. MAXUSERS]
        /\ next \in [Slots -> 0 .. MAXUSERS]
    BY <1>1, LoadedTyped DEF Init
  <2>2. empties \in Int
    BY EmptyCount DEF Init
  <2>3. lock \in BOOLEAN /\ act \in [Procs -> Action]
    BY IdleTyped DEF Init
  <2>4. regs \in 0 .. MaxRegs
    BY ConstantsAssumption DEF Init
  <2> QED BY <1>1, <2>1, <2>2, <2>3, <2>4 DEF TypeOK
<1>3. \A q \in Procs : act[q] = Idle
  BY DEF Init
<1>4. Mutex
  BY <1>3 DEF Mutex, Locked, Idle
<1>5. \A q \in Procs : Knows(act[q], rec)
  BY <1>3, IdleKnows
<1>6. EmptyNotKicked
  BY DEF Init, EmptyNotKicked, Zeroed
<1> QED BY <1>2, <1>4, <1>5, <1>6 DEF IInv

LEMMA Inductive == IInv /\ [Next \/ Fault]_vars => IInv'
<1> SUFFICES ASSUME IInv, [Next \/ Fault]_vars PROVE IInv'
  OBVIOUS
<1>1. ASSUME NEW p \in Procs, Insert(p) PROVE IInv'
  BY <1>1, InsTakeInv, InsWriteInv, LinkInv DEF Insert
<1>2. ASSUME NEW p \in Procs, Delete(p) PROVE IInv'
  BY <1>2, DelUnlinkInv, DelWriteInv, LinkInv DEF Delete
<1>3. ASSUME NEW p \in Procs, Lookup(p) PROVE IInv'
  BY <1>3, WalkInv, WalkOnInv, EndInv, WalkHitInv, LateWriteInv DEF Lookup
<1>4. ASSUME NEW p \in Procs, Change(p) PROVE IInv'
  BY <1>4, UpdateInv, EndInv, UpdCheckInv, LateWriteInv DEF Change
<1>5. CASE Day
  BY <1>5, DayInv
<1>6. CASE Boot
  <2>1. Cardinality(Empty(rec)) \in Int
    BY EmptyCount
  <2> QED BY <1>6, <2>1, BootInv DEF IInv
<1>7. CASE Fault
  BY <1>7, EndInv, DelFailInv DEF Fault
<1>8. CASE UNCHANGED vars
  BY <1>8 DEF vars, IInv, TypeOK, Mutex, EmptyNotKicked
<1> QED BY <1>1, <1>2, <1>3, <1>4, <1>5, <1>6, <1>7, <1>8 DEF Next

LEMMA Invariant == FaultySpec => []IInv
BY Initial, Inductive, PTL DEF FaultySpec

(***************************************************************************)
(* Whatever the interleaving, and whatever fails, every value of every     *)
(* variable keeps its type: no process reads a slot outside the table.     *)
(***************************************************************************)
THEOREM TypeCorrect == FaultySpec => []TypeOK
<1>1. IInv => TypeOK
  BY DEF IInv
<1> QED BY <1>1, Invariant, PTL

(***************************************************************************)
(* A user who has been kicked out stays kicked out until deluserec empties *)
(* the record.  updateuserec checks kickout long before it writes; that    *)
(* its write spares kickout, and that kickoutuserec writes to the slot it  *)
(* has found only while deluserec is not yet allowed to empty it, are what *)
(* the invariant is for.                                                   *)
(***************************************************************************)
StaysOut ==
  \A i \in Slots : rec[i].kickout # 0 =>
     rec'[i] = Zeroed \/ (rec'[i].id = rec[i].id /\ rec'[i].kickout # 0)

LEMMA KickedStep ==
  ASSUME IInv, [Next \/ Fault]_vars
  PROVE  StaysOut
<1> SUFFICES ASSUME NEW i \in Slots, rec[i].kickout # 0
             PROVE  rec'[i] = Zeroed
                    \/ (rec'[i].id = rec[i].id /\ rec'[i].kickout # 0)
  BY DEF StaysOut
<1>1. rec \in [Slots -> Userec]
  BY DEF IInv, TypeOK
<1>2. CASE rec' = rec
  BY <1>2
<1>3. ASSUME NEW p \in Procs, InsWrite(p) PROVE rec'[i] = rec[i]
  <2>1. rec[act[p].at].id = NoName /\ act[p].at \in Slots
    BY <1>3, Own DEF InsWrite, Knows
  <2>2. act[p].at # i
    BY <2>1 DEF IInv, EmptyNotKicked
  <2> QED BY <1>1, <1>3, <2>1, <2>2 DEF InsWrite
<1>4. ASSUME NEW p \in Procs, DelWrite(p)
      PROVE  rec'[i] = Zeroed \/ rec'[i] = rec[i]
  BY <1>1, <1>4 DEF DelWrite
<1>5. ASSUME NEW p \in Procs, KickWrite(p) \/ UpdWrite(p)
      PROVE  rec'[i].id = rec[i].id /\ rec'[i].kickout # 0
  <2>1. /\ act[p].copy \in Userec /\ act[p].at \in Slots
        /\ rec[act[p].at].id = act[p].copy.id
    BY <1>5, Own DEF KickWrite, UpdWrite, Knows, Action
  <2>2. CASE KickWrite(p)
    BY <1>1, <2>1, <2>2 DEF KickWrite, Userec
  <2>3. CASE UpdWrite(p)
    BY <1>1, <2>1, <2>3 DEF UpdWrite, Userec
  <2> QED BY <1>5, <2>2, <2>3
<1>6. CASE Day
  BY <1>1, <1>6 DEF Day, Userec
<1>7. rec' = rec \/ Day
      \/ \E p \in Procs : InsWrite(p) \/ DelWrite(p) \/ KickWrite(p) \/ UpdWrite(p)
  BY DEF Next, Fault, Insert, Delete, Lookup, Change, InsTake, InsAbort,
         InsLink, DelUnlink, DelAbort, DelLink, Walk, WalkOn, WalkMiss,
         WalkHit, Update, Drop, UpdCheck, Boot, InsFail, DelFail, Die, vars
<1> QED BY <1>2, <1>3, <1>4, <1>5, <1>6, <1>7

THEOREM KickedStaysKicked == FaultySpec => StaysKickedOut
<1>1. IInv /\ [Next \/ Fault]_vars => [StaysOut]_vars
  BY KickedStep
<1> QED BY <1>1, Invariant, PTL DEF FaultySpec, StaysKickedOut, StaysOut
=============================================================================
