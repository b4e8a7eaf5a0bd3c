----------------------------- MODULE UserTable -----------------------------
(***************************************************************************)
(* The user table: the file .PASSWDS, mapped by every process (passwdptr), *)
(* the hash of userids over it in shared memory (struct UCACHEHASH), and   *)
(* the operations of libythtbbs/user.c and libythtbbs/bbsinfo.c on them.   *)
(*                                                                         *)
(* insertuserec and deluserec hold flock(.PASSWDS.lock) and are two or     *)
(* three steps each, because every other operation works without a lock:   *)
(* lookups walk a chain one node at a time while nodes are moved from one  *)
(* chain to another, and kickoutuserec and updateuserec write a copy of a  *)
(* record that was taken earlier.  What keeps the late writes off a slot   *)
(* that has got a new owner is time: deluserec waits 23 hours after        *)
(* kickoutuserec.  Time is a class per record (kickout: 0 "no", 1 "less    *)
(* than 23 hours ago", 2 "more") and Day makes it pass.                    *)
(*                                                                         *)
(* head[0] is the chain of the empty slots, head[h] for h > 0 the chain of *)
(* the userids that hash to h.  empties is the field next[0] of the code.  *)
(* Of a record the model keeps the userid, kickout, and reg, the number of *)
(* the registration that made it: it stands for the fields set once and    *)
(* for all when a user registers (firstlogin, salt, ...).                  *)
(***************************************************************************)
EXTENDS Integers, FiniteSets

CONSTANTS
  MAXUSERS,         \* number of slots
  UCACHE_HASHSIZE,  \* number of chains
  Names,            \* userids
  Sysop,            \* "SYSOP", which nobody may kick out
  NoName,           \* the userid of an empty record
  Hash,             \* ucache_hash, of Names
  Procs,            \* processes that use the table
  MaxRegs           \* bound: registrations in a behaviour

Slots == 1 .. MAXUSERS

ASSUME ConstantsAssumption ==
  /\ MAXUSERS \in Nat \ {0}
  /\ UCACHE_HASHSIZE \in Nat \ {0}
  /\ Sysop \in Names /\ NoName \notin Names
  /\ Hash \in [Names -> 1 .. UCACHE_HASHSIZE]
  /\ MaxRegs \in Nat

VARIABLES
  rec,         \* passwdptr
  head, next,  \* hash_head, next
  empties,     \* next[0]: the number of empty slots
  lock,        \* the .PASSWDS.lock is held
  act,         \* what each process is doing
  regs         \* registrations made so far

vars == <<rec, head, next, empties, lock, act, regs>>

Zeroed == [id |-> NoName, kickout |-> 0, reg |-> 0]
Idle == [pc |-> "idle", op |-> "get", id |-> NoName, at |-> 0,
         copy |-> Zeroed]

-----------------------------------------------------------------------------
(* The chains *)

Closed(S) == \A t \in S : next[t] # 0 => next[t] \in S
Reach(i) == {s \in Slots : /\ i # 0
                          /\ \A S \in SUBSET Slots :
                                i \in S /\ Closed(S) => s \in S}
Chain(h) == Reach(head[h])

\* Of S, on one chain, a walk along the chain meets i first.
First(S, i) == i \in S /\ S \subseteq Reach(i)

\* The definitions whose name ends in Slip are mistakes on purpose: what the
\* definition after each would be after a slip in the code.  A run must notice
\* them; no other definition uses them.

\* getuser is called, which does not find a user who has been kicked out.
FoundSlip(n) ==
  {i \in Chain(Hash[n]) : rec[i].id = n /\ rec[i].kickout = 0}

\* finduseridhash(n) under the lock, when no chain moves.
Found(n) == {i \in Chain(Hash[n]) : rec[i].id = n}

Unlink(h, i) ==
  IF head[h] = i
  THEN head' = [head EXCEPT ![h] = next[i]] /\ UNCHANGED next
  ELSE /\ next' = [next EXCEPT ![CHOOSE k \in Chain(h) : next[k] = i] = next[i]]
       /\ UNCHANGED head

Push(h, i) ==
  /\ next' = [next EXCEPT ![i] = head[h]]
  /\ head' = [head EXCEPT ![h] = i]

-----------------------------------------------------------------------------
(* insertuserec *)

\* Under the lock: the userid is free, and the first empty slot is taken.
InsTake(p, n) ==
  /\ act[p] = Idle /\ ~lock
  /\ Found(n) = {}
  /\ \E i \in Slots :
       /\ First({k \in Chain(0) : rec[k].id = NoName}, i)
       /\ Unlink(0, i)
       /\ act' = [act EXCEPT ![p] = [Idle EXCEPT !.pc = "insert",
                                                 !.id = n, !.at = i]]
  /\ empties' = empties - 1
  /\ lock' = TRUE
  /\ UNCHANGED <<rec, regs>>

\* The slot is put back and not counted.
InsAbortSlip(p) ==
  /\ act[p].pc = "insert"
  /\ Push(0, act[p].at)
  /\ lock' = FALSE
  /\ act' = [act EXCEPT ![p] = Idle]
  /\ UNCHANGED <<rec, empties, regs>>

\* .PASSWDS cannot be opened: the slot is put back.
InsAbort(p) ==
  /\ act[p].pc = "insert"
  /\ Push(0, act[p].at)
  /\ empties' = empties + 1
  /\ lock' = FALSE
  /\ act' = [act EXCEPT ![p] = Idle]
  /\ UNCHANGED <<rec, regs>>

InsWrite(p) ==
  /\ act[p].pc = "insert" /\ regs < MaxRegs
  /\ rec' = [rec EXCEPT ![act[p].at] = [id |-> act[p].id, kickout |-> 0,
                                        reg |-> regs + 1]]
  /\ regs' = regs + 1
  /\ act' = [act EXCEPT ![p].pc = "link"]
  /\ UNCHANGED <<head, next, empties, lock>>

InsLink(p) ==
  /\ act[p].pc = "link"
  /\ Push(Hash[act[p].id], act[p].at)
  /\ lock' = FALSE
  /\ act' = [act EXCEPT ![p] = Idle]
  /\ UNCHANGED <<rec, empties, regs>>

-----------------------------------------------------------------------------
(* deluserec *)

MayDeleteSlip(i) == rec[i].kickout # 0
MayDelete(i) == rec[i].kickout = 2

\* Under the lock: a userid kicked out 23 hours ago is unlinked.
DelUnlink(p, n) ==
  /\ act[p] = Idle /\ ~lock
  /\ \E i \in Slots :
       /\ First(Found(n), i)
       /\ MayDelete(i)
       /\ Unlink(Hash[n], i)
       /\ act' = [act EXCEPT ![p] = [Idle EXCEPT !.pc = "delete",
                                                 !.id = n, !.at = i]]
  /\ lock' = TRUE
  /\ UNCHANGED <<rec, empties, regs>>

\* The slot is linked to the empty ones.
DelAbortSlip(p) ==
  /\ act[p].pc = "delete"
  /\ Push(0, act[p].at)
  /\ lock' = FALSE
  /\ act' = [act EXCEPT ![p] = Idle]
  /\ UNCHANGED <<rec, empties, regs>>

\* .PASSWDS cannot be opened: the slot is linked again.
DelAbort(p) ==
  /\ act[p].pc = "delete"
  /\ Push(Hash[act[p].id], act[p].at)
  /\ lock' = FALSE
  /\ act' = [act EXCEPT ![p] = Idle]
  /\ UNCHANGED <<rec, empties, regs>>

DelWrite(p) ==
  /\ act[p].pc = "delete"
  /\ rec' = [rec EXCEPT ![act[p].at] = Zeroed]
  /\ act' = [act EXCEPT ![p].pc = "empty"]
  /\ UNCHANGED <<head, next, empties, lock, regs>>

DelLink(p) ==
  /\ act[p].pc = "empty"
  /\ Push(0, act[p].at)
  /\ empties' = empties + 1
  /\ lock' = FALSE
  /\ act' = [act EXCEPT ![p] = Idle]
  /\ UNCHANGED <<rec, regs>>

-----------------------------------------------------------------------------
(* finduseridhash without the lock, for getuser, kickoutuserec (whose        *)
(* callers refuse SYSOP) and updateuserec                                    *)

Walk(p, n, op) ==
  /\ act[p] = Idle
  /\ n = Sysop => op # "kick"
  /\ act' = [act EXCEPT ![p] = [Idle EXCEPT !.pc = "walk", !.op = op,
                                            !.id = n, !.at = head[Hash[n]]]]
  /\ UNCHANGED <<rec, head, next, empties, lock, regs>>

WalkOn(p) ==
  /\ act[p].pc = "walk" /\ act[p].at # 0
  /\ rec[act[p].at].id # act[p].id
  /\ act' = [act EXCEPT ![p].at = next[act[p].at]]
  /\ UNCHANGED <<rec, head, next, empties, lock, regs>>

WalkMiss(p) ==
  /\ act[p].pc = "walk" /\ act[p].at = 0
  /\ act' = [act EXCEPT ![p] = Idle]
  /\ UNCHANGED <<rec, head, next, empties, lock, regs>>

\* A kicked out user is not found by getuser, and not kicked out again.
WalkHit(p) ==
  LET a == act[p]
  IN  /\ a.pc = "walk" /\ a.at # 0
      /\ rec[a.at].id = a.id
      /\ act' = [act EXCEPT ![p] =
           IF a.op = "update" THEN [a EXCEPT !.pc = "check"]
           ELSE IF rec[a.at].kickout # 0 THEN Idle
           ELSE [a EXCEPT !.pc = IF a.op = "kick" THEN "kick" ELSE "hold",
                          !.copy = rec[a.at]]]
      /\ UNCHANGED <<rec, head, next, empties, lock, regs>>

\* kickoutuserec, after it has removed the user's mail and home.
KickWrite(p) ==
  /\ act[p].pc = "kick"
  /\ rec' = [rec EXCEPT ![act[p].at] = [act[p].copy EXCEPT !.kickout = 1]]
  /\ act' = [act EXCEPT ![p] = Idle]
  /\ UNCHANGED <<head, next, empties, lock, regs>>

-----------------------------------------------------------------------------
(* updateuserec, called by a process that holds a copy of the record *)

\* usernum is 0 and the userid is looked up again, or the caller gives it.
Update(p) ==
  /\ act[p].pc = "hold"
  /\ \/ act' = [act EXCEPT ![p].pc = "check"]
     \/ act' = [act EXCEPT ![p].pc = "walk", ![p].op = "update",
                           ![p].at = head[Hash[act[p].id]]]
  /\ UNCHANGED <<rec, head, next, empties, lock, regs>>

\* Nothing had to be changed after all.
Drop(p) ==
  /\ act[p].pc = "hold"
  /\ act' = [act EXCEPT ![p] = Idle]
  /\ UNCHANGED <<rec, head, next, empties, lock, regs>>

UpdCheck(p) ==
  LET a == act[p]
  IN  /\ a.pc = "check"
      /\ act' = [act EXCEPT ![p] =
           IF rec[a.at].id = a.copy.id /\ rec[a.at].kickout = 0
           THEN [a EXCEPT !.pc = "update"] ELSE Idle]
      /\ UNCHANGED <<rec, head, next, empties, lock, regs>>

\* kickout is written with the rest.
UpdWriteSlip(p) ==
  /\ act[p].pc = "update"
  /\ rec' = [rec EXCEPT ![act[p].at] = act[p].copy]
  /\ act' = [act EXCEPT ![p] = Idle]
  /\ UNCHANGED <<head, next, empties, lock, regs>>

\* All of the record but its last field, kickout.
UpdWrite(p) ==
  /\ act[p].pc = "update"
  /\ rec' = [rec EXCEPT ![act[p].at] =
               [act[p].copy EXCEPT !.kickout = rec[act[p].at].kickout]]
  /\ act' = [act EXCEPT ![p] = Idle]
  /\ UNCHANGED <<head, next, empties, lock, regs>>

-----------------------------------------------------------------------------
(* Time, restarts, and what may go wrong *)

Calls == {"walk", "kick", "check", "update", "insert", "link", "delete",
          "empty"}

\* Every kickout becomes older than 23 hours.  A call of user.c does not last
\* that long, but a process may hold a copy of a record for as long.
Day ==
  /\ \A p \in Procs : act[p].pc \notin Calls
  /\ \E i \in Slots : rec[i].kickout = 1
  /\ rec' = [i \in Slots |-> IF rec[i].kickout = 1
                             THEN [rec[i] EXCEPT !.kickout = 2] ELSE rec[i]]
  /\ UNCHANGED <<head, next, empties, lock, act, regs>>

\* The chains load_ucache builds: empty slots in ascending order, the others,
\* which it puts at the head, in descending order.  (In LeastSlip the last
\* empty slot is linked to the one after it.)
Empty(r) == {i \in Slots : r[i].id = NoName}
Hashing(r, h) == {i \in Slots : r[i].id # NoName /\ Hash[r[i].id] = h}
LeastSlip(S) == IF S = {} THEN MAXUSERS + 1
                ELSE CHOOSE i \in S : \A k \in S : i <= k
Least(S) == IF S = {} THEN 0 ELSE CHOOSE i \in S : \A k \in S : i <= k
Greatest(S) == IF S = {} THEN 0 ELSE CHOOSE i \in S : \A k \in S : k <= i

Loaded(r) ==
  [head |-> [h \in 0 .. UCACHE_HASHSIZE |->
               IF h = 0 THEN Least(Empty(r)) ELSE Greatest(Hashing(r, h))],
   next |-> [i \in Slots |->
               IF r[i].id = NoName THEN Least({k \in Empty(r) : k > i})
               ELSE Greatest({k \in Hashing(r, Hash[r[i].id]) : k < i})]]

Unique(r) == \A i, k \in Slots : r[i].id # NoName /\ r[i].id = r[k].id => i = k

\* Every process is stopped, shared memory is lost, and shminit builds it
\* again; it refuses to when it meets a userid twice.
Boot ==
  /\ Unique(rec)
  /\ head' = Loaded(rec).head /\ next' = Loaded(rec).next
  /\ empties' = Cardinality(Empty(rec))
  /\ lock' = FALSE
  /\ act' = [p \in Procs |-> Idle]
  /\ UNCHANGED <<rec, regs>>

\* write() fails in insertuserec ...
InsFail(p) ==
  /\ act[p].pc = "insert"
  /\ lock' = FALSE
  /\ act' = [act EXCEPT ![p] = Idle]
  /\ UNCHANGED <<rec, head, next, empties, regs>>

\* ... and in deluserec, which does not notice.
DelFail(p) ==
  /\ act[p].pc = "delete"
  /\ act' = [act EXCEPT ![p].pc = "empty"]
  /\ UNCHANGED <<rec, head, next, empties, lock, regs>>

\* The process is killed.
Die(p) ==
  /\ act[p] # Idle
  /\ lock' = (lock /\ act[p].pc \notin {"insert", "link", "delete", "empty"})
  /\ act' = [act EXCEPT ![p] = Idle]
  /\ UNCHANGED <<rec, head, next, empties, regs>>

Init ==
  /\ rec = [i \in Slots |-> IF i = 1 THEN [Zeroed EXCEPT !.id = Sysop]
                                     ELSE Zeroed]
  /\ head = Loaded(rec).head /\ next = Loaded(rec).next
  /\ empties = Cardinality(Empty(rec))
  /\ lock = FALSE
  /\ act = [p \in Procs |-> Idle]
  /\ regs = 0

Insert(p) ==
  \/ \E n \in Names : InsTake(p, n)
  \/ InsAbort(p) \/ InsWrite(p) \/ InsLink(p)

Delete(p) ==
  \/ \E n \in Names : DelUnlink(p, n)
  \/ DelAbort(p) \/ DelWrite(p) \/ DelLink(p)

Lookup(p) ==
  \/ \E n \in Names, op \in {"get", "kick"} : Walk(p, n, op)
  \/ WalkOn(p) \/ WalkMiss(p) \/ WalkHit(p) \/ KickWrite(p)

Change(p) == Update(p) \/ Drop(p) \/ UpdCheck(p) \/ UpdWrite(p)

Next ==
  \/ \E p \in Procs : Insert(p) \/ Delete(p) \/ Lookup(p) \/ Change(p)
  \/ Day \/ Boot

Fault == \E p \in Procs : InsFail(p) \/ DelFail(p) \/ Die(p)

Spec == Init /\ [][Next]_vars

\* A process uses the copy of a record it holds within 23 hours.
PromptSpec ==
  Init /\ [][Next /\ (Day => \A p \in Procs : act[p].pc # "hold")]_vars

FaultySpec == Init /\ [][Next \/ Fault]_vars

-----------------------------------------------------------------------------
(* Properties *)

Userec == [id : Names \cup {NoName}, kickout : 0 .. 2, reg : 0 .. MaxRegs]
Action == [pc : Calls \cup {"idle", "hold"}, op : {"get", "kick", "update"},
           id : Names \cup {NoName}, at : 0 .. MAXUSERS, copy : Userec]

\* The type invariant.  empties needs no width: UsersumExact bounds it.
TypeOK ==
  /\ rec \in [Slots -> Userec]
  /\ head \in [0 .. UCACHE_HASHSIZE -> 0 .. MAXUSERS]
  /\ next \in [Slots -> 0 .. MAXUSERS]
  /\ empties \in Int
  /\ lock \in BOOLEAN
  /\ act \in [Procs -> Action]
  /\ regs \in 0 .. MaxRegs

\* Between two locked sections the chains partition the slots: the empty ones
\* are on chain 0, every userid on the chain it hashes to.
ChainsExact ==
  ~lock => /\ Chain(0) = Empty(rec)
           /\ \A h \in 1 .. UCACHE_HASHSIZE : Chain(h) = Hashing(rec, h)

\* bbsinfo.h: next[0] is the number of empty slots, and usersum, which
\* subtracts it from MAXUSERS, the number of registered users.
UsersumExact == ~lock => empties = Cardinality(Empty(rec))

\* load_ucache can build the hash again: no userid is in .PASSWDS twice, or
\* the BBS does not start.
CanBoot == Unique(rec)

\* Whatever fails, a lookup under the lock finds at most one slot: insertuserec
\* and deluserec never work on another slot than the one users are found in.
ListedOnce ==
  \A n \in Names : \A i, k \in Chain(Hash[n]) :
     rec[i].id = n /\ rec[k].id = n => i = k

\* Whatever fails, a user who has been kicked out stays kicked out until the
\* record is emptied: no copy written late brings the user back.
StaysKickedOut ==
  [][\A i \in Slots : rec[i].kickout # 0 =>
        rec'[i] = Zeroed \/ (rec'[i].id = rec[i].id /\ rec'[i].kickout # 0)]_vars

\* What the rest of the system relies on.
SlotOf(n) == IF \E i \in Slots : rec[i].id = n
             THEN CHOOSE i \in Slots : rec[i].id = n ELSE 0
Dir == INSTANCE UserDir WITH
  SysopSlot <- 1,
  dir <- [n \in Names |->
            LET i == SlotOf(n)
            IN  IF i = 0 THEN [slot |-> 0, reg |-> 0, dead |-> FALSE]
                ELSE [slot |-> i, reg |-> rec[i].reg,
                      dead |-> rec[i].kickout # 0]]
ImplementsDir == Dir!Spec
=============================================================================
