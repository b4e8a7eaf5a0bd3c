----------------------------- MODULE UtmpSlots ------------------------------
(***************************************************************************)
(* Proofs of what the code relies on but does not enforce: that the slot   *)
(* number a process or a request remembers is still its own, and that the  *)
(* chains of web guests are what they should be.  The first needs that no  *)
(* logout comes after its slot was released, the second also that nobody   *)
(* dies in the middle of utmp_kickidle.  The third result is about the     *)
(* requests utmp_kickidle does not wait for.                               *)
(***************************************************************************)
EXTENDS UtmpProofs

-----------------------------------------------------------------------------
(***************************************************************************)
(* Who holds a slot.  A telnet process and a web request each remember a   *)
(* slot number, and nothing in the code ties it to the record there.  They *)
(* stay together as long as no logout arrives for a session whose slot has *)
(* been released (StaleLogout); deaths of a holder of the lock do no harm. *)
(***************************************************************************)
LiveSpec == Init /\ [][Next /\ ~StaleLogout]_vars

SessionsNamed ==
  \A s \in Slots : uinfo[s].active =>
     /\ uinfo[s].pid # 0
     /\ uinfo[s].pid = WWW => uinfo[s].userid = uinfo[s].uid

ReqHolds(r) ==
  req[r].live => /\ req[r].slot \in Slots
                 /\ uinfo[req[r].slot].active /\ uinfo[req[r].slot].pid = WWW
                 /\ uinfo[req[r].slot].uid = req[r].uid
                 /\ req[r].counted => req[r].uid # Guest
ReqsHold == \A r \in Reqs : ReqHolds(r)

\* What utmp_kickidle is about to free is no live process's.
KickHolds ==
  pc \in {"walk", "release"} => uinfo[kn].pid = WWW \/ ~Alive(uinfo[kn].pid)

ProcHolds(p) ==
  proc[p].st \in HasSlot =>
     /\ proc[p].slot \in Slots
     /\ uinfo[proc[p].slot].active /\ uinfo[proc[p].slot].pid = p
     /\ uinfo[proc[p].slot].uid = proc[p].user
ProcsHold == \A p \in Procs : ProcHolds(p)

SlotsHeld == SessionsNamed /\ ReqsHold /\ KickHolds /\ ProcsHold

\* Steps in which no session starts or ends.
NamesKept ==
  \A s \in Slots : uinfo[s].active /\ uinfo[s].pid = WWW =>
     uinfo'[s].userid = uinfo[s].userid /\ uinfo'[s].from = uinfo[s].from
ProcsKept ==
  \A p \in Procs :
     /\ proc'[p].st \in HasSlot => /\ proc[p].st \in HasSlot
                                   /\ proc'[p].slot = proc[p].slot
                                   /\ proc'[p].user = proc[p].user
     /\ proc[p].st = "dead" => proc'[p].st = "dead"
KickKept ==
  pc' \in {"walk", "release"} =>
     /\ kn' = kn /\ kn \in Slots
     /\ pc \in {"walk", "release"} \/ Expired(kn)
HoldersKept ==
  SameSessions(uinfo, uinfo') /\ NamesKept /\ ProcsKept /\ KickKept

LEMMA AllKept ==
  ASSUME UNCHANGED <<uinfo, proc, pc, kn>>, TypeInv PROVE HoldersKept
BY DEF HoldersKept, SameSessions, NamesKept, ProcsKept, KickKept, TypeInv, Control, KnOK

LEMMA HoldersStay ==
  ASSUME TypeInv, SlotsHeld, HoldersKept, ReqsHold' PROVE SlotsHeld'
<1>1. SessionsNamed'
  BY DEF SlotsHeld, SessionsNamed, HoldersKept, SameSessions, NamesKept
<1>2. KickHolds'
  <2> SUFFICES ASSUME pc' \in {"walk", "release"}
               PROVE  uinfo'[kn'].pid = WWW \/ ~Alive(uinfo[kn].pid)'
    BY DEF KickHolds
  <2>1. kn' = kn /\ kn \in Slots /\ uinfo'[kn].pid = uinfo[kn].pid
    BY DEF HoldersKept, KickKept, SameSessions
  <2>2. uinfo[kn].pid = WWW \/ ~Alive(uinfo[kn].pid)
    <3>1. CASE pc \in {"walk", "release"}
      BY <3>1 DEF SlotsHeld, KickHolds
    <3>2. CASE Expired(kn)
      <4>1. uinfo[kn].pid \in {0, WWW} \cup Procs
        BY <2>1 DEF TypeInv, TypeOK, TableOK, UserInfo
      <4>2. \A p \in Procs : p \in Nat \ {0, 1}
        BY ConstantsAssumption
      <4> QED BY <3>2, <4>1, <4>2 DEF Expired, WWW
    <3> QED BY <3>1, <3>2 DEF HoldersKept, KickKept
  <2> QED BY <2>1, <2>2 DEF Alive, HoldersKept, ProcsKept
<1>3. ProcsHold'
  BY DEF SlotsHeld, ProcsHold, ProcHolds, HoldersKept, SameSessions, ProcsKept
<1> QED BY <1>1, <1>2, <1>3 DEF SlotsHeld

LEMMA ReqsStay ==
  ASSUME ReqsHold, SameSessions(uinfo, uinfo'), UNCHANGED req PROVE ReqsHold'
BY DEF ReqsHold, ReqHolds, SameSessions

\* A login: of a web session, or of the process p.
LEMMA LoginHeld ==
  ASSUME TypeInv, SlotsHeld, SlotForLogin,
         NEW up \in UserInfo, NEW ix, NEW pid, utmp_login(up, ix, pid),
         up.active, up.pid # 0, up.userid = up.uid, UNCHANGED req,
         \/ UNCHANGED proc
         \/ /\ up.pid \in Procs /\ up.uid = proc[up.pid].user
            /\ proc' = [proc EXCEPT ![up.pid].st = "entering", ![up.pid].slot = head[0]]
            /\ proc[up.pid].st = "checked"
  PROVE  SlotsHeld'
<1> DEFINE j == head[0]
<1>1. j \in Slots /\ ~uinfo[j].active
  BY HeadIsSlot DEF SlotForLogin, SlotsHeld, SessionsNamed
<1>2. uinfo' = [uinfo EXCEPT ![j] = up] /\ pc' = "scan"
  BY DEF utmp_login
<1> HIDE DEF j
<1>3. uinfo'[j] = up /\ \A s \in Slots : s # j => uinfo'[s] = uinfo[s]
  BY <1>1, <1>2 DEF TypeInv, TypeOK, TableOK
<1>4. SessionsNamed'
  BY <1>3 DEF SlotsHeld, SessionsNamed
<1>5. ReqsHold'
  BY <1>1, <1>3 DEF SlotsHeld, ReqsHold, ReqHolds
<1>6. KickHolds'
  BY <1>2 DEF KickHolds
<1>7. ProcsHold'
  <2>1. CASE UNCHANGED proc
    BY <1>1, <1>3, <2>1 DEF SlotsHeld, ProcsHold, ProcHolds
  <2>2. CASE /\ up.pid \in Procs /\ up.uid = proc[up.pid].user
             /\ proc' = [proc EXCEPT ![up.pid].st = "entering", ![up.pid].slot = head[0]]
    <3>1. proc'[up.pid].slot = j /\ proc'[up.pid].user = proc[up.pid].user
      BY <2>2 DEF TypeInv, TypeOK, ActorsOK, Process, j
    <3>2. \A p \in Procs \ {up.pid} : proc'[p] = proc[p]
      BY <2>2 DEF TypeInv, TypeOK, ActorsOK
    <3>3. ProcHolds(up.pid)'
      BY <1>1, <1>3, <2>2, <3>1 DEF ProcHolds
    <3>4. \A p \in Procs \ {up.pid} : ProcHolds(p)'
      BY <1>1, <1>3, <3>2 DEF SlotsHeld, ProcsHold, ProcHolds
    <3> QED BY <3>3, <3>4 DEF ProcsHold
  <2> QED BY <2>1, <2>2
<1> QED BY <1>4, <1>5, <1>6, <1>7 DEF SlotsHeld

\* A slot is given back: by a process that is gone then, or for a web session.
LEMMA FreeHeld ==
  ASSUME TypeInv, SlotsHeld, NEW s \in Slots, FreeSlot(s),
         pc' \notin {"walk", "release"},
         \A r \in Reqs : req'[r].live => req'[r] = req[r] /\ req[r].slot # s,
         \A p \in Procs : proc'[p].st \in HasSlot => proc'[p] = proc[p] /\ uinfo[s].pid # p
  PROVE  SlotsHeld'
<1>1. uinfo' = [uinfo EXCEPT ![s] = Empty]
  BY DEF FreeSlot
<1>2. ~uinfo'[s].active /\ \A t \in Slots : t # s => uinfo'[t] = uinfo[t]
  BY <1>1 DEF TypeInv, TypeOK, TableOK, Empty
<1>3. SessionsNamed'
  BY <1>2 DEF SlotsHeld, SessionsNamed
<1>4. ReqsHold'
  BY <1>2 DEF SlotsHeld, ReqsHold, ReqHolds
<1>5. KickHolds'
  BY DEF KickHolds
<1>6. ProcsHold'
  BY <1>2 DEF SlotsHeld, ProcsHold, ProcHolds
<1> QED BY <1>3, <1>4, <1>5, <1>6 DEF SlotsHeld

LEMMA OrphanedLive ==
  ASSUME TypeInv, NEW s
  PROVE  \A r \in Reqs : Orphaned(s)[r].live => Orphaned(s)[r] = req[r] /\ req[r].slot # s
BY DEF Orphaned, TypeInv, TypeOK, ActorsOK, Request

LEMMA KickidleHeld ==
  ASSUME TypeInv, SlotsHeld, Kickidle PROVE SlotsHeld'
<1> USE DEF SlotsHeld
<1>1. CASE KickSkip
  <2>1. UNCHANGED <<uinfo, req, pc>> /\ pc = "scan" /\ proc' = Hangup(kn)
    BY <1>1 DEF KickSkip, shm
  <2>2. SameSessions(uinfo, uinfo') /\ NamesKept /\ KickKept
    BY <2>1 DEF SameSessions, NamesKept, KickKept
  <2>3. ProcsKept
    <3>1. CASE Hangup(kn) = proc
      BY <2>1, <3>1 DEF ProcsKept
    <3>2. CASE /\ Alive(uinfo[kn].pid)
               /\ Hangup(kn) = [proc EXCEPT ![uinfo[kn].pid].st = Signalled(@)]
      <4> DEFINE q == uinfo[kn].pid
      <4>1. q \in Procs /\ proc' = [proc EXCEPT ![q].st = Signalled(@)]
        BY <2>1, <3>2 DEF Alive
      <4> HIDE DEF q
      <4>2. /\ proc'[q] = [proc[q] EXCEPT !.st = Signalled(@)]
            /\ \A p \in Procs \ {q} : proc'[p] = proc[p]
        BY <4>1 DEF TypeInv, TypeOK, ActorsOK
      <4>3. /\ proc'[q].st = Signalled(proc[q].st)
            /\ proc'[q].slot = proc[q].slot /\ proc'[q].user = proc[q].user
        BY <4>1, <4>2 DEF TypeInv, TypeOK, ActorsOK, Process
      <4> QED BY <4>2, <4>3 DEF ProcsKept, Signalled, HasSlot
    <3> QED BY <3>1, <3>2 DEF Hangup
  <2> QED BY <2>1, <2>2, <2>3, ReqsStay, HoldersStay DEF HoldersKept
<1>2. CASE KickDecide
  <2>1. UNCHANGED <<uinfo, req, proc, kn>> /\ kn \in Slots /\ Expired(kn)
    BY <1>2 DEF KickDecide
  <2>2. HoldersKept
    BY <2>1 DEF HoldersKept, SameSessions, NamesKept, ProcsKept, KickKept
  <2>3. ReqsHold'
    BY <2>1, <2>2, ReqsStay DEF HoldersKept
  <2> QED BY <2>2, <2>3, HoldersStay
<1>3. CASE KickWalk
  <2>1. UNCHANGED <<uinfo, req, proc, kn>> /\ pc = "walk"
    BY <1>3 DEF KickWalk
  <2>2. HoldersKept
    BY <2>1 DEF HoldersKept, SameSessions, NamesKept, ProcsKept, KickKept, TypeInv, Control, KnOK
  <2>3. ReqsHold'
    BY <2>1, <2>2, ReqsStay DEF HoldersKept
  <2> QED BY <2>2, <2>3, HoldersStay
<1>4. CASE KickRelease
  <2>1. /\ kn \in Slots /\ FreeSlot(kn) /\ pc' = "scan" /\ proc' = proc
        /\ req' = Orphaned(kn)
    BY <1>4 DEF KickRelease, TypeInv, Control, KnOK
  <2>2. \A p \in Procs : proc[p].st \in HasSlot => uinfo[kn].pid # p
    <3>1. uinfo[kn].pid = WWW \/ ~Alive(uinfo[kn].pid)
      BY <1>4 DEF KickRelease, KickHolds
    <3>2. WWW \notin Procs
      BY ConstantsAssumption DEF WWW
    <3> QED BY <3>1, <3>2 DEF Alive, HasSlot
  <2> QED BY <2>1, <2>2, OrphanedLive, FreeHeld
<1>5. CASE Unlock
  <2>1. UNCHANGED <<uinfo, req>> /\ pc' = "free"
    BY <1>5 DEF Unlock, shm
  <2>2. SameSessions(uinfo, uinfo') /\ NamesKept /\ KickKept
    BY <2>1 DEF SameSessions, NamesKept, KickKept
  <2>3. ProcsKept
    <3>1. CASE proc' = proc
      BY <3>1 DEF ProcsKept
    <3>2. CASE holder \in Procs /\ proc' = [proc EXCEPT ![holder].st = "online"]
      <4>1. proc[holder].st = "entering"
        BY <3>2 DEF TypeInv, Control, HolderOK
      <4>2. /\ proc'[holder].st = "online" /\ proc'[holder].slot = proc[holder].slot
            /\ proc'[holder].user = proc[holder].user
            /\ \A p \in Procs \ {holder} : proc'[p] = proc[p]
        BY <3>2 DEF TypeInv, TypeOK, ActorsOK, Process
      <4> QED BY <4>1, <4>2 DEF ProcsKept, HasSlot
    <3> QED BY <1>5, <3>1, <3>2 DEF Unlock
  <2> QED BY <2>1, <2>2, <2>3, ReqsStay, HoldersStay DEF HoldersKept
<1> QED BY <1>1, <1>2, <1>3, <1>4, <1>5 DEF Kickidle

LEMMA TouchKeeps ==
  ASSUME TypeInv, SlotsHeld, NEW p \in Procs, Touch(p)
  PROVE  SameSessions(uinfo, uinfo') /\ NamesKept
<1> DEFINE s == proc[p].slot
<1>1. /\ s \in Slots /\ uinfo[s].pid = p
      /\ proc[p].user \in Users \cup {Guest, Nobody}
  BY DEF Touch, SlotsHeld, ProcsHold, ProcHolds, HasSlot, TypeInv, TypeOK, ActorsOK, Process
<1>2. uinfo' = [uinfo EXCEPT ![s].age = 0, ![s].from = TelnetHost,
                             ![s].userid = proc[p].user, ![s].kicked = FALSE]
  BY DEF Touch
<1> HIDE DEF s
<1>3. \A t \in Slots : t # s => uinfo'[t] = uinfo[t]
  BY <1>2 DEF TypeInv, TypeOK, TableOK
<1>4. SameSessions(uinfo, uinfo')
  <2>1. uinfo[s] \in UserInfo /\ uinfo \in [Slots -> UserInfo]
    BY <1>1 DEF TypeInv, TypeOK, TableOK
  <2>2. /\ uinfo'[s].active = uinfo[s].active /\ uinfo'[s].pid = uinfo[s].pid
        /\ uinfo'[s].uid = uinfo[s].uid
    BY <1>1, <1>2, <2>1 DEF UserInfo
  <2> QED BY <1>3, <2>2 DEF SameSessions
<1>5. p # WWW
  BY ConstantsAssumption DEF WWW
<1>6. NamesKept
  BY <1>1, <1>3, <1>5 DEF NamesKept
<1> QED BY <1>4, <1>6

LEMMA TelnetHeld ==
  ASSUME TypeInv, SlotsHeld, NEW p \in Procs, Telnet(p) PROVE SlotsHeld'
<1> USE DEF SlotsHeld
<1>1. ASSUME UNCHANGED <<uinfo, req>>, UNCHANGED <<pc, kn>> \/ pc' = "free", ProcsKept
      PROVE  SlotsHeld'
  <2>1. SameSessions(uinfo, uinfo') /\ NamesKept
    BY <1>1 DEF SameSessions, NamesKept
  <2>2. KickKept
    BY <1>1 DEF KickKept, TypeInv, Control, KnOK
  <2> QED BY <1>1, <2>1, <2>2, ReqsStay, HoldersStay DEF HoldersKept
<1>2. ASSUME NEW u \in Users \cup {Guest}, Enter(p, u) PROVE SlotsHeld'
  <2>1. proc' = [proc EXCEPT ![p].st = "checked", ![p].user = u]
    BY <1>2 DEF Enter
  <2>2. proc'[p].st = "checked" /\ \A x \in Procs \ {p} : proc'[x] = proc[x]
    BY <2>1 DEF TypeInv, TypeOK, ActorsOK, Process
  <2>3. ProcsKept
    BY <1>2, <2>2 DEF Enter, ProcsKept, HasSlot
  <2> QED BY <1>1, <1>2, <2>3 DEF Enter, shm, lock
<1>3. ASSUME NEW u \in Users, EnterKicking(p, u) PROVE SlotsHeld'
  <2> DEFINE q == uinfo[uindex[u][Min1(TelnetEntries(u))]].pid
  <2>1. q \in Procs
    BY Zenon, <1>3, KickedProcess DEF EnterKicking, TypeInv
  <2>2. /\ proc' = [[proc EXCEPT ![q].st = Signalled(@)]
                       EXCEPT ![p].st = "checked", ![p].user = u]
        /\ proc[p].st = "new"
    BY Zenon, <1>3 DEF EnterKicking
  <2> HIDE DEF q
  <2>3. /\ proc'[p].st = "checked"
        /\ \A x \in Procs \ {p, q} : proc'[x] = proc[x]
        /\ q # p => /\ proc'[q].st = Signalled(proc[q].st)
                    /\ proc'[q].slot = proc[q].slot /\ proc'[q].user = proc[q].user
    BY <2>1, <2>2 DEF TypeInv, TypeOK, ActorsOK, Process
  <2>4. ProcsKept
    BY <2>2, <2>3 DEF ProcsKept, HasSlot, Signalled
  <2> QED BY Zenon, <1>1, <1>3, <2>4 DEF EnterKicking, shm, lock
<1>4. CASE TelnetLogin(p)
  <2>1. proc[p].user \in Users \cup {Guest, Nobody} /\ proc[p].st = "checked"
    BY <1>4 DEF TelnetLogin, TypeInv, TypeOK, ActorsOK, Process
  <2>2. CASE SlotForLogin
    <3> DEFINE up == Session(proc[p].user, p, TelnetHost)
    <3>1. up \in UserInfo
      BY <2>1, SessionTyped, ConstantsAssumption
    <3>2. /\ up.active /\ up.pid = p /\ up.uid = proc[p].user /\ up.userid = up.uid
          /\ p # 0
      BY ConstantsAssumption DEF Session
    <3>3. /\ utmp_login(up, uindex, p) /\ req' = req
          /\ proc' = [proc EXCEPT ![p].st = "entering", ![p].slot = head[0]]
      BY <1>4, <2>2 DEF TelnetLogin
    <3> HIDE DEF up
    <3> QED BY <2>1, <2>2, <3>1, <3>2, <3>3, LoginHeld
  <2>3. CASE ~SlotForLogin
    <3>1. proc' = [proc EXCEPT ![p] = Gone] /\ UNCHANGED <<shm, lock, req>>
      BY <1>4, <2>3 DEF TelnetLogin
    <3>2. proc'[p].st = "dead" /\ \A x \in Procs \ {p} : proc'[x] = proc[x]
      BY <3>1 DEF TypeInv, TypeOK, ActorsOK, Gone
    <3>3. ProcsKept
      BY <3>2 DEF ProcsKept, HasSlot
    <3> QED BY <1>1, <3>1, <3>3 DEF shm, lock
  <2> QED BY <2>2, <2>3
<1>5. CASE Touch(p)
  <2>1. SameSessions(uinfo, uinfo') /\ NamesKept /\ UNCHANGED <<lock, proc, req>>
    BY Zenon, <1>5, TouchKeeps DEF Touch
  <2>2. ProcsKept /\ KickKept
    BY <2>1 DEF ProcsKept, KickKept, lock, TypeInv, Control, KnOK
  <2>3. ReqsHold'
    BY <2>1, ReqsStay
  <2> QED BY <2>1, <2>2, <2>3, HoldersStay DEF HoldersKept
<1>6. CASE Leave(p)
  <2>1. proc' = [proc EXCEPT ![p].st = "leaving"] /\ proc[p].st = "online"
    BY <1>6 DEF Leave
  <2>2. /\ proc'[p].slot = proc[p].slot /\ proc'[p].user = proc[p].user
        /\ proc'[p].st = "leaving" /\ \A x \in Procs \ {p} : proc'[x] = proc[x]
    BY <2>1 DEF TypeInv, TypeOK, ActorsOK, Process
  <2>3. ProcsKept
    BY <2>1, <2>2 DEF ProcsKept, HasSlot
  <2> QED BY <1>1, <1>6, <2>3 DEF Leave, shm, lock
<1>7. CASE TelnetLogout(p)
  <2> DEFINE s == proc[p].slot
  <2>1. s \in Slots /\ uinfo[s].active /\ uinfo[s].pid = p
    BY <1>7 DEF TelnetLogout, ProcsHold, ProcHolds, HasSlot
  <2>2. /\ FreeSlot(s) /\ req' = Orphaned(s) /\ pc' = "free"
        /\ proc' = [proc EXCEPT ![p] = Gone]
    BY <1>7, <2>1 DEF TelnetLogout, lock
  <2> HIDE DEF s
  <2>3. proc'[p].st = "dead" /\ \A x \in Procs \ {p} : proc'[x] = proc[x]
    BY <2>2 DEF TypeInv, TypeOK, ActorsOK, Gone
  <2>4. \A x \in Procs : proc'[x].st \in HasSlot => proc'[x] = proc[x] /\ uinfo[s].pid # x
    BY <2>1, <2>3 DEF HasSlot
  <2> QED BY <2>1, <2>2, <2>4, OrphanedLive, FreeHeld
<1>8. CASE Die(p)
  <2>1. proc' = [proc EXCEPT ![p] = Gone]
    BY <1>8 DEF Die
  <2>2. proc'[p].st = "dead" /\ \A x \in Procs \ {p} : proc'[x] = proc[x]
    BY <2>1 DEF TypeInv, TypeOK, ActorsOK, Gone
  <2>3. ProcsKept
    BY <2>2 DEF ProcsKept, HasSlot
  <2> QED BY <1>1, <1>8, <2>3 DEF Die, shm
<1> QED BY <1>2, <1>3, <1>4, <1>5, <1>6, <1>7, <1>8 DEF Telnet

LEMMA NamesAge ==
  ASSUME TypeInv, NEW s \in Slots, NEW x, uinfo' = [uinfo EXCEPT ![s].age = x]
  PROVE  NamesKept
BY DEF NamesKept, TypeInv, TypeOK, TableOK, UserInfo

LEMMA NamesKick ==
  ASSUME TypeInv, NEW s \in Slots, uinfo' = [uinfo EXCEPT ![s].kicked = TRUE]
  PROVE  SameSessions(uinfo, uinfo') /\ NamesKept
<1>1. uinfo \in [Slots -> UserInfo]
  BY DEF TypeInv, TypeOK, TableOK
<1>2. SameSessions(uinfo, uinfo')
  BY <1>1, SlotKick
<1>3. NamesKept
  BY <1>1 DEF NamesKept, UserInfo
<1> QED BY <1>2, <1>3

LEMMA StartKeeps ==
  ASSUME TypeInv, NEW r, NEW s \in Slots, ReqStart(r, s)
  PROVE  SameSessions(uinfo, uinfo') /\ NamesKept
<1>1. uinfo' = [uinfo EXCEPT ![s].age = 0] /\ 0 \in 0 .. 2
  BY DEF ReqStart
<1>2. SameSessions(uinfo, uinfo')
  BY <1>1, SlotAge DEF TypeInv, TypeOK, TableOK
<1> QED BY <1>1, <1>2, NamesAge

LEMMA EndKeeps ==
  ASSUME TypeInv, NEW r \in Reqs, ReqEnd(r)
  PROVE  SameSessions(uinfo, uinfo') /\ NamesKept
<1>1. CASE UNCHANGED uinfo
  BY <1>1 DEF SameSessions, NamesKept
<1>2. CASE uinfo' = [uinfo EXCEPT ![req[r].slot].kicked = TRUE]
  <2>1. req[r].slot \in Slots
    BY DEF ReqEnd, TypeInv, Control, HandlesOK
  <2> QED BY <1>2, <2>1, NamesKick
<1> QED BY <1>1, <1>2 DEF ReqEnd

LEMMA AgeKeeps ==
  ASSUME TypeInv, NEW s \in Slots, Kick(s) \/ Age(s)
  PROVE  SameSessions(uinfo, uinfo') /\ NamesKept
<1>1. CASE Kick(s)
  BY <1>1, NamesKick DEF Kick
<1>2. CASE Age(s)
  <2>1. uinfo' = [uinfo EXCEPT ![s].age = uinfo[s].age + 1]
    BY <1>2 DEF Age
  <2>2. uinfo[s].age + 1 \in 0 .. 2
    <3>1. uinfo[s] \in UserInfo /\ uinfo[s].age < 2
      BY <1>2 DEF Age, TypeInv, TypeOK, TableOK
    <3> QED BY <3>1 DEF UserInfo
  <2>3. SameSessions(uinfo, uinfo')
    BY <2>1, <2>2, SlotAge DEF TypeInv, TypeOK, TableOK
  <2> QED BY <2>1, <2>3, NamesAge
<1> QED BY <1>1, <1>2

\* A logout that is not late finds its own session in the slot.
LEMMA LogoutInTime ==
  ASSUME TypeInv, SlotsHeld, NEW r \in Reqs, WwwLogout(r), ~StaleLogout
  PROVE  LET s == req[r].slot
         IN  /\ s \in Slots /\ uinfo[s].active /\ uinfo[s].pid = WWW /\ uinfo[s].uid # Guest
             /\ FreeSlot(s) /\ req' = [Orphaned(s) EXCEPT ![r] = NoReq]
             /\ UNCHANGED <<wwwguestnum, lock, proc>> /\ pc = "free"
<1> DEFINE s == req[r].slot
<1>1. /\ req[r].counted /\ UNCHANGED <<lock, proc>> /\ pc = "free"
      /\ IF uinfo[s].active THEN /\ FreeSlot(s) /\ req' = [Orphaned(s) EXCEPT ![r] = NoReq]
                                 /\ UNCHANGED wwwguestnum
                            ELSE req' = [req EXCEPT ![r] = NoReq]
  BY DEF WwwLogout
<1>2. req'[r] = NoReq
  BY <1>1 DEF TypeInv, TypeOK, ActorsOK, Orphaned
<1>3. req[r].live
  BY <1>1, <1>2 DEF StaleLogout
<1>4. /\ s \in Slots /\ uinfo[s].active /\ uinfo[s].pid = WWW
      /\ uinfo[s].uid # Guest
  BY <1>1, <1>3 DEF SlotsHeld, ReqsHold, ReqHolds
<1> QED BY <1>1, <1>4

LEMMA WebLoginHeld ==
  ASSUME TypeInv, SlotsHeld,
         \/ \E u \in Users, host \in Hosts : WwwLogin(u, host)
         \/ \E host \in Hosts : GuestLogin(host)
  PROVE  SlotsHeld'
<1>1. ASSUME NEW u \in Users \cup {Guest}, NEW host \in Hosts, NEW ix, SlotForLogin,
             utmp_login(Session(u, WWW, host), ix, WWW), UNCHANGED <<proc, req>>
      PROVE  SlotsHeld'
  <2> DEFINE up == Session(u, WWW, host)
  <2>1. up \in UserInfo
    BY SessionTyped
  <2>2. up.active /\ up.pid # 0 /\ up.userid = up.uid
    BY DEF Session, WWW
  <2>3. utmp_login(up, ix, WWW)
    BY <1>1
  <2> HIDE DEF up
  <2> QED BY <1>1, <2>1, <2>2, <2>3, LoginHeld
<1>2. ASSUME UNCHANGED <<uinfo, proc, req>>, pc' \notin {"walk", "release"} PROVE SlotsHeld'
  <2>1. HoldersKept
    BY <1>2 DEF HoldersKept, SameSessions, NamesKept, ProcsKept, KickKept
  <2> QED BY <1>2, <2>1, ReqsStay, HoldersStay DEF HoldersKept, SlotsHeld
<1>3. ASSUME NEW u \in Users, NEW host \in Hosts, WwwLogin(u, host) PROVE SlotsHeld'
  <2> DEFINE counted == [uindex EXCEPT ![u] =
                           [i \in Idx |-> IF i \in StaleEntries(u)
                                          THEN 0 ELSE uindex[u][i]]]
  <2>1. pc = "free" /\ UNCHANGED <<proc, req>>
    BY <1>3 DEF WwwLogin
  <2>2. \/ SlotForLogin /\ utmp_login(Session(u, WWW, host), counted, WWW)
        \/ UNCHANGED <<uinfo, lock>>
    BY <1>3 DEF WwwLogin
  <2> HIDE DEF counted
  <2>3. CASE SlotForLogin /\ utmp_login(Session(u, WWW, host), counted, WWW)
    BY <1>1, <2>1, <2>3
  <2>4. CASE UNCHANGED <<uinfo, lock>>
    BY <1>2, <2>1, <2>4 DEF lock
  <2> QED BY <2>2, <2>3, <2>4
<1>4. ASSUME NEW host \in Hosts, GuestLogin(host) PROVE SlotsHeld'
  <2>1. CASE Looping(RealHash[host])
    BY <1>2, <1>4, <2>1 DEF GuestLogin, shm
  <2>2. CASE ~Looping(RealHash[host])
    <3>1. SlotForLogin /\ utmp_login(Session(Guest, WWW, host), uindex, WWW)
          /\ UNCHANGED <<proc, req>>
      BY <1>4, <2>2 DEF GuestLogin
    <3> QED BY <1>1, <3>1
  <2> QED BY <2>1, <2>2
<1> QED BY <1>3, <1>4

LEMMA PageHeld ==
  ASSUME TypeInv, SlotsHeld, NEW r \in Reqs, Page(r), ~StaleLogout PROVE SlotsHeld'
<1> USE DEF SlotsHeld
<1>1. ASSUME SameSessions(uinfo, uinfo'), NamesKept, UNCHANGED <<proc, lock>>, ReqsHold'
      PROVE  SlotsHeld'
  <2>1. ProcsKept /\ KickKept
    BY <1>1 DEF ProcsKept, KickKept, lock, TypeInv, Control, KnOK
  <2> QED BY <1>1, <2>1, HoldersStay DEF HoldersKept
<1>2. \A x \in Reqs : x # r /\ req'[x] = req[x] /\ SameSessions(uinfo, uinfo') => ReqHolds(x)'
  BY DEF ReqsHold, ReqHolds, SameSessions
<1>3. ASSUME NEW s \in Slots, ReqStart(r, s) PROVE SlotsHeld'
  <2>1. /\ uinfo' = [uinfo EXCEPT ![s].age = 0] /\ uinfo[s].active /\ uinfo[s].pid = WWW
        /\ req' = [req EXCEPT ![r] = [slot |-> s, uid |-> uinfo[s].uid,
                                      live |-> TRUE, counted |-> FALSE]]
        /\ UNCHANGED <<proc, lock>>
    BY <1>3 DEF ReqStart
  <2>2. SameSessions(uinfo, uinfo') /\ NamesKept
    BY <1>3, StartKeeps
  <2>4. /\ req'[r] = [slot |-> s, uid |-> uinfo[s].uid, live |-> TRUE, counted |-> FALSE]
        /\ \A x \in Reqs \ {r} : req'[x] = req[x]
    BY <2>1 DEF TypeInv, TypeOK, ActorsOK
  <2>5. ReqHolds(r)'
    BY <2>1, <2>2, <2>4 DEF ReqHolds, SameSessions
  <2>6. ReqsHold'
    BY <1>2, <2>2, <2>4, <2>5 DEF ReqsHold
  <2> QED BY <1>1, <2>1, <2>2, <2>6
<1>4. CASE ReqEnd(r)
  <2>1. req' = [req EXCEPT ![r] = NoReq] /\ UNCHANGED <<proc, lock>>
    BY <1>4 DEF ReqEnd
  <2>2. SameSessions(uinfo, uinfo') /\ NamesKept
    BY <1>4, EndKeeps
  <2>4. ~req'[r].live /\ \A x \in Reqs \ {r} : req'[x] = req[x]
    BY <2>1 DEF TypeInv, TypeOK, ActorsOK, NoReq
  <2>5. ReqsHold'
    BY <1>2, <2>2, <2>4 DEF ReqsHold, ReqHolds
  <2> QED BY <1>1, <2>1, <2>2, <2>5
<1>5. CASE LogoutCount(r)
  <2>1. PICK u \in IF uinfo[req[r].slot].active THEN {uinfo[req[r].slot].uid} ELSE Users :
               req' = [req EXCEPT ![r].counted = TRUE, ![r].uid = u]
    BY <1>5 DEF LogoutCount
  <2>2. UNCHANGED <<uinfo, proc, lock>> /\ req[r].uid # Guest
    BY <1>5 DEF LogoutCount, shm
  <2>3. SameSessions(uinfo, uinfo') /\ NamesKept
    BY <2>2 DEF SameSessions, NamesKept
  <2>4. /\ req'[r].slot = req[r].slot /\ req'[r].live = req[r].live /\ req'[r].uid = u
        /\ \A x \in Reqs \ {r} : req'[x] = req[x]
    BY <2>1 DEF TypeInv, TypeOK, ActorsOK, Request
  <2>5. ReqHolds(r)'
    <3> SUFFICES ASSUME req'[r].live
                 PROVE  /\ req'[r].slot \in Slots
                        /\ uinfo'[req'[r].slot].active /\ uinfo'[req'[r].slot].pid = WWW
                        /\ uinfo'[req'[r].slot].uid = req'[r].uid
                        /\ req'[r].uid # Guest
      BY DEF ReqHolds
    <3>1. /\ req[r].slot \in Slots /\ uinfo[req[r].slot].active
          /\ uinfo[req[r].slot].pid = WWW /\ uinfo[req[r].slot].uid = req[r].uid
      BY <2>4 DEF ReqsHold, ReqHolds
    <3>2. u = req[r].uid
      BY <3>1
    <3> QED BY <2>2, <2>4, <3>1, <3>2
  <2>6. ReqsHold'
    BY <1>2, <2>3, <2>4, <2>5 DEF ReqsHold
  <2> QED BY <1>1, <2>2, <2>3, <2>6
<1>6. CASE WwwLogout(r)
  <2> DEFINE s == req[r].slot
  <2>1. s \in Slots /\ uinfo[s].active /\ uinfo[s].pid = WWW
    BY <1>6, LogoutInTime
  <2>2. /\ FreeSlot(s) /\ req' = [Orphaned(s) EXCEPT ![r] = NoReq]
        /\ UNCHANGED <<lock, proc>> /\ pc = "free"
    BY <1>6, LogoutInTime
  <2>3. req'[r] = NoReq
    BY <2>2 DEF Orphaned
  <2> HIDE DEF s
  <2>4. \A x \in Reqs : x # r => req'[x] = Orphaned(s)[x]
    BY <2>2 DEF Orphaned
  <2>5. \A x \in Reqs : req'[x].live => req'[x] = req[x] /\ req[x].slot # s
    BY <2>3, <2>4, OrphanedLive DEF NoReq
  <2>6. WWW \notin Procs
    BY ConstantsAssumption DEF WWW
  <2>7. /\ pc' \notin {"walk", "release"}
        /\ \A p \in Procs : proc'[p].st \in HasSlot => proc'[p] = proc[p] /\ uinfo[s].pid # p
    BY <2>1, <2>2, <2>6 DEF lock
  <2> QED BY <2>1, <2>2, <2>5, <2>7, FreeHeld
<1> QED BY <1>3, <1>4, <1>5, <1>6 DEF Page

LEMMA OtherHeld ==
  ASSUME TypeInv, SlotsHeld,
         \/ \E s \in Slots : Kick(s) \/ Age(s)
         \/ CgiDie \/ Minute
         \/ \E a \in Procs \cup Reqs : ClearEntry(a)
         \/ UNCHANGED vars
  PROVE  SlotsHeld'
<1> USE DEF SlotsHeld
<1>1. ASSUME SameSessions(uinfo, uinfo'), NamesKept, UNCHANGED <<proc, req>>,
             UNCHANGED <<pc, kn>> \/ pc' = "free"
      PROVE  SlotsHeld'
  <2>1. ProcsKept /\ KickKept
    BY <1>1 DEF ProcsKept, KickKept, TypeInv, Control, KnOK
  <2> QED BY <1>1, <2>1, ReqsStay, HoldersStay DEF HoldersKept
<1>2. ASSUME UNCHANGED <<uinfo, proc, req>>, UNCHANGED <<pc, kn>> \/ pc' = "free"
      PROVE  SlotsHeld'
  BY <1>1, <1>2 DEF SameSessions, NamesKept
<1>3. ASSUME NEW s \in Slots, Kick(s) \/ Age(s) PROVE SlotsHeld'
  <2>1. SameSessions(uinfo, uinfo') /\ NamesKept
    BY <1>3, AgeKeeps
  <2> QED BY <1>1, <1>3, <2>1 DEF Kick, Age, lock
<1>4. CASE CgiDie
  BY <1>2, <1>4 DEF CgiDie, shm
<1>5. CASE Minute
  BY <1>2, <1>5 DEF Minute, shm
<1>6. ASSUME NEW a \in Procs \cup Reqs, ClearEntry(a) PROVE SlotsHeld'
  BY <1>2, <1>6 DEF ClearEntry, lock
<1>7. CASE UNCHANGED vars
  BY <1>2, <1>7 DEF vars, shm, lock
<1> QED BY <1>3, <1>4, <1>5, <1>6, <1>7

LEMMA InitHeld == Init => SlotsHeld
<1> SUFFICES ASSUME Init PROVE SlotsHeld
  OBVIOUS
<1>1. SessionsNamed /\ KickHolds
  BY DEF Init, SessionsNamed, KickHolds, Empty
<1>2. ReqsHold
  BY DEF Init, ReqsHold, ReqHolds, NoReq
<1>3. ProcsHold
  BY DEF Init, ProcsHold, ProcHolds, HasSlot
<1> QED BY <1>1, <1>2, <1>3 DEF SlotsHeld

LEMMA NextHeld ==
  TypeInv /\ SlotsHeld /\ [Next /\ ~StaleLogout]_vars => SlotsHeld'
<1> SUFFICES ASSUME TypeInv, SlotsHeld, [Next /\ ~StaleLogout]_vars PROVE SlotsHeld'
  OBVIOUS
<1>1. CASE UNCHANGED vars
  BY <1>1, OtherHeld
<1>2. CASE Next /\ ~StaleLogout
  BY <1>2, KickidleHeld, TelnetHeld, WebLoginHeld, PageHeld, OtherHeld DEF Next
<1> QED BY <1>1, <1>2

\* A live telnet session keeps its slot, and the slot names its process and its
\* user, whatever other logins, kicks, hangups and deaths do, also those of a
\* process in the middle of utmp_kickidle: all that could take it away is a
\* logout of the web that arrives after its session's slot was released.
THEOREM TelnetSlotsCorrect == LiveSpec => []TelnetKeepsSlot
<1> DEFINE IInv == TypeInv /\ SlotsHeld
<1>1. Init => IInv
  BY InitTyped, InitHeld
<1>2. IInv /\ [Next /\ ~StaleLogout]_vars => IInv'
  BY NextTyped, NextHeld
<1>3. IInv => TelnetKeepsSlot
  <2>1. 0 \notin Slots
    BY DEF Slots
  <2> QED BY <2>1 DEF SlotsHeld, ProcsHold, ProcHolds, HasSlot, TelnetKeepsSlot
<1> QED BY <1>1, <1>2, <1>3, PTL DEF LiveSpec

-----------------------------------------------------------------------------
(***************************************************************************)
(* The chains of guests.  A list from hd along nx holds exactly S when it  *)
(* stays in S, never branches or comes back to hd, and leaves nothing of S *)
(* out.                                                                    *)
(***************************************************************************)
Within(hd, nx, S) ==
  /\ hd # 0 => hd \in S
  /\ \A s \in S : nx[s] # 0 => nx[s] \in S
Once(hd, nx, S) ==
  /\ \A s \in S : nx[s] # hd
  /\ \A s, t \in S : nx[s] # 0 /\ nx[s] = nx[t] => s = t
Whole(hd, nx, S) ==
  /\ S # {} => hd # 0
  /\ \A T \in SUBSET S : hd \in T /\ (\A t \in T : nx[t] # 0 => nx[t] \in T) => T = S
IsList(hd, nx, S) == Within(hd, nx, S) /\ Once(hd, nx, S) /\ Whole(hd, nx, S)

\* The part of a list from its head on is all of it.
LEMMA ListWhole ==
  ASSUME NEW hd, NEW nx, NEW S, IsList(hd, nx, S),
         NEW T \in SUBSET S, hd \in T, \A t \in T : nx[t] # 0 => nx[t] \in T
  PROVE  T = S
BY DEF IsList, Whole

LEMMA ListOfOne ==
  ASSUME NEW hd, NEW nx, NEW S, IsList(hd, nx, S), hd \in S, nx[hd] = 0
  PROVE  S = {hd}
<1> DEFINE U == {hd}
<1>1. U \in SUBSET S /\ hd \in U /\ \A t \in U : nx[t] # 0 => nx[t] \in U
  OBVIOUS
<1> HIDE DEF U
<1>2. U = S
  BY <1>1, ListWhole
<1> QED BY <1>2 DEF U

\* Only the links of its slots matter.
LEMMA ListSame ==
  ASSUME NEW hd, NEW nx, NEW ny, NEW S, IsList(hd, nx, S), \A s \in S : ny[s] = nx[s]
  PROVE  IsList(hd, ny, S)
<1>1. Within(hd, ny, S) /\ Once(hd, ny, S)
  BY DEF IsList, Within, Once
<1>2. Whole(hd, ny, S)
  BY DEF IsList, Whole
<1> QED BY <1>1, <1>2 DEF IsList

\* utmp_login puts j in front.
LEMMA ListPush ==
  ASSUME NEW hd, NEW nx, NEW ny, NEW S \in SUBSET Slots, IsList(hd, nx, S),
         NEW j \in Slots \ S, ny[j] = hd, \A s \in S : ny[s] = nx[s]
  PROVE  IsList(j, ny, S \cup {j})
<1>1. j # 0
  BY DEF Slots
<1>2. Within(j, ny, S \cup {j})
  BY DEF IsList, Within
<1>3. Once(j, ny, S \cup {j})
  <2>1. \A s \in S : nx[s] # j
    BY <1>1 DEF IsList, Within
  <2>2. hd # j
    BY <1>1 DEF IsList, Within
  <2> QED BY <2>1, <2>2 DEF IsList, Once
<1>4. Whole(j, ny, S \cup {j})
  <2> SUFFICES ASSUME NEW T \in SUBSET (S \cup {j}), j \in T,
                      \A t \in T : ny[t] # 0 => ny[t] \in T
               PROVE  S \subseteq T
    BY <1>1 DEF Whole
  <2>1. CASE S = {}
    BY <2>1
  <2>2. CASE S # {}
    <3> DEFINE U == T \ {j}
    <3>1. hd \in U
      BY <2>2 DEF IsList, Within, Whole
    <3>2. \A t \in U : nx[t] # 0 => nx[t] \in U
      BY DEF IsList, Within
    <3>3. U \in SUBSET S
      OBVIOUS
    <3> HIDE DEF U
    <3>4. U = S
      BY <3>1, <3>2, <3>3 DEF IsList, Whole
    <3> QED BY <3>4 DEF U
  <2> QED BY <2>1, <2>2
<1> QED BY <1>2, <1>3, <1>4 DEF IsList

\* utmp_kickidle takes the first of a list out ...
LEMMA ListPop ==
  ASSUME NEW hd, NEW nx, NEW S \in SUBSET Slots, IsList(hd, nx, S), hd \in S
  PROVE  IsList(nx[hd], nx, S \ {hd})
<1>1. Within(nx[hd], nx, S \ {hd})
  BY DEF IsList, Within, Once
<1>2. Once(nx[hd], nx, S \ {hd})
  <2>1. ASSUME NEW s \in S \ {hd}, nx[s] = nx[hd] PROVE FALSE
    <3>1. nx[s] = 0
      BY <2>1 DEF IsList, Once
    <3>2. S = {hd}
      BY <2>1, <3>1, ListOfOne
    <3> QED BY <3>2
  <2> QED BY <2>1 DEF IsList, Once
<1>3. Whole(nx[hd], nx, S \ {hd})
  <2>1. ASSUME S \ {hd} # {}, nx[hd] = 0 PROVE FALSE
    <3>1. S = {hd}
      BY <2>1, ListOfOne
    <3> QED BY <2>1, <3>1
  <2>2. ASSUME NEW T \in SUBSET (S \ {hd}), nx[hd] \in T,
               \A t \in T : nx[t] # 0 => nx[t] \in T
        PROVE  T = S \ {hd}
    <3> DEFINE U == T \cup {hd}
    <3>1. /\ U \in SUBSET S /\ hd \in U
          /\ \A t \in U : nx[t] # 0 => nx[t] \in U
      BY <2>2
    <3> HIDE DEF U
    <3>2. U = S
      BY <3>1, ListWhole
    <3> QED BY <2>2, <3>2 DEF U
  <2> QED BY <2>1, <2>2 DEF Whole
<1> QED BY <1>1, <1>2, <1>3 DEF IsList

\* ... or the one that follows i.
LEMMA ListUnlink ==
  ASSUME NEW hd, NEW nx, NEW ny, NEW S \in SUBSET Slots, IsList(hd, nx, S),
         NEW i \in S, NEW k \in S, nx[i] = k, i # k,
         ny[i] = nx[k], \A s \in S \ {i} : ny[s] = nx[s]
  PROVE  IsList(hd, ny, S \ {k})
<1>1. k # 0 /\ hd # k /\ hd # 0 /\ hd \in S
  BY DEF IsList, Within, Once, Whole, Slots
<1>2. \A s \in S \ {i} : nx[s] # k
  BY <1>1 DEF IsList, Once
<1>3. nx[k] # k
  BY <1>2
<1>4. Within(hd, ny, S \ {k})
  BY <1>1, <1>2, <1>3 DEF IsList, Within
<1>5. Once(hd, ny, S \ {k})
  <2>1. \A s \in S \ {k} : ny[s] # hd
    BY DEF IsList, Once
  <2>2. \A s, t \in S \ {k} : ny[s] # 0 /\ ny[s] = ny[t] => s = t
    BY DEF IsList, Once
  <2> QED BY <2>1, <2>2 DEF Once
<1>6. Whole(hd, ny, S \ {k})
  <2> SUFFICES ASSUME NEW T \in SUBSET (S \ {k}), hd \in T,
                      \A t \in T : ny[t] # 0 => ny[t] \in T
               PROVE  T = S \ {k}
    BY <1>1 DEF Whole
  <2>1. CASE i \in T
    <3> DEFINE U == T \cup {k}
    <3>1. /\ U \in SUBSET S /\ hd \in U
          /\ \A t \in U : nx[t] # 0 => nx[t] \in U
      BY <2>1
    <3> HIDE DEF U
    <3>2. U = S
      BY <3>1, ListWhole
    <3> QED BY <3>2 DEF U
  <2>2. CASE i \notin T
    <3>1. \A t \in T : nx[t] # 0 => nx[t] \in T
      BY <2>2
    <3>2. T = S
      BY <3>1 DEF IsList, Whole
    <3> QED BY <2>2, <3>2
  <2> QED BY <2>1, <2>2
<1> QED BY <1>4, <1>5, <1>6 DEF IsList

LEMMA ListReach ==
  ASSUME NEW i \in 0 .. MAXACTIVE, NEW S \in SUBSET Slots, IsList(i, next, S)
  PROVE  /\ Reach(i) = S
         /\ \A T \in SUBSET Slots : i \in T /\ Closed(T) => S \subseteq T
<1>1. 0 \notin Slots
  BY DEF Slots
<1>2. ASSUME NEW T \in SUBSET Slots, i \in T, Closed(T) PROVE S \subseteq T
  <2>1. CASE S = {}
    BY <2>1
  <2>2. CASE S # {}
    <3>1. i \in S \cap T
      BY <1>2, <2>2 DEF IsList, Within, Whole
    <3>2. \A t \in S \cap T : next[t] # 0 => next[t] \in S \cap T
      BY <1>2 DEF IsList, Within, Closed
    <3>3. S \cap T = S
      BY <3>1, <3>2 DEF IsList, Whole
    <3> QED BY <3>3
  <2> QED BY <2>1, <2>2
<1>3. S \subseteq Reach(i)
  <2>1. S # {} => i # 0
    BY DEF IsList, Whole
  <2> QED BY <1>2, <2>1 DEF Reach
<1>4. Reach(i) \subseteq S
  <2> SUFFICES ASSUME NEW s \in Reach(i) PROVE s \in S
    OBVIOUS
  <2>1. i # 0 /\ (i \in S /\ Closed(S) => s \in S)
    BY DEF Reach
  <2>2. i \in S /\ Closed(S)
    BY <2>1 DEF IsList, Within, Closed
  <2> QED BY <2>1, <2>2
<1> QED BY <1>2, <1>3, <1>4

-----------------------------------------------------------------------------
(***************************************************************************)
(* GuestChainsExact is not inductive: it does not say where utmp_kickidle  *)
(* stands in the chain it walks.  WalkOK adds that the guest to be         *)
(* unlinked is still ahead of ki.                                          *)
(***************************************************************************)
Hashes == 1 .. UTMPHASH_SIZE
Busy == {"walk", "release"}
Guests == {s \in Active : IsWwwGuest(s)}
Chain(h) == GuestsOf(h) \ BeingFreed

Chained == \A h \in Hashes : IsList(head[h], next, Chain(h))
WalkOK ==
  pc = "walk" =>
     /\ kn \in Guests /\ ki # kn
     /\ ki \in Chain(MaskHash[uinfo[kn].from])
     /\ \A T \in SUBSET Slots : ki \in T /\ Closed(T) => kn \in T
GuestsCounted == wwwguestnum = Cardinality(Guests)
ChainsHeld == Chained /\ WalkOK /\ GuestsCounted

LEMMA ChainsQuiet ==
  ASSUME TypeInv, ChainsHeld, SameSessions(uinfo, uinfo'), NamesKept,
         UNCHANGED <<head, next, wwwguestnum>>,
         UNCHANGED <<pc, kn, ki>> \/ (pc \notin Busy /\ pc' \notin Busy)
  PROVE  ChainsHeld'
<1>1. /\ Guests' = Guests
      /\ \A h \in Hashes : GuestsOf(h)' = GuestsOf(h)
      /\ \A s \in Guests : uinfo'[s].from = uinfo[s].from
  BY DEF SameSessions, NamesKept, Guests, GuestsOf, Active, IsWwwGuest
<1>2. BeingFreed' = BeingFreed
  BY DEF BeingFreed, Busy
<1>3. \A h \in Hashes : Chain(h)' = Chain(h)
  BY <1>1, <1>2 DEF Chain
<1>4. Chained'
  BY <1>3 DEF ChainsHeld, Chained
<1>5. WalkOK'
  <2>1. CASE pc' = "walk" /\ UNCHANGED <<pc, kn, ki>>
    <3>1. MaskHash[uinfo[kn].from] \in Hashes
      BY <2>1, ConstantsAssumption
      DEF TypeInv, TypeOK, TableOK, UserInfo, Control, KnOK, Hashes
    <3>2. \A T : Closed(T)' <=> Closed(T)
      BY DEF Closed
    <3> QED BY <1>1, <1>3, <2>1, <3>1, <3>2 DEF ChainsHeld, WalkOK
  <2> QED BY <2>1 DEF WalkOK, Busy
<1>6. GuestsCounted'
  BY <1>1 DEF ChainsHeld, GuestsCounted
<1> QED BY <1>4, <1>5, <1>6 DEF ChainsHeld

LEMMA GuestsFinite ==
  ASSUME NEW S \in SUBSET Slots
  PROVE  IsFiniteSet(S) /\ Cardinality(S) \in Nat /\ Cardinality(S) <= MAXACTIVE
<1>1. IsFiniteSet(Slots) /\ Cardinality(Slots) = MAXACTIVE
  BY FS_Interval, ConstantsAssumption DEF Slots
<1>2. IsFiniteSet(S) /\ Cardinality(S) <= Cardinality(Slots)
  BY <1>1, FS_Subset
<1>3. Cardinality(S) \in Nat
  BY <1>2, FS_CardinalityType
<1> QED BY <1>1, <1>2, <1>3

LEMMA ChainsTaken ==
  ASSUME TypeInv, ChainsHeld, pc \notin Busy, SlotForLogin, ~uinfo[head[0]].active,
         NEW up \in UserInfo, up.active, NEW ix, NEW pid, utmp_login(up, ix, pid)
  PROVE  ChainsHeld'
<1> DEFINE h == MaskHash[up.from]
           g == up.userid = Guest /\ up.pid = WWW
<1>0. Active \in SUBSET Slots /\ Active' \in SUBSET Slots
  BY DEF Active
<1>1. PICK j \in Slots : j = head[0] /\ ~uinfo[j].active
  BY HeadIsSlot
<1>2. h \in Hashes /\ \A c \in Hashes : c # 0 /\ c \in 0 .. UTMPHASH_SIZE
  <2>1. up.from \in Hosts
    BY DEF UserInfo
  <2>2. h \in Hashes
    BY <2>1, ConstantsAssumption DEF Hashes
  <2> QED BY <2>2, ConstantsAssumption DEF Hashes
<1>3. /\ uinfo' = [uinfo EXCEPT ![j] = up] /\ pc' = "scan"
      /\ next' = [next EXCEPT ![j] = IF g THEN head[h] ELSE 0]
      /\ head' = IF g THEN [[head EXCEPT ![0] = next[j]] EXCEPT ![h] = j]
                      ELSE [head EXCEPT ![0] = next[j]]
      /\ wwwguestnum' = IF g THEN Incr(wwwguestnum) ELSE wwwguestnum
  BY <1>1 DEF utmp_login
<1> HIDE DEF g
<1>4. uinfo'[j] = up /\ \A s \in Slots : s # j => uinfo'[s] = uinfo[s]
  BY <1>1, <1>3 DEF TypeInv, TypeOK, TableOK
<1>5. /\ IsWwwGuest(j)' <=> g
      /\ j \in Active' /\ j \notin Active
      /\ \A s \in Slots : s # j => /\ IsWwwGuest(s)' <=> IsWwwGuest(s)
                                   /\ s \in Active' <=> s \in Active
  BY <1>1, <1>4 DEF IsWwwGuest, Active, g
<1>6. Guests' = IF g THEN Guests \cup {j} ELSE Guests
  BY <1>1, <1>5, <1>0 DEF Guests
<1>7. \A c \in Hashes : GuestsOf(c)' = IF g /\ c = h THEN GuestsOf(c) \cup {j} ELSE GuestsOf(c)
  BY <1>1, <1>4, <1>5, <1>0 DEF GuestsOf
<1>8. BeingFreed = {} /\ BeingFreed' = {}
  BY <1>3 DEF BeingFreed, Busy
<1>9. \A c \in Hashes : Chain(c) \in SUBSET Slots /\ j \notin Chain(c)
  BY <1>1 DEF Chain, GuestsOf, Active
<1>10. /\ next'[j] = (IF g THEN head[h] ELSE 0)
       /\ \A s \in Slots : s # j => next'[s] = next[s]
  BY <1>1, <1>3 DEF TypeInv, TypeOK, TableOK
<1>11. \A c \in Hashes : head'[c] = IF g /\ c = h THEN j ELSE head[c]
  BY <1>2, <1>3 DEF TypeInv, TypeOK, TableOK
<1> HIDE DEF h
<1>12. Chained'
  <2> SUFFICES ASSUME NEW c \in Hashes PROVE IsList(head[c], next, Chain(c))'
    BY DEF Chained
  <2>1. IsList(head[c], next, Chain(c)) /\ Chain(c) \in SUBSET Slots /\ j \notin Chain(c)
    BY <1>9 DEF ChainsHeld, Chained
  <2>2. \A s \in Chain(c) : next'[s] = next[s]
    BY <1>9, <1>10
  <2>3. CASE g /\ c = h
    <3>1. /\ head'[c] = j /\ next'[j] = head[c]
          /\ Chain(c)' = Chain(c) \cup {j}
      BY <1>7, <1>8, <1>10, <1>11, <2>3 DEF Chain
    <3> QED BY <1>1, <2>1, <2>2, <3>1, ListPush
  <2>4. CASE ~(g /\ c = h)
    <3>1. head'[c] = head[c] /\ Chain(c)' = Chain(c)
      BY <1>7, <1>8, <1>11, <2>4 DEF Chain
    <3> QED BY <2>1, <2>2, <3>1, ListSame
  <2> QED BY <2>3, <2>4
<1>13. WalkOK'
  BY <1>3 DEF WalkOK
<1>14. GuestsCounted'
  <2>1. CASE g
    <3>1. Guests \in SUBSET Slots /\ Guests' \in SUBSET Slots
      BY <1>1, <1>6 DEF Guests, Active
    <3>2. /\ IsFiniteSet(Guests) /\ Cardinality(Guests) \in Nat
          /\ Cardinality(Guests') <= MAXACTIVE
      BY <3>1, GuestsFinite
    <3>3. j \notin Guests /\ Guests' = Guests \cup {j}
      BY <1>1, <1>6, <2>1 DEF Guests, Active
    <3>4. Cardinality(Guests') = Cardinality(Guests) + 1
      BY <3>2, <3>3, FS_AddElement
    <3>5. wwwguestnum = Cardinality(Guests) /\ wwwguestnum' = Incr(wwwguestnum)
      BY <1>3, <2>1 DEF ChainsHeld, GuestsCounted
    <3> QED BY <3>2, <3>4, <3>5, ConstantsAssumption DEF GuestsCounted, Incr
  <2>2. CASE ~g
    BY <1>3, <1>6, <2>2 DEF ChainsHeld, GuestsCounted
  <2> QED BY <2>1, <2>2
<1> QED BY <1>12, <1>13, <1>14 DEF ChainsHeld
\* A slot that is on no chain is given back.
LEMMA ChainsFreed ==
  ASSUME TypeInv, ChainsHeld, NEW s \in Slots, uinfo[s].active, FreeSlot(s),
         pc' \notin Busy, BeingFreed \subseteq {s}, \A h \in Hashes : s \notin Chain(h),
         wwwguestnum' = IF IsWwwGuest(s) THEN Decr(wwwguestnum) ELSE wwwguestnum
  PROVE  ChainsHeld'
<1>1. /\ uinfo' = [uinfo EXCEPT ![s] = Empty]
      /\ next' = [next EXCEPT ![s] = head[0]] /\ head' = [head EXCEPT ![0] = s]
  BY DEF FreeSlot
<1>2. ~uinfo'[s].active /\ \A t \in Slots : t # s => uinfo'[t] = uinfo[t]
  BY <1>1 DEF TypeInv, TypeOK, TableOK, Empty
<1>3. Guests' = Guests \ {s} /\ \A h \in Hashes : GuestsOf(h)' = GuestsOf(h) \ {s}
  BY <1>2 DEF Guests, GuestsOf, Active, IsWwwGuest
<1>4. \A h \in Hashes : Chain(h)' = Chain(h)
  <2>1. BeingFreed' = {}
    BY DEF BeingFreed, Busy
  <2> QED BY <1>3, <2>1 DEF Chain
<1>5. Chained'
  <2> SUFFICES ASSUME NEW h \in Hashes PROVE IsList(head[h], next, Chain(h))'
    BY DEF Chained
  <2>1. head'[h] = head[h]
    BY <1>1, ConstantsAssumption DEF TypeInv, TypeOK, TableOK, Hashes
  <2>2. \A t \in Chain(h) : next'[t] = next[t]
    BY <1>1 DEF TypeInv, TypeOK, TableOK, Chain, GuestsOf, Active
  <2>3. IsList(head[h], next, Chain(h))
    BY DEF ChainsHeld, Chained
  <2> QED BY <1>4, <2>1, <2>2, <2>3, ListSame
<1>6. WalkOK'
  BY DEF WalkOK, Busy
<1>7. GuestsCounted'
  <2>1. CASE IsWwwGuest(s)
    <3>1. s \in Guests /\ Guests \in SUBSET Slots
      BY <2>1 DEF Guests, Active
    <3>2. IsFiniteSet(Guests) /\ Cardinality(Guests) \in Nat
      BY <3>1, GuestsFinite
    <3>3. Cardinality(Guests') = Cardinality(Guests) - 1
      BY <1>3, <3>1, <3>2, FS_RemoveElement
    <3>4. Guests' \in SUBSET Slots
      BY <1>3, <3>1
    <3>5. Cardinality(Guests') \in Nat
      BY <3>4, GuestsFinite
    <3> QED BY <2>1, <3>2, <3>3, <3>5 DEF ChainsHeld, GuestsCounted, Decr
  <2>2. CASE ~IsWwwGuest(s)
    <3>1. Guests' = Guests
      BY <1>3, <2>2 DEF Guests
    <3> QED BY <2>2, <3>1 DEF ChainsHeld, GuestsCounted
  <2> QED BY <2>1, <2>2
<1> QED BY <1>5, <1>6, <1>7 DEF ChainsHeld

\* A guest is on the chain its host hashes to, and on no other.
LEMMA OnOneChain ==
  ASSUME TypeInv, NEW s \in Guests
  PROVE  /\ s \in Slots /\ MaskHash[uinfo[s].from] \in Hashes
         /\ \A h \in Hashes : s \in GuestsOf(h) <=> h = MaskHash[uinfo[s].from]
<1>1. s \in Slots /\ s \in Active /\ IsWwwGuest(s)
  BY DEF Guests, Active
<1>2. uinfo[s].from \in Hosts
  BY <1>1 DEF TypeInv, TypeOK, TableOK, UserInfo
<1> QED BY <1>1, <1>2, ConstantsAssumption DEF Hashes, GuestsOf

LEMMA DecideChains ==
  ASSUME TypeInv, ChainsHeld, KickDecide PROVE ChainsHeld'
<1> DEFINE h == MaskHash[uinfo[kn].from]
<1>1. /\ kn \in Slots /\ uinfo[kn].active /\ pc = "scan"
      /\ UNCHANGED <<next, uinfo, wwwguestnum, kn>>
  BY DEF KickDecide, Expired
<1>2. /\ BeingFreed = {} /\ BeingFreed' = IF pc' = "release" THEN {kn} ELSE {}
      /\ Guests' = Guests /\ \A c \in Hashes : GuestsOf(c)' = GuestsOf(c)
  BY <1>1 DEF BeingFreed, Guests, GuestsOf, Active, IsWwwGuest
<1>3. GuestsCounted'
  BY <1>1, <1>2 DEF ChainsHeld, GuestsCounted
<1>4. \A c \in Hashes : /\ IsList(head[c], next, GuestsOf(c))
                        /\ GuestsOf(c) \in SUBSET Slots
  <2>1. \A c \in Hashes : Chain(c) = GuestsOf(c)
    BY <1>2 DEF Chain
  <2> QED BY <2>1 DEF ChainsHeld, Chained, GuestsOf, Active
<1>5. CASE ~IsWwwGuest(kn)
  <2>1. pc' = "release" /\ head' = head
    BY <1>5 DEF KickDecide
  <2>2. \A c \in Hashes : Chain(c)' = GuestsOf(c)
    BY <1>2, <1>5, <2>1 DEF Chain, GuestsOf
  <2> QED BY <1>1, <1>3, <1>4, <2>1, <2>2 DEF ChainsHeld, Chained, WalkOK
<1>6. CASE IsWwwGuest(kn)
  <2>1. kn \in Guests
    BY <1>1, <1>6 DEF Guests, Active
  <2>2. h \in Hashes /\ \A c \in Hashes : kn \in GuestsOf(c) <=> c = h
    BY <2>1, OnOneChain
  <2>3. \/ head[h] = kn /\ pc' = "release" /\ head' = [head EXCEPT ![h] = next[kn]]
        \/ head[h] # kn /\ pc' = "walk" /\ ki' = head[h] /\ head' = head
    BY <1>6 DEF KickDecide
  <2> HIDE DEF h
  <2>4. CASE head[h] = kn /\ pc' = "release" /\ head' = [head EXCEPT ![h] = next[kn]]
    <3>1. \A c \in Hashes : head'[c] = IF c = h THEN next[kn] ELSE head[c]
      BY <2>2, <2>4 DEF TypeInv, TypeOK, TableOK, Hashes
    <3>2. \A c \in Hashes : Chain(c)' = GuestsOf(c) \ {kn}
      BY <1>2, <2>4 DEF Chain
    <3>3. ASSUME NEW c \in Hashes PROVE IsList(head[c], next, Chain(c))'
      <4>1. IsList(head[c], next, GuestsOf(c)) /\ GuestsOf(c) \in SUBSET Slots
        BY <1>4
      <4>2. CASE c = h
        <5>1. IsList(next[kn], next, GuestsOf(c) \ {kn})
          BY <2>2, <2>4, <4>1, <4>2, ListPop
        <5> QED BY <1>1, <3>1, <3>2, <4>2, <5>1
      <4>3. CASE c # h
        <5>1. Chain(c)' = GuestsOf(c) /\ head'[c] = head[c]
          BY <2>2, <3>1, <3>2, <4>3
        <5> QED BY <1>1, <4>1, <5>1
      <4> QED BY <4>2, <4>3
    <3> QED BY <1>3, <2>4, <3>3 DEF ChainsHeld, Chained, WalkOK
  <2>5. CASE head[h] # kn /\ pc' = "walk" /\ ki' = head[h] /\ head' = head
    <3>1. \A c \in Hashes : Chain(c)' = GuestsOf(c)
      BY <1>2, <2>5 DEF Chain
    <3>2. Chained'
      BY <1>1, <1>4, <2>5, <3>1 DEF Chained
    <3>3. IsList(head[h], next, GuestsOf(h)) /\ GuestsOf(h) \in SUBSET Slots /\ kn \in GuestsOf(h)
      BY <1>4, <2>2
    <3>4. head[h] \in GuestsOf(h) /\ head[h] \in 0 .. MAXACTIVE
      BY <2>2, <3>3 DEF IsList, Within, Whole, TypeInv, TypeOK, TableOK, Hashes
    <3>5. \A T \in SUBSET Slots : head[h] \in T /\ Closed(T) => kn \in T
      BY <3>3, <3>4, ListReach
    <3>6. \A T : Closed(T)' <=> Closed(T)
      BY <1>1 DEF Closed
    <3>7. MaskHash[uinfo'[kn'].from] = h
      BY <1>1 DEF h
    <3>8. WalkOK'
      BY <1>1, <1>2, <2>1, <2>2, <2>5, <3>1, <3>4, <3>5, <3>6, <3>7 DEF WalkOK
    <3> QED BY <1>3, <3>2, <3>8 DEF ChainsHeld
  <2> QED BY <2>3, <2>4, <2>5
<1> QED BY <1>5, <1>6

LEMMA WalkChains ==
  ASSUME TypeInv, ChainsHeld, KickWalk PROVE ChainsHeld'
<1> DEFINE h == MaskHash[uinfo[kn].from]
<1>1. /\ pc = "walk" /\ UNCHANGED <<head, uinfo, wwwguestnum, kn>>
      /\ kn \in Guests /\ ki # kn /\ ki \in Chain(h)
      /\ \A T \in SUBSET Slots : ki \in T /\ Closed(T) => kn \in T
  BY DEF KickWalk, ChainsHeld, WalkOK
<1>2. h \in Hashes /\ kn \in Slots /\ \A c \in Hashes : kn \in GuestsOf(c) <=> c = h
  BY <1>1, OnOneChain
<1>3. /\ BeingFreed = {} /\ BeingFreed' = IF pc' = "release" THEN {kn} ELSE {}
      /\ Guests' = Guests /\ \A c \in Hashes : GuestsOf(c)' = GuestsOf(c)
  BY <1>1 DEF BeingFreed, Guests, GuestsOf, Active, IsWwwGuest
<1>4. \A c \in Hashes : /\ Chain(c) = GuestsOf(c) /\ IsList(head[c], next, GuestsOf(c))
                        /\ GuestsOf(c) \in SUBSET Slots
  BY <1>3 DEF Chain, ChainsHeld, Chained, GuestsOf, Active
<1>5. GuestsCounted'
  BY <1>1, <1>3 DEF ChainsHeld, GuestsCounted
<1>6. ki \in Slots /\ ki \in GuestsOf(h) /\ ki # 0
  BY <1>1, <1>2, <1>4 DEF Slots
<1>7. next[ki] # 0 /\ next[ki] \in GuestsOf(h)
  <2>1. ASSUME next[ki] = 0 PROVE FALSE
    <3> DEFINE T == {ki}
    <3>1. T \in SUBSET Slots /\ ki \in T /\ Closed(T)
      BY <1>6, <2>1 DEF Closed
    <3>2. kn \in T
      BY <1>1, <3>1
    <3> QED BY <1>1, <3>2
  <2> QED BY <1>2, <1>4, <1>6, <2>1 DEF IsList, Within
<1>8. \/ next[ki] = kn /\ pc' = "release" /\ next' = [next EXCEPT ![ki] = next[kn]]
      \/ next[ki] # kn /\ ki' = next[ki] /\ UNCHANGED <<pc, next>>
  BY <1>6, <1>7 DEF KickWalk
<1>9. h' = h
  BY <1>1
<1> HIDE DEF h
<1>10. CASE next[ki] = kn /\ pc' = "release" /\ next' = [next EXCEPT ![ki] = next[kn]]
  <2>1. next'[ki] = next[kn] /\ \A s \in Slots : s # ki => next'[s] = next[s]
    BY <1>6, <1>10 DEF TypeInv, TypeOK, TableOK
  <2>2. \A c \in Hashes : Chain(c)' = GuestsOf(c) \ {kn}
    BY <1>3, <1>10 DEF Chain
  <2>3. ASSUME NEW c \in Hashes PROVE IsList(head[c], next, Chain(c))'
    <3>1. IsList(head[c], next, GuestsOf(c)) /\ GuestsOf(c) \in SUBSET Slots
      BY <1>4
    <3>2. CASE c = h
      <4>1. /\ ki \in GuestsOf(c) /\ kn \in GuestsOf(c) /\ ki # kn
            /\ \A s \in GuestsOf(c) \ {ki} : next'[s] = next[s]
        BY <1>1, <1>2, <1>6, <2>1, <3>1, <3>2
      <4>2. IsList(head[c], next', GuestsOf(c) \ {kn})
        BY Zenon, <1>10, <2>1, <3>1, <4>1, ListUnlink
      <4> QED BY <1>1, <2>2, <4>2
    <3>3. CASE c # h
      <4>1. ki \notin GuestsOf(c) /\ Chain(c)' = GuestsOf(c)
        <5>1. ki \in Guests /\ MaskHash[uinfo[ki].from] = h
          BY <1>6 DEF GuestsOf, Guests
        <5>2. ki \notin GuestsOf(c)
          BY <3>3, <5>1, OnOneChain
        <5> QED BY <1>2, <2>2, <3>3, <5>2
      <4>2. \A s \in GuestsOf(c) : next'[s] = next[s]
        BY <2>1, <3>1, <4>1
      <4>3. IsList(head[c], next', GuestsOf(c))
        BY <3>1, <4>2, ListSame
      <4> QED BY <1>1, <4>1, <4>3
    <3> QED BY <3>2, <3>3
  <2> QED BY <1>5, <1>10, <2>3 DEF ChainsHeld, Chained, WalkOK
<1>11. CASE next[ki] # kn /\ ki' = next[ki] /\ UNCHANGED <<pc, next>>
  <2>1. \A c \in Hashes : Chain(c)' = GuestsOf(c)
    BY <1>1, <1>3, <1>11 DEF Chain
  <2>2. Chained'
    BY <1>1, <1>4, <1>11, <2>1 DEF Chained
  <2>3. ASSUME NEW T \in SUBSET Slots, next[ki] \in T, Closed(T) PROVE kn \in T
    <3> DEFINE U == T \cup {ki}
    <3>1. U \in SUBSET Slots /\ ki \in U /\ Closed(U)
      BY <1>6, <2>3 DEF Closed
    <3>2. kn \in U
      BY <1>1, <3>1
    <3> QED BY <1>1, <3>2
  <2>4. \A T : Closed(T)' <=> Closed(T)
    BY <1>11 DEF Closed
  <2>5. MaskHash[uinfo'[kn'].from] = h
    BY <1>1 DEF h
  <2>6. /\ kn' \in Guests' /\ ki' # kn' /\ ki' \in Chain(h)'
        /\ \A T \in SUBSET Slots : ki' \in T /\ Closed(T)' => kn' \in T
    BY <1>1, <1>2, <1>3, <1>7, <1>9, <1>11, <2>1, <2>3, <2>4
  <2>7. WalkOK'
    BY <1>9, <2>5, <2>6 DEF WalkOK
  <2> QED BY <1>5, <2>2, <2>7 DEF ChainsHeld
<1> QED BY <1>8, <1>10, <1>11
LEMMA TableUntouched ==
  ASSUME TypeInv, ChainsHeld, UNCHANGED <<head, next, uinfo, wwwguestnum>>,
         UNCHANGED <<pc, kn, ki>> \/ (pc \notin Busy /\ pc' \notin Busy)
  PROVE  ChainsHeld'
BY ChainsQuiet DEF SameSessions, NamesKept

LEMMA KickidleChains ==
  ASSUME TypeInv, ChainsHeld, Kickidle PROVE ChainsHeld'
<1>1. CASE KickSkip
  BY <1>1, TableUntouched DEF KickSkip, shm, Busy
<1>2. CASE KickRelease
  <2>1. /\ kn \in Slots /\ uinfo[kn].active /\ FreeSlot(kn) /\ pc = "release" /\ pc' = "scan"
        /\ wwwguestnum' = IF IsWwwGuest(kn) THEN Decr(wwwguestnum) ELSE wwwguestnum
    BY <1>2 DEF KickRelease, TypeInv, Control, KnOK
  <2>2. BeingFreed = {kn} /\ \A h \in Hashes : kn \notin Chain(h)
    BY <2>1 DEF BeingFreed, Chain
  <2> QED BY <2>1, <2>2, ChainsFreed DEF Busy
<1>3. CASE Unlock
  BY <1>3, TableUntouched DEF Unlock, shm, Busy
<1> QED BY <1>1, <1>2, <1>3, DecideChains, WalkChains DEF Kickidle

LEMMA NotBusy ==
  ASSUME TypeInv, ~LockHolderDies, pc' = "free" PROVE pc \notin Busy
<1> SUFFICES ASSUME pc \in Busy PROVE FALSE
  OBVIOUS
<1>1. kn \in 1 .. MAXACTIVE /\ MAXACTIVE \in Nat
  BY ConstantsAssumption DEF TypeInv, Control, KnOK, Slots, Busy
<1>2. kn # MAXACTIVE + 1
  BY <1>1
<1> QED BY <1>2 DEF LockHolderDies, Busy

\* A logout, which is never a guest's.
LEMMA LogoutChains ==
  ASSUME TypeInv, ChainsHeld, NEW s \in Slots, uinfo[s].active, ~IsWwwGuest(s),
         FreeSlot(s), UNCHANGED <<wwwguestnum, pc>>, pc = "free"
  PROVE  ChainsHeld'
<1>1. BeingFreed = {} /\ \A h \in Hashes : s \notin Chain(h)
  BY DEF BeingFreed, Chain, GuestsOf
<1> QED BY <1>1, ChainsFreed DEF Busy

LEMMA TelnetChains ==
  ASSUME TypeInv, SlotsHeld, ChainsHeld, NEW p \in Procs, Telnet(p), ~LockHolderDies
  PROVE  ChainsHeld'
<1>1. CASE \/ \E u \in Users \cup {Guest} : Enter(p, u)
           \/ \E u \in Users : EnterKicking(p, u)
           \/ Leave(p)
  <2>1. UNCHANGED <<shm, lock>>
    BY Zenon, <1>1 DEF Enter, EnterKicking, Leave
  <2> QED BY <2>1, TableUntouched DEF shm, lock
<1>2. CASE TelnetLogin(p)
  <2>1. CASE SlotForLogin
    <3> DEFINE up == Session(proc[p].user, p, TelnetHost)
    <3>1. up \in UserInfo
      BY SessionTyped, ConstantsAssumption DEF TypeInv, TypeOK, ActorsOK, Process
    <3>2. up.active
      BY DEF Session
    <3>3. utmp_login(up, uindex, p) /\ pc \notin Busy
      BY <1>2, <2>1 DEF TelnetLogin, Busy
    <3>4. ~uinfo[head[0]].active
      BY <2>1, HeadIsSlot DEF SlotForLogin, SlotsHeld, SessionsNamed
    <3> HIDE DEF up
    <3> QED BY <2>1, <3>1, <3>2, <3>3, <3>4, ChainsTaken
  <2>2. CASE ~SlotForLogin
    BY <1>2, <2>2, TableUntouched DEF TelnetLogin, shm, lock
  <2> QED BY <2>1, <2>2
<1>3. CASE Touch(p)
  <2>1. UNCHANGED <<head, next, wwwguestnum, pc, kn, ki>>
    BY <1>3 DEF Touch, lock
  <2> QED BY <1>3, <2>1, TouchKeeps, ChainsQuiet
<1>4. CASE TelnetLogout(p)
  <2> DEFINE s == proc[p].slot
  <2>1. s \in Slots /\ uinfo[s].active /\ uinfo[s].pid = p /\ p # WWW
    BY <1>4, ConstantsAssumption DEF TelnetLogout, SlotsHeld, ProcsHold, ProcHolds, HasSlot, WWW
  <2>2. FreeSlot(s) /\ UNCHANGED <<wwwguestnum, lock>> /\ pc = "free"
    BY <1>4, <2>1 DEF TelnetLogout
  <2>3. ~IsWwwGuest(s)
    BY <2>1 DEF IsWwwGuest
  <2> QED BY <2>1, <2>2, <2>3, LogoutChains DEF lock
<1>5. CASE Die(p)
  <2>1. /\ UNCHANGED <<head, next, uinfo, wwwguestnum>>
        /\ pc' = "free" \/ UNCHANGED <<pc, kn, ki>>
    BY <1>5 DEF Die, shm
  <2>2. pc' = "free" => pc \notin Busy /\ pc' \notin Busy
    BY NotBusy DEF Busy
  <2> QED BY <2>1, <2>2, TableUntouched
<1> QED BY <1>1, <1>2, <1>3, <1>4, <1>5 DEF Telnet

LEMMA WebChains ==
  ASSUME TypeInv, SlotsHeld, ChainsHeld,
         \/ \E u \in Users, host \in Hosts : WwwLogin(u, host)
         \/ \E host \in Hosts : GuestLogin(host)
  PROVE  ChainsHeld'
<1>1. ASSUME NEW u \in Users \cup {Guest}, NEW host \in Hosts, NEW ix, SlotForLogin,
             utmp_login(Session(u, WWW, host), ix, WWW), pc = "free"
      PROVE  ChainsHeld'
  <2> DEFINE up == Session(u, WWW, host)
  <2>1. up \in UserInfo /\ utmp_login(up, ix, WWW)
    BY <1>1, SessionTyped
  <2>2. up.active
    BY DEF Session
  <2>3. ~uinfo[head[0]].active /\ pc \notin Busy
    BY <1>1, HeadIsSlot DEF SlotForLogin, SlotsHeld, SessionsNamed, Busy
  <2> HIDE DEF up
  <2> QED BY <1>1, <2>1, <2>2, <2>3, ChainsTaken
<1>2. ASSUME NEW u \in Users, NEW host \in Hosts, WwwLogin(u, host) PROVE ChainsHeld'
  <2>1. \/ SlotForLogin /\ \E ix : utmp_login(Session(u, WWW, host), ix, WWW)
        \/ UNCHANGED <<head, next, uinfo, wwwguestnum, lock>>
    BY <1>2 DEF WwwLogin
  <2>2. pc = "free"
    BY <1>2 DEF WwwLogin
  <2>3. CASE UNCHANGED <<head, next, uinfo, wwwguestnum, lock>>
    BY <2>3, TableUntouched DEF lock
  <2> QED BY <1>1, <2>1, <2>2, <2>3
<1>3. ASSUME NEW host \in Hosts, GuestLogin(host) PROVE ChainsHeld'
  <2>1. CASE Looping(RealHash[host])
    BY <1>3, <2>1, TableUntouched DEF GuestLogin, shm, Busy
  <2>2. CASE ~Looping(RealHash[host])
    <3>1. SlotForLogin /\ utmp_login(Session(Guest, WWW, host), uindex, WWW) /\ pc = "free"
      BY <1>3, <2>2 DEF GuestLogin
    <3> QED BY <1>1, <3>1
  <2> QED BY <2>1, <2>2
<1> QED BY <1>2, <1>3

LEMMA PageChains ==
  ASSUME TypeInv, SlotsHeld, ChainsHeld, NEW r \in Reqs, Page(r), ~StaleLogout
  PROVE  ChainsHeld'
<1>1. ASSUME NEW s \in Slots, ReqStart(r, s) PROVE ChainsHeld'
  BY <1>1, StartKeeps, ChainsQuiet DEF ReqStart, lock
<1>2. CASE ReqEnd(r)
  BY <1>2, EndKeeps, ChainsQuiet DEF ReqEnd, lock
<1>3. CASE LogoutCount(r)
  BY <1>3, TableUntouched DEF LogoutCount, shm, lock
<1>4. CASE WwwLogout(r)
  <2> DEFINE s == req[r].slot
  <2>1. /\ s \in Slots /\ uinfo[s].active /\ uinfo[s].pid = WWW /\ uinfo[s].uid # Guest
        /\ FreeSlot(s) /\ UNCHANGED <<wwwguestnum, lock>> /\ pc = "free"
    BY <1>4, LogoutInTime
  <2>2. ~IsWwwGuest(s)
    BY <2>1 DEF IsWwwGuest, SlotsHeld, SessionsNamed
  <2> QED BY <2>1, <2>2, LogoutChains DEF lock
<1> QED BY <1>1, <1>2, <1>3, <1>4 DEF Page

LEMMA OtherChains ==
  ASSUME TypeInv, ChainsHeld, ~LockHolderDies,
         \/ \E s \in Slots : Kick(s) \/ Age(s)
         \/ CgiDie \/ Minute
         \/ \E a \in Procs \cup Reqs : ClearEntry(a)
         \/ UNCHANGED vars
  PROVE  ChainsHeld'
<1>1. ASSUME NEW s \in Slots, Kick(s) \/ Age(s) PROVE ChainsHeld'
  BY <1>1, AgeKeeps, ChainsQuiet DEF Kick, Age, lock
<1>2. CASE CgiDie
  <2>1. UNCHANGED <<head, next, uinfo, wwwguestnum>> /\ pc' = "free"
    BY <1>2 DEF CgiDie, shm
  <2>2. pc \notin Busy /\ pc' \notin Busy
    BY <2>1, NotBusy DEF Busy
  <2> QED BY <2>1, <2>2, TableUntouched
<1>3. CASE Minute \/ UNCHANGED vars
  BY <1>3, TableUntouched DEF Minute, vars, shm, lock
<1>4. ASSUME NEW a \in Procs \cup Reqs, ClearEntry(a) PROVE ChainsHeld'
  BY <1>4, TableUntouched DEF ClearEntry, lock
<1> QED BY <1>1, <1>2, <1>3, <1>4

LEMMA InitChains == Init => ChainsHeld
<1> SUFFICES ASSUME Init PROVE ChainsHeld
  OBVIOUS
<1>1. Guests = {} /\ \A h : Chain(h) = {}
  BY DEF Init, Guests, Chain, GuestsOf, Active, Empty
<1>2. \A h \in Hashes : head[h] = 0
  BY ConstantsAssumption DEF Init, Hashes
<1>3. \A h \in Hashes : IsList(head[h], next, {})
  BY <1>2 DEF IsList, Within, Once, Whole
<1>4. Cardinality({}) = 0
  BY FS_EmptySet
<1> QED BY <1>1, <1>3, <1>4 DEF Init, ChainsHeld, Chained, WalkOK, GuestsCounted

LEMMA NextChains ==
  TypeInv /\ SlotsHeld /\ ChainsHeld /\ [OrderlyNext]_vars => ChainsHeld'
<1> SUFFICES ASSUME TypeInv, SlotsHeld, ChainsHeld, [OrderlyNext]_vars PROVE ChainsHeld'
  OBVIOUS
<1>1. CASE UNCHANGED vars
  <2>1. ~LockHolderDies
    BY <1>1 DEF vars, lock, LockHolderDies
  <2> QED BY <1>1, <2>1, OtherChains
<1>2. CASE OrderlyNext
  BY <1>2, KickidleChains, TelnetChains, WebChains, PageChains, OtherChains
  DEF OrderlyNext, Next
<1> QED BY <1>1, <1>2

LEMMA OrderlyIsLive == OrderlySpec => LiveSpec
<1>1. [OrderlyNext]_vars => [Next /\ ~StaleLogout]_vars
  BY DEF OrderlyNext
<1> QED BY <1>1, PTL DEF OrderlySpec, LiveSpec

\* The property a run checks, under that run's specification.
THEOREM TelnetOrderly == OrderlySpec => []TelnetKeepsSlot
BY OrderlyIsLive, TelnetSlotsCorrect, PTL

\* The chain of every guest hash holds exactly the guests whose masked address
\* hashes there, and wwwguestnum counts them: utmp_kickidle's search for the
\* predecessor always finds it and never runs into the free list, although logins,
\* logouts, kicks and requests come between any two steps of its loop, as long as
\* the holder of the lock does not die there and no logout is late.
THEOREM GuestChainsCorrect == OrderlySpec => []GuestChainsExact
<1> DEFINE IInv == TypeInv /\ SlotsHeld /\ ChainsHeld
<1>1. Init => IInv
  BY InitTyped, InitHeld, InitChains
<1>2. IInv /\ [OrderlyNext]_vars => IInv'
  BY NextTyped, NextHeld, NextChains DEF OrderlyNext
<1>3. IInv => GuestChainsExact
  <2> SUFFICES ASSUME IInv PROVE GuestChainsExact
    OBVIOUS
  <2>1. ASSUME NEW h \in 1 .. UTMPHASH_SIZE PROVE Reach(head[h]) = GuestsOf(h) \ BeingFreed
    <3>1. head[h] \in 0 .. MAXACTIVE /\ Chain(h) \in SUBSET Slots
      BY DEF TypeInv, TypeOK, TableOK, Chain, GuestsOf, Active
    <3>2. IsList(head[h], next, Chain(h))
      BY DEF ChainsHeld, Chained, Hashes
    <3> QED BY <3>1, <3>2, ListReach DEF Chain
  <2> QED BY <2>1 DEF ChainsHeld, GuestsCounted, Guests, GuestChainsExact
<1> QED BY <1>1, <1>2, <1>3, PTL DEF OrderlySpec
-----------------------------------------------------------------------------
(***************************************************************************)
(* Requests and utmp_kickidle.  Nothing but a new session takes back that  *)
(* a slot was kicked or has idled for 20 minutes.                          *)
(***************************************************************************)
IdleStays ==
  pc \in {"walk", "release"} /\ uinfo[kn].pid = WWW => uinfo[kn].age = 2 \/ uinfo[kn].kicked

FlagsKept ==
  \A s \in Slots : /\ uinfo'[s].pid = uinfo[s].pid
                   /\ uinfo[s].pid = WWW => /\ uinfo[s].age = 2 => uinfo'[s].age = 2
                                            /\ uinfo[s].kicked => uinfo'[s].kicked

LEMMA IdleKept ==
  ASSUME TypeInv, IdleStays, FlagsKept,
         UNCHANGED <<pc, kn>> \/ pc' \notin {"walk", "release"}
  PROVE  IdleStays'
BY DEF IdleStays, FlagsKept, TypeInv, Control, KnOK

LEMMA FlagsSame == UNCHANGED uinfo => FlagsKept
BY DEF FlagsKept

LEMMA OneFlags ==
  ASSUME TypeInv, NEW s \in Slots, \A t \in Slots \ {s} : uinfo'[t] = uinfo[t],
         uinfo'[s].pid = uinfo[s].pid,
         uinfo[s].pid = WWW => /\ uinfo[s].age = 2 => uinfo'[s].age = 2
                               /\ uinfo[s].kicked => uinfo'[s].kicked
  PROVE  FlagsKept
BY DEF FlagsKept

LEMMA KickFlags ==
  ASSUME TypeInv, NEW s \in Slots, uinfo' = [uinfo EXCEPT ![s].kicked = TRUE]
  PROVE  FlagsKept
<1>1. uinfo[s] \in UserInfo /\ uinfo \in [Slots -> UserInfo]
  BY DEF TypeInv, TypeOK, TableOK
<1>2. /\ uinfo'[s] = [uinfo[s] EXCEPT !.kicked = TRUE]
      /\ \A t \in Slots \ {s} : uinfo'[t] = uinfo[t]
  BY <1>1
<1>3. uinfo'[s].pid = uinfo[s].pid /\ uinfo'[s].age = uinfo[s].age /\ uinfo'[s].kicked
  BY <1>1, <1>2 DEF UserInfo
<1> QED BY <1>2, <1>3, OneFlags

LEMMA TouchFlags ==
  ASSUME TypeInv, SlotsHeld, NEW p \in Procs, Touch(p) PROVE FlagsKept
<1> DEFINE s == proc[p].slot
<1>1. s \in Slots /\ uinfo[s].pid = p /\ p # WWW
  BY ConstantsAssumption DEF Touch, SlotsHeld, ProcsHold, ProcHolds, HasSlot, WWW
<1>2. uinfo' = [uinfo EXCEPT ![s].age = 0, ![s].from = TelnetHost,
                             ![s].userid = proc[p].user, ![s].kicked = FALSE]
  BY DEF Touch
<1> HIDE DEF s
<1>3. \A t \in Slots \ {s} : uinfo'[t] = uinfo[t]
  BY <1>2 DEF TypeInv, TypeOK, TableOK
<1>4. uinfo'[s].pid = uinfo[s].pid
  BY <1>1, TouchKeeps DEF SameSessions
<1> QED BY <1>1, <1>3, <1>4, OneFlags

LEMMA RequestFlags ==
  ASSUME TypeInv, NEW r \in Reqs, (\E s \in Slots : ReqStart(r, s)) \/ ReqEnd(r)
  PROVE  FlagsKept
<1>1. ASSUME NEW s \in Slots, ReqStart(r, s) PROVE FlagsKept
  <2>1. uinfo' = [uinfo EXCEPT ![s].age = 0] /\ uinfo[s].age = 0 /\ ~uinfo[s].kicked
    BY <1>1 DEF ReqStart
  <2>2. uinfo'[s].pid = uinfo[s].pid /\ \A t \in Slots \ {s} : uinfo'[t] = uinfo[t]
    BY <2>1 DEF TypeInv, TypeOK, TableOK, UserInfo
  <2> QED BY <2>1, <2>2, OneFlags
<1>2. CASE ReqEnd(r)
  <2>1. CASE UNCHANGED uinfo
    BY <2>1, FlagsSame
  <2>2. CASE uinfo' = [uinfo EXCEPT ![req[r].slot].kicked = TRUE]
    <3>1. req[r].slot \in Slots
      BY <1>2 DEF ReqEnd, TypeInv, Control, HandlesOK
    <3> QED BY <2>2, <3>1, KickFlags
  <2> QED BY <1>2, <2>1, <2>2 DEF ReqEnd
<1> QED BY <1>1, <1>2

LEMMA AgeFlags ==
  ASSUME TypeInv, NEW s \in Slots, Kick(s) \/ Age(s) PROVE FlagsKept
<1>1. CASE Kick(s)
  BY <1>1, KickFlags DEF Kick
<1>2. CASE Age(s)
  <2>1. uinfo' = [uinfo EXCEPT ![s].age = uinfo[s].age + 1] /\ uinfo[s].age < 2
    BY <1>2 DEF Age
  <2>2. /\ uinfo'[s].pid = uinfo[s].pid /\ uinfo'[s].kicked = uinfo[s].kicked
        /\ \A t \in Slots \ {s} : uinfo'[t] = uinfo[t]
    BY <2>1 DEF TypeInv, TypeOK, TableOK, UserInfo
  <2> QED BY <2>1, <2>2, OneFlags
<1> QED BY <1>1, <1>2

LEMMA NextIdle ==
  TypeInv /\ SlotsHeld /\ IdleStays /\ [Next]_vars => IdleStays'
<1> SUFFICES ASSUME TypeInv, SlotsHeld, IdleStays, [Next]_vars PROVE IdleStays'
  OBVIOUS
<1>1. ASSUME pc' \notin {"walk", "release"} PROVE IdleStays'
  BY <1>1 DEF IdleStays
<1>2. ASSUME UNCHANGED <<uinfo, pc, kn>> PROVE IdleStays'
  BY <1>2, FlagsSame, IdleKept
<1>3. CASE Kickidle
  <2>1. CASE KickSkip
    BY <1>1, <2>1 DEF KickSkip
  <2>2. CASE KickDecide
    BY <2>2 DEF KickDecide, Expired, IdleStays
  <2>3. CASE KickWalk
    BY <2>3, FlagsSame, IdleKept DEF KickWalk, IdleStays
  <2>4. CASE KickRelease \/ Unlock
    BY <1>1, <2>4 DEF KickRelease, Unlock
  <2> QED BY <1>3, <2>1, <2>2, <2>3, <2>4 DEF Kickidle
<1>4. ASSUME NEW p \in Procs, Telnet(p) PROVE IdleStays'
  <2>1. CASE \/ \E u \in Users \cup {Guest} : Enter(p, u)
             \/ \E u \in Users : EnterKicking(p, u)
             \/ Leave(p)
    <3>1. UNCHANGED <<shm, lock>>
      BY Zenon, <2>1 DEF Enter, EnterKicking, Leave
    <3> QED BY <1>2, <3>1 DEF shm, lock
  <2>2. CASE TelnetLogin(p) \/ TelnetLogout(p)
    <3>1. pc = "free" /\ pc' \in {"scan", "free"}
      BY <2>2 DEF TelnetLogin, TelnetLogout, utmp_login, lock
    <3> QED BY <1>1, <3>1
  <2>3. CASE Touch(p)
    <3>1. UNCHANGED <<pc, kn>>
      BY <2>3 DEF Touch, lock
    <3> QED BY <2>3, <3>1, TouchFlags, IdleKept
  <2>4. CASE Die(p)
    <3>1. pc' = "free" \/ UNCHANGED <<uinfo, pc, kn>>
      BY <2>4 DEF Die, shm
    <3> QED BY <1>1, <1>2, <3>1
  <2> QED BY <1>4, <2>1, <2>2, <2>3, <2>4 DEF Telnet
<1>5. ASSUME \/ \E u \in Users, host \in Hosts : WwwLogin(u, host)
             \/ \E host \in Hosts : GuestLogin(host)
      PROVE  IdleStays'
  <2>1. pc' \in {"scan", "free", "hung"}
    BY <1>5 DEF WwwLogin, GuestLogin, utmp_login, lock
  <2> QED BY <1>1, <2>1
<1>6. ASSUME NEW r \in Reqs, Page(r) PROVE IdleStays'
  <2>1. CASE (\E s \in Slots : ReqStart(r, s)) \/ ReqEnd(r)
    <3>1. UNCHANGED <<pc, kn>>
      BY <2>1 DEF ReqStart, ReqEnd, lock
    <3> QED BY <2>1, <3>1, RequestFlags, IdleKept
  <2>2. CASE LogoutCount(r)
    BY <1>2, <2>2 DEF LogoutCount, shm, lock
  <2>3. CASE WwwLogout(r)
    BY <1>1, <2>3 DEF WwwLogout, lock
  <2> QED BY <1>6, <2>1, <2>2, <2>3 DEF Page
<1>7. ASSUME NEW s \in Slots, Kick(s) \/ Age(s) PROVE IdleStays'
  <2>1. UNCHANGED <<pc, kn>>
    BY <1>7 DEF Kick, Age, lock
  <2> QED BY <1>7, <2>1, AgeFlags, IdleKept
<1>8. CASE CgiDie
  BY <1>1, <1>8 DEF CgiDie
<1>9. CASE Minute \/ UNCHANGED vars
  BY <1>2, <1>9 DEF Minute, vars, shm, lock
<1>10. ASSUME NEW a \in Procs \cup Reqs, ClearEntry(a) PROVE IdleStays'
  BY <1>2, <1>10 DEF ClearEntry, lock
<1> QED BY <1>3, <1>4, <1>5, <1>6, <1>7, <1>8, <1>9, <1>10 DEF Next

\* The only step that lets a request in is user_init's.
LEMMA OnlyStart ==
  ASSUME TypeInv, Next, NEW r \in Reqs, req[r] = NoReq, req'[r] # NoReq
  PROVE  \E s \in Slots : ReqStart(r, s) /\ req'[r].slot = s
<1>1. ASSUME NEW s \in Slots, Orphaned(s)[r] # NoReq PROVE FALSE
  BY <1>1, OrphanedSame DEF TypeInv, TypeOK, ActorsOK
<1>2. req' # req
  OBVIOUS
<1>3. CASE Kickidle
  <2>1. kn \in Slots /\ req' = Orphaned(kn)
    BY <1>2, <1>3
    DEF Kickidle, KickSkip, KickDecide, KickWalk, KickRelease, Unlock, TypeInv, Control, KnOK
  <2> QED BY <1>1, <2>1
<1>4. ASSUME NEW p \in Procs, Telnet(p) PROVE FALSE
  <2>1. TelnetLogout(p)
    BY Zenon, <1>2, <1>4 DEF Telnet, Enter, EnterKicking, TelnetLogin, Touch, Leave, Die
  <2>2. proc[p].slot \in Slots /\ req' = Orphaned(proc[p].slot)
    BY <1>2, <2>1 DEF TelnetLogout, TypeInv, Control, HandlesOK, HasSlot
  <2> QED BY <1>1, <2>2
<1>5. ASSUME \/ \E u \in Users, host \in Hosts : WwwLogin(u, host)
             \/ \E host \in Hosts : GuestLogin(host)
      PROVE  FALSE
  BY <1>2, <1>5 DEF WwwLogin, GuestLogin
<1>6. ASSUME NEW x \in Reqs, Page(x) PROVE \E s \in Slots : ReqStart(r, s) /\ req'[r].slot = s
  <2>1. ASSUME NEW s \in Slots, ReqStart(x, s)
        PROVE  ReqStart(r, s) /\ req'[r].slot = s
    <3>1. req' = [req EXCEPT ![x] = [slot |-> s, uid |-> uinfo[s].uid,
                                     live |-> TRUE, counted |-> FALSE]]
      BY <2>1 DEF ReqStart
    <3>2. x = r /\ req'[r].slot = s
      BY <3>1 DEF TypeInv, TypeOK, ActorsOK
    <3> QED BY <2>1, <3>2
  <2>2. CASE ReqEnd(x)
    BY <2>2 DEF ReqEnd, TypeInv, TypeOK, ActorsOK
  <2>3. CASE LogoutCount(x)
    <3>1. x # r /\ \E u : req' = [req EXCEPT ![x].counted = TRUE, ![x].uid = u]
      BY <2>3 DEF LogoutCount
    <3> QED BY <3>1 DEF TypeInv, TypeOK, ActorsOK
  <2>4. CASE WwwLogout(x)
    <3>1. x # r /\ req[x].slot \in Slots
      BY <2>4 DEF WwwLogout, NoReq, TypeInv, Control, HandlesOK
    <3>2. req' = [Orphaned(req[x].slot) EXCEPT ![x] = NoReq] \/ req' = [req EXCEPT ![x] = NoReq]
      BY <2>4 DEF WwwLogout
    <3>3. req'[r] = Orphaned(req[x].slot)[r] \/ req'[r] = req[r]
      BY <3>1, <3>2 DEF Orphaned, TypeInv, TypeOK, ActorsOK
    <3> QED BY <1>1, <3>1, <3>3
  <2> QED BY <1>6, <2>1, <2>2, <2>3, <2>4 DEF Page
<1>7. ASSUME NEW s \in Slots, Kick(s) \/ Age(s) PROVE FALSE
  BY <1>2, <1>7 DEF Kick, Age
<1>8. ASSUME CgiDie \/ Minute \/ \E a \in Procs \cup Reqs : ClearEntry(a) PROVE FALSE
  BY <1>2, <1>8 DEF CgiDie, Minute, ClearEntry
<1> QED BY <1>3, <1>4, <1>5, <1>6, <1>7, <1>8 DEF Next

\* user_init never lets a request into a session utmp_kickidle has decided to end,
\* although neither looks at what the other does: the kick flag and the two limits
\* are enough, whoever dies holding the lock.
THEOREM AcceptCorrect == LiveSpec => NoAcceptWhileFreed
<1> DEFINE IInv == TypeInv /\ SlotsHeld /\ IdleStays
           Safe == \A r \in Reqs : req[r] = NoReq /\ req'[r] # NoReq =>
                      ~(pc \in {"walk", "release"} /\ kn = req'[r].slot)
<1>1. Init => IInv
  <2>1. Init => IdleStays
    BY DEF Init, IdleStays
  <2> QED BY <2>1, InitTyped, InitHeld
<1>2. IInv /\ [Next /\ ~StaleLogout]_vars => IInv'
  BY NextTyped, NextHeld, NextIdle
<1>3. IInv /\ [Next /\ ~StaleLogout]_vars => [Safe]_vars
  <2> SUFFICES ASSUME IInv, Next, NEW r \in Reqs, req[r] = NoReq, req'[r] # NoReq
               PROVE  ~(pc \in {"walk", "release"} /\ kn = req'[r].slot)
    OBVIOUS
  <2>1. PICK s \in Slots : ReqStart(r, s) /\ req'[r].slot = s
    BY OnlyStart
  <2>2. uinfo[s].pid = WWW /\ uinfo[s].age = 0 /\ ~uinfo[s].kicked
    BY <2>1 DEF ReqStart
  <2> QED BY <2>1, <2>2 DEF IdleStays
<1> QED BY <1>1, <1>2, <1>3, PTL DEF LiveSpec, NoAcceptWhileFreed
=============================================================================
