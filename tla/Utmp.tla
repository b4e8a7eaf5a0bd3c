-------------------------------- MODULE Utmp --------------------------------
(***************************************************************************)
(* The session table of the BBS: struct UTMPFILE and struct UINDEX in      *)
(* shared memory (libythtbbs/bbsinfo.h), the operations of                 *)
(* libythtbbs/bbsinfo.c on them, and the processes that call them: telnet  *)
(* processes (src/main.c), which own a slot from u_enter to u_exit, and    *)
(* short-lived web requests (nju09/), which find their slot again from the *)
(* session in the URL.                                                     *)
(*                                                                         *)
(* Slots are numbered from 1 as in guesthash_next.  head[0] is the head of *)
(* the free list, head[h] for h > 0 the chain of the anonymous web guests  *)
(* whose host hashes to h; all the chains share the array next.            *)
(*                                                                         *)
(* utmp_login and utmp_logout run under flock(.UTMP).  The part of a login *)
(* that takes the slot is one step; utmp_kickidle, which it ends with, is  *)
(* a loop of steps under the lock (pc, kn, ki), because user_init,         *)
(* count_uindex, the kick flag, signals and deaths do not take the lock.   *)
(*                                                                         *)
(* Time is a class per slot: age 0 is "used within 18 minutes" (web) or    *)
(* "within 120 seconds" (telnet), age 1 is "older, but not yet time-out",  *)
(* age 2 is "idle for 20 minutes" (web) or "for IDLE_TIMEOUT" (telnet).    *)
(* The data of an inactive slot is never read: it is the record Empty.     *)
(***************************************************************************)
EXTENDS Integers, FiniteSets

CONSTANTS
  MAXACTIVE,      \* number of slots
  MAXACTIVERUN,   \* slots above this one are never given out
  USHRT_MAX,      \* the largest value of the unsigned short wwwguestnum
  UTMPHASH_SIZE,  \* number of guest chains
  UIDX,           \* width of a user's row of uindex (6)
  WwwLimit,       \* sessions at which wwwlogin refuses (3)
  TelnetLimit,    \* allowedlogin of multi_user_check (2, or 3)
  Users,          \* registered users
  Guest,          \* the user "guest"
  Nobody,         \* uid of an empty record
  Procs,          \* pids of telnet processes
  Reqs,           \* concurrent web requests
  Hosts,          \* client addresses
  TelnetHost,     \* the one telnet clients come from
  RealHash,       \* utmp_iphash(realfromhost), per host
  MaskHash        \* utmp_iphash(fromhost): the host's last octets masked

Slots == 1 .. MAXACTIVE
Idx == 1 .. UIDX

ASSUME ConstantsAssumption ==
  /\ MAXACTIVE \in Nat \ {0}
  /\ MAXACTIVERUN \in Slots
  /\ USHRT_MAX \in Nat /\ USHRT_MAX >= MAXACTIVE
  /\ UTMPHASH_SIZE \in Nat \ {0}
  /\ UIDX \in Nat \ {0}
  /\ WwwLimit \in Nat /\ TelnetLimit \in Nat
  /\ Guest \notin Users /\ Nobody \notin Users \cup {Guest}
  /\ Procs \subseteq Nat \ {0, 1}
  /\ Reqs \cap Procs = {}
  /\ TelnetHost \in Hosts
  /\ RealHash \in [Hosts -> 1 .. UTMPHASH_SIZE]
  /\ MaskHash \in [Hosts -> 1 .. UTMPHASH_SIZE]

WWW == 1   \* the pid field of a web session

VARIABLES
  head, next,    \* guesthash_head, guesthash_next
  uinfo,         \* the slots
  uindex,        \* per user, the slots of its sessions
  activeuser, wwwguestnum,
  due,           \* a minute has passed since utmp_kickidle last ran
  pc, kn, ki,    \* the lock: "free", or where its holder is in utmp_kickidle
  holder,        \* pid of the lock's holder, WWW for a web request, 0
  proc,          \* the telnet processes
  req,           \* the web requests
  todo           \* entries count_uindex has found stale and not yet cleared

shm == <<head, next, uinfo, uindex, activeuser, wwwguestnum>>
lock == <<due, pc, kn, ki, holder>>
vars == <<shm, lock, proc, req, todo>>

Empty == [active |-> FALSE, pid |-> 0, uid |-> Nobody, userid |-> Nobody,
          from |-> TelnetHost, age |-> 0, kicked |-> FALSE]

Gone == [st |-> "dead", user |-> Nobody, slot |-> 0]
NoReq == [slot |-> 0, uid |-> Nobody, live |-> FALSE, counted |-> FALSE]

Session(u, pid, host) ==
  [active |-> TRUE, pid |-> pid, uid |-> u, userid |-> u,
   from |-> host, age |-> 0, kicked |-> FALSE]

\* The definitions whose name ends in Slip are the module's mistakes on
\* purpose: each is what the definition after it would be after a plausible
\* slip in the code, and a run must notice it.  No other definition uses them.
IncrSlip(n) == n + 1

\* ++ and -- on an unsigned short.
Incr(n) == IF n = USHRT_MAX THEN 0 ELSE n + 1
Decr(n) == IF n = 0 THEN USHRT_MAX ELSE n - 1

Min1(S) == CHOOSE i \in S : \A k \in S : i <= k

-----------------------------------------------------------------------------
(* Reading the table *)

Alive(p) == p \in Procs /\ proc[p].st # "dead"   \* kill(p, 0) == 0

Occupied(s, u) == uinfo[s].active /\ uinfo[s].pid # 0 /\ uinfo[s].uid = u

\* Entries count_uindex clears: an active slot of u whose process is gone.
StaleEntries(u) ==
  {i \in Idx : LET s == uindex[u][i]
               IN  /\ s # 0 /\ Occupied(s, u)
                   /\ uinfo[s].pid > WWW /\ ~Alive(uinfo[s].pid)}

\* Entries count_uindex and count_uindex_telnet count.
LiveEntries(u) ==
  {i \in Idx : uindex[u][i] # 0 /\ Occupied(uindex[u][i], u)} \ StaleEntries(u)
TelnetEntries(u) == {i \in LiveEntries(u) : uinfo[uindex[u][i]].pid > WWW}

\* Slots on the chain that starts at slot i: the least set that holds i and
\* is closed under next.
Closed(S) == \A t \in S : next[t] # 0 => next[t] \in S
Reach(i) == {s \in Slots : /\ i # 0
                          /\ \A S \in SUBSET Slots :
                                i \in S /\ Closed(S) => s \in S}

IsWwwGuest(s) == uinfo[s].userid = Guest /\ uinfo[s].pid = WWW

-----------------------------------------------------------------------------
(* The operations of bbsinfo.c *)

add_uindex(ix, u, s) ==
  IF u \notin Users \/ \E i \in Idx : ix[u][i] = s THEN ix
  ELSE LET room == {i \in Idx : \/ ix[u][i] = 0
                                \/ ~uinfo[ix[u][i]].active
                                \/ uinfo[ix[u][i]].uid # u}
       IN  IF room = {} THEN ix ELSE [ix EXCEPT ![u][Min1(room)] = s]

remove_uindex(ix, u, s) ==
  IF u \notin Users \/ \A i \in Idx : ix[u][i] # s THEN ix
  ELSE [ix EXCEPT ![u][Min1({i \in Idx : ix[u][i] = s})] = 0]

\* The tests utmp_login makes before it takes the slot.
SlotForLogin ==
  /\ head[0] \in 1 .. MAXACTIVERUN
  /\ ~(uinfo[head[0]].active /\ uinfo[head[0]].pid # 0)

\* guesthash_next of the slot is written before the head is popped.
utmp_loginSlip(up, ix, pid) ==
  LET j == head[0]
      g == up.userid = Guest /\ up.pid = WWW
      h == MaskHash[up.from]
      popped == [head EXCEPT ![0] = IF g THEN head[h] ELSE next[j]]
  IN  /\ uinfo' = [uinfo EXCEPT ![j] = up]
      /\ head' = IF g THEN [popped EXCEPT ![h] = j] ELSE popped
      /\ next' = [next EXCEPT ![j] = IF g THEN head[h] ELSE 0]
      /\ uindex' = add_uindex(ix, up.uid, j)
      /\ activeuser' = activeuser + 1
      /\ wwwguestnum' = IF g THEN Incr(wwwguestnum) ELSE wwwguestnum
      /\ pc' = "scan" /\ ki' = 0 /\ holder' = pid
      /\ kn' = IF due THEN 1 ELSE MAXACTIVE + 1
      /\ due' = FALSE

\* Take the head of the free list for session up; ix is uindex as the caller
\* left it.  The caller goes on to utmp_kickidle.
utmp_login(up, ix, pid) ==
  LET j == head[0]
      g == up.userid = Guest /\ up.pid = WWW
      h == MaskHash[up.from]
      popped == [head EXCEPT ![0] = next[j]]
  IN  /\ uinfo' = [uinfo EXCEPT ![j] = up]
      /\ head' = IF g THEN [popped EXCEPT ![h] = j] ELSE popped
      /\ next' = [next EXCEPT ![j] = IF g THEN head[h] ELSE 0]
      /\ uindex' = add_uindex(ix, up.uid, j)
      /\ activeuser' = activeuser + 1
      /\ wwwguestnum' = IF g THEN Incr(wwwguestnum) ELSE wwwguestnum
      /\ pc' = "scan" /\ ki' = 0 /\ holder' = pid
      /\ kn' = IF due THEN 1 ELSE MAXACTIVE + 1
      /\ due' = FALSE

\* The record is zeroed before remove_uindex reads its uid.
FreeSlotZeroedSlip(s) ==
  /\ uindex' = remove_uindex(uindex, Nobody, s)
  /\ uinfo' = [uinfo EXCEPT ![s] = Empty]
  /\ next' = [next EXCEPT ![s] = head[0]]
  /\ head' = [head EXCEPT ![0] = s]
  /\ activeuser' = activeuser - 1

\* The head is moved before the slot is linked to the old one.
FreeSlotLinkSlip(s) ==
  /\ uindex' = remove_uindex(uindex, uinfo[s].uid, s)
  /\ uinfo' = [uinfo EXCEPT ![s] = Empty]
  /\ next' = [next EXCEPT ![s] = s]
  /\ head' = [head EXCEPT ![0] = s]
  /\ activeuser' = activeuser - 1

\* What utmp_logout and utmp_kickidle share: s goes back to the free list.
FreeSlot(s) ==
  /\ uindex' = remove_uindex(uindex, uinfo[s].uid, s)
  /\ uinfo' = [uinfo EXCEPT ![s] = Empty]
  /\ next' = [next EXCEPT ![s] = head[0]]
  /\ head' = [head EXCEPT ![0] = s]
  /\ activeuser' = activeuser - 1

\* The requests that were validated against the session slot s held.
Orphaned(s) == [r \in Reqs |->
                  IF req[r].slot = s THEN [req[r] EXCEPT !.live = FALSE]
                                     ELSE req[r]]

\* SIGHUP: the handler leaves the BBS.  Before "started" is set, and after
\* u_exit has restored the default action, the process dies instead (Die).
Signalled(st) == IF st = "online" THEN "leaving" ELSE st

-----------------------------------------------------------------------------
(* utmp_kickidle: one action per step of the loop *)

\* kill(pid, 0) is not asked.
ExpiredAliveSlip(s) ==
  /\ uinfo[s].active /\ uinfo[s].pid # 0
  /\ uinfo[s].pid = WWW => uinfo[s].age = 2 \/ uinfo[s].kicked
  /\ uinfo[s].pid > WWW => uinfo[s].age > 0

\* A web session has to be kicked as well as idle.
ExpiredIdleSlip(s) ==
  /\ uinfo[s].active /\ uinfo[s].pid # 0
  /\ uinfo[s].pid = WWW => uinfo[s].age = 2 /\ uinfo[s].kicked
  /\ uinfo[s].pid > WWW => uinfo[s].age > 0 /\ ~Alive(uinfo[s].pid)

\* Slots the loop frees.
Expired(s) ==
  /\ uinfo[s].active /\ uinfo[s].pid # 0
  /\ uinfo[s].pid = WWW => uinfo[s].age = 2 \/ uinfo[s].kicked
  /\ uinfo[s].pid > WWW => uinfo[s].age > 0 /\ ~Alive(uinfo[s].pid)

\* A live telnet process that has idled for too long is sent SIGHUP.
Hangup(s) ==
  LET p == uinfo[s].pid
  IN  IF uinfo[s].active /\ Alive(p) /\ uinfo[s].age = 2
      THEN [proc EXCEPT ![p].st = Signalled(@)] ELSE proc

KickSkip ==
  /\ pc = "scan" /\ kn \in Slots /\ ~Expired(kn)
  /\ proc' = Hangup(kn)
  /\ kn' = kn + 1
  /\ UNCHANGED <<shm, due, pc, ki, holder, req, todo>>

\* The guest's chain is looked up by the host's full address.
KickDecideSlip ==
  /\ pc = "scan" /\ kn \in Slots /\ Expired(kn)
  /\ LET h == RealHash[uinfo[kn].from]
     IN  IF ~IsWwwGuest(kn)
         THEN pc' = "release" /\ UNCHANGED <<head, ki>>
         ELSE IF head[h] = kn
         THEN /\ pc' = "release"
              /\ head' = [head EXCEPT ![h] = next[kn]]
              /\ UNCHANGED ki
         ELSE pc' = "walk" /\ ki' = head[h] /\ UNCHANGED head
  /\ UNCHANGED <<next, uinfo, uindex, activeuser, wwwguestnum, due, kn,
                 holder, proc, req, todo>>

KickDecide ==
  /\ pc = "scan" /\ kn \in Slots /\ Expired(kn)
  /\ LET h == MaskHash[uinfo[kn].from]
     IN  IF ~IsWwwGuest(kn)
         THEN pc' = "release" /\ UNCHANGED <<head, ki>>
         ELSE IF head[h] = kn
         THEN /\ pc' = "release"
              /\ head' = [head EXCEPT ![h] = next[kn]]
              /\ UNCHANGED ki
         ELSE pc' = "walk" /\ ki' = head[h] /\ UNCHANGED head
  /\ UNCHANGED <<next, uinfo, uindex, activeuser, wwwguestnum, due, kn,
                 holder, proc, req, todo>>

\* The search for the guest's predecessor; guesthash_next[0] is always 0.
KickWalk ==
  /\ pc = "walk"
  /\ IF ki = 0 \/ (ki # 0 /\ next[ki] = 0)
     THEN pc' = "release" /\ ki' = 0 /\ UNCHANGED next
     ELSE IF next[ki] = kn
     THEN /\ pc' = "release" /\ ki' = 0
          /\ next' = [next EXCEPT ![ki] = next[kn]]
     ELSE ki' = next[ki] /\ UNCHANGED <<pc, next>>
  /\ UNCHANGED <<head, uinfo, uindex, activeuser, wwwguestnum, due, kn,
                 holder, proc, req, todo>>

KickRelease ==
  /\ pc = "release"
  /\ wwwguestnum' = IF IsWwwGuest(kn) THEN Decr(wwwguestnum) ELSE wwwguestnum
  /\ FreeSlot(kn)
  /\ req' = Orphaned(kn)
  /\ pc' = "scan" /\ kn' = kn + 1
  /\ UNCHANGED <<due, ki, holder, proc, todo>>

\* The loop has ended and the caller drops the lock.
Unlock ==
  /\ pc = "scan" /\ kn > MAXACTIVE
  /\ pc' = "free" /\ kn' = 0 /\ ki' = 0 /\ holder' = 0
  /\ proc' = IF holder \in Procs
             THEN [proc EXCEPT ![holder].st = "online"] ELSE proc
  /\ UNCHANGED <<shm, due, req, todo>>

-----------------------------------------------------------------------------
(* Telnet processes *)

\* login_query and multi_user_check: no lock is held, and the process is not
\* in the table yet.  The user may have the first telnet session query_uindex
\* finds hung up, and is then let in without a further count.
Enter(p, u) ==
  /\ proc[p].st = "new"
  /\ activeuser < MAXACTIVERUN
  /\ proc' = [proc EXCEPT ![p].st = "checked", ![p].user = u]
  /\ \/ u = Guest /\ UNCHANGED todo
     \/ /\ u \in Users
        /\ Cardinality(TelnetEntries(u)) < TelnetLimit
        /\ todo' = [todo EXCEPT ![p] = {u} \X StaleEntries(u)]
  /\ UNCHANGED <<shm, lock, req>>

EnterKicking(p, u) ==
  /\ proc[p].st = "new"
  /\ activeuser < MAXACTIVERUN
  /\ TelnetEntries(u) # {}
  /\ LET q == uinfo[uindex[u][Min1(TelnetEntries(u))]].pid
         hup == [proc EXCEPT ![q].st = Signalled(@)]
     IN  proc' = [hup EXCEPT ![p].st = "checked", ![p].user = u]
  /\ todo' = [todo EXCEPT ![p] = {u} \X StaleEntries(u)]
  /\ UNCHANGED <<shm, lock, req>>

\* u_enter
TelnetLogin(p) ==
  /\ proc[p].st = "checked" /\ todo[p] = {} /\ pc = "free"
  /\ \/ /\ SlotForLogin
        /\ utmp_login(Session(proc[p].user, p, TelnetHost), uindex, p)
        /\ proc' = [proc EXCEPT ![p].st = "entering", ![p].slot = head[0]]
     \/ /\ ~SlotForLogin
        /\ proc' = [proc EXCEPT ![p] = Gone]
        /\ UNCHANGED <<shm, lock>>
  /\ UNCHANGED <<req, todo>>

\* update_utmp copies the process's own record, from "invisible" on, to the
\* slot it believes it has.
Touch(p) ==
  LET s == proc[p].slot
  IN  /\ proc[p].st = "online" /\ uinfo[s].active
      /\ uinfo' = [uinfo EXCEPT ![s].age = 0, ![s].from = TelnetHost,
                                ![s].userid = proc[p].user,
                                ![s].kicked = FALSE]
      /\ UNCHANGED <<head, next, uindex, activeuser, wwwguestnum, lock, proc,
                     req, todo>>

\* Goodbye, or the SIGHUP handler: both may call count_uindex on the way out.
Leave(p) ==
  /\ proc[p].st = "online"
  /\ proc' = [proc EXCEPT ![p].st = "leaving"]
  /\ \/ UNCHANGED todo
     \/ /\ proc[p].user \in Users
        /\ todo' = [todo EXCEPT ![p] = {proc[p].user} \X
                                       StaleEntries(proc[p].user)]
  /\ UNCHANGED <<shm, lock, req>>

\* u_exit
TelnetLogout(p) ==
  /\ proc[p].st = "leaving" /\ todo[p] = {} /\ pc = "free"
  /\ LET s == proc[p].slot
     IN  IF uinfo[s].active
         THEN FreeSlot(s) /\ req' = Orphaned(s) /\ UNCHANGED wwwguestnum
         ELSE UNCHANGED <<shm, req>>
  /\ proc' = [proc EXCEPT ![p] = Gone]
  /\ UNCHANGED <<lock, todo>>

\* A telnet process is killed, or exits on SIGHUP before "started" is set;
\* the kernel drops its lock.
Die(p) ==
  /\ proc[p].st \notin {"new", "dead"}
  /\ proc' = [proc EXCEPT ![p] = Gone]
  /\ todo' = [todo EXCEPT ![p] = {}]
  /\ IF holder = p
     THEN pc' = "free" /\ kn' = 0 /\ ki' = 0 /\ holder' = 0
     ELSE UNCHANGED <<pc, kn, ki, holder>>
  /\ UNCHANGED <<shm, due, req>>

-----------------------------------------------------------------------------
(* Web requests *)

\* do_check: the session can be handed out again.
Reusable(s, u, host) ==
  /\ uinfo[s].active /\ uinfo[s].pid = WWW /\ uinfo[s].uid = u
  /\ uinfo[s].age = 0 /\ uinfo[s].from = host

\* check_multi's search of the guest chain does not end.
Looping(h) == head[h] # 0 /\ \A s \in Reach(head[h]) : next[s] # 0

\* wwwlogin of a registered user; a session found by check_multi is returned
\* as it is, which changes nothing.
WwwLogin(u, host) ==
  /\ pc = "free"
  /\ \A i \in Idx : uindex[u][i] # 0 => ~Reusable(uindex[u][i], u, host)
  /\ LET counted == [uindex EXCEPT ![u] =
                       [i \in Idx |-> IF i \in StaleEntries(u)
                                      THEN 0 ELSE uindex[u][i]]]
     IN  IF SlotForLogin /\ Cardinality(LiveEntries(u)) < WwwLimit
         THEN utmp_login(Session(u, WWW, host), counted, WWW)
         ELSE /\ uindex' = counted
              /\ UNCHANGED <<head, next, uinfo, activeuser, wwwguestnum, lock>>
  /\ UNCHANGED <<proc, req, todo>>

\* wwwlogin of a guest.  check_multi hashes the real host, utmp_login the
\* masked one.
GuestLogin(host) ==
  /\ pc = "free"
  /\ \A s \in Reach(head[RealHash[host]]) : ~Reusable(s, Guest, host)
  /\ IF Looping(RealHash[host])
     THEN /\ pc' = "hung" /\ holder' = WWW
          /\ UNCHANGED <<shm, due, kn, ki>>
     ELSE SlotForLogin /\ utmp_login(Session(Guest, WWW, host), uindex, WWW)
  /\ UNCHANGED <<proc, req, todo>>

\* user_init does not look at the kick flag.
ReqStartSlip(r, s) ==
  /\ req[r] = NoReq /\ todo[r] = {}
  /\ uinfo[s].active /\ uinfo[s].pid = WWW
  /\ uinfo[s].age = 0
  /\ uinfo' = [uinfo EXCEPT ![s].age = 0]
  /\ req' = [req EXCEPT ![r] = [slot |-> s, uid |-> uinfo[s].uid,
                                live |-> TRUE, counted |-> FALSE]]
  /\ UNCHANGED <<head, next, uindex, activeuser, wwwguestnum, lock, proc, todo>>

\* user_init accepts a request for the session in slot s and sets lasttime.
ReqStart(r, s) ==
  /\ req[r] = NoReq /\ todo[r] = {}
  /\ uinfo[s].active /\ uinfo[s].pid = WWW
  /\ uinfo[s].age = 0 /\ ~uinfo[s].kicked
  /\ uinfo' = [uinfo EXCEPT ![s].age = 0]
  /\ req' = [req EXCEPT ![r] = [slot |-> s, uid |-> uinfo[s].uid,
                                live |-> TRUE, counted |-> FALSE]]
  /\ UNCHANGED <<head, next, uindex, activeuser, wwwguestnum, lock, proc, todo>>

\* An ordinary page leaves the table alone; a guest who logs in as a user
\* first marks the slot it came from as kicked.
ReqEnd(r) ==
  /\ req[r] # NoReq /\ ~req[r].counted
  /\ LET s == req[r].slot
     IN  \/ UNCHANGED uinfo
         \/ /\ req[r].uid = Guest /\ uinfo[s].active
            /\ uinfo' = [uinfo EXCEPT ![s].kicked = TRUE]
  /\ req' = [req EXCEPT ![r] = NoReq]
  /\ UNCHANGED <<head, next, uindex, activeuser, wwwguestnum, lock, proc, todo>>

\* bbslogout_main up to the lock: it counts the sessions of whoever the slot
\* now belongs to; a slot freed meanwhile keeps the uid of its last session.
LogoutCount(r) ==
  /\ req[r] # NoReq /\ req[r].uid # Guest /\ ~req[r].counted
  /\ \E u \in IF uinfo[req[r].slot].active THEN {uinfo[req[r].slot].uid}
                                           ELSE Users :
       /\ req' = [req EXCEPT ![r].counted = TRUE, ![r].uid = u]
       /\ todo' = [todo EXCEPT ![r] = IF u \in Users THEN {u} \X StaleEntries(u)
                                                      ELSE {}]
  /\ UNCHANGED <<shm, lock, proc>>

\* The test of u->active under the lock is forgotten.
WwwLogoutSlip(r) ==
  /\ req[r].counted /\ todo[r] = {} /\ pc = "free"
  /\ FreeSlot(req[r].slot)
  /\ req' = [Orphaned(req[r].slot) EXCEPT ![r] = NoReq]
  /\ UNCHANGED <<wwwguestnum, lock, proc, todo>>

\* bbslogout_main under the lock.  After it a board manager's sessions are
\* counted once more.
WwwLogout(r) ==
  /\ req[r].counted /\ todo[r] = {} /\ pc = "free"
  /\ LET s == req[r].slot
         u == req[r].uid
     IN  /\ IF uinfo[s].active
            THEN /\ FreeSlot(s)
                 /\ req' = [Orphaned(s) EXCEPT ![r] = NoReq]
                 /\ UNCHANGED wwwguestnum
            ELSE /\ req' = [req EXCEPT ![r] = NoReq]
                 /\ UNCHANGED shm
         /\ \/ UNCHANGED todo
            \/ /\ u \in Users
               /\ todo' = [todo EXCEPT ![r] =
                    {u} \X {i \in StaleEntries(u) : uindex[u][i] # s}]
  /\ UNCHANGED <<lock, proc>>

\* bbskick_main
Kick(s) ==
  /\ uinfo[s].active /\ uinfo[s].pid = WWW /\ ~uinfo[s].kicked
  /\ uinfo' = [uinfo EXCEPT ![s].kicked = TRUE]
  /\ UNCHANGED <<head, next, uindex, activeuser, wwwguestnum, lock, proc, req,
                 todo>>

\* The CGI process that holds the lock is killed.
CgiDie ==
  /\ holder = WWW
  /\ pc' = "free" /\ kn' = 0 /\ ki' = 0 /\ holder' = 0
  /\ UNCHANGED <<shm, due, proc, req, todo>>

-----------------------------------------------------------------------------
(* Everything else *)

\* count_uindex clears, without a lock, an entry it found stale before.
ClearEntry(a) ==
  \E e \in todo[a] :
     /\ uindex' = [uindex EXCEPT ![e[1]][e[2]] = 0]
     /\ todo' = [todo EXCEPT ![a] = @ \ {e}]
     /\ UNCHANGED <<head, next, uinfo, activeuser, wwwguestnum, lock, proc, req>>

\* Time passes for slot s, and for utmp_kickidle.
Age(s) ==
  /\ uinfo[s].active /\ uinfo[s].age < 2
  /\ uinfo' = [uinfo EXCEPT ![s].age = @ + 1]
  /\ UNCHANGED <<head, next, uindex, activeuser, wwwguestnum, lock, proc, req,
                 todo>>

Minute ==
  /\ ~due
  /\ due' = TRUE
  /\ UNCHANGED <<shm, pc, kn, ki, holder, proc, req, todo>>

\* initutmp of local_utl/shminit.c, on zeroed shared memory.
Init ==
  /\ head = [h \in 0 .. UTMPHASH_SIZE |-> IF h = 0 THEN 1 ELSE 0]
  /\ next = [s \in Slots |-> IF s = MAXACTIVE THEN 0 ELSE s + 1]
  /\ uinfo = [s \in Slots |-> Empty]
  /\ uindex = [u \in Users |-> [i \in Idx |-> 0]]
  /\ activeuser = 0 /\ wwwguestnum = 0
  /\ due = TRUE /\ pc = "free" /\ kn = 0 /\ ki = 0 /\ holder = 0
  /\ proc = [p \in Procs |-> [st |-> "new", user |-> Nobody, slot |-> 0]]
  /\ req = [r \in Reqs |-> NoReq]
  /\ todo = [a \in Procs \cup Reqs |-> {}]

Kickidle == KickSkip \/ KickDecide \/ KickWalk \/ KickRelease \/ Unlock

Telnet(p) ==
  \/ \E u \in Users \cup {Guest} : Enter(p, u)
  \/ \E u \in Users : EnterKicking(p, u)
  \/ TelnetLogin(p) \/ Touch(p) \/ Leave(p) \/ TelnetLogout(p) \/ Die(p)

Page(r) ==
  \/ \E s \in Slots : ReqStart(r, s)
  \/ ReqEnd(r) \/ LogoutCount(r) \/ WwwLogout(r)

Next ==
  \/ Kickidle
  \/ \E p \in Procs : Telnet(p)
  \/ \E u \in Users, host \in Hosts : WwwLogin(u, host)
  \/ \E host \in Hosts : GuestLogin(host)
  \/ \E r \in Reqs : Page(r)
  \/ \E s \in Slots : Kick(s) \/ Age(s)
  \/ CgiDie \/ Minute
  \/ \E a \in Procs \cup Reqs : ClearEntry(a)

Spec == Init /\ [][Next]_vars

-----------------------------------------------------------------------------
(* Runs in which no holder of the lock dies in the middle of utmp_kickidle  *)
(* and no logout arrives after its session's slot has been released.  The   *)
(* code enforces neither: what holds only here is what it relies on.        *)

LockHolderDies == pc # "free" /\ pc' = "free" /\ kn # MAXACTIVE + 1
StaleLogout ==
  \E r \in Reqs : req[r].counted /\ ~req[r].live /\ req'[r] = NoReq
OrderlyNext == Next /\ ~LockHolderDies /\ ~StaleLogout
OrderlySpec == Init /\ [][OrderlyNext]_vars

-----------------------------------------------------------------------------
(* Properties *)

UserInfo ==
  [active : BOOLEAN, pid : {0, WWW} \cup Procs,
   uid : Users \cup {Guest, Nobody}, userid : Users \cup {Guest, Nobody},
   from : Hosts, age : 0 .. 2, kicked : BOOLEAN]
Process ==
  [st : {"new", "checked", "entering", "online", "leaving", "dead"},
   user : Users \cup {Guest, Nobody}, slot : 0 .. MAXACTIVE]
Request ==
  [slot : 0 .. MAXACTIVE, uid : Users \cup {Guest, Nobody}, live : BOOLEAN,
   counted : BOOLEAN]

TableOK ==
  /\ head \in [0 .. UTMPHASH_SIZE -> 0 .. MAXACTIVE]
  /\ next \in [Slots -> 0 .. MAXACTIVE]
  /\ uinfo \in [Slots -> UserInfo]
  /\ uindex \in [Users -> [Idx -> 0 .. MAXACTIVE]]
  /\ activeuser \in Int /\ wwwguestnum \in 0 .. USHRT_MAX

LockOK ==
  /\ due \in BOOLEAN
  /\ pc \in {"free", "scan", "walk", "release", "hung"}
  /\ kn \in 0 .. MAXACTIVE + 1 /\ ki \in 0 .. MAXACTIVE
  /\ holder \in {0, WWW} \cup Procs

ActorsOK ==
  /\ proc \in [Procs -> Process]
  /\ req \in [Reqs -> Request]
  /\ todo \in [Procs \cup Reqs -> SUBSET (Users \X Idx)]

\* The type invariant.  wwwguestnum stays an unsigned short because ++ and --
\* wrap; activeuser needs no width, ActiveUserExact bounds it.
TypeOK == TableOK /\ LockOK /\ ActorsOK

Inactive == {s \in Slots : ~uinfo[s].active}
Active == {s \in Slots : uinfo[s].active}

\* The free list of utmp_login/utmp_logout holds exactly the inactive slots:
\* none is handed out twice and none is lost, whatever requests, kicks and
\* deaths do between the locked sections (what checkshm's checkutmp audits).
FreeListExact == Reach(head[0]) = Inactive

\* activeuser, which login_query compares with MAXACTIVERUN, is the number of
\* active slots, although several paths decrement it.
ActiveUserExact == activeuser = Cardinality(Active)

\* An entry of uindex names an active slot of that user, and no slot twice, so
\* count_uindex never counts a session of somebody else or one session twice,
\* although entries are cleared without the lock.
UIndexSound ==
  \A u \in Users : \A i \in Idx : uindex[u][i] # 0 =>
     /\ uinfo[uindex[u][i]].active /\ uinfo[uindex[u][i]].uid = u
     /\ \A k \in Idx : uindex[u][k] = uindex[u][i] => k = i

\* The slot of a live telnet session stays that process's own: nothing but its
\* own u_exit gives it back, and its record still names the process.
TelnetKeepsSlot ==
  \A p \in Procs : proc[p].st \in {"entering", "online", "leaving"} =>
     LET s == proc[p].slot
     IN  s # 0 /\ uinfo[s].active /\ uinfo[s].pid = p
               /\ uinfo[s].uid = proc[p].user

GuestsOf(h) == {s \in Active : IsWwwGuest(s) /\ MaskHash[uinfo[s].from] = h}
BeingFreed == IF pc = "release" THEN {kn} ELSE {}

\* The chain of every guest hash holds exactly the web guests that hash there,
\* and wwwguestnum counts them: utmp_kickidle's unlinking, the only way a web
\* guest leaves, finds every guest and never crosses into the free list.
GuestChainsExact ==
  /\ \A h \in 1 .. UTMPHASH_SIZE : Reach(head[h]) = GuestsOf(h) \ BeingFreed
  /\ wwwguestnum = Cardinality({s \in Active : IsWwwGuest(s)})

\* user_init never accepts a request for a slot utmp_kickidle has already
\* decided to free: the gap between 18 and 20 minutes, and the test of
\* iskicked, keep the two decisions apart although neither sees the other.
NoAcceptWhileFreed ==
  [][\A r \in Reqs : req[r] = NoReq /\ req'[r] # NoReq =>
        ~(pc \in {"walk", "release"} /\ kn = req'[r].slot)]_vars

-----------------------------------------------------------------------------
(* Liveness.  The holder of the lock is scheduled, the clock runs, and       *)
(* anonymous visitors keep arriving.                                         *)

Arrival == \E host \in Hosts : GuestLogin(host)
Fairness == WF_vars(Kickidle) /\ WF_vars(Minute) /\ WF_vars(Arrival)
FairSpec == OrderlySpec /\ Fairness

\* A web session that has idled for 20 minutes gives its slot back, unless the
\* table fills up for good (utmp_login fails before it reaches utmp_kickidle).
IdleIsReclaimed ==
  \A s \in Slots : (uinfo[s].active /\ uinfo[s].pid = WWW /\ uinfo[s].age = 2)
                     ~> (~uinfo[s].active \/ []~SlotForLogin)
=============================================================================
