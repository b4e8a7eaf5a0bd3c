------------------------------ MODULE Mailbox ------------------------------
(***************************************************************************)
(* The mailbox of one user and the counter of its size in the user record, *)
(* libythtbbs/mail.c and its callers.  The counter, in kilobytes, is       *)
(* changed while flock on the mailbox's .DIR is held, and counted anew,    *)
(* under that lock, by whoever finds it to be -2 (get_mailsize).  The lock *)
(* belongs to an open file, not to a process: a process that finds -2      *)
(* while it holds the lock waits for itself.                               *)
(***************************************************************************)
EXTENDS Integers, FiniteSets

CONSTANTS Mails,     \* mails, each sent once; a sender is named after its mail
          System,    \* those FH_SYSMAIL is set for
          Marked,    \* those the owner has marked
          SizeOf,    \* size a mail is sent with, in units
          Sizes,     \* sizes a mail can be given by an edit
          Unit,      \* units in a kilobyte
          Sessions,  \* telnet sessions and web requests of the owner
          Pops,      \* POP3 sessions of the owner
          MaxSize,   \* max_mailsize
          SHRT_MAX,
          MaxEdits,  \* bound: edits
          MaxFixes,  \* bound: calls of fixmailsize
          MaxDeaths  \* bound: processes killed in a locked section

ASSUME MailboxAssumption ==
  /\ IsFiniteSet(Mails)
  /\ Mails \cap Sessions = {} /\ Mails \cap Pops = {} /\ Sessions \cap Pops = {}
  /\ System \subseteq Mails /\ Marked \subseteq Mails
  /\ SizeOf \in [Mails -> Nat \ {0}]
  /\ Sizes \subseteq Nat \ {0} /\ Unit \in Nat \ {0}
  /\ MaxSize \in Nat /\ SHRT_MAX \in Nat /\ MaxSize <= SHRT_MAX
  /\ MaxEdits \in Nat /\ MaxFixes \in Nat /\ MaxDeaths \in Nat

VARIABLES
  box,       \* .DIR: the size of every mail in it, 0 for the others
  mailsize,  \* the counter
  lock,      \* {} or {its holder}
  op,        \* per actor: pc; todo and done, the mails of its locked section
  pop,       \* per POP3 session: fcache, the mails DELE marked, and those QUIT deletes
  edits, fixes, deaths,
  slack,     \* history: by how much the counter may be wrong
  over,      \* history: the counter has been -1 since it was last counted
  late       \* history: the actors fixmailsize overtook after their get_mailsize

vars == <<box, mailsize, lock, op, pop, edits, fixes, deaths, slack, over, late>>

Actors == Mails \cup Sessions \cup Pops
Idle == [pc |-> "idle", todo |-> {}, done |-> {}]
Closed == [seen |-> {}, dele |-> {}, left |-> {}]

Kb(x) == IF x < Unit THEN 1 ELSE x \div Unit
\* One pair for every kilobyte of a mail of M, so that their number is a sum.
Kilobytes(b, M) == UNION {{m} \X (1 .. Kb(b[m])) : m \in M}
KbOf(b, M) == Cardinality(Kilobytes(b, M))
Present(b) == {m \in Mails : b[m] # 0}
Sum == KbOf(box, Present(box))

Init ==
  /\ box = [m \in Mails |-> 0]
  /\ mailsize = 0
  /\ lock = {}
  /\ op = [a \in Actors |-> Idle]
  /\ pop = [p \in Pops |-> Closed]
  /\ edits = 0 /\ fixes = 0 /\ deaths = 0 /\ slack = 0
  /\ over = FALSE
  /\ late = {}

-----------------------------------------------------------------------------
(* The counter *)

Recounted == IF Sum > SHRT_MAX THEN -1 ELSE Sum

\* Mistakes on purpose end in Slip: here get_mailsize gives -2 back.
GetMailsizeSlip(a) ==
  /\ late' = late \ {a}
  /\ UNCHANGED <<mailsize, slack, over>>

\* get_mailsize by a, which does not hold the lock.
GetMailsize(a) ==
  /\ late' = late \ {a}
  /\ IF mailsize = -2
     THEN /\ lock = {}
          /\ mailsize' = Recounted
          /\ slack' = 0
          /\ over' = (Recounted = -1)
     ELSE UNCHANGED <<mailsize, slack, over>>

\* update_mailsize_up refuses a mail, but none of the system's.
RefusedSlip(m) == m \notin System /\ mailsize > MaxSize
Refused(m) ==
  /\ m \notin System
  /\ mailsize = -1 \/ mailsize + Kb(SizeOf[m]) > MaxSize

Up(m) ==
  IF mailsize = -1 \/ mailsize + Kb(SizeOf[m]) > SHRT_MAX THEN -1
  ELSE mailsize + Kb(SizeOf[m])

\* update_mailsize_down.  What it subtracts from is what calc_mailsize has stored.
DownSlip(m) == IF mailsize < box[m] THEN 0 ELSE mailsize - box[m]
Down(m) ==
  LET curr   == IF mailsize = -1 THEN Sum ELSE mailsize
      stored == IF mailsize = -1 THEN Recounted ELSE mailsize
  IN  CASE curr < Kb(box[m])                -> 0
        [] curr - Kb(box[m]) > SHRT_MAX     -> -1
        [] OTHER                            -> stored - Kb(box[m])

\* C's division of the difference in DIR_do_editmail.
Whole(n) == IF n < 0 THEN -((-n) \div Unit) ELSE n \div Unit
Grown(m, x) == mailsize + Whole(x - box[m])
Edited(m, x) ==
  IF Grown(m, x) > SHRT_MAX THEN SHRT_MAX ELSE IF Grown(m, x) < 0 THEN 0 ELSE Grown(m, x)

Store(n) == mailsize' = n /\ over' = (over \/ n = -1)

-----------------------------------------------------------------------------
(* The locked sections *)

\* Somebody with the lock finds the counter to be -2.
Hang(a) == op' = [op EXCEPT ![a].pc = "hung"]

\* Without flock.
LockSlip(a, M) ==
  /\ lock' = lock \cup {a}
  /\ op' = [op EXCEPT ![a] = [pc |-> "locked", todo |-> M, done |-> {}]]
  /\ UNCHANGED <<box, mailsize, pop, edits, fixes, deaths, slack, over, late>>

\* flock; a deletion goes on with those of the mails M that are there.
Lock(a, M) ==
  /\ lock = {}
  /\ lock' = {a}
  /\ op' = [op EXCEPT ![a] = [pc |-> "locked", todo |-> M, done |-> {}]]
  /\ UNCHANGED <<box, mailsize, pop, edits, fixes, deaths, slack, over, late>>

\* The callback for one mail.
Count(a) ==
  /\ op[a].pc = "locked"
  /\ \E m \in op[a].todo :
       IF mailsize = -2 THEN Hang(a) /\ UNCHANGED <<mailsize, over>>
       ELSE /\ a \in Mails => ~Refused(m)
            /\ Store(IF a \in Mails THEN Up(m) ELSE Down(m))
            /\ op' = [op EXCEPT ![a].todo = @ \ {m}, ![a].done = @ \cup {m}]
  /\ UNCHANGED <<box, lock, pop, edits, fixes, deaths, slack, late>>

\* A sender is refused.
Refuse(m) ==
  /\ op[m].pc = "locked" /\ m \in op[m].todo
  /\ mailsize # -2 /\ Refused(m)
  /\ op' = [op EXCEPT ![m] = [Idle EXCEPT !.pc = "end"]]
  /\ lock' = {}
  /\ UNCHANGED <<box, mailsize, pop, edits, fixes, deaths, slack, over, late>>

\* What has been counted is written to .DIR, and the lock given back.
Commit(a) ==
  /\ op[a].pc = "locked" /\ op[a].todo = {}
  /\ box' = [m \in Mails |-> IF m \notin op[a].done THEN box[m]
                             ELSE IF a = m THEN SizeOf[m] ELSE 0]
  /\ op' = [op EXCEPT ![a] = [Idle EXCEPT !.pc =
                IF a \in Mails THEN "end" ELSE IF a \in Pops THEN "quit" ELSE "ready"]]
  /\ lock' = {}
  /\ UNCHANGED <<mailsize, pop, edits, fixes, deaths, slack, over, late>>

\* A process is killed: what it has counted is not in .DIR, or still there.
Die(a) ==
  /\ lock = {a} /\ deaths < MaxDeaths
  /\ lock' = {} /\ deaths' = deaths + 1
  /\ op' = [op EXCEPT ![a] = [Idle EXCEPT !.pc = IF a \in Mails THEN "end" ELSE "idle"]]
  /\ slack' = slack + KbOf(IF a \in Mails THEN SizeOf ELSE box, op[a].done)
  /\ pop' = IF a \in Pops THEN [pop EXCEPT ![a] = Closed] ELSE pop
  /\ UNCHANGED <<box, mailsize, edits, fixes, over, late>>

-----------------------------------------------------------------------------
(* Senders, sessions, POP3, fixmailsize *)

\* _mail_buf.
Send(m) ==
  /\ op[m].pc = "idle"
  /\ GetMailsize(m)
  /\ op' = [op EXCEPT ![m].pc = "ready"]
  /\ UNCHANGED <<box, lock, pop, edits, fixes, deaths>>

Deliver(m) == op[m].pc = "ready" /\ Lock(m, {m})

\* u_enter, mail_del before it asks the user, bbsdelmail before it locks.
Check(s) ==
  /\ op[s].pc \in {"idle", "ready"}
  /\ GetMailsize(s)
  /\ op' = [op EXCEPT ![s].pc = "ready"]
  /\ UNCHANGED <<box, lock, pop, edits, fixes, deaths>>

\* mail_del (one mail), bbsdelmail and del_range (several).
Delete(s, M) == op[s].pc = "ready" /\ Lock(s, M \cap Present(box))

\* edit_post in a mailbox, with change_dir and DIR_do_editmail.
Edit(s, m, x) ==
  /\ op[s].pc = "ready" /\ lock = {}
  /\ box[m] # 0 /\ edits < MaxEdits
  /\ edits' = edits + 1
  /\ IF mailsize = -2
     THEN Hang(s) /\ lock' = {s} /\ UNCHANGED <<box, mailsize, over, slack>>
     ELSE /\ mailsize' = Edited(m, x)
          /\ box' = [box EXCEPT ![m] = x]
          /\ slack' = slack + 1 + IF Grown(m, x) > SHRT_MAX THEN Grown(m, x) - SHRT_MAX ELSE 0
          /\ UNCHANGED <<lock, op, over>>
  /\ UNCHANGED <<pop, fixes, deaths, late>>

\* PASS: get_mailsize and Login_init.
Pass(p) ==
  /\ op[p].pc = "idle"
  /\ GetMailsize(p)
  /\ op' = [op EXCEPT ![p].pc = "ready"]
  /\ pop' = [pop EXCEPT ![p] = [Closed EXCEPT !.seen = Present(box)]]
  /\ UNCHANGED <<box, lock, edits, fixes, deaths>>

Dele(p, m) ==
  /\ op[p].pc = "ready"
  /\ m \in pop[p].seen \ pop[p].dele
  /\ pop' = [pop EXCEPT ![p].dele = @ \cup {m}]
  /\ UNCHANGED <<box, mailsize, lock, op, edits, fixes, deaths, slack, over, late>>

Rset(p) ==
  /\ op[p].pc = "ready"
  /\ pop' = [pop EXCEPT ![p].dele = {}]
  /\ UNCHANGED <<box, mailsize, lock, op, edits, fixes, deaths, slack, over, late>>

\* do_delete tests !accessed & FH_DIGEST, which is 0: all but the marked mails go.
Quit(p) ==
  /\ op[p].pc = "ready" /\ pop[p].dele # {}
  /\ op' = [op EXCEPT ![p].pc = "quit"]
  /\ pop' = [pop EXCEPT ![p].left = pop[p].seen \ Marked]
  /\ UNCHANGED <<box, mailsize, lock, edits, fixes, deaths, slack, over, late>>

\* Its next delete_dir_callback.
QuitNext(p, m) ==
  /\ op[p].pc = "quit" /\ m \in pop[p].left
  /\ lock = {} /\ lock' = {p}
  /\ op' = [op EXCEPT ![p] = [pc |-> "locked", todo |-> {m} \cap Present(box), done |-> {}]]
  /\ pop' = [pop EXCEPT ![p].left = @ \ {m}]
  /\ UNCHANGED <<box, mailsize, edits, fixes, deaths, slack, over, late>>

\* The end of a session (QUIT's, if it was quit).
Leave(s) ==
  /\ \/ op[s].pc = "ready"
     \/ op[s].pc = "quit" /\ pop[s].left = {}
  /\ op' = [op EXCEPT ![s] = Idle]
  /\ pop' = IF s \in Pops THEN [pop EXCEPT ![s] = Closed] ELSE pop
  /\ UNCHANGED <<box, mailsize, lock, edits, fixes, deaths, slack, over, late>>

\* fixmailsize -f, without the lock.
Fix ==
  /\ fixes < MaxFixes
  /\ fixes' = fixes + 1
  /\ mailsize' = -2
  /\ late' = late \cup {a \in Actors : op[a].pc \in {"ready", "locked", "quit"}}
  /\ UNCHANGED <<box, lock, op, pop, edits, deaths, slack, over>>

-----------------------------------------------------------------------------
Next ==
  \/ \E m \in Mails :
       \/ Send(m)
       \/ Deliver(m)
       \/ Refuse(m)
  \/ \E s \in Sessions :
       \/ Check(s)
       \/ \E M \in SUBSET Mails : Delete(s, M)
       \/ \E m \in Mails, x \in Sizes : Edit(s, m, x)
  \/ \E p \in Pops :
       \/ Pass(p) \/ Rset(p) \/ Quit(p)
       \/ \E m \in Mails : Dele(p, m) \/ QuitNext(p, m)
  \/ \E a \in Actors : Count(a) \/ Commit(a) \/ Die(a)
  \/ \E s \in Sessions \cup Pops : Leave(s)
  \/ Fix

Spec == Init /\ [][Next]_vars

-----------------------------------------------------------------------------
(* Properties *)

TypeOK ==
  /\ box \in [Mails -> Nat]
  /\ mailsize \in Int
  /\ lock \in SUBSET Actors /\ Cardinality(lock) <= 1
  /\ op \in [Actors -> [pc : {"idle", "ready", "locked", "quit", "hung", "end"},
                        todo : SUBSET Mails, done : SUBSET Mails]]
  /\ pop \in [Pops -> [seen : SUBSET Mails, dele : SUBSET Mails, left : SUBSET Mails]]
  /\ edits \in 0 .. MaxEdits /\ fixes \in 0 .. MaxFixes /\ deaths \in 0 .. MaxDeaths /\ slack \in Nat
  /\ over \in BOOLEAN /\ late \in SUBSET Actors

\* Between locked sections the counter is at most as wrong as the deaths since it was
\* last counted make it, plus one kilobyte per edit and what edits that went beyond SHRT_MAX
\* have cut off, unless it has been too large.
CounterClose ==
  lock = {} /\ ~over =>
    \/ mailsize = -2
    \/ mailsize - Sum \in -slack .. slack

\* A process that holds the lock waits for itself only if fixmailsize came after its
\* own get_mailsize, or the counter has been too large: the checks before the locked
\* sections are needed, and no other step undoes them.
NoSelfWait ==
  \A a \in Actors : op[a].pc = "hung" => a \in late \/ over

\* A mail that is not the system's is delivered only if it fits into the quota
\* (update_mailsize_up), up to what the counter may be wrong.
QuotaKept ==
  [][\A m \in Mails \ System :
       box[m] = 0 /\ box'[m] # 0 /\ ~over => Sum' <= MaxSize + slack]_vars

\* DELE answers "Message %d has been deleted", and QUIT deletes those messages.
OnlyDeleLeaves ==
  [][\A p \in Pops : lock = {p} =>
       \A m \in Mails : box[m] # 0 /\ box'[m] = 0 => m \in pop[p].dele]_vars
=============================================================================
