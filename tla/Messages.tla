------------------------------ MODULE Messages ------------------------------
(***************************************************************************)
(* The instant messages of one user: the files libythtbbs/msg.c keeps in   *)
(* the home directory, those who write to them, and the sessions that read *)
(* them.  A message is two records: its text, at the end of msgcontent,    *)
(* and a head with the text's position, at the end of msgindex2, whose     *)
(* first word is the number of heads read.  A telnet session is told by    *)
(* SIGUSR2: the handler r_msg shows the messages, or notes the signal for  *)
(* the next wait for a key, or lights a sign on the status line.           *)
(***************************************************************************)
EXTENDS Integers, Sequences, FiniteSets

CONSTANTS Msgs,        \* messages, each sent once; a sender is named after its message
          Walls,       \* broadcasts among them
          Telnets,     \* telnet sessions of the user
          Webs,        \* web sessions of the user
          Nobody,      \* target of a message whose receiver is not on line; no message
          MAXMESSAGE,
          MaxClears,   \* bound: calls of clear_msg
          MaxLogins,   \* bound: logins
          MaxCommands  \* bound: what the user starts, see "Commands"

ASSUME MessagesAssumption ==
  /\ Walls \subseteq Msgs
  /\ {MAXMESSAGE, MaxClears, MaxLogins, MaxCommands} \subseteq Nat
  /\ Nobody \notin Msgs \cup Telnets /\ Telnets \cap Webs = {}

VARIABLES
  gen,      \* the file each name stands for: an unlinked one lives on where it is open
  index2,   \* per file: the heads, and how many are read
  content,  \* per file: whose text each position has
  holder,   \* per file msgindex: the senders with its lock
  out,      \* per message: its sender
  rd,       \* per session: where it is in reading a message, and the head in hand
  sess,     \* per telnet session: its position, and the flags of sendmsg.c and io.c
  clearing, \* what clear_msg unlinks next
  clears, logins, commands,
  taken,    \* history: the heads sessions have taken
  shown,    \* history: the messages shown, each with a text
  overlap,  \* history: clear_msg ran while a message was being written or read
  missed    \* history: the sessions that dropped a signal since they last showed messages

files == <<gen, index2, content, holder>>
history == <<taken, shown, overlap, missed>>
vars == <<files, out, rd, sess, clearing, clears, logins, commands, history>>

Gens == 0 .. MaxClears
Sessions == Telnets \cup Webs

NoHead == [file |-> 0, at |-> 0]
Out == [rm |-> "out", hand |-> NoHead]

Off == [at |-> "off", by |-> "nobody", sig |-> FALSE, canProcess |-> FALSE,
        occurred |-> FALSE, blocked |-> FALSE, oldblock |-> FALSE, unread |-> FALSE,
        mode |-> "other", savemode |-> "other", does |-> "nothing", look |-> FALSE,
        getkey |-> FALSE]

Heads == index2[gen.index2].heads
Read == index2[gen.index2].read
Unread == {Heads[i].msg : i \in Read + 1 .. Len(Heads)}

Init ==
  /\ gen = [index |-> 0, index2 |-> 0, content |-> 0]
  /\ index2 = [g \in Gens |-> [read |-> 0, heads |-> <<>>]]
  /\ content = [g \in Gens |-> <<>>]
  /\ holder = [g \in Gens |-> {}]
  /\ out = [m \in Msgs |-> [pc |-> "idle", to |-> Nobody, index |-> 0, content |-> 0, pos |-> 0]]
  /\ rd = [a \in Sessions |-> Out]
  /\ sess = [t \in Telnets |-> Off]
  /\ clearing = "no"
  /\ clears = 0 /\ logins = 0 /\ commands = 0
  /\ taken = {} /\ shown = {} /\ overlap = FALSE /\ missed = {}

-----------------------------------------------------------------------------
(* Senders: sendmsgfunc, send_msg, save_msgtext *)

Saving == {"opening", "open", "locked", "written"}

\* The number of unread messages is tested, and a session looked for; \E: canmsg, and
\* the modes in which a session gets no signal.
Test(m) ==
  /\ out[m].pc = "idle"
  /\ \E to \in {Nobody} \cup {t \in Telnets : sess[t].at # "off"} :
       out' = [out EXCEPT ![m].to = to, ![m].pc =
                 IF m \notin Walls /\ Cardinality(Unread) > MAXMESSAGE THEN "refused" ELSE "tested"]
  /\ UNCHANGED <<files, rd, sess, clearing, clears, logins, commands, history>>

OpenIndex(m) ==
  /\ out[m].pc = "tested"
  /\ out' = [out EXCEPT ![m].pc = "opening", ![m].index = gen.index]
  /\ overlap' = (overlap \/ clearing # "no")
  /\ UNCHANGED <<files, rd, sess, clearing, clears, logins, commands, taken, shown, missed>>

OpenContent(m) ==
  /\ out[m].pc = "opening"
  /\ out' = [out EXCEPT ![m].pc = "open", ![m].content = gen.content]
  /\ UNCHANGED <<files, rd, sess, clearing, clears, logins, commands, history>>

\* Mistakes on purpose end in Slip: here no lock on msgindex.
LockIndexSlip(m) ==
  /\ out[m].pc = "open"
  /\ holder' = [holder EXCEPT ![out[m].index] = @ \cup {m}]
  /\ out' = [out EXCEPT ![m].pc = "locked", ![m].pos = Len(content[out[m].content])]
  /\ UNCHANGED <<gen, index2, content, rd, sess, clearing, clears, logins, commands, history>>

\* fcntl on msgindex, and the size of msgcontent.
LockIndex(m) ==
  /\ out[m].pc = "open"
  /\ holder[out[m].index] = {}
  /\ holder' = [holder EXCEPT ![out[m].index] = {m}]
  /\ out' = [out EXCEPT ![m].pc = "locked", ![m].pos = Len(content[out[m].content])]
  /\ UNCHANGED <<gen, index2, content, rd, sess, clearing, clears, logins, commands, history>>

\* The text is written where the file ended.
WriteText(m) ==
  LET g == out[m].content
  IN  /\ out[m].pc = "locked"
      /\ content' = [content EXCEPT ![g] =
           IF out[m].pos < Len(@) THEN [@ EXCEPT ![out[m].pos + 1] = m] ELSE Append(@, m)]
      /\ holder' = [holder EXCEPT ![out[m].index] = @ \ {m}]
      /\ out' = [out EXCEPT ![m].pc = "written"]
      /\ UNCHANGED <<gen, index2, rd, sess, clearing, clears, logins, commands, history>>

\* The head, under a lock on msgindex2 that no reader shares.
WriteHead(m) ==
  /\ out[m].pc = "written"
  /\ ~\E a \in Sessions : rd[a].rm = "put" /\ rd[a].hand.file = gen.index2
  /\ index2' = [index2 EXCEPT ![gen.index2].heads = Append(@, [msg |-> m, pos |-> out[m].pos])]
  /\ out' = [out EXCEPT ![m] = [@ EXCEPT !.pc = "saved", !.index = 0, !.content = 0, !.pos = 0]]
  /\ UNCHANGED <<gen, content, holder, rd, sess, clearing, clears, logins, commands, history>>

\* kill, which fails when the session has gone.
Signal(m) ==
  /\ out[m].pc = "saved"
  /\ out' = [out EXCEPT ![m].pc = "done"]
  /\ IF out[m].to # Nobody
     THEN sess' = [sess EXCEPT ![out[m].to].sig = TRUE] ELSE UNCHANGED sess
  /\ UNCHANGED <<files, rd, clearing, clears, logins, commands, history>>

-----------------------------------------------------------------------------
(* clear_msg, from a menu or the page bbsdelmsg *)

Clear ==
  /\ \/ clearing = "no" /\ clears < MaxClears
        /\ clears' = clears + 1 /\ clearing' = "index2"
        /\ gen' = [gen EXCEPT !.index = @ + 1]
     \/ clearing = "index2" /\ clearing' = "content" /\ UNCHANGED clears
        /\ gen' = [gen EXCEPT !.index2 = @ + 1]
     \/ clearing = "content" /\ clearing' = "no" /\ UNCHANGED clears
        /\ gen' = [gen EXCEPT !.content = @ + 1]
  /\ overlap' = \/ overlap
                \/ \E m \in Msgs : out[m].pc \in Saving
                \/ \E a \in Sessions : rd[a].rm \in {"put", "show"}
  /\ UNCHANGED <<index2, content, holder, out, rd, sess, logins, commands, taken, shown, missed>>

-----------------------------------------------------------------------------
(* Reading a message: get_unreadmsg, load_msghead, load_msgtext *)

\* Where a session is after a message.
After(a) == CASE a \in Webs          -> "out"
              [] sess[a].getkey      -> "key"
              [] OTHER               -> "count"

\* It is not compared with the number of heads.
GetSlip(a) ==
  /\ rd[a].rm = "get"
  /\ rd' = [rd EXCEPT ![a] = [rm |-> "put", hand |-> [file |-> gen.index2, at |-> Read + 1]]]
  /\ UNCHANGED <<files, out, sess, clearing, clears, logins, commands, history>>

\* get_unreadmsg reads the number.  -1 ends a page; r_msg shows what it happens to have.
Get(a) ==
  /\ rd[a].rm = "get"
  /\ rd' = [rd EXCEPT ![a] = IF Read >= Len(Heads) THEN [Out EXCEPT !.rm = After(a)]
                ELSE [rm |-> "put", hand |-> [file |-> gen.index2, at |-> Read + 1]]]
  /\ overlap' = (overlap \/ clearing # "no")
  /\ UNCHANGED <<files, out, sess, clearing, clears, logins, commands, taken, shown, missed>>

\* The number is counted up where it is.
PutSlip(a) ==
  /\ rd[a].rm = "put"
  /\ index2' = [index2 EXCEPT ![rd[a].hand.file].read = @ + 1]
  /\ taken' = taken \cup {rd[a].hand}
  /\ rd' = [rd EXCEPT ![a].rm = "show"]
  /\ UNCHANGED <<gen, content, holder, out, sess, clearing, clears, logins, commands,
                 shown, overlap, missed>>

\* It writes the next number, under a lock that other readers share.
Put(a) ==
  /\ rd[a].rm = "put"
  /\ index2' = [index2 EXCEPT ![rd[a].hand.file].read = rd[a].hand.at]
  /\ taken' = taken \cup {rd[a].hand}
  /\ rd' = [rd EXCEPT ![a].rm = "show"]
  /\ UNCHANGED <<gen, content, holder, out, sess, clearing, clears, logins, commands,
                 shown, overlap, missed>>

\* The head, and the text at its position, from the files the names now stand for.
Show(a) ==
  /\ rd[a].rm = "show"
  /\ rd' = [rd EXCEPT ![a] = [Out EXCEPT !.rm = After(a)]]
  /\ shown' = IF rd[a].hand.at > Len(Heads) THEN shown
              ELSE LET h == Heads[rd[a].hand.at]
                       c == content[gen.content]
                   IN  shown \cup {<<h.msg, IF h.pos < Len(c) THEN c[h.pos + 1] ELSE Nobody>>}
  /\ UNCHANGED <<files, out, sess, clearing, clears, logins, commands, taken, overlap, missed>>

\* bbsgetmsg; \E: unreadmsg, which senders and pages change without a lock, is not 0.
Poll(w) ==
  /\ rd[w].rm = "out"
  /\ rd' = [rd EXCEPT ![w].rm = "get"]
  /\ UNCHANGED <<files, out, sess, clearing, clears, logins, commands, history>>

-----------------------------------------------------------------------------
(* r_msg *)

\* SIGUSR2 is blocked around r_msg(0), which igetkey and switchSIGUSR2 call.
Masked(t) ==
  \/ sess[t].at = "after"
  \/ rd[t].rm # "out" /\ sess[t].by \in {"igetkey", "switch"}

Enter(t, s, by) ==
  /\ sess' = [sess EXCEPT ![t] = [s EXCEPT !.mode = "MSG", !.by = by]]
  /\ rd' = [rd EXCEPT ![t].rm = "count"]

\* A handler that finds select waiting makes it return; \E: select may not have begun.
Interrupted(t) ==
  IF sess[t].at = "wait" /\ rd[t].rm = "out" THEN {"wait", "switch"} ELSE {sess[t].at}

\* A signal that comes at the wrong time is not noted.
HandleSlip(t) ==
  LET s == [sess[t] EXCEPT !.sig = FALSE]
  IN  /\ s.at # "off" /\ sess[t].sig /\ ~Masked(t)
      /\ IF ~s.canProcess \/ s.mode = "MSG" THEN sess' = [sess EXCEPT ![t] = s] /\ UNCHANGED rd
         ELSE IF s.blocked THEN sess' = [sess EXCEPT ![t] = [s EXCEPT !.unread = TRUE]] /\ UNCHANGED rd
         ELSE Enter(t, s, "handler")
      /\ UNCHANGED <<files, out, clearing, clears, logins, commands, history>>

\* The handler of SIGUSR2.
Handle(t) ==
  LET s == [sess[t] EXCEPT !.sig = FALSE]
  IN  /\ s.at # "off" /\ sess[t].sig /\ ~Masked(t)
      /\ \/ /\ ~s.canProcess \/ s.mode = "MSG"
            /\ \E at \in Interrupted(t) :
                 sess' = [sess EXCEPT ![t] = [s EXCEPT !.occurred = TRUE,
                            !.at = IF s.at = "unmasked" THEN "caught" ELSE at]]
            /\ UNCHANGED rd
         \/ /\ s.canProcess /\ s.mode # "MSG" /\ s.blocked
            /\ \E at \in Interrupted(t) :
                 sess' = [sess EXCEPT ![t] = [s EXCEPT !.unread = TRUE, !.at = at]]
            /\ UNCHANGED rd
         \/ /\ s.canProcess /\ s.mode # "MSG" /\ ~s.blocked
            /\ Enter(t, s, "handler")
      /\ UNCHANGED <<files, out, clearing, clears, logins, commands, history>>

\* get_unreadcount, and on with the next message, if there is one.
NextMsg(t) ==
  /\ rd[t].rm = "count" /\ Unread # {}
  /\ rd' = [rd EXCEPT ![t].rm = "get"]
  /\ UNCHANGED <<files, out, sess, clearing, clears, logins, commands, history>>

\* The key r_msg waits for after a message (DEF_MSGGETKEY).  In the mode MSG that wait
\* drops the notes of signals, and leaves canProcessSIGUSR2 off.
Answer(t) ==
  /\ rd[t].rm = "key"
  /\ rd' = [rd EXCEPT ![t].rm = "count"]
  /\ sess' = [sess EXCEPT ![t].canProcess = FALSE, ![t].occurred = FALSE]
  /\ UNCHANGED <<files, out, clearing, clears, logins, commands, history>>

\* No message is left: r_msg returns.
Return(t) ==
  LET s == [sess[t] EXCEPT !.unread = FALSE, !.mode = "other", !.by = "nobody"]
  IN  /\ rd[t].rm = "count" /\ Unread = {}
      /\ rd' = [rd EXCEPT ![t] = Out]
      /\ missed' = IF sess[t].by = "igetkey" /\ s.oldblock THEN missed ELSE missed \ {t}
      /\ \/ /\ sess[t].by = "handler"
            /\ \E at \in IF s.at = "wait" THEN {"wait", "switch"} ELSE {s.at} :
                 sess' = [sess EXCEPT ![t] = [s EXCEPT !.at = at]]
         \/ sess[t].by = "switch" /\ sess' = [sess EXCEPT ![t] = [s EXCEPT !.at = "after"]]
         \/ sess[t].by = "igetkey" /\ sess' = [sess EXCEPT ![t] = [s EXCEPT !.blocked = s.oldblock]]
      /\ UNCHANGED <<files, out, clearing, clears, logins, commands, taken, shown, overlap>>

-----------------------------------------------------------------------------
(* A telnet session waits for a key: igetch, switchSIGUSR2 *)

Igetch(t) ==
  /\ sess[t].at = "busy" /\ rd[t].rm = "out"
  /\ sess' = [sess EXCEPT ![t].at = "switch"]
  /\ UNCHANGED <<files, out, rd, clearing, clears, logins, commands, history>>

\* switchSIGUSR2(1), with r_msg(0) for a signal noted.
SwitchOn(t) ==
  LET s == [sess[t] EXCEPT !.canProcess = TRUE]
  IN  /\ s.at = "switch" /\ rd[t].rm = "out"
      /\ \/ /\ ~s.occurred
            /\ sess' = [sess EXCEPT ![t] = [s EXCEPT !.at = "wait"]] /\ UNCHANGED rd
         \/ /\ s.occurred /\ s.mode = "MSG"
            /\ sess' = [sess EXCEPT ![t] = [s EXCEPT !.at = "after"]] /\ UNCHANGED rd
         \/ /\ s.occurred /\ s.mode # "MSG" /\ s.blocked
            /\ sess' = [sess EXCEPT ![t] = [s EXCEPT !.at = "after", !.unread = TRUE]] /\ UNCHANGED rd
         \/ /\ s.occurred /\ s.mode # "MSG" /\ ~s.blocked
            /\ Enter(t, s, "switch")
      /\ UNCHANGED <<files, out, clearing, clears, logins, commands, history>>

Unmask(t) ==
  /\ sess[t].at = "after"
  /\ sess' = [sess EXCEPT ![t].at = "unmasked"]
  /\ UNCHANGED <<files, out, rd, clearing, clears, logins, commands, history>>

\* occurredSIGUSR2 = 0, whatever has set it: also r_msg(0) in the mode MSG, or the
\* handler a moment ago.
SwitchEnd(t) ==
  /\ sess[t].at \in {"unmasked", "caught"} /\ rd[t].rm = "out"
  /\ sess' = [sess EXCEPT ![t].at = "wait", ![t].occurred = FALSE]
  /\ missed' = IF ~sess[t].look /\ (sess[t].mode = "MSG" \/ sess[t].at = "caught")
               THEN missed \cup {t} ELSE missed
  /\ UNCHANGED <<files, out, rd, clearing, clears, logins, commands, taken, shown, overlap>>

Key(t) ==
  /\ sess[t].at = "wait" /\ rd[t].rm = "out"
  /\ sess' = [sess EXCEPT ![t].at = "busy", ![t].canProcess = FALSE]
  /\ UNCHANGED <<files, out, rd, clearing, clears, logins, commands, history>>

-----------------------------------------------------------------------------
(* Commands *)

Busy(t) == sess[t].at = "busy" /\ rd[t].rm = "out"
Command(t) == Busy(t) /\ ~sess[t].look /\ commands < MaxCommands /\ commands' = commands + 1

\* block_msg: vedit (DEF_POSTNOMSG), x_lockscreen.
Start(t, what) ==
  /\ Command(t) /\ sess[t].does = "nothing"
  /\ sess' = [sess EXCEPT ![t].does = what, ![t].blocked = TRUE, ![t].mode = "other"]
  /\ UNCHANGED <<files, out, rd, clearing, clears, logins, history>>

\* editor cannot open the file it is to edit, and leaves messages blocked.
StartFails(t) ==
  /\ Command(t) /\ sess[t].does = "nothing"
  /\ sess' = [sess EXCEPT ![t].blocked = TRUE, ![t].mode = "other"]
  /\ missed' = missed \cup {t}
  /\ UNCHANGED <<files, out, rd, clearing, clears, logins, taken, shown, overlap>>

\* unblock_msg, without the note of what came meanwhile.
UnblockedSlip(s) == [s EXCEPT !.blocked = FALSE]

Unblocked(s) == [s EXCEPT !.blocked = FALSE, !.occurred = TRUE]

Stop(t) ==
  /\ Busy(t) /\ ~sess[t].look /\ sess[t].does # "nothing"
  /\ sess' = [sess EXCEPT ![t] = [Unblocked(@) EXCEPT !.does = "nothing"]]
  /\ UNCHANGED <<files, out, rd, clearing, clears, logins, commands, history>>

\* s_msg, wall: the mode MSG until the next menu.
SendMenu(t) ==
  /\ Command(t) /\ sess[t].does = "nothing"
  /\ sess' = [sess EXCEPT ![t].mode = "MSG"]
  /\ UNCHANGED <<files, out, rd, clearing, clears, logins, history>>

Menu(t) ==
  /\ Busy(t) /\ ~sess[t].look /\ sess[t].does = "nothing" /\ sess[t].mode = "MSG"
  /\ sess' = [sess EXCEPT ![t].mode = "other"]
  /\ UNCHANGED <<files, out, rd, clearing, clears, logins, commands, history>>

\* igetkey: ^Z with the sign on is r_msg(0) ...
CtrlZUnread(t) ==
  /\ Command(t) /\ sess[t].does # "lock" /\ sess[t].unread
  /\ IF sess[t].mode = "MSG" THEN sess' = [sess EXCEPT ![t].occurred = TRUE] /\ UNCHANGED rd
     ELSE Enter(t, [sess[t] EXCEPT !.oldblock = sess[t].blocked, !.blocked = FALSE], "igetkey")
  /\ UNCHANGED <<files, out, clearing, clears, logins, history>>

\* ... and r_msg2 without it.  When there is no message, this blocks and stays in MSG.
CtrlZ(t) ==
  /\ Command(t) /\ sess[t].does # "lock" /\ ~sess[t].unread
  /\ sess' = [sess EXCEPT ![t].blocked = TRUE, ![t].savemode = sess[t].mode,
                          ![t].mode = "MSG", ![t].look = Heads # <<>>]
  /\ missed' = IF Heads = <<>> THEN missed \cup {t} ELSE missed
  /\ UNCHANGED <<files, out, rd, clearing, clears, logins, taken, shown, overlap>>

\* The end of r_msg2.
LookEnd(t) ==
  /\ Busy(t) /\ sess[t].look
  /\ sess' = [sess EXCEPT ![t] = [Unblocked(@) EXCEPT !.look = FALSE, !.mode = sess[t].savemode]]
  /\ UNCHANGED <<files, out, rd, clearing, clears, logins, commands, history>>

Login(t, getkey) ==
  /\ sess[t].at = "off" /\ logins < MaxLogins
  /\ logins' = logins + 1
  /\ sess' = [sess EXCEPT ![t] = [Off EXCEPT !.at = "busy", !.occurred = TRUE, !.getkey = getkey]]
  /\ missed' = missed \ {t}
  /\ UNCHANGED <<files, out, rd, clearing, clears, commands, taken, shown, overlap>>

\* A logout, or a line that is cut (abort_bbs): its senders signal nobody.
Leave(t) ==
  /\ sess[t].at # "off"
  /\ sess' = [sess EXCEPT ![t] = Off]
  /\ rd' = [rd EXCEPT ![t] = Out]
  /\ out' = [m \in Msgs |-> IF out[m].to = t THEN [out[m] EXCEPT !.to = Nobody] ELSE out[m]]
  /\ UNCHANGED <<files, clearing, clears, logins, commands, history>>

-----------------------------------------------------------------------------
Sender(m) == \/ Test(m) \/ OpenIndex(m) \/ OpenContent(m) \/ LockIndex(m)
             \/ WriteText(m) \/ WriteHead(m) \/ Signal(m)
Reader(a) == Get(a) \/ Put(a) \/ Show(a)
RMsg(t) == Reader(t) \/ NextMsg(t) \/ Answer(t) \/ Return(t)
Wait(t) == Igetch(t) \/ SwitchOn(t) \/ Unmask(t) \/ SwitchEnd(t) \/ Key(t)

Next ==
  \/ \E m \in Msgs : Sender(m)
  \/ Clear
  \/ \E w \in Webs : Poll(w) \/ Reader(w)
  \/ \E t \in Telnets :
       \/ Handle(t) \/ RMsg(t) \/ Wait(t)
       \/ \E what \in {"edit", "lock"} : Start(t, what)
       \/ StartFails(t) \/ Stop(t) \/ SendMenu(t) \/ Menu(t) \/ CtrlZUnread(t) \/ CtrlZ(t) \/ LookEnd(t)
       \/ \E getkey \in BOOLEAN : Login(t, getkey)
       \/ Leave(t)

Spec == Init /\ [][Next]_vars

End(t) == Stop(t) \/ Menu(t) \/ LookEnd(t)

\* Processes run, the kernel delivers what is not blocked, and a user types, and ends
\* what was begun; nothing has to be begun.
Fairness ==
  /\ WF_vars(\E m \in Msgs : Sender(m))
  /\ WF_vars(clearing # "no" /\ Clear)
  /\ \A w \in Webs : WF_vars(Reader(w))
  /\ \A t \in Telnets : WF_vars(RMsg(t) \/ Wait(t)) /\ SF_vars(Handle(t)) /\ SF_vars(End(t))

FairSpec == Spec /\ Fairness

-----------------------------------------------------------------------------
(* Properties *)

Positions == {"off", "busy", "switch", "after", "unmasked", "caught", "wait"}

TypeOK ==
  /\ gen \in [index : Gens, index2 : Gens, content : Gens]
  /\ \A g \in Gens : /\ index2[g].read \in 0 .. Len(index2[g].heads)
                     /\ content[g] \in Seq(Msgs)
                     /\ holder[g] \in SUBSET Msgs
  /\ \A m \in Msgs : out[m].pc \in {"idle", "refused", "tested", "saved", "done"} \cup Saving
  /\ \A a \in Sessions : rd[a].rm \in {"out", "count", "get", "put", "show", "key"}
  /\ \A t \in Telnets : sess[t].at \in Positions
  /\ taken \in SUBSET [file : Gens, at : Nat] /\ shown \in SUBSET (Msgs \X (Msgs \cup {Nobody}))
  /\ overlap \in BOOLEAN /\ missed \in SUBSET Telnets

\* get_unreadmsg counts up under a lock two sessions can share: no head is counted as
\* read that no session took.
NoneSkipped ==
  \A g \in Gens : \A i \in 1 .. index2[g].read : [file |-> g, at |-> i] \in taken

\* A message is shown with its own text, though save_msgtext works out the position
\* before it writes, and other senders write: unless clear_msg came in between.
OwnText ==
  ~overlap => \A s \in shown : s[1] = s[2]

\* The unread messages nobody has taken: of two sessions in get_unreadmsg, the later to
\* write can put the number back to what the other has read since.
Fresh == {m \in Unread : \E i \in Read + 1 .. Len(Heads) :
            Heads[i].msg = m /\ [file |-> gen.index2, at |-> i] \notin taken}

\* A session that waits for a key with a message of its own unread knows of it
\* (occurredSIGUSR2, have_msg_unread, unblock_msg at the end of r_msg2), or it has dropped
\* the signal: it waited in the mode MSG outside r_msg and r_msg2; the signal came in the
\* last moment of switchSIGUSR2 after a wait in r_msg; messages stay blocked, since r_msg2
\* found none or the editor no file.
NotForgotten ==
  \A t \in Telnets :
    /\ sess[t].at = "wait" /\ rd[t].rm = "out" /\ ~sess[t].sig /\ ~sess[t].look
    /\ \E m \in Fresh : out[m].pc = "done" /\ out[m].to = t
    => sess[t].occurred \/ sess[t].unread \/ t \in missed

\* A message sent to a session is read at last, if the session stays and drops no signal.
ReadAtLast ==
  \A t \in Telnets, m \in Msgs :
    m \in Fresh /\ out[m].pc = "done" /\ out[m].to = t
      ~> m \notin Fresh \/ sess[t].at = "off" \/ t \in missed
=============================================================================
