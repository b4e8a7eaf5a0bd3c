--------------------------- MODULE MessagesProofs ---------------------------
(***************************************************************************)
(* Proofs about Messages, for any number of messages, sessions and calls   *)
(* of clear_msg: no message is skipped, every message shown has its own    *)
(* text, and no session waits for a key without a note of a message it has *)
(* been told of.  For the first two, most steps, all of the signals and    *)
(* flags among them, leave the files alone (QuietStep); the others are a   *)
(* sender's, a reader's and clear_msg's.  For the last, a step of a        *)
(* session is one that makes its record another (Moved).                   *)
(***************************************************************************)
EXTENDS Messages, SequenceTheorems, TLAPS

Head0 == [msg : Msgs, pos : Nat]
Hand == [file : Gens, at : Nat]
OutRec == [pc : {"idle", "refused", "tested", "saved", "done"} \cup Saving,
           to : Telnets \cup {Nobody}, index : Gens, content : Gens, pos : Nat]
RdRec == [rm : {"out", "count", "get", "put", "show", "key"}, hand : Hand]

\* The types of what concerns the files, and the file each name stands for: all three
\* names stand for the file of the last clear_msg, except while one is under way.
FilesOK ==
  /\ index2 \in [Gens -> [read : Nat, heads : Seq(Head0)]]
  /\ content \in [Gens -> Seq(Msgs)]
  /\ holder \in [Gens -> SUBSET Msgs]
  /\ out \in [Msgs -> OutRec]
  /\ rd \in [Sessions -> RdRec]
  /\ overlap \in BOOLEAN
GensOK ==
  /\ gen \in [index : Gens, index2 : Gens, content : Gens]
  /\ clears \in 0 .. MaxClears
  /\ clearing \in {"no", "index2", "content"}
  /\ gen.index = clears
  /\ clearing = "no" => gen.index2 = clears /\ gen.content = clears
  /\ clearing = "index2" => clears > 0 /\ gen.index2 = clears - 1 /\ gen.content = clears - 1
  /\ clearing = "content" => clears > 0 /\ gen.index2 = clears /\ gen.content = clears - 1
TypeInv == FilesOK /\ GensOK

\* What a session is about to count as read, all before it has been taken.
HandOK(a) ==
  rd[a].rm = "put" =>
    \A i \in 1 .. rd[a].hand.at - 1 : [file |-> rd[a].hand.file, at |-> i] \in taken
TakenInv == NoneSkipped /\ \A a \in Sessions : HandOK(a)

\* Where a head says its text is, it is.
HeadOK(g, i) ==
  /\ index2[g].heads[i].pos < Len(content[g])
  /\ content[g][index2[g].heads[i].pos + 1] = index2[g].heads[i].msg
HeadsOK == \A g \in Gens : \A i \in 1 .. Len(index2[g].heads) : HeadOK(g, i)

\* A sender works on the files of today; its text goes where it measured, as it is
\* the only one with the lock, and is there when it writes the head.
SenderOK(m) ==
  /\ out[m].pc \in Saving => clearing = "no" /\ out[m].index = gen.index
  /\ out[m].pc \in Saving \ {"opening"} => out[m].content = gen.content
  /\ out[m].pc = "locked" => /\ holder[gen.index] = {m}
                             /\ out[m].pos = Len(content[gen.content])
  /\ out[m].pc = "written" => /\ out[m].pos < Len(content[gen.content])
                              /\ content[gen.content][out[m].pos + 1] = m

\* And so does a reader.
ReaderOK(a) ==
  rd[a].rm \in {"put", "show"} =>
    clearing = "no" /\ rd[a].hand.file = gen.index2 /\ rd[a].hand.at > 0

TextInv ==
  ~overlap => /\ HeadsOK
              /\ \A m \in Msgs : SenderOK(m)
              /\ \A a \in Sessions : ReaderOK(a)
              /\ \A s \in shown : s[1] = s[2]

IInv == TypeInv /\ TakenInv /\ TextInv

-----------------------------------------------------------------------------
\* A step that touches no file, and leaves every sender inside save_msgtext and
\* every session with a message in hand where they are.
QuietStep ==
  /\ UNCHANGED <<files, clearing, clears, taken, shown, overlap>>
  /\ out' \in [Msgs -> OutRec] /\ rd' \in [Sessions -> RdRec]
  /\ \A m \in Msgs : \/ out'[m].pc \notin Saving
                     \/ /\ out'[m].pc = out[m].pc /\ out'[m].pos = out[m].pos
                        /\ out'[m].index = out[m].index /\ out'[m].content = out[m].content
  /\ \A a \in Sessions : rd'[a] = rd[a] \/ rd'[a].rm \notin {"put", "show"}

LEMMA QuietKeeps ==
  ASSUME IInv, QuietStep PROVE IInv'
<1>1. TypeInv'
  BY DEF IInv, QuietStep, TypeInv, FilesOK, GensOK, files
<1>2. TakenInv'
  BY DEF IInv, QuietStep, TakenInv, NoneSkipped, HandOK, files
<1>3. TextInv'
  <2> SUFFICES ASSUME ~overlap' PROVE TextInv!2'
    BY DEF TextInv
  <2>0. ~overlap /\ HeadsOK /\ (\A m \in Msgs : SenderOK(m)) /\ (\A a \in Sessions : ReaderOK(a))
        /\ \A s \in shown : s[1] = s[2]
    BY DEF IInv, QuietStep, TextInv
  <2>1. HeadsOK'
    BY <2>0 DEF QuietStep, HeadsOK, HeadOK, files
  <2>2. \A m \in Msgs : SenderOK(m)'
    <3> SUFFICES ASSUME NEW m \in Msgs PROVE SenderOK(m)'
      OBVIOUS
    <3> QED
      BY <2>0 DEF QuietStep, SenderOK, files, Saving
  <2>3. \A a \in Sessions : ReaderOK(a)'
    BY <2>0 DEF QuietStep, ReaderOK, files
  <2> QED
    BY <2>0, <2>1, <2>2, <2>3 DEF QuietStep
<1> QED
  BY <1>1, <1>2, <1>3 DEF IInv

\* The steps of the sessions but those that read or write the files.
SessionStep(t) ==
  \/ Handle(t) \/ NextMsg(t) \/ Answer(t) \/ Return(t) \/ Wait(t)
  \/ \E what \in {"edit", "lock"} : Start(t, what)
  \/ StartFails(t) \/ Stop(t) \/ SendMenu(t) \/ Menu(t) \/ CtrlZUnread(t) \/ CtrlZ(t)
  \/ LookEnd(t)
  \/ \E getkey \in BOOLEAN : Login(t, getkey)

\* A session's own step changes where it is in reading a message, if anything.
LEMMA OneReader ==
  ASSUME TypeInv, NEW t \in Sessions, NEW r \in RdRec, r.rm \notin {"put", "show"},
         UNCHANGED <<files, out, clearing, clears, taken, shown, overlap>>,
         rd' = rd \/ rd' = [rd EXCEPT ![t] = r]
  PROVE  QuietStep
BY DEF TypeInv, FilesOK, QuietStep

LEMMA SessionStepIsQuiet ==
  ASSUME TypeInv, NEW t \in Telnets, SessionStep(t) PROVE QuietStep
<1> USE DEF history
<1>0. t \in Sessions /\ rd[t] \in RdRec /\ NoHead \in Hand /\ Out \in RdRec
      /\ MaxClears \in Nat
  BY MessagesAssumption DEF Sessions, TypeInv, FilesOK, Out, NoHead, Hand, RdRec, Gens
<1>1. /\ [rd[t] EXCEPT !.rm = "count"] \in RdRec /\ [rd[t] EXCEPT !.rm = "get"] \in RdRec
      /\ [rd[t] EXCEPT !.rm = "count"].rm = "count" /\ [rd[t] EXCEPT !.rm = "get"].rm = "get"
  BY <1>0 DEF RdRec
<1>2. ASSUME NEW s, NEW by, Enter(t, s, by)
      PROVE  rd' = [rd EXCEPT ![t] = [rd[t] EXCEPT !.rm = "count"]]
  BY <1>2 DEF Enter
<1>3. CASE Handle(t)
  BY <1>0, <1>1, <1>3, <1>2, OneReader DEF Handle
<1>4. CASE NextMsg(t)
  <2>1. rd' = [rd EXCEPT ![t] = [rd[t] EXCEPT !.rm = "get"]]
    BY <1>4 DEF NextMsg
  <2> QED
    BY <1>0, <1>1, <1>4, <2>1, OneReader DEF NextMsg
<1>5. CASE Answer(t)
  <2>1. rd' = [rd EXCEPT ![t] = [rd[t] EXCEPT !.rm = "count"]]
    BY <1>5 DEF Answer
  <2> QED
    BY <1>0, <1>1, <1>5, <2>1, OneReader DEF Answer
<1>6. CASE Return(t)
  <2>1. rd' = [rd EXCEPT ![t] = Out] /\ Out.rm = "out"
    BY <1>6 DEF Return, Out
  <2> QED
    BY <1>0, <1>6, <2>1, OneReader DEF Return
<1>7. CASE Wait(t)
  <2>1. CASE SwitchOn(t)
    BY <1>0, <1>1, <2>1, <1>2, OneReader DEF SwitchOn
  <2> QED
    BY <1>0, <1>1, <1>7, <2>1, OneReader DEF Wait, Igetch, Unmask, SwitchEnd, Key
<1>8. CASE CtrlZUnread(t)
  BY <1>0, <1>1, <1>8, <1>2, OneReader DEF CtrlZUnread
<1>9. CASE \/ \E what \in {"edit", "lock"} : Start(t, what)
           \/ StartFails(t) \/ Stop(t) \/ SendMenu(t) \/ Menu(t) \/ CtrlZ(t) \/ LookEnd(t)
           \/ \E getkey \in BOOLEAN : Login(t, getkey)
  <2>1. UNCHANGED <<files, out, rd, clearing, clears, taken, shown, overlap>>
    BY <1>9 DEF Start, StartFails, Stop, SendMenu, Menu, CtrlZ, LookEnd, Login
  <2> QED
    BY <1>0, <1>1, <2>1, OneReader
<1> QED
  BY <1>3, <1>4, <1>5, <1>6, <1>7, <1>8, <1>9 DEF SessionStep

\* A message is withdrawn from a session that leaves; what its sender does is the same.
LEMMA LeaveIsQuiet ==
  ASSUME TypeInv, NEW t \in Telnets, Leave(t) PROVE QuietStep
<1> USE DEF history
<1>0. t \in Sessions /\ NoHead \in Hand /\ Out \in RdRec /\ Out.rm = "out"
  BY MessagesAssumption DEF Sessions, TypeInv, FilesOK, Out, NoHead, Hand, RdRec, Gens
<1>1. \A m \in Msgs : [out[m] EXCEPT !.to = Nobody] \in OutRec
  BY DEF TypeInv, FilesOK, OutRec
<1>2. out' \in [Msgs -> OutRec]
  BY <1>1 DEF Leave, TypeInv, FilesOK
<1>3. \A m \in Msgs : /\ out'[m].pc = out[m].pc /\ out'[m].pos = out[m].pos
                      /\ out'[m].index = out[m].index /\ out'[m].content = out[m].content
  BY DEF Leave, TypeInv, FilesOK, OutRec
<1>4. rd' \in [Sessions -> RdRec] /\ \A a \in Sessions : rd'[a] = rd[a] \/ rd'[a].rm \notin {"put", "show"}
  BY <1>0 DEF Leave, TypeInv, FilesOK
<1> QED
  BY <1>2, <1>3, <1>4 DEF QuietStep, Leave

LEMMA PollIsQuiet ==
  ASSUME TypeInv, NEW w \in Webs, Poll(w) PROVE QuietStep
<1>1. w \in Sessions /\ [rd[w] EXCEPT !.rm = "get"] \in RdRec /\ [rd[w] EXCEPT !.rm = "get"].rm = "get"
  BY DEF Sessions, TypeInv, FilesOK, RdRec
<1>2. rd' = [rd EXCEPT ![w] = [rd[w] EXCEPT !.rm = "get"]]
  BY DEF Poll
<1> QED
  BY <1>1, <1>2, OneReader DEF Poll, history

\* A sender outside save_msgtext.
LEMMA TestAndSignalAreQuiet ==
  ASSUME TypeInv, NEW m \in Msgs, Test(m) \/ Signal(m) PROVE QuietStep
<1> USE DEF history
<1>1. PICK o \in OutRec : out' = [out EXCEPT ![m] = o] /\ o.pc \notin Saving
  <2>0. out[m] \in OutRec
    BY DEF TypeInv, FilesOK
  <2>1. CASE Test(m)
    <3>1. PICK to \in {Nobody} \cup Telnets, c \in {"refused", "tested"} :
            out' = [out EXCEPT ![m] = [[out[m] EXCEPT !.to = to] EXCEPT !.pc = c]]
      BY <2>1 DEF Test
    <3>2. [out[m] EXCEPT !.to = to] \in OutRec
      BY <2>0 DEF OutRec
    <3> DEFINE o == [[out[m] EXCEPT !.to = to] EXCEPT !.pc = c]
    <3>3. o \in OutRec /\ o.pc = c
      BY <3>2 DEF OutRec
    <3> QED
      BY <3>1, <3>3 DEF Saving
  <2>2. CASE Signal(m)
    <3> DEFINE o == [out[m] EXCEPT !.pc = "done"]
    <3>1. out' = [out EXCEPT ![m] = o]
      BY <2>2 DEF Signal
    <3>2. o \in OutRec /\ o.pc = "done"
      BY <2>0 DEF OutRec
    <3> QED
      BY <3>1, <3>2 DEF Saving
  <2> QED
    BY <2>1, <2>2
<1>2. UNCHANGED <<files, rd, clearing, clears, taken, shown, overlap>>
  BY DEF Test, Signal
<1>3. out' \in [Msgs -> OutRec]
  BY <1>1 DEF TypeInv, FilesOK
<1>4. \A k \in Msgs : out'[k] = out[k] \/ out'[k].pc \notin Saving
  BY <1>1 DEF TypeInv, FilesOK
<1> QED
  BY <1>2, <1>3, <1>4 DEF QuietStep, TypeInv, FilesOK

-----------------------------------------------------------------------------
(* Senders *)

\* What the text of a sender needs, in one place.
LEMMA TextParts ==
  ASSUME TextInv, ~overlap
  PROVE  /\ HeadsOK /\ \A m \in Msgs : SenderOK(m)
         /\ \A a \in Sessions : ReaderOK(a)
         /\ \A s \in shown : s[1] = s[2]
BY DEF TextInv

\* A sender opens a file.
LEMMA OpenKeeps ==
  ASSUME IInv, NEW m \in Msgs, OpenIndex(m) \/ OpenContent(m) PROVE IInv'
<1> USE DEF history
<1> DEFINE o == IF out[m].pc = "tested"
                THEN [[out[m] EXCEPT !.pc = "opening"] EXCEPT !.index = gen.index]
                ELSE [[out[m] EXCEPT !.pc = "open"] EXCEPT !.content = gen.content]
<1>0. TypeInv /\ TakenInv /\ TextInv
  BY DEF IInv
<1>1. /\ out' = [out EXCEPT ![m] = o]
      /\ UNCHANGED <<files, rd, clearing, clears, taken, shown>>
      /\ overlap' = (overlap \/ (out[m].pc = "tested" /\ clearing # "no"))
  <2>1. CASE OpenIndex(m)
    BY <2>1, <1>0 DEF OpenIndex, TypeInv, FilesOK
  <2>2. CASE OpenContent(m)
    BY <2>2, <1>0 DEF OpenContent, TypeInv, FilesOK
  <2> QED
    BY <2>1, <2>2
<1>2. out[m] \in OutRec /\ gen.index \in Gens /\ gen.content \in Gens
  BY <1>0 DEF TypeInv, FilesOK, GensOK
<1>3. /\ o \in OutRec
      /\ out[m].pc = "tested" => o.pc = "opening" /\ o.index = gen.index
      /\ out[m].pc # "tested" => o.pc = "open" /\ o.index = out[m].index /\ o.content = gen.content
  BY <1>2 DEF OutRec, Saving
<1>4. out[m].pc = "tested" \/ out[m].pc = "opening"
  BY DEF OpenIndex, OpenContent
<1> HIDE DEF o
<1>5. out' \in [Msgs -> OutRec] /\ out'[m] = o /\ \A k \in Msgs \ {m} : out'[k] = out[k]
  BY <1>0, <1>1, <1>3 DEF TypeInv, FilesOK
<1>6. TypeInv'
  BY <1>0, <1>1, <1>5 DEF TypeInv, FilesOK, GensOK, files
<1>7. TakenInv'
  BY <1>0, <1>1 DEF TakenInv, NoneSkipped, HandOK, files
<1>8. TextInv'
  <2> SUFFICES ASSUME ~overlap'
               PROVE  /\ HeadsOK' /\ \A k \in Msgs : SenderOK(k)'
                      /\ \A a \in Sessions : ReaderOK(a)'
                      /\ \A s \in shown' : s[1] = s[2]
    BY DEF TextInv
  <2>0. ~overlap /\ (out[m].pc = "tested" => clearing = "no")
    BY <1>1
  <2>1. /\ HeadsOK /\ \A k \in Msgs : SenderOK(k)
        /\ \A a \in Sessions : ReaderOK(a)
        /\ \A s \in shown : s[1] = s[2]
    BY <1>0, <2>0, TextParts
  <2>2. HeadsOK' /\ (\A a \in Sessions : ReaderOK(a)') /\ \A s \in shown' : s[1] = s[2]
    BY <1>1, <2>1 DEF HeadsOK, HeadOK, ReaderOK, files
  <2>3. SenderOK(m)'
    BY <1>1, <1>3, <1>4, <1>5, <2>0, <2>1 DEF SenderOK, files, Saving
  <2>4. \A k \in Msgs \ {m} : SenderOK(k)'
    BY <1>1, <1>5, <2>1 DEF SenderOK, files
  <2> QED
    BY <2>2, <2>3, <2>4
<1> QED
  BY <1>6, <1>7, <1>8 DEF IInv

\* A sender locks msgindex and measures msgcontent: nobody else has the lock.
LEMMA LockIndexKeeps ==
  ASSUME IInv, NEW m \in Msgs, LockIndex(m) PROVE IInv'
<1> USE DEF history
<1> DEFINE n == Len(content[out[m].content])
           o == [[out[m] EXCEPT !.pc = "locked"] EXCEPT !.pos = n]
<1>0. TypeInv /\ TakenInv /\ TextInv
  BY DEF IInv
<1>1. /\ out' = [out EXCEPT ![m] = o]
      /\ holder' = [holder EXCEPT ![out[m].index] = {m}] /\ holder[out[m].index] = {}
      /\ UNCHANGED <<gen, index2, content, rd, clearing, clears, taken, shown, overlap>>
      /\ out[m].pc = "open"
  BY <1>0 DEF LockIndex, TypeInv, FilesOK
<1>2. out[m] \in OutRec /\ out[m].index \in Gens /\ out[m].content \in Gens /\ n \in Nat
  <2>1. out[m] \in OutRec /\ content \in [Gens -> Seq(Msgs)]
    BY <1>0 DEF TypeInv, FilesOK
  <2>2. out[m].index \in Gens /\ out[m].content \in Gens
    BY <2>1 DEF OutRec
  <2> QED
    BY <2>1, <2>2
<1> HIDE DEF n
<1>3. o \in OutRec /\ o.pc = "locked" /\ o.pos = n /\ o.index = out[m].index /\ o.content = out[m].content
  BY <1>2 DEF OutRec, Saving
<1> HIDE DEF o
<1>5. out' \in [Msgs -> OutRec] /\ out'[m] = o /\ \A k \in Msgs \ {m} : out'[k] = out[k]
  BY <1>0, <1>1, <1>3 DEF TypeInv, FilesOK
<1>6. TypeInv'
  <2>1. holder' \in [Gens -> SUBSET Msgs]
    BY <1>0, <1>1, <1>2 DEF TypeInv, FilesOK
  <2> QED
    BY <1>0, <1>1, <1>5, <2>1 DEF TypeInv, FilesOK, GensOK
<1>7. TakenInv'
  BY <1>0, <1>1 DEF TakenInv, NoneSkipped, HandOK
<1>8. TextInv'
  <2> SUFFICES ASSUME ~overlap'
               PROVE  /\ HeadsOK' /\ \A k \in Msgs : SenderOK(k)'
                      /\ \A a \in Sessions : ReaderOK(a)'
                      /\ \A s \in shown' : s[1] = s[2]
    BY DEF TextInv
  <2>1. /\ HeadsOK /\ \A k \in Msgs : SenderOK(k)
        /\ \A a \in Sessions : ReaderOK(a)
        /\ \A s \in shown : s[1] = s[2]
    BY <1>0, <1>1, TextParts
  <2>2. HeadsOK' /\ (\A a \in Sessions : ReaderOK(a)') /\ \A s \in shown' : s[1] = s[2]
    BY <1>1, <2>1 DEF HeadsOK, HeadOK, ReaderOK
  <2>3. clearing = "no" /\ out[m].index = gen.index /\ out[m].content = gen.content
    BY <1>1, <2>1 DEF SenderOK, Saving
  <2>4. holder'[gen.index] = {m}
    BY <1>0, <1>1, <1>2, <2>3 DEF TypeInv, FilesOK
  <2>5. SenderOK(m)'
    BY <1>1, <1>3, <1>5, <2>3, <2>4 DEF SenderOK, n
  <2>6. ASSUME NEW k \in Msgs \ {m} PROVE SenderOK(k)'
    <3>1. SenderOK(k) /\ out'[k] = out[k]
      BY <1>5, <2>1
    <3>2. out[k].pc # "locked"
      BY <3>1, <1>1, <2>3 DEF SenderOK
    <3> QED
      BY <1>1, <3>1, <3>2 DEF SenderOK
  <2> QED
    BY <2>2, <2>5, <2>6
<1> QED
  BY <1>6, <1>7, <1>8 DEF IInv

\* A sender writes its text, at the end of msgcontent unless a clear_msg came in between.
LEMMA WriteTextKeeps ==
  ASSUME IInv, NEW m \in Msgs, WriteText(m) PROVE IInv'
<1> USE DEF history
<1> DEFINE g == out[m].content
           o == [out[m] EXCEPT !.pc = "written"]
           c == IF out[m].pos < Len(content[g])
                THEN [content[g] EXCEPT ![out[m].pos + 1] = m] ELSE Append(content[g], m)
<1>0. TypeInv /\ TakenInv /\ TextInv
  BY DEF IInv
<1>1. /\ out' = [out EXCEPT ![m] = o]
      /\ content' = [content EXCEPT ![g] = c]
      /\ holder' = [holder EXCEPT ![out[m].index] = @ \ {m}]
      /\ UNCHANGED <<gen, index2, rd, clearing, clears, taken, shown, overlap>>
      /\ out[m].pc = "locked"
  BY <1>0 DEF WriteText, TypeInv, FilesOK
<1>2. /\ out[m] \in OutRec /\ out[m].index \in Gens /\ g \in Gens /\ out[m].pos \in Nat
      /\ content[g] \in Seq(Msgs)
  <2>1. out[m] \in OutRec /\ content \in [Gens -> Seq(Msgs)]
    BY <1>0 DEF TypeInv, FilesOK
  <2>2. out[m].index \in Gens /\ out[m].content \in Gens /\ out[m].pos \in Nat
    BY <2>1 DEF OutRec
  <2> QED
    BY <2>1, <2>2
<1>3. /\ o \in OutRec /\ o.pc = "written" /\ o.pos = out[m].pos
      /\ o.index = out[m].index /\ o.content = g
  BY <1>2 DEF OutRec, Saving
<1>4. c \in Seq(Msgs)
  <2>1. CASE out[m].pos < Len(content[g])
    <3>1. out[m].pos + 1 \in 1 .. Len(content[g])
      BY <1>2, <2>1
    <3> QED
      BY <1>2, <2>1, <3>1, ExceptSeq
  <2>2. CASE ~(out[m].pos < Len(content[g]))
    BY <1>2, <2>2
  <2> QED
    BY <2>1, <2>2
<1>5. out[m].pos = Len(content[g]) =>
        /\ Len(c) = Len(content[g]) + 1 /\ c[out[m].pos + 1] = m
        /\ \A i \in 1 .. Len(content[g]) : c[i] = content[g][i]
  BY <1>2
<1> HIDE DEF o, c
<1>6. out' \in [Msgs -> OutRec] /\ out'[m] = o /\ \A k \in Msgs \ {m} : out'[k] = out[k]
  BY <1>0, <1>1, <1>3 DEF TypeInv, FilesOK
<1>7. /\ content' \in [Gens -> Seq(Msgs)] /\ content'[g] = c
      /\ \A h \in Gens \ {g} : content'[h] = content[h]
  BY <1>0, <1>1, <1>2, <1>4 DEF TypeInv, FilesOK
<1>8. TypeInv'
  <2>1. holder' \in [Gens -> SUBSET Msgs]
    BY <1>0, <1>1, <1>2 DEF TypeInv, FilesOK
  <2> QED
    BY <1>0, <1>1, <1>6, <1>7, <2>1 DEF TypeInv, FilesOK, GensOK
<1>9. TakenInv'
  BY <1>0, <1>1 DEF TakenInv, NoneSkipped, HandOK
<1>10. TextInv'
  <2> SUFFICES ASSUME ~overlap'
               PROVE  /\ HeadsOK' /\ \A k \in Msgs : SenderOK(k)'
                      /\ \A a \in Sessions : ReaderOK(a)'
                      /\ \A s \in shown' : s[1] = s[2]
    BY DEF TextInv
  <2>1. /\ HeadsOK /\ \A k \in Msgs : SenderOK(k)
        /\ \A a \in Sessions : ReaderOK(a)
        /\ \A s \in shown : s[1] = s[2]
    BY <1>0, <1>1, TextParts
  <2>2. /\ clearing = "no" /\ out[m].index = gen.index /\ g = gen.content
        /\ out[m].pos = Len(content[g]) /\ holder[gen.index] = {m}
    BY <1>1, <2>1 DEF SenderOK, Saving
  <2>3. \A h \in Gens : /\ Len(content[h]) \in Nat /\ Len(content'[h]) \in Nat
                         /\ Len(content[h]) <= Len(content'[h])
                         /\ \A i \in 1 .. Len(content[h]) : content'[h][i] = content[h][i]
    <3> SUFFICES ASSUME NEW h \in Gens
                 PROVE  /\ Len(content[h]) \in Nat /\ Len(content'[h]) \in Nat
                        /\ Len(content[h]) <= Len(content'[h])
                        /\ \A i \in 1 .. Len(content[h]) : content'[h][i] = content[h][i]
      OBVIOUS
    <3>1. Len(content[h]) \in Nat
      BY <1>0 DEF TypeInv, FilesOK
    <3>2. CASE h = g
      BY <1>5, <1>7, <2>2, <3>1, <3>2
    <3>3. CASE h # g
      BY <1>7, <3>1, <3>3
    <3> QED
      BY <3>2, <3>3
  <2>4. HeadsOK'
    <3> SUFFICES ASSUME NEW h \in Gens, NEW i \in 1 .. Len(index2[h].heads)
                 PROVE  HeadOK(h, i)'
      BY <1>1 DEF HeadsOK
    <3>1. index2[h].heads \in Seq(Head0)
      BY <1>0 DEF TypeInv, FilesOK
    <3>2. index2[h].heads[i] \in Head0
      BY <3>1
    <3>3. index2[h].heads[i].pos \in Nat
      BY <3>2 DEF Head0
    <3>4. HeadOK(h, i)
      BY <2>1 DEF HeadsOK
    <3> DEFINE n == index2[h].heads[i].pos
    <3>5. n < Len(content[h]) /\ content[h][n + 1] = index2[h].heads[i].msg /\ n \in Nat
      BY <3>3, <3>4 DEF HeadOK
    <3> HIDE DEF n
    <3>6. n + 1 \in 1 .. Len(content[h]) /\ n < Len(content'[h])
      BY <2>3, <3>5
    <3>7. n < Len(content'[h]) /\ content'[h][n + 1] = index2[h].heads[i].msg
      BY <2>3, <3>5, <3>6
    <3> QED
      BY <1>1, <3>7 DEF HeadOK, n
  <2>5. (\A a \in Sessions : ReaderOK(a)') /\ \A s \in shown' : s[1] = s[2]
    BY <1>1, <2>1 DEF ReaderOK
  <2>6. SenderOK(m)'
    BY <1>1, <1>2, <1>3, <1>5, <1>6, <1>7, <2>2 DEF SenderOK
  <2>7. ASSUME NEW k \in Msgs \ {m} PROVE SenderOK(k)'
    <3>1. SenderOK(k) /\ out'[k] = out[k] /\ out[k].pos \in Nat
      BY <1>0, <1>6, <2>1 DEF TypeInv, FilesOK, OutRec
    <3>2. out[k].pc # "locked"
      BY <3>1, <2>2 DEF SenderOK
    <3>3. out[k].pc = "written" => /\ out[k].pos < Len(content'[gen.content])
                                   /\ content'[gen.content][out[k].pos + 1] = k
      BY <3>1, <2>2, <2>3, <1>2 DEF SenderOK
    <3>0. gen' = gen /\ clearing' = clearing
      BY <1>1
    <3>4. /\ out'[k].pc \in Saving => clearing' = "no" /\ out'[k].index = gen'.index
          /\ out'[k].pc \in Saving \ {"opening"} => out'[k].content = gen'.content
      BY <3>0, <3>1 DEF SenderOK
    <3>5. out'[k].pc = "written" => /\ out'[k].pos < Len(content'[gen'.content])
                                    /\ content'[gen'.content][out'[k].pos + 1] = k
      BY <3>0, <3>1, <3>3
    <3>6. out'[k].pc # "locked"
      BY <3>1, <3>2
    <3> QED
      BY <3>4, <3>5, <3>6 DEF SenderOK
  <2> QED
    BY <2>4, <2>5, <2>6, <2>7
<1> QED
  BY <1>8, <1>9, <1>10 DEF IInv

\* A sender writes the head of its message.
LEMMA WriteHeadKeeps ==
  ASSUME IInv, NEW m \in Msgs, WriteHead(m) PROVE IInv'
<1> USE DEF history
<1> DEFINE g == gen.index2
           o == [out[m] EXCEPT !.pc = "saved", !.index = 0, !.content = 0, !.pos = 0]
           hd == [msg |-> m, pos |-> out[m].pos]
           x == [index2[g] EXCEPT !.heads = Append(@, hd)]
<1>0. TypeInv /\ TakenInv /\ TextInv
  BY DEF IInv
<1>1. /\ out' = [out EXCEPT ![m] = o]
      /\ index2' = [index2 EXCEPT ![g] = x]
      /\ UNCHANGED <<gen, content, holder, rd, clearing, clears, taken, shown, overlap>>
      /\ out[m].pc = "written"
  BY <1>0 DEF WriteHead, TypeInv, FilesOK
<1>2. /\ out[m] \in OutRec /\ out[m].pos \in Nat /\ g \in Gens
      /\ index2[g] \in [read : Nat, heads : Seq(Head0)] /\ index2[g].heads \in Seq(Head0)
      /\ 0 \in Gens
  <2>1. out[m] \in OutRec /\ index2 \in [Gens -> [read : Nat, heads : Seq(Head0)]]
        /\ gen \in [index : Gens, index2 : Gens, content : Gens]
    BY <1>0 DEF TypeInv, FilesOK, GensOK
  <2>2. out[m].pos \in Nat /\ g \in Gens
    BY <2>1 DEF OutRec
  <2> QED
    BY <2>1, <2>2, MessagesAssumption DEF Gens
<1>3. o \in OutRec /\ o.pc = "saved"
  <2> DEFINE o1 == [out[m] EXCEPT !.pc = "saved"]
             o2 == [o1 EXCEPT !.index = 0]
             o3 == [o2 EXCEPT !.content = 0]
  <2>1. o1 \in OutRec
    BY <1>2 DEF OutRec
  <2>2. o2 \in OutRec
    BY <1>2, <2>1 DEF OutRec
  <2>3. o3 \in OutRec
    BY <1>2, <2>2 DEF OutRec
  <2>4. [o3 EXCEPT !.pos = 0] \in OutRec /\ [o3 EXCEPT !.pos = 0].pc = "saved"
    BY <2>3 DEF OutRec
  <2> QED
    BY <2>4
<1>4. /\ x \in [read : Nat, heads : Seq(Head0)] /\ x.read = index2[g].read
      /\ x.heads = Append(index2[g].heads, hd) /\ hd \in Head0
      /\ hd.msg = m /\ hd.pos = out[m].pos
  <2>1. hd \in Head0 /\ hd.msg = m /\ hd.pos = out[m].pos
    BY <1>2 DEF Head0
  <2> HIDE DEF hd
  <2>2. Append(index2[g].heads, hd) \in Seq(Head0)
    BY <1>2, <2>1, AppendProperties
  <2> DEFINE hs == Append(index2[g].heads, hd)
  <2>3. x = [index2[g] EXCEPT !.heads = hs]
    OBVIOUS
  <2>4. hs \in Seq(Head0)
    BY <2>2
  <2> HIDE DEF hs, x
  <2>5. x \in [read : Nat, heads : Seq(Head0)] /\ x.read = index2[g].read /\ x.heads = hs
    BY <1>2, <2>3, <2>4
  <2> QED
    BY <2>1, <2>5 DEF hs
<1>5. /\ Len(x.heads) = Len(index2[g].heads) + 1
      /\ x.heads[Len(index2[g].heads) + 1] = hd
      /\ \A i \in 1 .. Len(index2[g].heads) : x.heads[i] = index2[g].heads[i]
      /\ Len(index2[g].heads) \in Nat
  <2> HIDE DEF hd, x
  <2>1. index2[g].heads \in Seq(Head0) /\ hd \in Head0
    BY <1>2, <1>4
  <2> QED
    BY <2>1, <1>4, AppendProperties, LenProperties
<1> HIDE DEF o, x, hd
<1>6. out' \in [Msgs -> OutRec] /\ out'[m] = o /\ \A k \in Msgs \ {m} : out'[k] = out[k]
  BY <1>0, <1>1, <1>3 DEF TypeInv, FilesOK
<1>7. /\ index2' \in [Gens -> [read : Nat, heads : Seq(Head0)]] /\ index2'[g] = x
      /\ \A h \in Gens \ {g} : index2'[h] = index2[h]
  BY <1>0, <1>1, <1>2, <1>4 DEF TypeInv, FilesOK
<1>8. TypeInv'
  BY <1>0, <1>1, <1>6, <1>7 DEF TypeInv, FilesOK, GensOK
<1>9. TakenInv'
  <2>1. \A h \in Gens : index2'[h].read = index2[h].read
    BY <1>4, <1>7
  <2> QED
    BY <1>0, <1>1, <2>1 DEF TakenInv, NoneSkipped, HandOK
<1>10. TextInv'
  <2> SUFFICES ASSUME ~overlap'
               PROVE  /\ HeadsOK' /\ \A k \in Msgs : SenderOK(k)'
                      /\ \A a \in Sessions : ReaderOK(a)'
                      /\ \A s \in shown' : s[1] = s[2]
    BY DEF TextInv
  <2>1. /\ HeadsOK /\ \A k \in Msgs : SenderOK(k)
        /\ \A a \in Sessions : ReaderOK(a)
        /\ \A s \in shown : s[1] = s[2]
    BY <1>0, <1>1, TextParts
  <2>2. /\ g = gen.content /\ out[m].pos < Len(content[gen.content])
        /\ content[gen.content][out[m].pos + 1] = m
    <3>1. /\ clearing = "no" /\ out[m].pos < Len(content[gen.content])
          /\ content[gen.content][out[m].pos + 1] = m
      BY <1>1, <2>1 DEF SenderOK, Saving
    <3> QED
      BY <1>0, <3>1 DEF TypeInv, GensOK
  <2>3. HeadsOK'
    <3> SUFFICES ASSUME NEW h \in Gens, NEW i \in 1 .. Len(index2'[h].heads)
                 PROVE  HeadOK(h, i)'
      BY DEF HeadsOK
    <3>1. CASE h # g
      <4>1. HeadOK(h, i)
        BY <1>7, <2>1, <3>1 DEF HeadsOK
      <4> QED
        BY <1>1, <1>7, <3>1, <4>1 DEF HeadOK
    <3>2. CASE h = g /\ i <= Len(index2[g].heads)
      <4>1. HeadOK(g, i)
        BY <1>5, <1>7, <2>1, <3>2, <1>2 DEF HeadsOK
      <4>2. index2'[h].heads[i] = index2[g].heads[i]
        BY <1>5, <1>7, <3>2
      <4> QED
        BY <1>1, <3>2, <4>1, <4>2 DEF HeadOK
    <3>3. CASE h = g /\ i > Len(index2[g].heads)
      <4>1. index2'[h].heads[i] = hd
        BY <1>5, <1>7, <3>3
      <4> QED
        BY <1>1, <1>4, <2>2, <3>3, <4>1 DEF HeadOK
    <3> QED
      BY <1>5, <3>1, <3>2, <3>3
  <2>4. (\A a \in Sessions : ReaderOK(a)') /\ \A s \in shown' : s[1] = s[2]
    BY <1>1, <2>1 DEF ReaderOK
  <2>5. SenderOK(m)'
    BY <1>3, <1>6 DEF SenderOK, Saving
  <2>6. \A k \in Msgs \ {m} : SenderOK(k)'
    BY <1>1, <1>6, <2>1 DEF SenderOK
  <2> QED
    BY <2>3, <2>4, <2>5, <2>6
<1> QED
  BY <1>8, <1>9, <1>10 DEF IInv

-----------------------------------------------------------------------------
(* clear_msg and the readers *)

\* A clearing that overlaps nobody leaves nobody with a file that is gone.
LEMMA ClearKeeps ==
  ASSUME IInv, Clear PROVE IInv'
<1> USE DEF history
<1>0. TypeInv /\ TakenInv /\ TextInv /\ MaxClears \in Nat
  BY MessagesAssumption DEF IInv
<1>1. /\ UNCHANGED <<index2, content, holder, out, rd, taken, shown>>
      /\ overlap' \in BOOLEAN
      /\ ~overlap' => /\ ~overlap /\ \A m \in Msgs : out[m].pc \notin Saving
                      /\ \A a \in Sessions : rd[a].rm \notin {"put", "show"}
  BY <1>0 DEF Clear, TypeInv, FilesOK
<1>2. GensOK'
  <2>1. /\ gen \in [index : Gens, index2 : Gens, content : Gens] /\ clears \in 0 .. MaxClears
        /\ Gens = 0 .. MaxClears
    BY <1>0 DEF TypeInv, GensOK, Gens
  <2>2. CASE clearing = "no" /\ clears < MaxClears
    <3>1. clears' = clears + 1 /\ clearing' = "index2" /\ gen' = [gen EXCEPT !.index = @ + 1]
      BY <2>2 DEF Clear
    <3> QED
      BY <1>0, <2>1, <2>2, <3>1 DEF TypeInv, GensOK
  <2>3. CASE clearing = "index2"
    <3>1. clears' = clears /\ clearing' = "content" /\ gen' = [gen EXCEPT !.index2 = @ + 1]
      BY <2>3 DEF Clear
    <3> QED
      BY <1>0, <2>1, <2>3, <3>1 DEF TypeInv, GensOK
  <2>4. CASE clearing = "content"
    <3>1. clears' = clears /\ clearing' = "no" /\ gen' = [gen EXCEPT !.content = @ + 1]
      BY <2>4 DEF Clear
    <3> QED
      BY <1>0, <2>1, <2>4, <3>1 DEF TypeInv, GensOK
  <2> QED
    BY <2>2, <2>3, <2>4 DEF Clear
<1>3. TypeInv'
  BY <1>0, <1>1, <1>2 DEF TypeInv, FilesOK
<1>4. TakenInv'
  BY <1>0, <1>1 DEF TakenInv, NoneSkipped, HandOK
<1>5. TextInv'
  <2> SUFFICES ASSUME ~overlap'
               PROVE  /\ HeadsOK' /\ \A k \in Msgs : SenderOK(k)'
                      /\ \A a \in Sessions : ReaderOK(a)'
                      /\ \A s \in shown' : s[1] = s[2]
    BY DEF TextInv
  <2>1. HeadsOK /\ \A s \in shown : s[1] = s[2]
    BY <1>0, <1>1, TextParts
  <2>2. HeadsOK'
    BY <1>1, <2>1 DEF HeadsOK, HeadOK
  <2>3. \A k \in Msgs : SenderOK(k)'
    BY <1>1 DEF SenderOK, Saving
  <2>4. \A a \in Sessions : ReaderOK(a)'
    BY <1>1 DEF ReaderOK
  <2> QED
    BY <1>1, <2>1, <2>2, <2>3, <2>4
<1> QED
  BY <1>3, <1>4, <1>5 DEF IInv

\* get_unreadmsg takes the next number in hand, with all before it taken.
LEMMA GetKeeps ==
  ASSUME IInv, NEW a \in Sessions, Get(a) PROVE IInv'
<1> USE DEF history
<1> DEFINE h == [file |-> gen.index2, at |-> Read + 1]
           r == IF Read >= Len(Heads) THEN [Out EXCEPT !.rm = After(a)]
                ELSE [rm |-> "put", hand |-> h]
<1>0. TypeInv /\ TakenInv /\ TextInv
  BY DEF IInv
<1>1. /\ rd' = [rd EXCEPT ![a] = r]
      /\ overlap' = (overlap \/ clearing # "no")
      /\ UNCHANGED <<files, out, clearing, clears, taken, shown>>
  BY DEF Get
<1>2. gen.index2 \in Gens /\ Read \in Nat /\ h \in Hand /\ NoHead \in Hand
  <2>1. gen.index2 \in Gens /\ MaxClears \in Nat
    BY <1>0, MessagesAssumption DEF TypeInv, GensOK
  <2>2. index2[gen.index2] \in [read : Nat, heads : Seq(Head0)]
    BY <1>0, <2>1 DEF TypeInv, FilesOK
  <2>3. Read \in Nat
    BY <2>2 DEF Read
  <2> QED
    BY <2>1, <2>3 DEF Hand, NoHead, Gens
<1>3. /\ r \in RdRec
      /\ r.rm \in {"put", "show"} => r.rm = "put" /\ r.hand = h
  BY <1>2 DEF RdRec, Out, After
<1>4. h.file = gen.index2 /\ h.at = Read + 1
  OBVIOUS
<1> HIDE DEF r, h
<1>5. rd' \in [Sessions -> RdRec] /\ rd'[a] = r /\ \A b \in Sessions \ {a} : rd'[b] = rd[b]
  BY <1>0, <1>1, <1>3 DEF TypeInv, FilesOK
<1>6. TypeInv'
  BY <1>0, <1>1, <1>5 DEF TypeInv, FilesOK, GensOK, files
<1>7. TakenInv'
  <2>1. NoneSkipped' /\ \A b \in Sessions \ {a} : HandOK(b)'
    BY <1>0, <1>1, <1>5 DEF TakenInv, NoneSkipped, HandOK, files
  <2>2. \A i \in 1 .. Read : [file |-> gen.index2, at |-> i] \in taken
    BY <1>0, <1>2 DEF TakenInv, NoneSkipped, Read
  <2>3. HandOK(a)'
    BY <1>1, <1>2, <1>3, <1>4, <1>5, <2>2 DEF HandOK
  <2> QED
    BY <2>1, <2>3 DEF TakenInv
<1>8. TextInv'
  <2> SUFFICES ASSUME ~overlap'
               PROVE  /\ HeadsOK' /\ \A k \in Msgs : SenderOK(k)'
                      /\ \A b \in Sessions : ReaderOK(b)'
                      /\ \A s \in shown' : s[1] = s[2]
    BY DEF TextInv
  <2>0. ~overlap /\ clearing = "no"
    BY <1>1
  <2>1. /\ HeadsOK /\ \A k \in Msgs : SenderOK(k)
        /\ \A b \in Sessions : ReaderOK(b)
        /\ \A s \in shown : s[1] = s[2]
    BY <1>0, <2>0, TextParts
  <2>2. HeadsOK' /\ (\A k \in Msgs : SenderOK(k)') /\ \A s \in shown' : s[1] = s[2]
    BY <1>1, <2>1 DEF HeadsOK, HeadOK, SenderOK, files
  <2>3. ReaderOK(a)'
    BY <1>1, <1>2, <1>3, <1>4, <1>5, <2>0 DEF ReaderOK, files
  <2>4. \A b \in Sessions \ {a} : ReaderOK(b)'
    BY <1>1, <1>5, <2>1 DEF ReaderOK, files
  <2> QED
    BY <2>2, <2>3, <2>4
<1> QED
  BY <1>6, <1>7, <1>8 DEF IInv

\* It writes the number back, and has taken it.
LEMMA PutKeeps ==
  ASSUME IInv, NEW a \in Sessions, Put(a) PROVE IInv'
<1> USE DEF history
<1> DEFINE g == rd[a].hand.file
           n == rd[a].hand.at
           r == [rd[a] EXCEPT !.rm = "show"]
           x == [index2[g] EXCEPT !.read = n]
<1>0. TypeInv /\ TakenInv /\ TextInv
  BY DEF IInv
<1>1. /\ rd[a].rm = "put"
      /\ index2' = [index2 EXCEPT ![g] = x]
      /\ taken' = taken \cup {rd[a].hand}
      /\ rd' = [rd EXCEPT ![a] = r]
      /\ UNCHANGED <<gen, content, holder, out, clearing, clears, shown, overlap>>
  BY <1>0 DEF Put, TypeInv, FilesOK
<1>2. rd[a] \in RdRec /\ rd[a].hand \in Hand /\ g \in Gens /\ n \in Nat
      /\ rd[a].hand = [file |-> g, at |-> n]
  <2>1. rd[a] \in RdRec
    BY <1>0 DEF TypeInv, FilesOK
  <2>2. rd[a].hand \in Hand
    BY <2>1 DEF RdRec
  <2> QED
    BY <2>1, <2>2 DEF Hand
<1>3. r \in RdRec /\ r.rm = "show" /\ r.hand = rd[a].hand
  BY <1>2 DEF RdRec
<1>4. x \in [read : Nat, heads : Seq(Head0)] /\ x.read = n /\ x.heads = index2[g].heads
  <2>1. index2[g] \in [read : Nat, heads : Seq(Head0)]
    BY <1>0, <1>2 DEF TypeInv, FilesOK
  <2> HIDE DEF g, n
  <2> QED
    BY <1>2, <2>1
<1> HIDE DEF r, x, g, n
<1>5. rd' \in [Sessions -> RdRec] /\ rd'[a] = r /\ \A b \in Sessions \ {a} : rd'[b] = rd[b]
  BY <1>0, <1>1, <1>3 DEF TypeInv, FilesOK
<1>6. /\ index2' \in [Gens -> [read : Nat, heads : Seq(Head0)]] /\ index2'[g] = x
      /\ \A k \in Gens \ {g} : index2'[k] = index2[k]
  BY <1>0, <1>1, <1>2, <1>4 DEF TypeInv, FilesOK
<1>7. TypeInv'
  BY <1>0, <1>1, <1>5, <1>6 DEF TypeInv, FilesOK, GensOK
<1>8. TakenInv'
  <2>1. \A i \in 1 .. n - 1 : [file |-> g, at |-> i] \in taken
    BY <1>0, <1>1 DEF TakenInv, HandOK, g, n
  <2>2. \A i \in 1 .. n : [file |-> g, at |-> i] \in taken'
    BY <1>1, <1>2, <2>1
  <2>3. NoneSkipped'
    BY <1>0, <1>1, <1>4, <1>6, <2>2 DEF TakenInv, NoneSkipped
  <2>4. \A b \in Sessions : HandOK(b)'
    BY <1>0, <1>1, <1>3, <1>5 DEF TakenInv, HandOK
  <2> QED
    BY <2>3, <2>4 DEF TakenInv
<1>9. TextInv'
  <2> SUFFICES ASSUME ~overlap'
               PROVE  /\ HeadsOK' /\ \A k \in Msgs : SenderOK(k)'
                      /\ \A b \in Sessions : ReaderOK(b)'
                      /\ \A s \in shown' : s[1] = s[2]
    BY DEF TextInv
  <2>1. /\ HeadsOK /\ \A k \in Msgs : SenderOK(k)
        /\ \A b \in Sessions : ReaderOK(b)
        /\ \A s \in shown : s[1] = s[2]
    BY <1>0, <1>1, TextParts
  <2>2. \A k \in Gens : index2'[k].heads = index2[k].heads
    BY <1>4, <1>6
  <2>3. HeadsOK'
    BY <1>1, <2>1, <2>2 DEF HeadsOK, HeadOK
  <2>4. \A k \in Msgs : SenderOK(k)'
    BY <1>1, <2>1 DEF SenderOK
  <2>5. \A b \in Sessions : ReaderOK(b)'
    BY <1>1, <1>3, <1>5, <2>1 DEF ReaderOK
  <2> QED
    BY <1>1, <2>1, <2>3, <2>4, <2>5
<1> QED
  BY <1>7, <1>8, <1>9 DEF IInv

\* What stands at the position of the head h.
TextOf(h) ==
  IF h.pos < Len(content[gen.content]) THEN content[gen.content][h.pos + 1] ELSE Nobody

LEMMA ShowIs ==
  ASSUME NEW a, Show(a)
  PROVE  /\ rd[a].rm = "show" /\ rd' = [rd EXCEPT ![a] = [Out EXCEPT !.rm = After(a)]]
         /\ gen' = gen /\ index2' = index2 /\ content' = content /\ holder' = holder
         /\ out' = out /\ sess' = sess /\ clearing' = clearing /\ clears' = clears
         /\ taken' = taken /\ overlap' = overlap /\ missed' = missed
         /\ rd[a].hand.at > Len(Heads) => shown' = shown
         /\ ~(rd[a].hand.at > Len(Heads)) =>
              shown' = shown \cup {<<Heads[rd[a].hand.at].msg, TextOf(Heads[rd[a].hand.at])>>}
BY DEF Show, files, TextOf

\* What is shown is the text of its head.
LEMMA ShowKeeps ==
  ASSUME IInv, NEW a \in Sessions, Show(a) PROVE IInv'
<1> USE DEF history
<1> DEFINE r == [Out EXCEPT !.rm = After(a)]
           n == rd[a].hand.at
<1>0. TypeInv /\ TakenInv /\ TextInv /\ MaxClears \in Nat
  BY MessagesAssumption DEF IInv
<1>1. /\ rd[a].rm = "show"
      /\ rd' = [rd EXCEPT ![a] = r]
      /\ UNCHANGED <<files, out, clearing, clears, taken, overlap>>
  BY ShowIs DEF files
<1>2. r \in RdRec /\ r.rm \notin {"put", "show"}
  BY <1>0 DEF RdRec, Out, After, NoHead, Hand, Gens
<1> HIDE DEF r
<1>3. rd' \in [Sessions -> RdRec] /\ rd'[a] = r /\ \A b \in Sessions \ {a} : rd'[b] = rd[b]
  BY <1>0, <1>1, <1>2 DEF TypeInv, FilesOK
<1>4. TypeInv'
  BY <1>0, <1>1, <1>3 DEF TypeInv, FilesOK, GensOK, files
<1>5. TakenInv'
  BY <1>0, <1>1, <1>2, <1>3 DEF TakenInv, NoneSkipped, HandOK, files
<1>6. TextInv'
  <2> SUFFICES ASSUME ~overlap'
               PROVE  /\ HeadsOK' /\ \A k \in Msgs : SenderOK(k)'
                      /\ \A b \in Sessions : ReaderOK(b)'
                      /\ \A s \in shown' : s[1] = s[2]
    BY DEF TextInv
  <2>1. /\ HeadsOK /\ \A k \in Msgs : SenderOK(k)
        /\ \A b \in Sessions : ReaderOK(b)
        /\ \A s \in shown : s[1] = s[2]
    BY <1>0, <1>1, TextParts
  <2>2. /\ HeadsOK' /\ (\A k \in Msgs : SenderOK(k)')
        /\ \A b \in Sessions : ReaderOK(b)'
    BY <1>1, <1>2, <1>3, <2>1 DEF HeadsOK, HeadOK, SenderOK, ReaderOK, files
  <2>3. clearing = "no" /\ rd[a].hand.file = gen.index2 /\ n > 0 /\ n \in Nat
    <3>1. rd[a] \in RdRec
      BY <1>0 DEF TypeInv, FilesOK
    <3> QED
      BY <1>1, <2>1, <3>1 DEF ReaderOK, RdRec, Hand
  <2>4. gen.content = gen.index2 /\ gen.index2 \in Gens
    BY <1>0, <2>3 DEF TypeInv, GensOK
  <2> HIDE DEF n
  <2>5. CASE n > Len(Heads)
    <3>1. shown' = shown
      BY <2>5, ShowIs DEF n
    <3> QED
      BY <2>1, <2>2, <3>1
  <2>6. CASE ~(n > Len(Heads))
    <3>1. Heads = index2[gen.index2].heads /\ Len(Heads) \in Nat
      BY <1>0, <2>4 DEF Heads, TypeInv, FilesOK
    <3>2. HeadOK(gen.index2, n)
      BY <2>1, <2>3, <2>4, <2>6, <3>1 DEF HeadsOK
    <3>3. /\ Heads[n].pos < Len(content[gen.content])
          /\ content[gen.content][Heads[n].pos + 1] = Heads[n].msg
      BY <2>4, <3>1, <3>2 DEF HeadOK
    <3>4. shown' = shown \cup {<<Heads[n].msg, Heads[n].msg>>}
      BY <2>6, <3>3, ShowIs DEF TextOf, n
    <3> QED
      BY <2>1, <2>2, <3>4
  <2> QED
    BY <2>5, <2>6
<1> QED
  BY <1>4, <1>5, <1>6 DEF IInv

-----------------------------------------------------------------------------
LEMMA InitHolds ==
  ASSUME Init PROVE IInv
<1>0. MaxClears \in Nat /\ 0 \in Gens /\ NoHead \in Hand
  BY MessagesAssumption DEF Gens, NoHead, Hand
<1>1. TypeInv
  <2>1. /\ [read |-> 0, heads |-> <<>>] \in [read : Nat, heads : Seq(Head0)] /\ Out \in RdRec
        /\ [pc |-> "idle", to |-> Nobody, index |-> 0, content |-> 0, pos |-> 0] \in OutRec
        /\ <<>> \in Seq(Msgs)
    BY <1>0 DEF Out, RdRec, OutRec
  <2>2. /\ index2 \in [Gens -> [read : Nat, heads : Seq(Head0)]]
        /\ content \in [Gens -> Seq(Msgs)]
        /\ holder \in [Gens -> SUBSET Msgs]
    BY <2>1 DEF Init
  <2>3. out \in [Msgs -> OutRec] /\ rd \in [Sessions -> RdRec] /\ overlap \in BOOLEAN
    BY <2>1 DEF Init
  <2>4. gen \in [index : Gens, index2 : Gens, content : Gens]
    BY <1>0 DEF Init
  <2>5. GensOK
    BY <1>0, <2>4 DEF Init, GensOK
  <2> QED
    BY <2>2, <2>3, <2>5 DEF TypeInv, FilesOK
<1>2. TakenInv
  BY <1>0 DEF Init, TakenInv, NoneSkipped, HandOK, Out
<1>3. TextInv
  <2>1. HeadsOK
    BY <1>0 DEF Init, HeadsOK
  <2> QED
    BY <2>1 DEF Init, TextInv, SenderOK, ReaderOK, Saving, Out
<1> QED
  BY <1>1, <1>2, <1>3 DEF IInv

LEMMA StepKeeps ==
  ASSUME IInv, [Next]_vars PROVE IInv'
<1>0. TypeInv
  BY DEF IInv
<1>1. ASSUME NEW a \in Sessions, Reader(a) PROVE IInv'
  BY <1>1, GetKeeps, PutKeeps, ShowKeeps DEF Reader
<1>2. ASSUME NEW m \in Msgs, Sender(m) PROVE IInv'
  BY <1>0, <1>2, OpenKeeps, LockIndexKeeps, WriteTextKeeps, WriteHeadKeeps,
     TestAndSignalAreQuiet, QuietKeeps DEF Sender
<1>3. CASE Clear
  BY <1>3, ClearKeeps
<1>4. ASSUME NEW w \in Webs, Poll(w) \/ Reader(w) PROVE IInv'
  BY <1>0, <1>1, <1>4, PollIsQuiet, QuietKeeps DEF Sessions
<1>5. ASSUME NEW t \in Telnets, SessionStep(t) \/ Reader(t) \/ Leave(t) PROVE IInv'
  BY <1>0, <1>1, <1>5, SessionStepIsQuiet, LeaveIsQuiet, QuietKeeps DEF Sessions
<1>6. CASE UNCHANGED vars
  <2>1. QuietStep
    BY <1>0, <1>6 DEF vars, history, QuietStep, TypeInv, FilesOK
  <2> QED
    BY <2>1, QuietKeeps
<1>7. CASE \E t \in Telnets :
       \/ Handle(t) \/ RMsg(t) \/ Wait(t)
       \/ \E what \in {"edit", "lock"} : Start(t, what)
       \/ StartFails(t) \/ Stop(t) \/ SendMenu(t) \/ Menu(t) \/ CtrlZUnread(t) \/ CtrlZ(t) \/ LookEnd(t)
       \/ \E getkey \in BOOLEAN : Login(t, getkey)
       \/ Leave(t)
  <2>1. PICK t \in Telnets : SessionStep(t) \/ Reader(t) \/ Leave(t)
    BY <1>7 DEF SessionStep, RMsg
  <2> QED
    BY <1>5, <2>1
<1> QED
  BY <1>2, <1>3, <1>4, <1>6, <1>7 DEF Next

LEMMA Invariant == Spec => []IInv
BY InitHolds, StepKeeps, PTL DEF Spec

\* Whatever sessions read at the same time, and whenever the files are cleared, no head
\* is counted as read that no session took (get_unreadmsg, msg.c:359).
THEOREM NothingSkipped == Spec => []NoneSkipped
<1>1. IInv => NoneSkipped
  BY DEF IInv, TakenInv
<1> QED
  BY <1>1, Invariant, PTL

\* Unless clear_msg ran while a message was written or read, every message shown stands
\* over its own text, though its place is worked out before it is written (msg.c:34).
THEOREM TextsMatch == Spec => []OwnText
<1>1. IInv => OwnText
  BY DEF IInv, TextInv, OwnText
<1> QED
  BY <1>1, Invariant, PTL

-----------------------------------------------------------------------------
(* Who knows of a message *)

SessRec ==
  [at : Positions, by : {"nobody", "handler", "igetkey", "switch"}, sig : BOOLEAN,
   canProcess : BOOLEAN, occurred : BOOLEAN, blocked : BOOLEAN, oldblock : BOOLEAN,
   unread : BOOLEAN, mode : {"other", "MSG"}, savemode : {"other", "MSG"},
   does : {"nothing", "edit", "lock"}, look : BOOLEAN, getkey : BOOLEAN]

SessOK == sess \in [Telnets -> SessRec] /\ missed \in SUBSET Telnets

\* A message t has been told of is unread.
Owed(t) == \E m \in Fresh : out[m].pc = "done" /\ out[m].to = t

\* The files that will have the names after the next clear_msg are empty.
Later == \A g \in Gens : g > gen.index2 => index2[g].heads = <<>>

\* A session with such a message has a signal or the note of one, or is about to look for
\* messages, or has dropped the signal.
Known(t) ==
  Owed(t) /\ sess[t].at # "off" =>
    \/ sess[t].sig \/ sess[t].occurred \/ sess[t].unread \/ sess[t].look
    \/ t \in missed \/ rd[t].rm # "out"

\* At the end of switchSIGUSR2, where occurredSIGUSR2 is cleared, the note is not that one.
Noted(t) ==
  /\ Owed(t) /\ sess[t].at \in {"after", "unmasked"} /\ sess[t].mode # "MSG"
  /\ rd[t].rm = "out"
  => sess[t].sig \/ sess[t].unread \/ sess[t].look \/ t \in missed

AwareInv == SessOK /\ Later /\ \A t \in Telnets : Known(t) /\ Noted(t)

\* The unread heads no session has taken are those no session has taken: a session takes
\* what it counts as read.
Untaken(h, g, T) ==
  {n \in Msgs : \E i \in 1 .. Len(h) : h[i].msg = n /\ [file |-> g, at |-> i] \notin T}

LEMMA FreshIsUntaken == IInv => Fresh = Untaken(Heads, gen.index2, taken)
<1> SUFFICES ASSUME IInv PROVE Fresh = Untaken(Heads, gen.index2, taken)
  OBVIOUS
<1>1. gen.index2 \in Gens /\ Heads \in Seq(Head0) /\ Read \in Nat
  BY DEF IInv, TypeInv, FilesOK, GensOK, Heads, Read
<1>2. \A i \in 1 .. Read : [file |-> gen.index2, at |-> i] \in taken
  BY <1>1 DEF IInv, TakenInv, NoneSkipped, Read
<1>3. ASSUME NEW i \in 1 .. Len(Heads) PROVE Heads[i].msg \in Msgs
  <2>1. Heads[i] \in Head0
    BY <1>1, ElementOfSeq
  <2> QED
    BY <2>1 DEF Head0
<1>4. Len(Heads) \in Nat
  BY <1>1
<1>5. ASSUME NEW n \in Fresh PROVE n \in Untaken(Heads, gen.index2, taken)
  <2>1. PICK i \in Read + 1 .. Len(Heads) :
          Heads[i].msg = n /\ [file |-> gen.index2, at |-> i] \notin taken
    BY <1>5 DEF Fresh
  <2>2. i \in 1 .. Len(Heads)
    BY <1>1, <1>4
  <2> QED
    BY <1>3, <2>1, <2>2 DEF Untaken
<1>6. ASSUME NEW n \in Untaken(Heads, gen.index2, taken) PROVE n \in Fresh
  <2>1. PICK i \in 1 .. Len(Heads) :
          Heads[i].msg = n /\ [file |-> gen.index2, at |-> i] \notin taken
    BY <1>6 DEF Untaken
  <2>2. i \in Read + 1 .. Len(Heads)
    <3>1. i \notin 1 .. Read
      BY <1>2, <2>1
    <3> QED
      BY <1>1, <1>4, <3>1
  <2> QED
    BY <2>1, <2>2 DEF Fresh, Unread
<1> QED
  BY <1>5, <1>6

LEMMA FreshNext == IInv' => Fresh' = Untaken(Heads', gen'.index2, taken')
<1>1. IInv' => (Fresh = Untaken(Heads, gen.index2, taken))'
  BY FreshIsUntaken, PTL
<1> QED
  BY <1>1

\* What a step may do to the senders and to the heads without telling t of a message.
SameHeads ==
  /\ gen'.index2 = gen.index2 /\ Heads' = Heads
  /\ taken \subseteq taken'
NewHead ==
  /\ gen'.index2 = gen.index2 /\ taken' = taken
  /\ \E h \in Head0 : Heads' = Append(Heads, h) /\ out'[h.msg].pc # "done"
NothingTold(t) ==
  \A m \in Msgs : out'[m].pc = "done" /\ out'[m].to = t => out[m].pc = "done" /\ out[m].to = t

LEMMA OwedShrinks ==
  ASSUME IInv, IInv', NEW t \in Telnets, NothingTold(t),
         SameHeads \/ NewHead \/ Heads' = <<>>, Owed(t)'
  PROVE  Owed(t)
<1>1. Fresh = Untaken(Heads, gen.index2, taken) /\ Fresh' = Untaken(Heads', gen'.index2, taken')
  BY FreshIsUntaken, FreshNext
<1>2. PICK m \in Fresh' : out'[m].pc = "done" /\ out'[m].to = t
  BY DEF Owed
<1>3. m \in Msgs /\ out[m].pc = "done" /\ out[m].to = t
  BY <1>1, <1>2 DEF Untaken, NothingTold
<1>4. PICK i \in 1 .. Len(Heads') :
        Heads'[i].msg = m /\ [file |-> gen'.index2, at |-> i] \notin taken'
  BY <1>1, <1>2 DEF Untaken
<1>5. CASE SameHeads
  <2>1. m \in Fresh
    BY <1>1, <1>3, <1>4, <1>5 DEF SameHeads, Untaken
  <2> QED
    BY <1>3, <2>1 DEF Owed
<1>6. CASE NewHead
  <2>1. PICK h \in Head0 : Heads' = Append(Heads, h) /\ out'[h.msg].pc # "done"
    BY <1>6 DEF NewHead
  <2>2. Heads \in Seq(Head0)
    BY DEF IInv, TypeInv, FilesOK, GensOK, Heads
  <2>3. Heads'[i] = IF i <= Len(Heads) THEN Heads[i] ELSE h
    BY <1>4, <2>1, <2>2, AppendProperties
  <2>4. i <= Len(Heads)
    BY <1>2, <1>4, <2>1, <2>3
  <2>5. i \in 1 .. Len(Heads)
    BY <1>4, <2>2, <2>4
  <2>6. m \in Fresh
    BY <1>1, <1>3, <1>4, <1>6, <2>3, <2>4, <2>5 DEF NewHead, Untaken
  <2> QED
    BY <1>3, <2>6 DEF Owed
<1>7. CASE Heads' = <<>>
  BY <1>4, <1>7
<1> QED
  BY <1>5, <1>6, <1>7

\* Steps of sessions but those of readers touch neither files nor senders.
LEMMA SessionLeavesFiles ==
  ASSUME NEW u \in Telnets, SessionStep(u)
  PROVE  gen' = gen /\ index2' = index2 /\ taken' = taken /\ out' = out
<1>1. CASE Handle(u)
  BY <1>1 DEF Handle, files, history
<1>2. CASE NextMsg(u) \/ Answer(u) \/ Return(u)
  BY <1>2 DEF NextMsg, Answer, Return, files, history
<1>3. CASE Wait(u)
  <2>1. CASE SwitchOn(u)
    BY <2>1 DEF SwitchOn, files, history
  <2>2. CASE Igetch(u) \/ Unmask(u) \/ SwitchEnd(u) \/ Key(u)
    BY <2>2 DEF Igetch, Unmask, SwitchEnd, Key, files, history
  <2> QED
    BY <1>3, <2>1, <2>2 DEF Wait
<1>4. CASE \/ \E what \in {"edit", "lock"} : Start(u, what)
           \/ StartFails(u) \/ Stop(u) \/ SendMenu(u) \/ Menu(u)
  BY <1>4 DEF Start, StartFails, Stop, SendMenu, Menu, files, history
<1>5. CASE CtrlZUnread(u) \/ CtrlZ(u) \/ LookEnd(u)
  BY <1>5 DEF CtrlZUnread, CtrlZ, LookEnd, files, history
<1>6. CASE \E getkey \in BOOLEAN : Login(u, getkey)
  BY <1>6 DEF Login, files
<1> QED
  BY <1>1, <1>2, <1>3, <1>4, <1>5, <1>6 DEF SessionStep

LEMMA SenderLeavesSessions ==
  ASSUME NEW m \in Msgs, Sender(m), ~Signal(m)
  PROVE  rd' = rd /\ sess' = sess /\ missed' = missed
<1>1. CASE Test(m) \/ OpenIndex(m) \/ OpenContent(m)
  BY <1>1 DEF Test, OpenIndex, OpenContent, history
<1>2. CASE LockIndex(m) \/ WriteText(m)
  BY <1>2 DEF LockIndex, WriteText, history
<1>3. CASE WriteHead(m)
  BY <1>3 DEF WriteHead, history
<1> QED
  BY <1>1, <1>2, <1>3 DEF Sender

\* No step but a signal tells t of a message.
LEMMA OnlySignalsTell ==
  ASSUME IInv, IInv', Later, [Next]_vars, \A m \in Msgs : ~Signal(m), NEW t \in Telnets
  PROVE  Owed(t)' => Owed(t)
<1>0. TypeInv /\ TypeInv'
  BY DEF IInv
<1>1. /\ index2 \in [Gens -> [read : Nat, heads : Seq(Head0)]]
      /\ out \in [Msgs -> OutRec] /\ rd \in [Sessions -> RdRec]
      /\ gen \in [index : Gens, index2 : Gens, content : Gens]
      /\ gen' \in [index : Gens, index2 : Gens, content : Gens]
  BY <1>0 DEF TypeInv, FilesOK, GensOK
<1>2. SUFFICES NothingTold(t) /\ (SameHeads \/ NewHead \/ Heads' = <<>>)
  BY OwedShrinks
<1>3. ASSUME UNCHANGED <<files, taken>> PROVE SameHeads
  BY <1>3 DEF SameHeads, files, Heads
<1>4. ASSUME out' = out PROVE NothingTold(t)
  BY <1>4 DEF NothingTold
<1>5. ASSUME NEW m \in Msgs, Test(m) \/ OpenIndex(m) \/ OpenContent(m)
      PROVE  NothingTold(t) /\ SameHeads
  <2>1. out'[m].pc # "done" /\ \A n \in Msgs \ {m} : out'[n] = out[n]
    <3>1. CASE Test(m)
      BY <1>1, <3>1 DEF Test
    <3>2. CASE OpenIndex(m)
      BY <1>1, <3>2 DEF OpenIndex
    <3>3. CASE OpenContent(m)
      BY <1>1, <3>3 DEF OpenContent
    <3> QED
      BY <1>5, <3>1, <3>2, <3>3
  <2>2. UNCHANGED <<files, taken>>
    BY <1>5 DEF Test, OpenIndex, OpenContent, history
  <2>3. NothingTold(t)
    BY <2>1 DEF NothingTold
  <2> QED
    BY <1>3, <2>2, <2>3
<1>6. ASSUME NEW m \in Msgs, LockIndex(m) \/ WriteText(m)
      PROVE  NothingTold(t) /\ SameHeads
  <2>1. out'[m].pc # "done" /\ \A n \in Msgs \ {m} : out'[n] = out[n]
    <3>1. CASE LockIndex(m)
      BY <1>1, <3>1 DEF LockIndex
    <3>2. CASE WriteText(m)
      BY <1>1, <3>2 DEF WriteText
    <3> QED
      BY <1>6, <3>1, <3>2
  <2>2. gen' = gen /\ index2' = index2 /\ taken' = taken
    BY <1>6 DEF LockIndex, WriteText, history
  <2>3. NothingTold(t)
    BY <2>1 DEF NothingTold
  <2> QED
    BY <2>2, <2>3 DEF SameHeads, Heads
<1>7. ASSUME NEW m \in Msgs, WriteHead(m) PROVE NothingTold(t) /\ NewHead
  <2> DEFINE h == [msg |-> m, pos |-> out[m].pos]
  <2>1. h \in Head0 /\ h.msg = m
    BY <1>1 DEF Head0, OutRec
  <2>2. index2' = [index2 EXCEPT ![gen.index2].heads = Append(@, h)] /\ gen' = gen
        /\ taken' = taken
    BY <1>7 DEF WriteHead, history
  <2>3. Heads' = Append(Heads, h)
    BY <1>1, <2>2 DEF Heads
  <2>4. out'[m].pc = "saved" /\ \A n \in Msgs \ {m} : out'[n] = out[n]
    BY <1>1, <1>7 DEF WriteHead, OutRec
  <2>5. NothingTold(t)
    BY <2>4 DEF NothingTold
  <2> HIDE DEF h
  <2>6. NewHead
    BY <2>1, <2>2, <2>3, <2>4 DEF NewHead
  <2> QED
    BY <2>5, <2>6
<1>8. ASSUME Clear PROVE out' = out /\ (SameHeads \/ Heads' = <<>>)
  <2>1. index2' = index2 /\ out' = out /\ taken' = taken
    BY <1>8 DEF Clear
  <2>2. CASE clearing = "index2"
    <3>1. gen'.index2 = gen.index2 + 1
      BY <1>1, <1>8, <2>2 DEF Clear
    <3>2. gen'.index2 \in Gens /\ gen'.index2 > gen.index2
      BY <1>1, <3>1 DEF Gens
    <3> QED
      BY <2>1, <3>2 DEF Later, Heads
  <2>3. CASE clearing # "index2"
    <3>1. gen'.index2 = gen.index2
      BY <1>1, <1>8, <2>3 DEF Clear
    <3> QED
      BY <2>1, <3>1 DEF SameHeads, Heads
  <2> QED
    BY <2>2, <2>3
<1>9. ASSUME NEW a \in Sessions, Reader(a) PROVE out' = out /\ SameHeads
  <2>1. CASE Get(a) \/ Show(a)
    <3>1. out' = out /\ UNCHANGED <<files, taken>>
      BY <2>1, ShowIs DEF Get, files
    <3> QED
      BY <1>3, <3>1
  <2>2. CASE Put(a)
    <3>1. /\ index2' = [index2 EXCEPT ![rd[a].hand.file].read = rd[a].hand.at]
          /\ taken' = taken \cup {rd[a].hand} /\ gen' = gen /\ out' = out
      BY <2>2 DEF Put
    <3>2. rd[a].hand.file \in Gens
      BY <1>1 DEF RdRec, Hand
    <3>3. Heads' = Heads
      BY <1>1, <3>1, <3>2 DEF Heads
    <3> QED
      BY <3>1, <3>3 DEF SameHeads
  <2> QED
    BY <1>9, <2>1, <2>2 DEF Reader
<1>10. ASSUME NEW u \in Telnets, SessionStep(u) PROVE out' = out /\ SameHeads
  BY <1>10, SessionLeavesFiles DEF SameHeads, Heads
<1>11. ASSUME NEW u \in Telnets, Leave(u) PROVE NothingTold(t) /\ SameHeads
  <2>1. UNCHANGED <<files, taken>>
    BY <1>11 DEF Leave, history
  <2>2. out' = [m \in Msgs |-> IF out[m].to = u THEN [out[m] EXCEPT !.to = Nobody] ELSE out[m]]
    BY <1>11 DEF Leave
  <2>3. NothingTold(t)
    BY <1>1, <2>2, MessagesAssumption DEF NothingTold, OutRec
  <2> QED
    BY <1>3, <2>1, <2>3
<1>12. ASSUME NEW w \in Webs, Poll(w) PROVE UNCHANGED <<files, taken, out>>
  BY <1>12 DEF Poll, history
<1>13. CASE UNCHANGED vars
  BY <1>3, <1>4, <1>13 DEF vars, history
<1>14. CASE \E m \in Msgs : Sender(m)
  BY <1>5, <1>6, <1>7, <1>14 DEF Sender
<1>15. CASE Clear
  BY <1>4, <1>8, <1>15
<1>16. CASE \E w \in Webs : Poll(w) \/ Reader(w)
  BY <1>3, <1>4, <1>9, <1>12, <1>16 DEF Sessions
<1>17. CASE \E u \in Telnets : SessionStep(u) \/ Reader(u) \/ Leave(u)
  BY <1>3, <1>4, <1>9, <1>10, <1>11, <1>17 DEF Sessions
<1> QED
  BY <1>13, <1>14, <1>15, <1>16, <1>17 DEF Next, SessionStep, RMsg

LEMMA LaterKeeps ==
  ASSUME IInv, IInv', Later, [Next]_vars PROVE Later'
<1> SUFFICES ASSUME NEW g \in Gens, g > gen'.index2 PROVE index2'[g].heads = <<>>
  BY DEF Later
<1>1. /\ index2 \in [Gens -> [read : Nat, heads : Seq(Head0)]]
      /\ gen \in [index : Gens, index2 : Gens, content : Gens]
      /\ gen' \in [index : Gens, index2 : Gens, content : Gens]
      /\ rd \in [Sessions -> RdRec]
  BY DEF IInv, TypeInv, FilesOK, GensOK
<1>2. CASE index2' = index2 /\ gen' = gen
  BY <1>2 DEF Later
<1>3. CASE Clear
  <2>1. index2' = index2 /\ (gen'.index2 = gen.index2 \/ gen'.index2 = gen.index2 + 1)
    BY <1>1, <1>3 DEF Clear
  <2>2. g \in Int /\ gen.index2 \in Int /\ gen'.index2 \in Int
    BY <1>1 DEF Gens
  <2>3. g > gen.index2
    BY <2>1, <2>2
  <2> QED
    BY <2>1, <2>3 DEF Later
<1>4. ASSUME NEW m \in Msgs, WriteHead(m) PROVE index2'[g].heads = <<>>
  <2>1. gen' = gen /\ index2'[g] = index2[g]
    BY <1>1, <1>4 DEF WriteHead, Gens
  <2> QED
    BY <2>1 DEF Later
<1>5. ASSUME NEW a \in Sessions, Put(a) PROVE index2'[g].heads = <<>>
  <2>1. gen' = gen /\ index2'[g].heads = index2[g].heads
    BY <1>1, <1>5 DEF Put, RdRec, Hand
  <2> QED
    BY <2>1 DEF Later
<1>6. ASSUME NEW m \in Msgs, Sender(m) PROVE WriteHead(m) \/ (index2' = index2 /\ gen' = gen)
  <2>1. CASE Test(m) \/ OpenIndex(m) \/ OpenContent(m) \/ Signal(m)
    BY <2>1 DEF Test, OpenIndex, OpenContent, Signal, files
  <2>2. CASE LockIndex(m) \/ WriteText(m)
    BY <2>2 DEF LockIndex, WriteText
  <2> QED
    BY <1>6, <2>1, <2>2 DEF Sender
<1>7. ASSUME NEW a \in Sessions, Reader(a) PROVE Put(a) \/ (index2' = index2 /\ gen' = gen)
  <2>1. CASE Get(a)
    BY <2>1 DEF Get, files
  <2>2. CASE Show(a)
    BY <2>2, ShowIs
  <2> QED
    BY <1>7, <2>1, <2>2 DEF Reader
<1>8. ASSUME NEW u \in Telnets, SessionStep(u) \/ Leave(u) PROVE index2' = index2 /\ gen' = gen
  BY <1>8, SessionLeavesFiles DEF Leave, files
<1>9. ASSUME NEW w \in Webs, Poll(w) PROVE index2' = index2 /\ gen' = gen
  BY <1>9 DEF Poll, files
<1>10. CASE UNCHANGED vars
  BY <1>2, <1>10 DEF vars, files
<1> QED
  BY <1>2, <1>3, <1>4, <1>5, <1>6, <1>7, <1>8, <1>9, <1>10
  DEF Next, SessionStep, RMsg, Sessions

-----------------------------------------------------------------------------
(* What the steps do to the sessions *)

\* A step changes the session t to r, and no other.
Becomes(t, r) ==
  /\ sess' = [sess EXCEPT ![t] = r]
  /\ \A u \in Telnets \ {t} : rd'[u].rm = rd[u].rm /\ (u \in missed <=> u \in missed')

LEMMA OtherAware ==
  ASSUME NEW u \in Telnets, Known(u), Noted(u), sess'[u] = sess[u], rd'[u].rm = rd[u].rm,
         u \in missed => u \in missed', Owed(u)' => Owed(u)
  PROVE  Known(u)' /\ Noted(u)'
BY DEF Known, Noted

LEMMA BecomesAware ==
  ASSUME SessOK, \A u \in Telnets : Known(u) /\ Noted(u) /\ (Owed(u)' => Owed(u)),
         NEW t \in Telnets, NEW r \in SessRec, Becomes(t, r),
         missed' \in SUBSET Telnets, Known(t)', Noted(t)'
  PROVE  SessOK' /\ \A u \in Telnets : Known(u)' /\ Noted(u)'
<1>1. SessOK'
  BY DEF SessOK, Becomes
<1>2. ASSUME NEW u \in Telnets \ {t} PROVE Known(u)' /\ Noted(u)'
  <2>1. sess'[u] = sess[u] /\ rd'[u].rm = rd[u].rm /\ (u \in missed => u \in missed')
    BY DEF SessOK, Becomes
  <2> QED
    BY <2>1, OtherAware
<1> QED
  BY <1>1, <1>2

\* The ways in which t becomes r and knows of its messages.
LEMMA AwareNow ==
  ASSUME SessOK, NEW t \in Telnets, NEW r \in SessRec, sess' = [sess EXCEPT ![t] = r],
         \/ r.at = "off" \/ rd'[t].rm # "out" \/ t \in missed' \/ ~Owed(t)'
         \/ r.unread = TRUE \/ r.look = TRUE
         \/ r.occurred = TRUE /\ r.at \notin {"after", "unmasked"}
  PROVE  Known(t)' /\ Noted(t)'
<1>1. sess'[t] = r
  BY DEF SessOK
<1> QED
  BY <1>1 DEF Known, Noted

\* The notes that s has, r has too.
Keeps(s, r) ==
  /\ s.sig = TRUE => r.sig = TRUE
  /\ s.occurred = TRUE => r.occurred = TRUE
  /\ s.unread = TRUE => r.unread = TRUE
  /\ s.look = TRUE => r.look = TRUE

LEMMA AwareStill ==
  ASSUME SessOK, NEW t \in Telnets, NEW r \in SessRec, sess' = [sess EXCEPT ![t] = r],
         Known(t), Owed(t)' => Owed(t), sess[t].at # "off", rd[t].rm = "out",
         t \in missed => t \in missed', Keeps(sess[t], r),
         r.at \notin {"after", "unmasked"} \/ r.mode = "MSG"
  PROVE  Known(t)' /\ Noted(t)'
<1>1. sess'[t] = r /\ sess[t] \in SessRec
  BY DEF SessOK
<1>2. /\ sess[t].sig \in BOOLEAN /\ sess[t].occurred \in BOOLEAN
      /\ sess[t].unread \in BOOLEAN /\ sess[t].look \in BOOLEAN
  BY <1>1 DEF SessRec
<1>3. Noted(t)'
  BY <1>1 DEF Noted
<1>4. Known(t)'
  BY <1>1, <1>2 DEF Known, Keeps
<1> QED
  BY <1>3, <1>4

\* What a session can do is to become another.
Moved(t) ==
  /\ \E r \in SessRec : Becomes(t, r)
  /\ Known(t)' /\ Noted(t)'
  /\ missed' \in SUBSET Telnets

LEMMA HandleMoves ==
  ASSUME IInv, SessOK, NEW t \in Telnets, Handle(t)
  PROVE  Moved(t)
<1>1. sess \in [Telnets -> SessRec] /\ sess[t] \in SessRec /\ missed \in SUBSET Telnets
  BY DEF SessOK
<1>2. rd \in [Sessions -> RdRec] /\ t \in Sessions
  BY DEF IInv, TypeInv, FilesOK, Sessions
<1> DEFINE s == [sess[t] EXCEPT !.sig = FALSE]
<1>3. s \in SessRec
  BY <1>1, Zenon DEF SessRec
<1>4. s.at = sess[t].at
  BY <1>1 DEF SessRec
<1>5. missed' = missed /\ sess[t].at # "after" /\ Interrupted(t) \subseteq {"wait", "switch", s.at}
  BY <1>4 DEF Handle, history, Masked, Interrupted
<1> HIDE DEF s
<1>6. CASE \E at \in Interrupted(t) :
             /\ sess' = [sess EXCEPT ![t] = [s EXCEPT !.occurred = TRUE,
                            !.at = IF s.at = "unmasked" THEN "caught" ELSE at]]
             /\ rd' = rd
  <2>1. PICK at \in Interrupted(t) :
             /\ sess' = [sess EXCEPT ![t] = [s EXCEPT !.occurred = TRUE,
                            !.at = IF s.at = "unmasked" THEN "caught" ELSE at]]
             /\ rd' = rd
    BY <1>6
  <2> DEFINE p == IF s.at = "unmasked" THEN "caught" ELSE at
             r == [s EXCEPT !.occurred = TRUE, !.at = p]
  <2>2. p \in Positions /\ p \notin {"after", "unmasked"}
    <3>1. s.at \in Positions
      BY <1>3 DEF SessRec
    <3> QED
      BY <1>4, <1>5, <3>1 DEF Positions
  <2>3. sess' = [sess EXCEPT ![t] = r]
    BY <2>1
  <2> HIDE DEF p
  <2>4. r \in SessRec
    BY <1>3, <2>2, Zenon DEF SessRec
  <2>5. r.occurred = TRUE /\ r.at = p
    BY <1>3 DEF SessRec
  <2>6. Known(t)' /\ Noted(t)'
    BY <2>2, <2>3, <2>4, <2>5, AwareNow
  <2>7. Becomes(t, r)
    BY <1>5, <2>1, <2>3 DEF Becomes
  <2> QED
    BY <1>1, <1>5, <2>4, <2>6, <2>7 DEF Moved
<1>7. CASE \E at \in Interrupted(t) :
             /\ sess' = [sess EXCEPT ![t] = [s EXCEPT !.unread = TRUE, !.at = at]]
             /\ rd' = rd
  <2>1. PICK at \in Interrupted(t) :
             /\ sess' = [sess EXCEPT ![t] = [s EXCEPT !.unread = TRUE, !.at = at]]
             /\ rd' = rd
    BY <1>7
  <2> DEFINE r == [s EXCEPT !.unread = TRUE, !.at = at]
  <2>2. at \in Positions
    <3>1. s.at \in Positions
      BY <1>3 DEF SessRec
    <3> QED
      BY <1>5, <3>1 DEF Positions
  <2>3. sess' = [sess EXCEPT ![t] = r]
    BY <2>1
  <2>4. r \in SessRec
    BY <1>3, <2>2, Zenon DEF SessRec
  <2>5. r.unread = TRUE
    BY <1>3 DEF SessRec
  <2>6. Known(t)' /\ Noted(t)'
    BY <2>3, <2>4, <2>5, AwareNow
  <2>7. Becomes(t, r)
    BY <1>5, <2>1, <2>3 DEF Becomes
  <2> QED
    BY <1>1, <1>5, <2>4, <2>6, <2>7 DEF Moved
<1>8. CASE Enter(t, s, "handler")
  <2> DEFINE r == [s EXCEPT !.mode = "MSG", !.by = "handler"]
  <2>1. r \in SessRec
    BY <1>3, Zenon DEF SessRec
  <2>2. sess' = [sess EXCEPT ![t] = r] /\ rd' = [rd EXCEPT ![t].rm = "count"]
    BY <1>8 DEF Enter
  <2>3. rd'[t].rm = "count" /\ \A u \in Telnets \ {t} : rd'[u] = rd[u]
    BY <1>2, <2>2 DEF RdRec, Sessions
  <2>4. Known(t)' /\ Noted(t)'
    BY <2>1, <2>2, <2>3, AwareNow
  <2>5. Becomes(t, r)
    BY <1>5, <2>2, <2>3 DEF Becomes
  <2> QED
    BY <1>1, <1>5, <2>1, <2>4, <2>5 DEF Moved
<1> QED
  BY <1>6, <1>7, <1>8 DEF Handle, s

LEMMA ReadingMoves ==
  ASSUME IInv, SessOK, NEW t \in Telnets, Owed(t)' => Owed(t),
         NextMsg(t) \/ Answer(t) \/ Return(t)
  PROVE  Moved(t)
<1>1. sess \in [Telnets -> SessRec] /\ sess[t] \in SessRec /\ missed \in SUBSET Telnets
  BY DEF SessOK
<1>2. rd \in [Sessions -> RdRec] /\ t \in Sessions
  BY DEF IInv, TypeInv, FilesOK, Sessions
<1>3. CASE NextMsg(t)
  <2> DEFINE r == sess[t]
  <2>1. sess' = [sess EXCEPT ![t] = r] /\ missed' = missed
        /\ rd' = [rd EXCEPT ![t].rm = "get"]
    BY <1>1, <1>3 DEF NextMsg, history
  <2>2. rd'[t].rm = "get" /\ \A u \in Telnets \ {t} : rd'[u] = rd[u]
    BY <1>2, <2>1 DEF RdRec, Sessions
  <2>3. Known(t)' /\ Noted(t)'
    BY <1>1, <2>1, <2>2, AwareNow
  <2>4. Becomes(t, r)
    BY <2>1, <2>2 DEF Becomes
  <2> QED
    BY <1>1, <2>1, <2>3, <2>4 DEF Moved
<1>4. CASE Answer(t)
  <2> DEFINE r == [sess[t] EXCEPT !.canProcess = FALSE, !.occurred = FALSE]
  <2>1. sess' = [sess EXCEPT ![t] = r] /\ missed' = missed
        /\ rd' = [rd EXCEPT ![t].rm = "count"]
    BY <1>1, <1>4 DEF Answer, history
  <2>2. rd'[t].rm = "count" /\ \A u \in Telnets \ {t} : rd'[u] = rd[u]
    BY <1>2, <2>1 DEF RdRec, Sessions
  <2>3. r \in SessRec
    BY <1>1, Zenon DEF SessRec
  <2>4. Known(t)' /\ Noted(t)'
    BY <2>1, <2>2, <2>3, AwareNow
  <2>5. Becomes(t, r)
    BY <2>1, <2>2 DEF Becomes
  <2> QED
    BY <1>1, <2>1, <2>3, <2>4, <2>5 DEF Moved
<1>5. CASE Return(t)
  <2> DEFINE s == [sess[t] EXCEPT !.unread = FALSE, !.mode = "other", !.by = "nobody"]
  <2>1. s \in SessRec
    BY <1>1, Zenon DEF SessRec
  <2>2. Unread = {} /\ rd' = [rd EXCEPT ![t] = Out] /\ missed \ {t} \subseteq missed'
        /\ missed' \subseteq missed
    BY <1>5 DEF Return
  <2>3. ~Owed(t)'
    BY <2>2 DEF Owed, Fresh
  <2>4. PICK r \in SessRec : sess' = [sess EXCEPT ![t] = r]
    <3>1. CASE \E at \in IF s.at = "wait" THEN {"wait", "switch"} ELSE {s.at} :
                 sess' = [sess EXCEPT ![t] = [s EXCEPT !.at = at]]
      <4>1. PICK at \in IF s.at = "wait" THEN {"wait", "switch"} ELSE {s.at} :
                 sess' = [sess EXCEPT ![t] = [s EXCEPT !.at = at]]
        BY <3>1
      <4> HIDE DEF s
      <4>2. at \in Positions
        BY <2>1 DEF SessRec, Positions
      <4>3. [s EXCEPT !.at = at] \in SessRec
        BY <2>1, <4>2, Zenon DEF SessRec
      <4> QED
        BY <4>1, <4>3
    <3>2. CASE sess' = [sess EXCEPT ![t] = [s EXCEPT !.at = "after"]]
      <4> HIDE DEF s
      <4>1. [s EXCEPT !.at = "after"] \in SessRec
        BY <2>1, Zenon DEF SessRec, Positions
      <4> QED
        BY <3>2, <4>1
    <3>3. CASE sess' = [sess EXCEPT ![t] = [s EXCEPT !.blocked = s.oldblock]]
      <4> HIDE DEF s
      <4>1. s.oldblock \in BOOLEAN
        BY <2>1 DEF SessRec
      <4>2. [s EXCEPT !.blocked = s.oldblock] \in SessRec
        BY <2>1, <4>1, Zenon DEF SessRec
      <4> QED
        BY <3>3, <4>2
    <3> QED
      BY <1>5, <3>1, <3>2, <3>3 DEF Return
  <2>5. \A u \in Telnets \ {t} : rd'[u] = rd[u]
    BY <1>2, <2>2 DEF Sessions
  <2>6. Known(t)' /\ Noted(t)'
    BY <2>3, <2>4, AwareNow
  <2>7. Becomes(t, r)
    BY <2>2, <2>4, <2>5 DEF Becomes
  <2> QED
    BY <1>1, <2>2, <2>6, <2>7 DEF Moved
<1> QED
  BY <1>3, <1>4, <1>5

LEMMA SwitchOnMoves ==
  ASSUME IInv, SessOK, NEW t \in Telnets, Known(t), Owed(t)' => Owed(t), SwitchOn(t)
  PROVE  Moved(t)
<1>1. sess \in [Telnets -> SessRec] /\ sess[t] \in SessRec /\ missed \in SUBSET Telnets
  BY DEF SessOK
<1>2. rd \in [Sessions -> RdRec] /\ t \in Sessions
  BY DEF IInv, TypeInv, FilesOK, Sessions
<1> DEFINE s == [sess[t] EXCEPT !.canProcess = TRUE]
<1>3. s \in SessRec
  BY <1>1, Zenon DEF SessRec
<1>4. /\ s.at = sess[t].at /\ s.sig = sess[t].sig /\ s.occurred = sess[t].occurred
      /\ s.unread = sess[t].unread /\ s.look = sess[t].look
  BY <1>1 DEF SessRec
<1>5. missed' = missed /\ s.at = "switch" /\ rd[t].rm = "out"
  BY DEF SwitchOn, history
<1> HIDE DEF s
<1>6. ASSUME NEW r \in SessRec, sess' = [sess EXCEPT ![t] = r], rd' = rd, Keeps(s, r),
             \/ r.at \notin {"after", "unmasked"} \/ r.mode = "MSG" \/ r.unread = TRUE
      PROVE  Moved(t)
  <2>1. Keeps(sess[t], r)
    BY <1>4, <1>6 DEF Keeps
  <2>2. Known(t)' /\ Noted(t)'
    <3>1. CASE r.unread = TRUE
      BY <1>6, <3>1, AwareNow
    <3>2. CASE r.at \notin {"after", "unmasked"} \/ r.mode = "MSG"
      BY <1>4, <1>5, <1>6, <2>1, <3>2, AwareStill
    <3> QED
      BY <1>6, <3>1, <3>2
  <2>3. Becomes(t, r)
    BY <1>5, <1>6 DEF Becomes
  <2> QED
    BY <1>1, <1>5, <2>2, <2>3 DEF Moved
<1>7. CASE sess' = [sess EXCEPT ![t] = [s EXCEPT !.at = "wait"]] /\ rd' = rd
  <2> DEFINE r == [s EXCEPT !.at = "wait"]
  <2>1. r \in SessRec
    BY <1>3, Zenon DEF SessRec, Positions
  <2>2. r.at = "wait" /\ Keeps(s, r)
    BY <1>3 DEF SessRec, Keeps
  <2> QED
    BY <1>6, <1>7, <2>1, <2>2
<1>8. CASE s.mode = "MSG" /\ sess' = [sess EXCEPT ![t] = [s EXCEPT !.at = "after"]] /\ rd' = rd
  <2> DEFINE r == [s EXCEPT !.at = "after"]
  <2>1. r \in SessRec
    BY <1>3, Zenon DEF SessRec, Positions
  <2>2. r.mode = "MSG" /\ Keeps(s, r)
    BY <1>3, <1>8 DEF SessRec, Keeps
  <2> QED
    BY <1>6, <1>8, <2>1, <2>2
<1>9. CASE sess' = [sess EXCEPT ![t] = [s EXCEPT !.at = "after", !.unread = TRUE]] /\ rd' = rd
  <2> DEFINE r == [s EXCEPT !.at = "after", !.unread = TRUE]
  <2>1. r \in SessRec
    BY <1>3, Zenon DEF SessRec, Positions
  <2>2. r.unread = TRUE /\ Keeps(s, r)
    BY <1>3 DEF SessRec, Keeps
  <2> QED
    BY <1>6, <1>9, <2>1, <2>2
<1>10. CASE Enter(t, s, "switch")
  <2> DEFINE r == [s EXCEPT !.mode = "MSG", !.by = "switch"]
  <2>1. r \in SessRec
    BY <1>3, Zenon DEF SessRec
  <2>2. sess' = [sess EXCEPT ![t] = r] /\ rd' = [rd EXCEPT ![t].rm = "count"]
    BY <1>10 DEF Enter
  <2>3. rd'[t].rm = "count" /\ \A u \in Telnets \ {t} : rd'[u] = rd[u]
    BY <1>2, <2>2 DEF RdRec, Sessions
  <2>4. Known(t)' /\ Noted(t)'
    BY <2>1, <2>2, <2>3, AwareNow
  <2>5. Becomes(t, r)
    BY <1>5, <2>2, <2>3 DEF Becomes
  <2> QED
    BY <1>1, <1>5, <2>1, <2>4, <2>5 DEF Moved
<1> QED
  BY <1>7, <1>8, <1>9, <1>10 DEF SwitchOn, s

\* A session that does not read becomes r: it knows of its messages for a reason of r, or
\* as before.
Stays(t, r) ==
  /\ sess' = [sess EXCEPT ![t] = r] /\ rd' = rd
  /\ missed' \in {missed, missed \cup {t}, missed \ {t}}

LEMMA StaysMoves ==
  ASSUME SessOK, NEW t \in Telnets, NEW r \in SessRec, Stays(t, r), Known(t), Owed(t)' => Owed(t),
         \/ rd'[t].rm # "out" \/ t \in missed' \/ r.unread = TRUE \/ r.look = TRUE
         \/ r.occurred = TRUE /\ r.at \notin {"after", "unmasked"}
         \/ /\ sess[t].at # "off" /\ rd[t].rm = "out" /\ (t \in missed => t \in missed')
            /\ Keeps(sess[t], r) /\ (r.at \notin {"after", "unmasked"} \/ r.mode = "MSG")
  PROVE  Moved(t)
<1>1. sess' = [sess EXCEPT ![t] = r] /\ rd' = rd /\ missed' \in SUBSET Telnets
  BY DEF Stays, SessOK
<1>2. Becomes(t, r)
  BY DEF Stays, Becomes
<1>3. CASE \/ rd'[t].rm # "out" \/ t \in missed' \/ r.unread = TRUE \/ r.look = TRUE
           \/ r.occurred = TRUE /\ r.at \notin {"after", "unmasked"}
  <2>1. Known(t)' /\ Noted(t)'
    BY <1>1, <1>3, AwareNow
  <2> QED
    BY <1>1, <1>2, <2>1 DEF Moved
<1>4. CASE /\ sess[t].at # "off" /\ rd[t].rm = "out" /\ (t \in missed => t \in missed')
           /\ Keeps(sess[t], r) /\ (r.at \notin {"after", "unmasked"} \/ r.mode = "MSG")
  <2>1. Known(t)' /\ Noted(t)'
    BY <1>1, <1>4, AwareStill
  <2> QED
    BY <1>1, <1>2, <2>1 DEF Moved
<1> QED
  BY <1>3, <1>4

LEMMA WaitMoves ==
  ASSUME IInv, SessOK, NEW t \in Telnets, Known(t), Noted(t), Owed(t)' => Owed(t),
         Igetch(t) \/ Unmask(t) \/ SwitchEnd(t) \/ Key(t)
  PROVE  Moved(t)
<1>1. sess \in [Telnets -> SessRec] /\ sess[t] \in SessRec /\ missed \in SUBSET Telnets
  BY DEF SessOK
<1>2. CASE Igetch(t)
  <2> DEFINE r == [sess[t] EXCEPT !.at = "switch"]
  <2>1. Stays(t, r) /\ sess[t].at # "off" /\ rd[t].rm = "out" /\ missed' = missed
    BY <1>1, <1>2 DEF Igetch, history, Stays
  <2>2. r \in SessRec
    BY <1>1, Zenon DEF SessRec, Positions
  <2>3. Keeps(sess[t], r) /\ r.at = "switch"
    BY <1>1 DEF SessRec, Keeps
  <2> QED
    BY <2>1, <2>2, <2>3, StaysMoves
<1>3. CASE Unmask(t)
  <2> DEFINE r == [sess[t] EXCEPT !.at = "unmasked"]
  <2>1. /\ sess' = [sess EXCEPT ![t] = r] /\ rd' = rd /\ missed' = missed
        /\ sess[t].at = "after"
    BY <1>1, <1>3 DEF Unmask, history
  <2>2. r \in SessRec
    BY <1>1, Zenon DEF SessRec, Positions
  <2>3. /\ r.at = "unmasked" /\ r.sig = sess[t].sig /\ r.occurred = sess[t].occurred
        /\ r.unread = sess[t].unread /\ r.look = sess[t].look /\ r.mode = sess[t].mode
    BY <1>1 DEF SessRec
  <2> HIDE DEF r
  <2>4. sess'[t] = r
    BY <1>1, <2>1
  <2>5. Known(t)'
    BY <2>1, <2>3, <2>4 DEF Known
  <2>6. Noted(t)'
    BY <2>1, <2>3, <2>4 DEF Noted
  <2>7. Becomes(t, r)
    BY <2>1 DEF Becomes
  <2> QED
    BY <1>1, <2>1, <2>2, <2>5, <2>6, <2>7 DEF Moved
<1>4. CASE SwitchEnd(t)
  <2> DEFINE r == [sess[t] EXCEPT !.at = "wait", !.occurred = FALSE]
  <2>1. /\ sess' = [sess EXCEPT ![t] = r] /\ rd' = rd
        /\ sess[t].at \in {"unmasked", "caught"} /\ rd[t].rm = "out"
        /\ missed' = IF ~sess[t].look /\ (sess[t].mode = "MSG" \/ sess[t].at = "caught")
                     THEN missed \cup {t} ELSE missed
    BY <1>1, <1>4 DEF SwitchEnd
  <2>2. r \in SessRec
    BY <1>1, Zenon DEF SessRec, Positions
  <2>3. /\ r.at = "wait" /\ r.sig = sess[t].sig /\ r.unread = sess[t].unread
        /\ r.look = sess[t].look
    BY <1>1 DEF SessRec
  <2> HIDE DEF r
  <2>4. sess'[t] = r /\ missed' \in SUBSET Telnets
    BY <1>1, <2>1
  <2>5. Noted(t)'
    BY <2>3, <2>4 DEF Noted
  <2>6. Known(t)'
    <3>1. CASE t \in missed'
      BY <3>1 DEF Known
    <3>2. CASE t \notin missed'
      <4>1. sess[t].look = TRUE \/ (sess[t].mode # "MSG" /\ sess[t].at = "unmasked")
        BY <1>1, <2>1, <3>2 DEF SessRec
      <4>2. t \notin missed
        BY <2>1, <3>2
      <4>3. Owed(t)' => sess[t].sig \/ sess[t].unread \/ sess[t].look
        BY <2>1, <4>1, <4>2 DEF Noted
      <4> QED
        BY <2>3, <2>4, <4>3 DEF Known
    <3> QED
      BY <3>1, <3>2
  <2>7. Becomes(t, r)
    BY <2>1 DEF Becomes
  <2> QED
    BY <2>2, <2>4, <2>5, <2>6, <2>7 DEF Moved
<1>5. CASE Key(t)
  <2> DEFINE r == [sess[t] EXCEPT !.at = "busy", !.canProcess = FALSE]
  <2>1. Stays(t, r) /\ sess[t].at # "off" /\ rd[t].rm = "out" /\ missed' = missed
    BY <1>1, <1>5 DEF Key, history, Stays
  <2>2. r \in SessRec
    BY <1>1, Zenon DEF SessRec, Positions
  <2>3. Keeps(sess[t], r) /\ r.at = "busy"
    BY <1>1 DEF SessRec, Keeps
  <2> QED
    BY <2>1, <2>2, <2>3, StaysMoves
<1> QED
  BY <1>2, <1>3, <1>4, <1>5

LEMMA BlockMoves ==
  ASSUME SessOK, NEW t \in Telnets, Known(t), Owed(t)' => Owed(t),
         \/ \E what \in {"edit", "lock"} : Start(t, what)
         \/ StartFails(t) \/ Stop(t)
  PROVE  Moved(t)
<1>1. sess \in [Telnets -> SessRec] /\ sess[t] \in SessRec
  BY DEF SessOK
<1>2. ASSUME NEW what \in {"edit", "lock"}, Start(t, what) PROVE Moved(t)
  <2> DEFINE r == [sess[t] EXCEPT !.does = what, !.blocked = TRUE, !.mode = "other"]
  <2>1. sess' = [sess EXCEPT ![t] = r] /\ rd' = rd /\ missed' = missed
        /\ sess[t].at = "busy" /\ rd[t].rm = "out"
    BY <1>1, <1>2 DEF Start, Command, Busy, history
  <2>2. r \in SessRec
    BY <1>1, Zenon DEF SessRec
  <2>3. Keeps(sess[t], r) /\ r.at = sess[t].at
    BY <1>1 DEF SessRec, Keeps
  <2> HIDE DEF r
  <2>4. Stays(t, r)
    BY <2>1 DEF Stays
  <2> QED
    BY <2>1, <2>2, <2>3, <2>4, StaysMoves
<1>3. CASE StartFails(t)
  <2> DEFINE r == [sess[t] EXCEPT !.blocked = TRUE, !.mode = "other"]
  <2>1. sess' = [sess EXCEPT ![t] = r] /\ rd' = rd /\ missed' = missed \cup {t}
    BY <1>1, <1>3 DEF StartFails
  <2>2. r \in SessRec
    BY <1>1, Zenon DEF SessRec
  <2> HIDE DEF r
  <2>3. Stays(t, r) /\ t \in missed'
    BY <2>1 DEF Stays
  <2> QED
    BY <2>2, <2>3, StaysMoves
<1>4. CASE Stop(t)
  <2> DEFINE r == [Unblocked(sess[t]) EXCEPT !.does = "nothing"]
  <2>1. sess' = [sess EXCEPT ![t] = r] /\ rd' = rd /\ missed' = missed /\ sess[t].at = "busy"
    BY <1>1, <1>4 DEF Stop, Busy, history
  <2>2. Unblocked(sess[t]) \in SessRec
    BY <1>1, Zenon DEF SessRec, Unblocked
  <2>3. r \in SessRec
    BY <2>2, Zenon DEF SessRec
  <2>4. r.occurred = TRUE /\ r.at = sess[t].at
    BY <1>1 DEF SessRec, Unblocked
  <2> HIDE DEF r
  <2>5. Stays(t, r)
    BY <2>1 DEF Stays
  <2> QED
    BY <2>1, <2>3, <2>4, <2>5, StaysMoves
<1> QED
  BY <1>2, <1>3, <1>4

LEMMA MenuMoves ==
  ASSUME SessOK, NEW t \in Telnets, Known(t), Owed(t)' => Owed(t), SendMenu(t) \/ Menu(t)
  PROVE  Moved(t)
<1>1. sess \in [Telnets -> SessRec] /\ sess[t] \in SessRec
  BY DEF SessOK
<1>2. PICK m \in {"other", "MSG"} : sess' = [sess EXCEPT ![t].mode = m]
  BY DEF SendMenu, Menu
<1> DEFINE r == [sess[t] EXCEPT !.mode = m]
<1>3. sess' = [sess EXCEPT ![t] = r] /\ rd' = rd /\ missed' = missed
      /\ sess[t].at = "busy" /\ rd[t].rm = "out"
  BY <1>1, <1>2 DEF SendMenu, Menu, Command, Busy, history
<1>4. r \in SessRec
  BY <1>1, Zenon DEF SessRec
<1>5. Keeps(sess[t], r) /\ r.at = sess[t].at
  BY <1>1 DEF SessRec, Keeps
<1> HIDE DEF r
<1>6. Stays(t, r)
  BY <1>3 DEF Stays
<1> QED
  BY <1>3, <1>4, <1>5, <1>6, StaysMoves

LEMMA LookMoves ==
  ASSUME IInv, SessOK, NEW t \in Telnets, Known(t), Owed(t)' => Owed(t),
         CtrlZUnread(t) \/ CtrlZ(t) \/ LookEnd(t)
  PROVE  Moved(t)
<1>1. sess \in [Telnets -> SessRec] /\ sess[t] \in SessRec /\ missed \in SUBSET Telnets
  BY DEF SessOK
<1>2. rd \in [Sessions -> RdRec] /\ t \in Sessions
  BY DEF IInv, TypeInv, FilesOK, Sessions
<1>3. CASE CtrlZUnread(t) /\ sess[t].mode = "MSG"
  <2> DEFINE r == [sess[t] EXCEPT !.occurred = TRUE]
  <2>1. sess' = [sess EXCEPT ![t] = r] /\ rd' = rd /\ missed' = missed /\ sess[t].at = "busy"
    BY <1>1, <1>3 DEF CtrlZUnread, Command, Busy, history
  <2>2. r \in SessRec
    BY <1>1, Zenon DEF SessRec
  <2>3. r.occurred = TRUE /\ r.at = sess[t].at
    BY <1>1 DEF SessRec
  <2> HIDE DEF r
  <2>4. Stays(t, r)
    BY <2>1 DEF Stays
  <2> QED
    BY <2>1, <2>2, <2>3, <2>4, StaysMoves
<1>4. CASE CtrlZUnread(t) /\ sess[t].mode # "MSG"
  <2> DEFINE s == [sess[t] EXCEPT !.oldblock = sess[t].blocked, !.blocked = FALSE]
             r == [s EXCEPT !.mode = "MSG", !.by = "igetkey"]
  <2>1. /\ sess' = [sess EXCEPT ![t] = r] /\ rd' = [rd EXCEPT ![t].rm = "count"]
        /\ missed' = missed
    BY <1>4 DEF CtrlZUnread, Enter, history
  <2>2. sess[t].blocked \in BOOLEAN
    BY <1>1 DEF SessRec
  <2>3. s \in SessRec
    BY <1>1, <2>2, Zenon DEF SessRec
  <2> HIDE DEF s
  <2>4. r \in SessRec
    BY <2>3, Zenon DEF SessRec
  <2>5. rd'[t].rm = "count" /\ \A u \in Telnets \ {t} : rd'[u] = rd[u]
    BY <1>2, <2>1 DEF RdRec, Sessions
  <2> HIDE DEF r
  <2>6. Known(t)' /\ Noted(t)'
    BY <2>1, <2>4, <2>5, AwareNow
  <2>7. Becomes(t, r)
    BY <2>1, <2>5 DEF Becomes
  <2> QED
    BY <1>1, <2>1, <2>4, <2>6, <2>7 DEF Moved
<1>5. CASE CtrlZ(t)
  <2> DEFINE r == [sess[t] EXCEPT !.blocked = TRUE, !.savemode = sess[t].mode, !.mode = "MSG",
                                  !.look = (Heads # <<>>)]
  <2>1. /\ sess' = [sess EXCEPT ![t] = r] /\ rd' = rd
        /\ missed' = IF Heads = <<>> THEN missed \cup {t} ELSE missed
    BY <1>1, <1>5 DEF CtrlZ
  <2>2. sess[t].mode \in {"other", "MSG"} /\ (Heads # <<>>) \in BOOLEAN
    BY <1>1 DEF SessRec
  <2>3. r \in SessRec
    BY <1>1, <2>2, Zenon DEF SessRec
  <2>4. Heads = <<>> \/ r.look = TRUE
    BY <1>1 DEF SessRec
  <2> HIDE DEF r
  <2>5. Stays(t, r)
    BY <2>1 DEF Stays
  <2> QED
    BY <2>1, <2>3, <2>4, <2>5, StaysMoves
<1>6. CASE LookEnd(t)
  <2> DEFINE r == [Unblocked(sess[t]) EXCEPT !.look = FALSE, !.mode = sess[t].savemode]
  <2>1. sess' = [sess EXCEPT ![t] = r] /\ rd' = rd /\ missed' = missed /\ sess[t].at = "busy"
    BY <1>1, <1>6 DEF LookEnd, Busy, history
  <2>2. Unblocked(sess[t]) \in SessRec
    BY <1>1, Zenon DEF SessRec, Unblocked
  <2>3. sess[t].savemode \in {"other", "MSG"}
    BY <1>1 DEF SessRec
  <2>4. r \in SessRec
    BY <2>2, <2>3, Zenon DEF SessRec
  <2>5. r.occurred = TRUE /\ r.at = sess[t].at
    BY <1>1 DEF SessRec, Unblocked
  <2> HIDE DEF r
  <2>6. Stays(t, r)
    BY <2>1 DEF Stays
  <2> QED
    BY <2>1, <2>4, <2>5, <2>6, StaysMoves
<1> QED
  BY <1>3, <1>4, <1>5, <1>6

LEMMA ComingMoves ==
  ASSUME IInv, SessOK, NEW t \in Telnets, Known(t), Owed(t)' => Owed(t),
         Leave(t) \/ \E getkey \in BOOLEAN : Login(t, getkey)
  PROVE  Moved(t)
<1>1. sess \in [Telnets -> SessRec] /\ sess[t] \in SessRec /\ missed \in SUBSET Telnets
  BY DEF SessOK
<1>2. rd \in [Sessions -> RdRec] /\ t \in Sessions
  BY DEF IInv, TypeInv, FilesOK, Sessions
<1>3. Off \in SessRec
  BY Zenon DEF Off, SessRec, Positions
<1>4. CASE Leave(t)
  <2>1. sess' = [sess EXCEPT ![t] = Off] /\ rd' = [rd EXCEPT ![t] = Out] /\ missed' = missed
    BY <1>4 DEF Leave, history
  <2>2. Off.at = "off" /\ \A u \in Telnets \ {t} : rd'[u] = rd[u]
    BY <1>2, <2>1 DEF Off, Sessions
  <2>3. Known(t)' /\ Noted(t)'
    BY <1>3, <2>1, <2>2, AwareNow
  <2>4. Becomes(t, Off)
    BY <2>1, <2>2 DEF Becomes
  <2> QED
    BY <1>1, <1>3, <2>1, <2>3, <2>4 DEF Moved
<1>5. ASSUME NEW getkey \in BOOLEAN, Login(t, getkey) PROVE Moved(t)
  <2> DEFINE r == [Off EXCEPT !.at = "busy", !.occurred = TRUE, !.getkey = getkey]
  <2>1. sess' = [sess EXCEPT ![t] = r] /\ rd' = rd /\ missed' = missed \ {t}
    BY <1>5 DEF Login
  <2>2. r \in SessRec
    BY <1>3, Zenon DEF SessRec, Positions
  <2>3. r.occurred = TRUE /\ r.at = "busy"
    BY DEF Off
  <2> HIDE DEF r
  <2>4. Stays(t, r)
    BY <2>1 DEF Stays
  <2> QED
    BY <2>2, <2>3, <2>4, StaysMoves
<1> QED
  BY <1>4, <1>5

-----------------------------------------------------------------------------
(* Every step keeps the sessions aware *)

\* A step that leaves the sessions where they are: one of a sender or a page, clear_msg, or
\* a session's own in the middle of a message.
StaysOut(u) == rd'[u].rm = "out" <=> rd[u].rm = "out"

LEMMA UnmovedAware ==
  ASSUME SessOK, \A u \in Telnets : Known(u) /\ Noted(u) /\ (Owed(u)' => Owed(u)),
         sess' = sess, missed' = missed, \A u \in Telnets : StaysOut(u)
  PROVE  SessOK' /\ \A u \in Telnets : Known(u)' /\ Noted(u)'
<1>1. SessOK'
  BY DEF SessOK
<1>2. ASSUME NEW u \in Telnets PROVE Known(u)' /\ Noted(u)'
  <2>1. Known(u) /\ Noted(u) /\ StaysOut(u) /\ (Owed(u)' => Owed(u))
    OBVIOUS
  <2>2. Known(u)'
    BY <2>1 DEF Known, StaysOut
  <2>3. Noted(u)'
    BY <2>1 DEF Noted, StaysOut
  <2> QED
    BY <2>2, <2>3
<1> QED
  BY <1>1, <1>2

LEMMA SignalAware ==
  ASSUME IInv, IInv', AwareInv, NEW m \in Msgs, Signal(m)
  PROVE  SessOK' /\ \A u \in Telnets : Known(u)' /\ Noted(u)'
<1>1. /\ out \in [Msgs -> OutRec] /\ sess \in [Telnets -> SessRec]
      /\ missed \in SUBSET Telnets /\ out[m].to \in Telnets \cup {Nobody}
  BY DEF IInv, TypeInv, FilesOK, OutRec, AwareInv, SessOK
<1>2. /\ out' = [out EXCEPT ![m].pc = "done"] /\ rd' = rd /\ missed' = missed
      /\ UNCHANGED <<files, taken>>
  BY DEF Signal, history
<1>3. ASSUME NEW u \in Telnets, u # out[m].to PROVE Owed(u)' => Owed(u)
  <2>1. NothingTold(u)
    BY <1>1, <1>2, <1>3 DEF NothingTold, OutRec
  <2>2. SameHeads
    BY <1>2 DEF SameHeads, files, Heads
  <2> QED
    BY <2>1, <2>2, OwedShrinks
<1>4. ASSUME NEW u \in Telnets, u # out[m].to PROVE Known(u)' /\ Noted(u)'
  <2>1. sess'[u] = sess[u]
    BY <1>1, <1>4 DEF Signal
  <2>2. Known(u) /\ Noted(u)
    BY DEF AwareInv
  <2> QED
    BY <1>2, <1>3, <1>4, <2>1, <2>2, OtherAware
<1>5. CASE out[m].to = Nobody
  <2>1. sess' = sess /\ \A u \in Telnets : u # out[m].to
    BY <1>5, MessagesAssumption DEF Signal
  <2> QED
    BY <1>1, <1>2, <1>4, <2>1 DEF SessOK
<1>6. CASE out[m].to # Nobody
  <2>0. PICK u \in Telnets : u = out[m].to
    BY <1>1, <1>6
  <2> DEFINE r == [sess[u] EXCEPT !.sig = TRUE]
  <2>1. sess' = [sess EXCEPT ![u] = r]
    BY <1>6, <2>0 DEF Signal
  <2>2. sess[u] \in SessRec
    BY <1>1
  <2>3. r \in SessRec
    BY <2>2, Zenon DEF SessRec
  <2>4. r.sig = TRUE
    BY <2>2 DEF SessRec
  <2> HIDE DEF r
  <2>5. sess'[u] = r /\ SessOK'
    BY <1>1, <1>2, <2>1, <2>3 DEF SessOK
  <2>6. Known(u)' /\ Noted(u)'
    BY <2>4, <2>5 DEF Known, Noted
  <2> QED
    BY <1>4, <2>0, <2>5, <2>6
<1> QED
  BY <1>5, <1>6

LEMMA ReaderStaysOut ==
  ASSUME IInv, NEW a \in Sessions, Reader(a)
  PROVE  sess' = sess /\ missed' = missed /\ \A u \in Telnets : StaysOut(u)
<1>1. rd \in [Sessions -> RdRec] /\ Telnets \subseteq Sessions /\ Telnets \cap Webs = {}
  BY MessagesAssumption DEF IInv, TypeInv, FilesOK, Sessions
<1>2. ASSUME NEW h, NEW k, k # "out" \/ a \in Webs, rd[a].rm # "out",
             rd' = [rd EXCEPT ![a] = [rm |-> k, hand |-> h]]
      PROVE  \A u \in Telnets : StaysOut(u)
  BY <1>1, <1>2 DEF StaysOut
<1>3. After(a) # "out" \/ a \in Webs
  BY DEF After
<1>4. CASE Get(a)
  <2>1. /\ sess' = sess /\ missed' = missed /\ rd[a].rm = "get"
        /\ \/ rd' = [rd EXCEPT ![a] = [Out EXCEPT !.rm = After(a)]]
           \/ rd' = [rd EXCEPT ![a] = [rm |-> "put", hand |-> [file |-> gen.index2, at |-> Read + 1]]]
    BY <1>4 DEF Get
  <2>2. [Out EXCEPT !.rm = After(a)] = [rm |-> After(a), hand |-> NoHead]
    BY DEF Out
  <2> QED
    BY <1>2, <1>3, <2>1, <2>2
<1>5. CASE Put(a)
  <2>1. sess' = sess /\ missed' = missed /\ rd[a].rm = "put" /\ rd' = [rd EXCEPT ![a].rm = "show"]
    BY <1>5 DEF Put
  <2>2. [rd[a] EXCEPT !.rm = "show"] = [rm |-> "show", hand |-> rd[a].hand]
    BY <1>1 DEF RdRec
  <2> QED
    BY <1>2, <2>1, <2>2
<1>6. CASE Show(a)
  <2>1. /\ sess' = sess /\ missed' = missed /\ rd[a].rm = "show"
        /\ rd' = [rd EXCEPT ![a] = [Out EXCEPT !.rm = After(a)]]
    BY <1>6, ShowIs
  <2>2. [Out EXCEPT !.rm = After(a)] = [rm |-> After(a), hand |-> NoHead]
    BY DEF Out
  <2> QED
    BY <1>2, <1>3, <2>1, <2>2
<1> QED
  BY <1>4, <1>5, <1>6 DEF Reader

LEMMA AwareKept ==
  ASSUME IInv, IInv', AwareInv, [Next]_vars
  PROVE  AwareInv'
<1>1. Later' /\ SessOK /\ \A u \in Telnets : Known(u) /\ Noted(u)
  BY LaterKeeps DEF AwareInv
<1>2. SUFFICES SessOK' /\ \A u \in Telnets : Known(u)' /\ Noted(u)'
  BY <1>1 DEF AwareInv
<1>3. ASSUME NEW m \in Msgs, Signal(m) PROVE SessOK' /\ \A u \in Telnets : Known(u)' /\ Noted(u)'
  BY <1>3, SignalAware
<1>4. CASE \A m \in Msgs : ~Signal(m)
  <2>1. \A u \in Telnets : Owed(u)' => Owed(u)
    <3> SUFFICES ASSUME NEW u \in Telnets PROVE Owed(u)' => Owed(u)
      OBVIOUS
    <3>1. Later
      BY DEF AwareInv
    <3> QED
      BY <1>4, <3>1, OnlySignalsTell
  <2>2. \A u \in Telnets : Known(u) /\ Noted(u) /\ (Owed(u)' => Owed(u))
    BY <1>1, <2>1
  <2>3. ASSUME sess' = sess, missed' = missed, \A u \in Telnets : StaysOut(u)
        PROVE  SessOK' /\ \A u \in Telnets : Known(u)' /\ Noted(u)'
    BY <1>1, <2>2, <2>3, UnmovedAware
  <2>4. ASSUME NEW t \in Telnets, Moved(t)
        PROVE  SessOK' /\ \A u \in Telnets : Known(u)' /\ Noted(u)'
    <3>1. PICK r \in SessRec : Becomes(t, r)
      BY <2>4 DEF Moved
    <3>2. missed' \in SUBSET Telnets /\ Known(t)' /\ Noted(t)'
      BY <2>4 DEF Moved
    <3> QED
      BY <1>1, <2>2, <3>1, <3>2, BecomesAware
  <2>5. CASE \E m \in Msgs : Sender(m)
    <3>1. rd' = rd /\ sess' = sess /\ missed' = missed
      BY <1>4, <2>5, SenderLeavesSessions
    <3> QED
      BY <2>3, <3>1 DEF StaysOut
  <2>6. CASE Clear
    <3>1. rd' = rd /\ sess' = sess /\ missed' = missed
      BY <2>6 DEF Clear
    <3> QED
      BY <2>3, <3>1 DEF StaysOut
  <2>7. ASSUME NEW a \in Sessions, Reader(a)
        PROVE  SessOK' /\ \A u \in Telnets : Known(u)' /\ Noted(u)'
    BY <2>3, <2>7, ReaderStaysOut
  <2>8. ASSUME NEW w \in Webs, Poll(w)
        PROVE  SessOK' /\ \A u \in Telnets : Known(u)' /\ Noted(u)'
    <3>1. sess' = sess /\ missed' = missed /\ rd' = [rd EXCEPT ![w].rm = "get"]
      BY <2>8 DEF Poll, history
    <3>2. \A u \in Telnets : rd'[u] = rd[u]
      BY <3>1, MessagesAssumption DEF IInv, TypeInv, FilesOK, Sessions
    <3> QED
      BY <2>3, <3>1, <3>2 DEF StaysOut
  <2>9. ASSUME NEW t \in Telnets, SessionStep(t) \/ Leave(t) PROVE Moved(t)
    <3>1. Known(t) /\ Noted(t) /\ (Owed(t)' => Owed(t))
      BY <2>2
    <3>2. CASE Handle(t)
      BY <1>1, <3>2, HandleMoves
    <3>3. CASE NextMsg(t) \/ Answer(t) \/ Return(t)
      BY <1>1, <3>1, <3>3, ReadingMoves
    <3>4. CASE Wait(t)
      BY <1>1, <3>1, <3>4, WaitMoves, SwitchOnMoves DEF Wait
    <3>5. CASE \/ \E what \in {"edit", "lock"} : Start(t, what)
               \/ StartFails(t) \/ Stop(t)
      BY <1>1, <3>1, <3>5, BlockMoves
    <3>6. CASE SendMenu(t) \/ Menu(t)
      BY <1>1, <3>1, <3>6, MenuMoves
    <3>7. CASE CtrlZUnread(t) \/ CtrlZ(t) \/ LookEnd(t)
      BY <1>1, <3>1, <3>7, LookMoves
    <3>8. CASE Leave(t) \/ \E getkey \in BOOLEAN : Login(t, getkey)
      BY <1>1, <3>1, <3>8, ComingMoves
    <3> QED
      BY <2>9, <3>2, <3>3, <3>4, <3>5, <3>6, <3>7, <3>8 DEF SessionStep
  <2>10. CASE UNCHANGED vars
    <3>1. rd' = rd /\ sess' = sess /\ missed' = missed
      BY <2>10 DEF vars, history
    <3> QED
      BY <2>3, <3>1 DEF StaysOut
  <2>11. CASE \E w \in Webs : Poll(w) \/ Reader(w)
    BY <2>7, <2>8, <2>11 DEF Sessions
  <2>12. CASE \E t \in Telnets : SessionStep(t) \/ Reader(t) \/ Leave(t)
    BY <2>4, <2>7, <2>9, <2>12 DEF Sessions
  <2>13. Next => \/ \E m \in Msgs : Sender(m)
                 \/ Clear
                 \/ \E w \in Webs : Poll(w) \/ Reader(w)
                 \/ \E t \in Telnets : SessionStep(t) \/ Reader(t) \/ Leave(t)
    BY DEF Next, SessionStep, RMsg
  <2> QED
    BY <2>5, <2>6, <2>10, <2>11, <2>12, <2>13
<1> QED
  BY <1>3, <1>4

LEMMA InitAware == Init => AwareInv
<1> SUFFICES ASSUME Init PROVE AwareInv
  OBVIOUS
<1>1. Off \in SessRec
  BY Zenon DEF Off, SessRec, Positions
<1>2. SessOK
  BY <1>1 DEF Init, SessOK
<1>3. Later
  BY DEF Init, Later
<1>4. ASSUME NEW t \in Telnets PROVE Known(t) /\ Noted(t)
  <2>1. sess[t].at = "off"
    BY DEF Init, Off
  <2> QED
    BY <2>1 DEF Known, Noted
<1> QED
  BY <1>2, <1>3, <1>4 DEF AwareInv

LEMMA Awareness == Spec => []AwareInv
<1>1. IInv /\ IInv' /\ AwareInv /\ [Next]_vars => AwareInv'
  BY AwareKept
<1> QED
  BY <1>1, InitAware, Invariant, PTL DEF Spec

\* A session that waits for a key with a message of its own unread knows of it, whatever
\* signals come while it edits, answers, looks at old messages or goes to wait
\* (occurredSIGUSR2, have_msg_unread and unblock_msg), unless it dropped the signal on one
\* of the ways NotForgotten names.
THEOREM NeverForgotten == Spec => []NotForgotten
<1>1. AwareInv => NotForgotten
  BY DEF AwareInv, Known, Owed, NotForgotten
<1> QED
  BY <1>1, Awareness, PTL

-----------------------------------------------------------------------------
(* The number of heads read stays among the heads *)

\* What a session is about to count as read is a head, since heads are only added.
CountsHead(a) ==
  /\ rd[a].rm = "put" => rd[a].hand.at <= Len(index2[rd[a].hand.file].heads)
  /\ rd[a].rm \in {"put", "show"} => rd[a].hand.at > 0

CountInv ==
  /\ \A g \in Gens : index2[g].read <= Len(index2[g].heads)
  /\ \A a \in Sessions : CountsHead(a)
  /\ taken \in SUBSET Hand /\ shown \in SUBSET (Msgs \X (Msgs \cup {Nobody}))

LEMMA CountStays ==
  ASSUME CountInv, index2' = index2, taken' = taken, shown' = shown,
         \A a \in Sessions : rd'[a] = rd[a] \/ rd'[a].rm \notin {"put", "show"}
  PROVE  CountInv'
BY DEF CountInv, CountsHead

LEMMA WriteHeadCounts ==
  ASSUME IInv, CountInv, NEW m \in Msgs, WriteHead(m) PROVE CountInv'
<1>1. /\ index2 \in [Gens -> [read : Nat, heads : Seq(Head0)]] /\ rd \in [Sessions -> RdRec]
      /\ gen.index2 \in Gens /\ out \in [Msgs -> OutRec]
  BY DEF IInv, TypeInv, FilesOK, GensOK
<1> DEFINE h == [msg |-> m, pos |-> out[m].pos]
<1>2. /\ index2' = [index2 EXCEPT ![gen.index2].heads = Append(@, h)]
      /\ rd' = rd /\ taken' = taken /\ shown' = shown
  BY DEF WriteHead, history
<1>3. h \in Head0
  BY <1>1 DEF Head0, OutRec
<1> HIDE DEF h
<1>4. ASSUME NEW g \in Gens
      PROVE  /\ index2'[g].read = index2[g].read
             /\ Len(index2[g].heads) <= Len(index2'[g].heads)
  <2>1. CASE g = gen.index2
    <3>1. index2'[g].heads = Append(index2[g].heads, h) /\ index2'[g].read = index2[g].read
      BY <1>1, <1>2, <2>1
    <3>2. index2[g].heads \in Seq(Head0)
      BY <1>1
    <3> QED
      BY <1>3, <3>1, <3>2, AppendProperties
  <2>2. CASE g # gen.index2
    <3>1. index2'[g] = index2[g] /\ index2[g].heads \in Seq(Head0)
      BY <1>1, <1>2, <2>2
    <3> QED
      BY <3>1
  <2> QED
    BY <2>1, <2>2
<1>5. ASSUME NEW g \in Gens PROVE index2'[g].read <= Len(index2'[g].heads)
  <2>1. /\ index2[g].read \in Nat /\ Len(index2[g].heads) \in Nat
        /\ index2[g].read <= Len(index2[g].heads)
    BY <1>1 DEF CountInv
  <2>2. index2'[g].heads \in Seq(Head0)
    <3>1. Append(index2[gen.index2].heads, h) \in Seq(Head0)
      BY <1>1, <1>3
    <3> QED
      BY <1>1, <1>2, <3>1
  <2>3. Len(index2'[g].heads) \in Nat
    BY <2>2
  <2> QED
    BY <1>4, <2>1, <2>3
<1>6. ASSUME NEW a \in Sessions, rd[a].rm = "put"
      PROVE  rd[a].hand.at <= Len(index2'[rd[a].hand.file].heads)
  <2>1. rd[a].hand.file \in Gens /\ rd[a].hand.at \in Nat
    BY <1>1 DEF RdRec, Hand
  <2>2. rd[a].hand.at <= Len(index2[rd[a].hand.file].heads)
    BY <1>6 DEF CountInv, CountsHead
  <2> DEFINE x == Len(index2[rd[a].hand.file].heads)
             y == Len(index2'[rd[a].hand.file].heads)
  <2>3. x \in Nat
    BY <1>1, <2>1
  <2>4. index2'[rd[a].hand.file].heads \in Seq(Head0)
    <3>1. Append(index2[gen.index2].heads, h) \in Seq(Head0)
      BY <1>1, <1>3
    <3> QED
      BY <1>1, <1>2, <2>1, <3>1
  <2>5. y \in Nat
    BY <2>4
  <2>6. x <= y
    BY <1>4, <2>1
  <2> HIDE DEF x, y
  <2>7. rd[a].hand.at <= y
    BY <2>1, <2>2, <2>3, <2>5, <2>6 DEF x
  <2> QED
    BY <2>7 DEF y
<1> QED
  BY <1>2, <1>5, <1>6 DEF CountInv, CountsHead

LEMMA ReaderCounts ==
  ASSUME IInv, CountInv, NEW a \in Sessions, Reader(a) PROVE CountInv'
<1>1. /\ index2 \in [Gens -> [read : Nat, heads : Seq(Head0)]] /\ rd \in [Sessions -> RdRec]
      /\ gen.index2 \in Gens /\ gen.content \in Gens /\ content \in [Gens -> Seq(Msgs)]
  BY DEF IInv, TypeInv, FilesOK, GensOK
<1>2. CASE Get(a)
  <2>1. index2' = index2 /\ taken' = taken /\ shown' = shown /\ gen' = gen
    BY <1>2 DEF Get, files
  <2>2. ASSUME NEW b \in Sessions PROVE CountsHead(b)'
    <3>1. CASE rd'[b] = rd[b]
      BY <2>1, <3>1 DEF CountInv, CountsHead
    <3>2. CASE rd'[b] # rd[b]
      <4>1. b = a
        BY <1>1, <1>2, <3>2 DEF Get
      <4>2. CASE Read >= Len(Heads)
        <5>1. rd'[a].rm = After(a)
          BY <1>1, <1>2, <4>2 DEF Get, Out
        <5>2. After(a) \notin {"put", "show"}
          BY DEF After
        <5> QED
          BY <4>1, <5>1, <5>2 DEF CountsHead
      <4>3. CASE ~(Read >= Len(Heads))
        <5>1. rd'[a].hand = [file |-> gen.index2, at |-> Read + 1]
          BY <1>1, <1>2, <4>3 DEF Get
        <5>2. Read \in Nat /\ Len(Heads) \in Nat
          BY <1>1 DEF Read, Heads
        <5>3. Read + 1 <= Len(Heads) /\ Read + 1 > 0
          BY <4>3, <5>2
        <5> QED
          BY <2>1, <4>1, <5>1, <5>3 DEF CountsHead, Heads
      <4> QED
        BY <4>2, <4>3
    <3> QED
      BY <3>1, <3>2
  <2> QED
    BY <2>1, <2>2 DEF CountInv
<1>3. CASE Put(a)
  <2> DEFINE f == rd[a].hand.file
  <2>1. /\ index2' = [index2 EXCEPT ![f].read = rd[a].hand.at]
        /\ taken' = taken \cup {rd[a].hand} /\ shown' = shown /\ rd[a].rm = "put"
        /\ rd' = [rd EXCEPT ![a].rm = "show"]
    BY <1>3 DEF Put
  <2>2. rd[a].hand \in Hand /\ f \in Gens
    BY <1>1 DEF RdRec, Hand
  <2>3. rd[a].hand.at <= Len(index2[f].heads)
    BY <2>1 DEF CountInv, CountsHead
  <2>4. ASSUME NEW g \in Gens
        PROVE  index2'[g].heads = index2[g].heads /\ index2'[g].read <= Len(index2'[g].heads)
    BY <1>1, <2>1, <2>2, <2>3 DEF CountInv
  <2>5. ASSUME NEW b \in Sessions PROVE CountsHead(b)'
    <3>1. /\ rd'[b].rm = "put" => rd'[b] = rd[b]
          /\ rd'[b].rm \in {"put", "show"} => rd[b].rm \in {"put", "show"}
          /\ rd'[b].hand = rd[b].hand
      BY <1>1, <2>1 DEF RdRec
    <3>2. rd[b].hand.file \in Gens
      BY <1>1 DEF RdRec, Hand
    <3> QED
      BY <2>4, <3>1, <3>2 DEF CountInv, CountsHead
  <2>6. taken' \in SUBSET Hand
    BY <2>1, <2>2 DEF CountInv
  <2> QED
    BY <2>1, <2>4, <2>5, <2>6 DEF CountInv
<1>4. CASE Show(a)
  <2>1. index2' = index2 /\ taken' = taken /\ rd' = [rd EXCEPT ![a] = [Out EXCEPT !.rm = After(a)]]
    BY <1>4, ShowIs
  <2>2. ASSUME NEW b \in Sessions PROVE CountsHead(b)'
    <3>1. After(a) \notin {"put", "show"}
      BY DEF After
    <3>2. rd'[b].rm \in {"put", "show"} => rd'[b] = rd[b]
      BY <1>1, <2>1, <3>1 DEF Out
    <3> QED
      BY <2>1, <3>2 DEF CountInv, CountsHead
  <2>3. shown' \in SUBSET (Msgs \X (Msgs \cup {Nobody}))
    <3>1. CASE rd[a].hand.at > Len(Heads)
      BY <1>4, <3>1, ShowIs DEF CountInv
    <3>2. CASE ~(rd[a].hand.at > Len(Heads))
      <4> DEFINE h == Heads[rd[a].hand.at]
                 c == content[gen.content]
                 x == TextOf(h)
      <4>1. shown' = shown \cup {<<h.msg, x>>}
        BY <1>4, <3>2, ShowIs
      <4>2. Heads \in Seq(Head0) /\ rd[a].hand.at \in 1 .. Len(Heads)
        <5>1. rd[a].hand.at \in Nat /\ Heads \in Seq(Head0)
          BY <1>1 DEF RdRec, Hand, Heads
        <5>2. rd[a].hand.at > 0
          BY <1>4, ShowIs DEF CountInv, CountsHead
        <5> QED
          BY <3>2, <5>1, <5>2
      <4>3. h \in Head0
        BY <4>2, ElementOfSeq
      <4>4. h.msg \in Msgs /\ h.pos \in Nat /\ c \in Seq(Msgs)
        BY <1>1, <4>3 DEF Head0
      <4> HIDE DEF h
      <4>5. x \in Msgs \cup {Nobody}
        BY <4>4 DEF TextOf
      <4> HIDE DEF x
      <4> QED
        BY <4>1, <4>4, <4>5 DEF CountInv
    <3> QED
      BY <3>1, <3>2
  <2> QED
    BY <2>1, <2>2, <2>3 DEF CountInv
<1> QED
  BY <1>2, <1>3, <1>4 DEF Reader

LEMMA CountKeeps ==
  ASSUME IInv, CountInv, [Next]_vars PROVE CountInv'
<1>0. TypeInv
  BY DEF IInv
<1>1. ASSUME QuietStep PROVE CountInv'
  <2>1. /\ index2' = index2 /\ taken' = taken /\ shown' = shown
        /\ \A a \in Sessions : rd'[a] = rd[a] \/ rd'[a].rm \notin {"put", "show"}
    BY <1>1 DEF QuietStep, files
  <2> QED
    BY <2>1, CountStays
<1>2. CASE UNCHANGED <<index2, rd, taken, shown>>
  BY <1>2, CountStays
<1>3. CASE \E m \in Msgs : Sender(m)
  <2> SUFFICES ASSUME NEW m \in Msgs, Sender(m) PROVE CountInv'
    BY <1>3
  <2>1. CASE Test(m) \/ Signal(m)
    BY <1>0, <1>1, <2>1, TestAndSignalAreQuiet
  <2>2. CASE OpenIndex(m) \/ OpenContent(m) \/ LockIndex(m) \/ WriteText(m)
    BY <1>2, <2>2 DEF OpenIndex, OpenContent, LockIndex, WriteText, files, history
  <2> QED
    BY <2>1, <2>2, WriteHeadCounts DEF Sender
<1>4. CASE Clear
  BY <1>2, <1>4 DEF Clear
<1>5. CASE \E w \in Webs : Poll(w) \/ Reader(w)
  BY <1>0, <1>1, <1>5, PollIsQuiet, ReaderCounts DEF Sessions
<1>6. CASE \E t \in Telnets : SessionStep(t) \/ Reader(t) \/ Leave(t)
  BY <1>0, <1>1, <1>6, SessionStepIsQuiet, LeaveIsQuiet, ReaderCounts DEF Sessions
<1>7. CASE UNCHANGED vars
  BY <1>2, <1>7 DEF vars, files, history
<1> QED
  BY <1>3, <1>4, <1>5, <1>6, <1>7 DEF Next, SessionStep, RMsg

LEMMA InitCounts == Init => CountInv
BY DEF Init, CountInv, CountsHead, Out

\* Every variable keeps its type; the number of heads a file says are read is never more
\* than the heads it has, though a session writes the number it read some time ago.
THEOREM TypeCorrect == Spec => []TypeOK
<1>1. IInv /\ CountInv /\ [Next]_vars => CountInv'
  BY CountKeeps
<1>2. IInv /\ CountInv /\ AwareInv => TypeOK
  <2> SUFFICES ASSUME IInv, CountInv, AwareInv PROVE TypeOK
    OBVIOUS
  <2>1. /\ index2 \in [Gens -> [read : Nat, heads : Seq(Head0)]]
        /\ content \in [Gens -> Seq(Msgs)] /\ holder \in [Gens -> SUBSET Msgs]
        /\ out \in [Msgs -> OutRec] /\ rd \in [Sessions -> RdRec] /\ overlap \in BOOLEAN
        /\ gen \in [index : Gens, index2 : Gens, content : Gens]
    BY DEF IInv, TypeInv, FilesOK, GensOK
  <2>2. \A g \in Gens : index2[g].read \in 0 .. Len(index2[g].heads)
    BY <2>1 DEF CountInv
  <2>3. \A t \in Telnets : sess[t].at \in Positions
    BY DEF AwareInv, SessOK, SessRec
  <2>4. taken \in SUBSET Hand /\ shown \in SUBSET (Msgs \X (Msgs \cup {Nobody}))
        /\ missed \in SUBSET Telnets
    BY DEF CountInv, AwareInv, SessOK
  <2> QED
    BY <2>1, <2>2, <2>3, <2>4 DEF TypeOK, OutRec, RdRec, Hand
<1> QED
  BY <1>1, <1>2, InitCounts, Invariant, Awareness, PTL DEF Spec
=============================================================================
