------------------------------- MODULE Boardrc -------------------------------
(***************************************************************************)
(* What a user has read, libythtbbs/boardrc.c: per board the times of the  *)
(* newest articles read, newest first, at most BRC_MAXNUM; whatever is     *)
(* older than the last of them counts as read.  All boards of a user are   *)
(* blocks of one file of bounded size.  A session works on a copy of one   *)
(* board's list, and at times of the whole file (allbrc); a save loads the *)
(* file, puts the list in front, writes a temporary file whose name all    *)
(* sessions of the user share, and renames it.  Nothing is locked.         *)
(***************************************************************************)
EXTENDS Integers, Sequences, FiniteSets, FiniteSetsExt

CONSTANTS Boards,
          INFO,        \* the name of the block with the settings of the web pages
          None,        \* no board
          Times,       \* times of articles
          Telnets, Webs,
          BRC_MAXNUM,
          MaxSize,     \* maxsize, in units: a block is one and one per time
          MaxReads,    \* bound: articles read and lists cleared
          MaxVisits    \* bound: boards opened, lists of boards shown

ASSUME BoardrcAssumption ==
  /\ Times \subseteq Nat \ {0, 1}
  /\ BRC_MAXNUM \in Nat \ {0} /\ MaxSize \in Nat /\ MaxSize >= BRC_MAXNUM + 2
  /\ MaxReads \in Nat /\ MaxVisits \in Nat
  /\ INFO \notin Boards /\ None \notin Boards /\ Telnets \cap Webs = {}

VARIABLES
  file,    \* the blocks of the user's file
  tmp,     \* the temporary file: whether it is there, and its blocks
  sess,    \* per session: its copies, and where it is in a save
  reads, visits,
  stale,   \* history: per session, the blocks saved by others since it loaded allbrc
  old,     \* history: the sessions whose list was saved by another since they loaded it
  mixed    \* history: two sessions have used the temporary file at once, or after a death

vars == <<file, tmp, sess, reads, visits, stale, old, mixed>>

Sessions == Telnets \cup Webs
Block(b, l) == [board |-> b, list |-> l]
NoTmp == [there |-> FALSE, blocks |-> <<>>]
New == [pc |-> "idle", board |-> None, list |-> <<>>, cur |-> 0, changed |-> FALSE,
        have |-> FALSE, all |-> <<>>, goal |-> None, keep |-> FALSE, fd |-> "none",
        put |-> None]

Init ==
  /\ file = <<>>
  /\ tmp = NoTmp
  /\ sess = [s \in Sessions |-> New]
  /\ reads = 0 /\ visits = 0
  /\ stale = [s \in Sessions |-> {}] /\ old = {} /\ mixed = FALSE

-----------------------------------------------------------------------------
(* One list *)

\* brc_locate: from cur, the position of t, or where t would be.
Locate(l, cur, t) ==
  LET n == Len(l)
      c == IF cur >= n THEN n - 1 ELSE cur
  IN  IF t <= l[c + 1]
      THEN Min({i \in c .. n : i = n \/ l[i + 1] <= t})
      ELSE Max({i \in 0 .. c : i = 0 \/ l[i] > t \/ l[i + 1] = t})

\* brc_unreadt, with cur at Locate.
UnreadAt(l, i, t) == i < Len(l) /\ l[i + 1] # t
ReadTimes(l) == {t \in Times : ~UnreadAt(l, Locate(l, 0, t), t)}

\* Mistakes on purpose end in Slip: here the newest time is dropped, not the oldest.
InsertSlip(l, i, t) ==
  LET m == SubSeq(l, 1, i) \o <<t>> \o SubSeq(l, i + 1, Len(l))
  IN  IF Len(m) <= BRC_MAXNUM THEN m ELSE Tail(m)

\* brc_insert: the oldest time makes room.
Insert(l, i, t) ==
  LET n == IF Len(l) < BRC_MAXNUM THEN Len(l) + 1 ELSE Len(l)
  IN  SubSeq(SubSeq(l, 1, i) \o <<t>> \o SubSeq(l, i + 1, Len(l)), 1, n)

\* Also at the end of a list.
SetToSlip(l, i, t) == SubSeq(l, 1, i) \o <<t>>

\* brc_set: t, and all that is older, is read.
SetTo(l, i, t) == IF i >= Len(l) THEN l ELSE SubSeq(l, 1, i) \o <<t>>

\* Off by one: times two apart are taken for successive ones.
ShorterSlip(l) ==
  SubSeq(l, 1, Min({k \in 1 .. Len(l) : \A i \in k + 1 .. Len(l) : l[i - 1] - l[i] <= 2}))

\* shorter_brc: successive times at the end say no more than the first of them.
Shorter(l) ==
  SubSeq(l, 1, Min({k \in 1 .. Len(l) : \A i \in k + 1 .. Len(l) : l[i - 1] - l[i] = 1}))

-----------------------------------------------------------------------------
(* All lists *)

Size(blk) == 1 + Len(blk.list)
SizeOf(blks) ==
  LET upto[n \in 0 .. Len(blks)] == IF n = 0 THEN 0 ELSE upto[n - 1] + Size(blks[n])
  IN  upto[Len(blks)]
Names(blks) == {blks[i].board : i \in DOMAIN blks}
Get(blks, b) == IF b \in Names(blks) THEN blks[Min({i \in DOMAIN blks : blks[i].board = b})].list
                ELSE <<1>>

\* The loop of brc_putblock ends at the first block there is no room for.
CopyBlock(done, blk, b) ==
  IF done.full \/ SizeOf(done.out) + Size(blk) > MaxSize THEN [done EXCEPT !.full = TRUE]
  ELSE IF blk.board = b THEN done
  ELSE [done EXCEPT !.out = Append(@, blk)]
Copy(out, blks, b) ==
  LET done[n \in 0 .. Len(blks)] ==
        IF n = 0 THEN [out |-> out, full |-> FALSE] ELSE CopyBlock(done[n - 1], blks[n], b)
  IN  done[Len(blks)].out

\* No care is taken of #INFO.
PutBlockSlip(blks, new) == Copy(<<new>>, blks, new.board)

\* brc_putblock: #INFO, the new block, the others.
PutBlock(blks, new) ==
  IF blks # <<>> /\ blks[1].board = INFO /\ new.board # INFO
  THEN Copy(<<blks[1], new>>, Tail(blks), new.board)
  ELSE Copy(<<new>>, blks, new.board)

\* blks written over the blocks there are, which may reach further: a rest that
\* starts inside a block is taken to be unreadable.
Over(blks, there) ==
  LET rest == {i \in 0 .. Len(there) : SizeOf(SubSeq(there, 1, i)) = SizeOf(blks)}
  IN  IF rest = {} THEN blks ELSE blks \o SubSeq(there, Min(rest) + 1, Len(there))

-----------------------------------------------------------------------------
(* Saving: brc_init, brc_putboard, brc_fini *)

Idle(s) == sess[s].pc = "idle"

\* An allbrc that is there is not loaded again.
LoadedSlip(r) ==
  LET all == IF r.have THEN r.all ELSE file
  IN  IF r.changed
      THEN [r EXCEPT !.all = PutBlock(all, Block(r.board, Shorter(r.list))),
                     !.list = Shorter(r.list), !.changed = FALSE, !.have = TRUE, !.pc = "save",
                     !.put = r.board]
      ELSE [r EXCEPT !.all = all, !.have = TRUE]

\* The file is loaded, and the list put into it if it was changed.
Loaded(r) ==
  IF r.changed
  THEN [r EXCEPT !.all = PutBlock(file, Block(r.board, Shorter(r.list))),
                 !.list = Shorter(r.list), !.changed = FALSE, !.have = TRUE, !.pc = "save",
                 !.put = r.board]
  ELSE [r EXCEPT !.all = file, !.have = TRUE]

\* brc_getboard, and allbrc is freed unless it is to be kept.  With a block, cur stays.
Got(r) ==
  LET g == [r EXCEPT !.have = r.keep, !.keep = FALSE, !.all = IF r.keep THEN @ ELSE <<>>]
  IN  IF r.goal = None THEN g
      ELSE [g EXCEPT !.board = r.goal, !.list = Get(r.all, r.goal), !.goal = None,
                     !.cur = IF r.goal \in Names(r.all) THEN @ ELSE 0]

\* s goes on as r, which has loaded the file: with a save, or at once.
Go(s, r) ==
  /\ sess' = [sess EXCEPT ![s] = IF r.pc = "save" THEN r ELSE Got(r)]
  /\ stale' = [stale EXCEPT ![s] = {}]
  /\ old' = IF r.pc # "save" /\ r.goal # None THEN old \ {s} ELSE old

\* brc_fini opens the temporary file, without O_TRUNC ...
SaveOpen(s) ==
  /\ sess[s].pc = "save"
  /\ tmp' = [tmp EXCEPT !.there = TRUE]
  /\ mixed' = (mixed \/ tmp.there)
  /\ sess' = [sess EXCEPT ![s].pc = "write", ![s].fd = "tmp"]
  /\ UNCHANGED <<file, reads, visits, stale, old>>

\* Other copies of what s has saved are out of date.
Saved(s, blks) ==
  LET diff == {b \in Boards \cup {INFO} : Get(blks, b) # Get(file, b)}
  IN  /\ stale' = [r \in Sessions |-> IF r = s THEN stale[s] ELSE stale[r] \cup diff]
      /\ old' = (IF sess[s].goal # None /\ sess[s].goal \notin stale[s] THEN old \ {s} ELSE old)
                \cup {r \in Sessions \ {s} : sess[r].board \in diff}

\* ... writes, also when another session has made this file the user's file ...
SaveWrite(s) ==
  /\ sess[s].pc = "write"
  /\ sess' = [sess EXCEPT ![s].pc = "rename"]
  /\ IF sess[s].fd = "tmp"
     THEN tmp' = [tmp EXCEPT !.blocks = Over(sess[s].all, @)] /\ UNCHANGED <<file, stale, old>>
     ELSE /\ file' = IF sess[s].fd = "file" THEN Over(sess[s].all, file) ELSE file
          /\ Saved(s, file') /\ UNCHANGED tmp
  /\ UNCHANGED <<reads, visits, mixed>>

\* ... and renames, which fails when the temporary file is gone.
SaveRename(s) ==
  /\ sess[s].pc = "rename"
  /\ file' = IF tmp.there THEN tmp.blocks ELSE file
  /\ tmp' = NoTmp
  /\ Saved(s, file')
  /\ sess' = [r \in Sessions |->
       IF r = s THEN Got([sess[s] EXCEPT !.pc = "idle", !.fd = "none", !.put = None])
       ELSE IF ~tmp.there THEN sess[r]
       ELSE [sess[r] EXCEPT !.fd = CASE @ = "tmp" -> "file" [] @ = "file" -> "gone" [] OTHER -> @]]
  /\ UNCHANGED <<reads, visits, mixed>>

-----------------------------------------------------------------------------
(* Sessions *)

Visit == visits < MaxVisits /\ visits' = visits + 1

\* brc_initial, of telnet (keep: while a list of boards is shown) and of the web.
Open(s, b, keep) ==
  LET r == [sess[s] EXCEPT !.goal = b, !.keep = keep]
  IN  /\ Idle(s) /\ Visit
      /\ IF sess[s].board = b
         THEN sess' = [sess EXCEPT ![s] = IF keep THEN @ ELSE [@ EXCEPT !.have = FALSE, !.all = <<>>]]
              /\ UNCHANGED <<stale, old>>
         ELSE IF r.have /\ ~r.changed
         THEN /\ sess' = [sess EXCEPT ![s] = Got(r)]
              /\ old' = IF b \in stale[s] THEN old \cup {s} ELSE old \ {s}
              /\ UNCHANGED stale
         ELSE Go(s, Loaded(r))
      /\ UNCHANGED <<file, tmp, reads, mixed>>

\* The list of boards: check_newpostt loads allbrc if it is not there.
ListBoards(s) ==
  /\ Idle(s) /\ Visit /\ ~sess[s].have
  /\ Go(s, Loaded([sess[s] EXCEPT !.keep = TRUE]))
  /\ UNCHANGED <<file, tmp, reads, mixed>>

ListEnds(s) ==
  /\ Idle(s) /\ sess[s].have
  /\ sess' = [sess EXCEPT ![s].have = FALSE, ![s].all = <<>>]
  /\ UNCHANGED <<file, tmp, reads, visits, stale, old, mixed>>

\* SETREAD.
ReadArticle(s, t) ==
  LET l == sess[s].list
      i == Locate(l, sess[s].cur, t)
  IN  /\ Idle(s) /\ sess[s].board # None /\ reads < MaxReads
      /\ reads' = reads + 1
      /\ sess' = [sess EXCEPT ![s].cur = i,
                    ![s].list = IF UnreadAt(l, i, t) THEN Insert(l, i, t) ELSE l,
                    ![s].changed = @ \/ UnreadAt(l, i, t)]
      /\ UNCHANGED <<file, tmp, visits, stale, old, mixed>>

\* brc_clearto.
ClearTo(s, t) ==
  LET l == sess[s].list
      i == Locate(l, sess[s].cur, t)
  IN  /\ Idle(s) /\ sess[s].board # None /\ reads < MaxReads
      /\ reads' = reads + 1
      /\ sess' = [sess EXCEPT ![s].cur = i, ![s].list = SetTo(l, i, t),
                              ![s].changed = @ \/ i < Len(l)]
      /\ UNCHANGED <<file, tmp, visits, stale, old, mixed>>

\* brc_update, when a telnet session leaves a board; brc_uentfinial at a web logout.
Update(s) ==
  /\ Idle(s) /\ sess[s].changed
  /\ Go(s, Loaded([sess[s] EXCEPT !.keep = sess[s].have]))
  /\ UNCHANGED <<file, tmp, reads, visits, mixed>>

\* brc_readinfo loads the file ...
ReadInfo(w) ==
  /\ Idle(w) /\ Visit
  /\ sess' = [sess EXCEPT ![w].all = file, ![w].pc = "info", ![w].keep = FALSE]
  /\ stale' = [stale EXCEPT ![w] = {}]
  /\ UNCHANGED <<file, tmp, reads, old, mixed>>

\* ... and brc_saveinfo puts the settings into it.
SaveInfo(w) ==
  /\ sess[w].pc = "info"
  /\ sess' = [sess EXCEPT ![w].all = PutBlock(@, Block(INFO, <<>>)), ![w].pc = "save",
                          ![w].put = INFO]
  /\ UNCHANGED <<file, tmp, reads, visits, stale, old, mixed>>

\* A session ends, with what it has not saved; a temporary file stays.
End(s) ==
  /\ sess[s] # New
  /\ sess' = [sess EXCEPT ![s] = New]
  /\ old' = old \ {s}
  /\ UNCHANGED <<file, tmp, reads, visits, stale, mixed>>

Save(s) == SaveOpen(s) \/ SaveWrite(s) \/ SaveRename(s)

Next ==
  \/ \E s \in Sessions :
       \/ Save(s) \/ Update(s) \/ End(s)
       \/ \E b \in Boards : Open(s, b, FALSE)
       \/ \E t \in Times : ReadArticle(s, t) \/ ClearTo(s, t)
  \/ \E s \in Telnets :
       \/ ListBoards(s) \/ ListEnds(s)
       \/ \E b \in Boards : Open(s, b, TRUE)
  \/ \E w \in Webs : ReadInfo(w) \/ SaveInfo(w)

Spec == Init /\ [][Next]_vars

-----------------------------------------------------------------------------
(* Properties *)

Lists == UNION {[1 .. n -> Times \cup {1}] : n \in 0 .. BRC_MAXNUM}
Sorted(l) == \A i \in 2 .. Len(l) : l[i - 1] > l[i]
BlocksOK(blks) ==
  /\ \A i \in DOMAIN blks : /\ blks[i].board \in Boards \cup {INFO}
                           /\ blks[i].list \in Lists /\ Sorted(blks[i].list)
  /\ SizeOf(blks) <= MaxSize

\* The values of the variables; lists are sorted and bounded, and files as well.
TypeOK ==
  /\ BlocksOK(file)
  /\ tmp.there \in BOOLEAN /\ BlocksOK(tmp.blocks)
  /\ \A s \in Sessions :
       /\ sess[s].put \in Boards \cup {INFO, None}
       /\ sess[s].pc \in {"idle", "save", "write", "rename", "info"}
       /\ sess[s].board \in Boards \cup {None} /\ sess[s].goal \in Boards \cup {None}
       /\ sess[s].list \in Lists /\ Sorted(sess[s].list)
       /\ sess[s].cur \in 0 .. BRC_MAXNUM
       /\ {sess[s].changed, sess[s].have, sess[s].keep} \subseteq BOOLEAN
       /\ BlocksOK(sess[s].all)
       /\ sess[s].fd \in {"none", "tmp", "file", "gone"}
       /\ stale[s] \subseteq Boards \cup {INFO}
  /\ reads \in 0 .. MaxReads /\ visits \in 0 .. MaxVisits
  /\ old \subseteq Sessions /\ mixed \in BOOLEAN

\* SETREAD makes one article read and leaves the others, from wherever the cursor of
\* brc_locate is: except that with a full list what is older than its end gets read.
\* brc_clearto makes read what is no newer than t, and nothing else.
ReadExact ==
  [][\A s \in Sessions, t \in Times :
       LET read == ReadTimes(sess[s].list)
           now == ReadTimes(sess'[s].list)
           l == sess'[s].list
       IN  /\ ReadArticle(s, t) =>
                /\ read \cup {t} \subseteq now
                /\ \A x \in now \ (read \cup {t}) :
                     Len(sess[s].list) = BRC_MAXNUM /\ x < l[Len(l)]
           /\ ClearTo(s, t) => now = read \cup {x \in Times : x <= t}]_vars

\* What a save writes of its board says of every article what the list said, though
\* shorter_brc and brc_insert have cut the list.
SavedAsRead ==
  [][\A s \in Sessions :
       (sess[s].pc = "idle" /\ sess'[s].pc = "save") =>
         ReadTimes(Get(sess'[s].all, sess[s].board)) = ReadTimes(sess[s].list)]_vars

\* A save takes no read mark of any board out of the user's file, but where the session
\* worked on what another one has saved since, two of them shared the temporary file,
\* or the file was too long.
ReadMarksKept ==
  [][\A s \in Sessions, b \in Boards :
       SaveRename(s) /\ ~mixed /\ b \notin stale[s] /\ ~(s \in old /\ b = sess[s].put) =>
         \/ ReadTimes(Get(file, b)) \subseteq ReadTimes(Get(file', b))
         \/ /\ b \notin Names(file') /\ b # sess[s].put
            /\ \/ stale[s] # {}
               \/ SizeOf(file) + 1 + Len(Get(file', sess[s].put)) > MaxSize]_vars

\* The settings are never pushed out of the file by what the user reads (boardrc.c:328);
\* only a session that loaded the file before they were first saved loses them.
InfoKept ==
  [][(INFO \in Names(file) /\ INFO \notin Names(file')) =>
       mixed \/ \E s \in Sessions : SaveRename(s) /\ INFO \in stale[s]]_vars

=============================================================================
