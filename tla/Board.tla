------------------------------- MODULE Board -------------------------------
(***************************************************************************)
(* The directory of a board, libythtbbs/article.c and its callers.  Every  *)
(* change of the file is made under flock of the file; what is shown to a  *)
(* user, and what a web request looks up, is read without it.  A telnet    *)
(* session (Staff) and a web request therefore hold an entry number and a  *)
(* header that others may have moved or changed; an author's requests, one *)
(* after the other, go by the name of their article (Webs).  Names of      *)
(* articles are times, taken by creating the article's file before the     *)
(* directory is locked.                                                    *)
(***************************************************************************)
EXTENDS DirFile, FiniteSets

CONSTANTS Arts,      \* articles, each posted once at most
          Typed,     \* those written in a telnet session; the others come from the web
          Junk,      \* those with hardly more text than a quotation
          Staff,     \* telnet sessions that may mark and delete
          Webs,      \* articles their authors edit or delete from the web
          Flags,     \* bits of `accessed'
          Switched,  \* the bits a telnet session switches
          MaxNow     \* bound of the clock

ASSUME BoardAssumption ==
  /\ MaxNow \in Nat \ {0}
  /\ Webs \subseteq Arts /\ Staff \cap Arts = {}
  /\ Typed \subseteq Arts /\ Junk \subseteq Arts
  /\ Switched \subseteq Flags
  /\ {"marked", "del"} \subseteq Flags

VARIABLES dir,     \* the file
          busy,    \* deletions under way: {} or {[at]}, the holder of the lock
          post,    \* per article: how far its author is, and the name of its file
          held,    \* per session: {} or {[ent, hdr]}, read without the lock
          asked,   \* history: articles somebody has asked to delete
          marks,   \* history: per article, the flags written for it last
          died     \* history: a session was killed while it moved records

\* (Definitions whose name ends in Slip are mistakes on purpose, of DirFile and
\* here, for a run to notice; nothing uses them.)
vars == <<dir, busy, post, held, asked, marks, died>>

Sessions == Staff \cup Webs
Header == [id : Arts, time : Nat, flags : SUBSET Flags]
Free == busy = {}
Ids(d) == {d[i].id : i \in DOMAIN d}

Init ==
  /\ dir = <<>>
  /\ busy = {}
  /\ post = [a \in Arts |-> [pc |-> "none", name |-> 0]]
  /\ held = [s \in Sessions |-> {}]
  /\ asked = {}
  /\ marks = [a \in Arts |-> {}]
  /\ died = FALSE

-----------------------------------------------------------------------------
(* Posting *)

Names == {post[a].name : a \in {b \in Arts : post[b].pc # "none"}}

\* trycreatefile: the first second from now on without a file.  The clock runs between
\* any two steps, and may be set back.
FreeName(t) ==
  /\ t \notin Names
  /\ \E now \in 1 .. MaxNow : now <= t /\ \A x \in now .. t - 1 : x \in Names

\* post_article (telnet): the file the text is edited in.
StartPost(a) ==
  /\ a \in Typed /\ post[a].pc = "none"
  /\ \E t \in 1 .. MaxNow + Cardinality(Arts) :
        FreeName(t) /\ post' = [post EXCEPT ![a] = [pc |-> "editing", name |-> t]]
  /\ UNCHANGED <<dir, busy, held, asked, marks, died>>

\* The author gives up, or the article is not published.
AbortPost(a) ==
  /\ post[a].pc = "editing"
  /\ post' = [post EXCEPT ![a] = [pc |-> "none", name |-> 0]]
  /\ UNCHANGED <<dir, busy, held, asked, marks, died>>

\* The file gets a new name when the text is complete (link, then unlink).
LinkPost(a) ==
  /\ post[a].pc = "editing"
  /\ \E t \in 1 .. MaxNow + Cardinality(Arts) :
        FreeName(t) /\ post' = [post EXCEPT ![a] = [pc |-> "named", name |-> t]]
  /\ UNCHANGED <<dir, busy, held, asked, marks, died>>

\* post_article (web): the name is taken before the text is written.
StartWebPost(a) ==
  /\ a \notin Typed /\ post[a].pc = "none"
  /\ \E t \in 1 .. MaxNow + Cardinality(Arts) :
        FreeName(t) /\ post' = [post EXCEPT ![a] = [pc |-> "named", name |-> t]]
  /\ UNCHANGED <<dir, busy, held, asked, marks, died>>

\* append_record; what is hardly more than a quotation is marked for deletion at once.
AppendPost(a) ==
  LET f == IF a \in Junk THEN {"del"} ELSE {} IN
  /\ post[a].pc = "named" /\ Free
  /\ dir' = Append(dir, [id |-> a, time |-> post[a].name, flags |-> f])
  /\ post' = [post EXCEPT ![a].pc = "posted"]
  /\ marks' = [marks EXCEPT ![a] = f]
  /\ UNCHANGED <<busy, held, asked, died>>

-----------------------------------------------------------------------------
(* Reading, without the lock *)

\* A page of the directory is shown to a telnet session.
ReadPage(s) ==
  /\ \E i \in DOMAIN dir : held' = [held EXCEPT ![s] = {[ent |-> i, hdr |-> dir[i]]}]
  /\ UNCHANGED <<dir, busy, post, asked, marks, died>>

\* A web request looks its article up by name, and goes on if the user wrote it.
WebLookup(a) ==
  /\ post[a].pc = "posted"
  /\ \E i \in SearchBin(dir, post[a].name, Len(dir)) :
       /\ dir[i].id = a
       /\ held' = [held EXCEPT ![a] = {[ent |-> i, hdr |-> dir[i]]}]
  /\ UNCHANGED <<dir, busy, post, asked, marks, died>>

-----------------------------------------------------------------------------
(* change_dir *)

Switch(F, f) == IF f \in F THEN F \ {f} ELSE F \cup {f}

\* One of the DIR_do_ functions that switch a flag; the caller's copy is refreshed.
Mark(s, f) ==
  /\ Free
  /\ \E h \in held[s] : \E i \in ChangePos(dir, h.hdr.time, h.ent) :
       LET x == [dir[i] EXCEPT !.flags = Switch(@, f)] IN
       /\ dir' = [dir EXCEPT ![i] = x]
       /\ held' = [held EXCEPT ![s] = {[ent |-> h.ent, hdr |-> x]}]
       /\ marks' = [marks EXCEPT ![h.hdr.id] = Switch(@, f)]
  /\ UNCHANGED <<busy, post, asked, died>>

\* bbsedit: DIR_do_substitution writes the header back that WebLookup read.
WebEdit(s) ==
  /\ Free
  /\ \E h \in held[s] : \E i \in ChangePos(dir, h.hdr.time, h.ent) :
       /\ dir' = [dir EXCEPT ![i] = h.hdr]
       /\ held' = [held EXCEPT ![s] = {}]
       /\ marks' = [marks EXCEPT ![h.hdr.id] = h.hdr.flags]
  /\ UNCHANGED <<busy, post, asked, died>>

-----------------------------------------------------------------------------
(* Deletions *)

\* del_post: delete_dir with the entry number and the name.  del_post_backup:
\* delete_file, which looks for the name from the entry number downwards.
DelEntries(h) ==
  DeletePos(dir, h.hdr.time, h.ent)
    \cup (IF h.ent \in DOMAIN dir THEN LastBefore(dir, h.hdr.time, h.ent) ELSE {})

\* The lock is taken and the entry found; the records behind it are moved next.
DelStart(s) ==
  /\ Free
  /\ \E h \in held[s] :
       /\ \E i \in DelEntries(h) : busy' = {[at |-> i]}
       /\ asked' = asked \cup {h.hdr.id}
  /\ held' = [held EXCEPT ![s] = {}]
  /\ UNCHANGED <<dir, post, marks, died>>

\* bbsdel: delete_file without a check, at the number WebLookup found.
WebDelStart(s) ==
  /\ Free
  /\ \E h \in held[s] :
       /\ h.ent \in DOMAIN dir
       /\ busy' = {[at |-> h.ent]}
       /\ asked' = asked \cup {h.hdr.id}
  /\ held' = [held EXCEPT ![s] = {}]
  /\ UNCHANGED <<dir, post, marks, died>>

\* The lock is not held to the end.
DelShiftSlip ==
  /\ \E b \in busy :
       /\ b.at < Len(dir)
       /\ dir' = Shift(dir, b.at)
       /\ busy' = {[at |-> Len(dir) + 1]}
  /\ UNCHANGED <<post, held, asked, marks, died>>

DelShift ==
  /\ \E b \in busy :
       /\ b.at < Len(dir)
       /\ dir' = Shift(dir, b.at)
       /\ busy' = {[b EXCEPT !.at = @ + 1]}
  /\ UNCHANGED <<post, held, asked, marks, died>>

\* ftruncate is missing.
DelTruncateSlip ==
  /\ \E b \in busy : b.at = Len(dir)
  /\ busy' = {}
  /\ UNCHANGED <<dir, post, held, asked, marks, died>>

DelTruncate ==
  /\ \E b \in busy : b.at = Len(dir)
  /\ dir' = CutLast(dir)
  /\ busy' = {}
  /\ UNCHANGED <<post, held, asked, marks, died>>

\* delete_range: of the entries id1 .. id2 all but the marked ones, or (DelMarked) every
\* entry of the file that is marked for deletion.
Protected(h) == "marked" \in h.flags
Stays(h) == Protected(h) \/ "del" \notin h.flags

RangeStays(id1, id2) ==
  {k \in DOMAIN dir : k \in id1 .. id2 => Protected(dir[k])}

\* The file is rewritten with the entries K; the user has asked to delete the others.
Rewrite(K) ==
  /\ Free
  /\ dir' = Kept(dir, K)
  /\ asked' = asked \cup {dir[i].id : i \in DOMAIN dir \ K}
  /\ UNCHANGED <<busy, post, held, marks, died>>

DelRange(id1, id2) == id2 - id1 > 1 /\ Rewrite(RangeStays(id1, id2))

DelMarked == Rewrite({k \in DOMAIN dir : Stays(dir[k])})

\* A session is killed while it moves records: the lock is gone, the file as it is.
Die ==
  /\ busy # {}
  /\ died' = TRUE
  /\ busy' = {}
  /\ UNCHANGED <<dir, post, held, asked, marks>>

-----------------------------------------------------------------------------
Posting ==
  \/ \E a \in Arts :
       \/ StartPost(a)
       \/ AbortPost(a)
       \/ LinkPost(a)
       \/ StartWebPost(a)
       \/ AppendPost(a)

StaffStep(s) ==
  \/ ReadPage(s)
  \/ \E f \in Switched : Mark(s, f)
  \/ DelStart(s)

Deleting ==
  \/ DelShift
  \/ DelTruncate
  \/ Die
  \/ \E i, j \in 1 .. Len(dir) + 1 : DelRange(i, j)
  \/ DelMarked

\* Every deletion looks for the name of its article.
NextByName ==
  \/ Posting
  \/ Deleting
  \/ \E s \in Staff : StaffStep(s)
  \/ \E s \in Webs : WebLookup(s) \/ WebEdit(s)

Next == NextByName \/ \E s \in Webs : WebDelStart(s)

Spec == Init /\ [][Next]_vars
ByNameSpec == Init /\ [][NextByName]_vars

-----------------------------------------------------------------------------
(* Properties *)

Held == [ent : Nat \ {0}, hdr : Header]

TypeOK ==
  /\ dir \in Seq(Header)
  /\ busy \in SUBSET [at : DOMAIN dir] /\ Cardinality(busy) <= 1
  /\ post \in [Arts -> [pc : {"none", "editing", "named", "posted"}, name : Nat]]
  /\ held \in [Sessions -> SUBSET Held] /\ \A s \in Sessions : Cardinality(held[s]) <= 1
  /\ asked \in SUBSET Arts
  /\ marks \in [Arts -> SUBSET Flags]
  /\ died \in BOOLEAN

\* An article is listed twice only while records are moved, or after a session was
\* killed doing that; the copies are then neighbours (delete_dir_callback, article.c:455).
DoublesAreNeighbours ==
  \A i, j \in DOMAIN dir :
     i < j /\ dir[i].id = dir[j].id =>
        /\ busy # {} \/ died
        /\ \A k \in i .. j : dir[k].id = dir[i].id

\* A session that still holds an article which is listed reaches it by name, however
\* entries have moved: for deletion always (the linear search at article.c:446), for a
\* change if the file is in the order Search_Bin relies on.
HeldIsReached ==
  Free => \A s \in Sessions : \A h \in held[s] :
    h.hdr.id \in Ids(dir) =>
      /\ DeletePos(dir, h.hdr.time, h.ent) # {}
      /\ Sorted(dir) => ChangePos(dir, h.hdr.time, h.ent) # {}

\* The flags of a listed article are those last written for it, by a switch or by an
\* edit that writes a whole header back, whatever number the writer had in mind; unless
\* a death has doubled an entry, of which a writer reaches one copy.
MarksKept ==
  ~died => \A i \in DOMAIN dir : dir[i].flags = marks[dir[i].id]

\* Nothing leaves the directory unasked, and nothing comes back (Articles).
List == INSTANCE Articles WITH listed <- Ids(dir)
ImplementsArticles == List!Spec

\* A web request deletes no article but the one its owner named.
OnlyNamedIsDeleted ==
  [][\A a \in Ids(dir) \ Ids(dir') : a \in asked']_vars
=============================================================================
