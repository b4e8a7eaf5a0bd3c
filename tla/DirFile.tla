------------------------------ MODULE DirFile ------------------------------
(***************************************************************************)
(* A `.DIR' file: a sequence of headers, each with the filetime that names *)
(* its article.  Entry numbers count from 1, as the callers of             *)
(* libythtbbs/article.c count; the indices of Search_Bin count from 0.     *)
(* What is looked up is a set of at most one entry number: empty when the  *)
(* code returns a negative number.                                         *)
(***************************************************************************)
EXTENDS Integers, Sequences

\* A probe of Search_Bin into the part r = <<low, high>> of the file: it stops where
\* it has found the key, or when low > high.
Probe(dir, key, r) ==
  LET mid == (r[1] + r[2]) \div 2
  IN  CASE r[1] > r[2] \/ dir[mid + 1].time = key        -> r
        [] r[1] <= r[2] /\ key < dir[mid + 1].time       -> <<r[1], mid - 1>>
        [] r[1] <= r[2] /\ key > dir[mid + 1].time       -> <<mid + 1, r[2]>>

\* What it has left to look at after each of its probes.
SearchRanges(dir, key, start, end) ==
  LET left[k \in 0 .. end + 1] ==
        IF k = 0 THEN <<start, end>> ELSE Probe(dir, key, left[k - 1])
  IN  {left[k] : k \in 0 .. end + 1}

\* Entries 1 .. n are searched for one with the filetime key.
SearchBin(dir, key, n) ==
  {m \in 1 .. n :
     /\ dir[m].time = key
     /\ \E r \in SearchRanges(dir, key, 0, n - 1) :
          r[1] <= r[2] /\ m = (r[1] + r[2]) \div 2 + 1}

Shorter(m, n) == IF m < n THEN m ELSE n

\* The filetime is not compared.
ChangePosSlip(dir, key, ent) == {ent} \cap DOMAIN dir

\* The entry change_dir and the readers of a page work on, when the caller took the
\* article for entry ent (_get_fileheader_records with one record, dir_sorted).
ChangePos(dir, key, ent) ==
  IF ent \in DOMAIN dir /\ dir[ent].time = key THEN {ent}
  ELSE SearchBin(dir, key, IF ent \in DOMAIN dir THEN ent ELSE Len(dir))

\* The last entry up to ent that has the filetime.
LastBefore(dir, key, ent) ==
  {m \in DOMAIN dir : /\ m <= ent
                      /\ dir[m].time = key
                      /\ \A k \in DOMAIN dir : k <= ent /\ dir[k].time = key => k <= m}

\* Without the linear search, and with the number alone.
DeletePosSlip(dir, key, ent) == SearchBin(dir, key, Shorter(ent, Len(dir)))
DeletePosNumberSlip(dir, key, ent) == {Shorter(ent, Len(dir))} \ {0}

\* The entry delete_dir_callback takes out.  In an empty file it reads in front of
\* the mapping and the process is killed, which changes nothing here.
DeletePos(dir, key, ent) ==
  LET pos   == Shorter(ent, Len(dir))
      found == SearchBin(dir, key, pos)
  IN  CASE pos = 0             -> {}
        [] pos # 0 /\ dir[pos].time = key -> {pos}
        [] OTHER               -> IF found # {} THEN found ELSE LastBefore(dir, key, ent)

\* One record of the memmove of a deletion, and its end.
Shift(dir, at) == [dir EXCEPT ![at] = dir[at + 1]]
CutLast(dir) == SubSeq(dir, 1, Len(dir) - 1)

\* The entries K in their order: the loop of delete_range over the records it keeps.
Kept(dir, K) ==
  LET left[n \in 0 .. Len(dir)] ==
        IF n = 0 THEN <<>>
        ELSE IF n \in K THEN Append(left[n - 1], dir[n]) ELSE left[n - 1]
  IN  left[Len(dir)]

Sorted(dir) == \A i, j \in DOMAIN dir : i < j => dir[i].time <= dir[j].time
=============================================================================
