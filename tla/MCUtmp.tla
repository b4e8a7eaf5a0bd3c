------------------------------- MODULE MCUtmp -------------------------------
(***************************************************************************)
(* Small instances of Utmp for TLC.  MaskOther hashes the masked host to   *)
(* another chain than the real one; MAXACTIVERUN may lie below MAXACTIVE.  *)
(***************************************************************************)
EXTENDS Utmp, TLC

CONSTANTS u1, guest, nobody, r1, r2, h1

OneUser == {u1}
NoProcs == {}
OneProc == {2}
TwoProcs == {2, 3}
OneReq == {r1}
TwoReqs == {r1, r2}
NoReqs == {}
OneHost == {h1}
Real1 == [h \in Hosts |-> 1]
Mask == [h \in Hosts |-> 1]
MaskOther == [h \in Hosts |-> 2]

Symmetry == Permutations(Reqs)
=============================================================================
