---------------------------- MODULE MCUserTable ----------------------------
(***************************************************************************)
(* Small instances of UserTable for TLC.                                   *)
(***************************************************************************)
EXTENDS UserTable, TLC

CONSTANTS sysop, n1, n2, noname, p1, p2, p3

TwoNames == {sysop, n1}
ThreeNames == {sysop, n1, n2}
OneChain == [n \in Names |-> 1]
TwoProcs == {p1, p2}
ThreeProcs == {p1, p2, p3}

Symmetry == Permutations(Procs)
=============================================================================
