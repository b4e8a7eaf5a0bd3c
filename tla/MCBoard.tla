------------------------------ MODULE MCBoard ------------------------------
(***************************************************************************)
(* Small instances of Board for TLC.                                       *)
(***************************************************************************)
EXTENDS Board, TLC

CONSTANTS a1, a2, a3, s1, s2

TwoArts == {a1, a2}
ThreeArts == {a1, a2, a3}
OneJunk == {a3}
OneStaff == {s1}
TwoStaff == {s1, s2}
TwoFlags == {"marked", "del"}
OneFlag == {"marked"}

Symmetry == Permutations(Arts \ Typed) \cup Permutations(Staff)
=============================================================================
