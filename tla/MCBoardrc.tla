----------------------------- MODULE MCBoardrc -----------------------------
(***************************************************************************)
(* Small instances of Boardrc for TLC.                                     *)
(***************************************************************************)
EXTENDS Boardrc, TLC

CONSTANTS b1, b2, t1, w1

MCBoards == {b1, b2}
MCTimes == 2 .. 4
MCTelnets == {t1}
MCWebs == {w1}
BoardsAlike == Permutations({b1, b2})
=============================================================================
