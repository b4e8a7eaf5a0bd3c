----------------------------- MODULE MCMessages -----------------------------
(***************************************************************************)
(* Small instances of Messages for TLC.                                    *)
(***************************************************************************)
EXTENDS Messages

CONSTANTS m1, m2, t1, w1

OneMsg == {m1}
TwoMsgs == {m1, m2}
OneTelnet == {t1}
NoWeb == {}
OneWeb == {w1}
=============================================================================
