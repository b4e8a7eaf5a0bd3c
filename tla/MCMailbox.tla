----------------------------- MODULE MCMailbox -----------------------------
(***************************************************************************)
(* Small instances of Mailbox for TLC.                                     *)
(***************************************************************************)
EXTENDS Mailbox, TLC

CONSTANTS m1, m2, m3, s1, p1

ThreeMails == {m1, m2, m3}
OneMail == {m1}
OtherMail == {m2}
OneSession == {s1}
OnePop == {p1}
Sent == m1 :> 4 @@ m2 :> 3 @@ m3 :> 1
EditSizes == {7}
=============================================================================
