------------------------------ MODULE Articles ------------------------------
(***************************************************************************)
(* What the users of a board (or of a mailbox) take for granted of its     *)
(* directory: an article is listed once it has been posted, until somebody *)
(* has asked for its deletion.                                             *)
(***************************************************************************)
CONSTANT Arts

VARIABLES listed,   \* the articles in the directory
          asked     \* the articles somebody has asked to delete

Init == listed = {} /\ asked = {}

Post(a) ==
  /\ a \notin listed \cup asked
  /\ listed' = listed \cup {a}
  /\ UNCHANGED asked

\* Articles are asked for, and of those asked for some leave.
Delete ==
  /\ asked' \in SUBSET Arts /\ asked \subseteq asked'
  /\ listed' \subseteq listed /\ listed \ listed' \subseteq asked'

Next == Delete \/ \E a \in Arts : Post(a)

Spec == Init /\ [][Next]_<<listed, asked>>
=============================================================================
