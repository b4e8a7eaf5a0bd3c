------------------------------ MODULE UserDir ------------------------------
(***************************************************************************)
(* What the user table promises the rest of the BBS, which keeps only user *)
(* numbers (uid, usernum) and expects them to stay true: a userid is       *)
(* registered in one slot; it keeps the slot and the registration (its     *)
(* password, its first login) until it is buried; only a user who has been *)
(* kicked out is buried, and nobody comes back from being kicked out.      *)
(* UserTable implements it.                                                *)
(***************************************************************************)
EXTENDS Naturals

CONSTANTS Names, Slots, Sysop, SysopSlot

VARIABLES
  dir,    \* per userid: its slot (0: not registered), its registration
  regs    \* registrations made so far

NotThere == [slot |-> 0, reg |-> 0, dead |-> FALSE]

Init ==
  /\ dir = [n \in Names |->
              IF n = Sysop THEN [slot |-> SysopSlot, reg |-> 0, dead |-> FALSE]
                           ELSE NotThere]
  /\ regs = 0

Register(n) ==
  /\ dir[n] = NotThere
  /\ \E i \in Slots \ {dir[m].slot : m \in Names} :
       dir' = [dir EXCEPT ![n] = [slot |-> i, reg |-> regs + 1, dead |-> FALSE]]
  /\ regs' = regs + 1

KickOut(n) ==
  /\ n # Sysop /\ dir[n].slot # 0
  /\ dir' = [dir EXCEPT ![n].dead = TRUE]
  /\ UNCHANGED regs

Bury(n) ==
  /\ dir[n].dead
  /\ dir' = [dir EXCEPT ![n] = NotThere]
  /\ UNCHANGED regs

Next == \E n \in Names : Register(n) \/ KickOut(n) \/ Bury(n)

Spec == Init /\ [][Next]_<<dir, regs>>
=============================================================================
