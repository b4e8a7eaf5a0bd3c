--------------------------- MODULE MailboxProofs ---------------------------
(***************************************************************************)
(* Theorems about Mailbox, for any number of mails, sessions and POP3      *)
(* sessions and any limits: the type invariant, that the counter is right  *)
(* up to a stated error, that the quota is kept up to that error, and who  *)
(* can wait for its own lock.                                              *)
(***************************************************************************)
EXTENDS Mailbox, FiniteSetTheorems, TLAPS

\* Who is in a locked section holds the lock, and only there has it something to do.
Held ==
  \A a \in Actors :
    /\ op[a].pc \in {"locked", "hung"} <=> lock = {a}
    /\ op[a].pc \notin {"locked", "hung"} => op[a].todo = {} /\ op[a].done = {}
    /\ op[a].todo \cap op[a].done = {}

\* A sender counts its own mail, which is not in .DIR until it has ended.
SendersInv ==
  \A m \in Mails :
    /\ op[m].todo \subseteq {m} /\ op[m].done \subseteq {m}
    /\ op[m].pc # "end" => box[m] = 0

\* The others count mails that are in .DIR.
DeletersInv ==
  \A a \in Sessions \cup Pops : op[a].todo \cup op[a].done \subseteq Present(box)

\* The counter is negative only as -2, unless it has been too large.
Ranged == over \/ mailsize = -2 \/ mailsize \in Nat

\* What .DIR will hold when the locked section of a ends where it is.
Target(a) ==
  IF a \in Mails THEN Sum + KbOf(SizeOf, op[a].done) ELSE Sum - KbOf(box, op[a].done)

\* Inside a locked section the counter is ahead of .DIR by what has been counted.
Ahead ==
  \A a \in Actors :
    lock = {a} /\ ~over => mailsize = -2 \/ mailsize - Target(a) \in -slack .. slack

\* A mail that has been counted fits, whatever happens to the counter afterwards.
Fits ==
  \A m \in Mails \ System :
    m \in op[m].done /\ ~over => Sum + Kb(SizeOf[m]) <= MaxSize + slack

\* Between its get_mailsize and its locked section nobody finds -2, with the two exceptions.
Warned ==
  \A a \in Actors :
    \/ a \in late \/ over
    \/ op[a].pc \in {"idle", "end"}
    \/ op[a].pc \in {"ready", "locked", "quit"} /\ mailsize # -2

\* The inductive invariant, with TypeOK.
Safe ==
  /\ Held /\ SendersInv /\ DeletersInv /\ Ranged
  /\ CounterClose /\ Ahead /\ Fits /\ Warned

-----------------------------------------------------------------------------
(* Sizes *)

USE MailboxAssumption

LEMMA KbIsNat == ASSUME NEW x \in Nat PROVE Kb(x) \in Nat /\ Kb(x) >= 1
<1>1. Unit \in Nat /\ Unit >= 1  OBVIOUS
<1>2. ASSUME Unit <= x PROVE x \div Unit \in Nat /\ x \div Unit >= 1
  <2>1. x \div Unit \in Int /\ x = Unit * (x \div Unit) + (x % Unit)
        /\ x % Unit \in 0 .. Unit - 1
    BY <1>1, SMT
  <2>2. CASE x \div Unit < 1
    <3>1. Unit * (x \div Unit) <= 0  BY <1>1, <2>1, <2>2, SMT
    <3>2. QED  BY <1>1, <1>2, <2>1, <3>1, SMT
  <2>3. QED  BY <2>1, <2>2, SMT
<1>3. QED  BY <1>1, <1>2, SMT DEF Kb

LEMMA Quotient ==
  ASSUME NEW x \in Nat
  PROVE  /\ x \div Unit \in Nat
         /\ \E r \in 0 .. Unit - 1 : x = Unit * (x \div Unit) + r
<1>1. Unit \in Nat /\ Unit >= 1  OBVIOUS
<1>2. x \div Unit \in Int /\ x = Unit * (x \div Unit) + (x % Unit)
      /\ x % Unit \in 0 .. Unit - 1
  BY <1>1, SMT
<1>3. CASE x \div Unit < 0
  <2>1. Unit * (x \div Unit) <= -Unit  BY <1>1, <1>2, <1>3, SMT
  <2>2. QED  BY <1>1, <1>2, <2>1, SMT
<1>4. QED  BY <1>2, <1>3, SMT

\* A multiple of Unit between -Unit and two Unit is 0 or one Unit.
LEMMA FewUnits ==
  ASSUME NEW k \in Int, -Unit < Unit * k, Unit * k < 2 * Unit
  PROVE  k \in 0 .. 1
<1>1. Unit \in Nat /\ Unit >= 1  OBVIOUS
<1>2. CASE k < 0
  <2>1. Unit * k <= -Unit  BY <1>1, <1>2, SMT
  <2>2. QED  BY <1>1, <2>1, SMT
<1>3. CASE k > 1
  <2>1. Unit * k >= 2 * Unit  BY <1>1, <1>3, SMT
  <2>2. QED  BY <1>1, <2>1, SMT
<1>4. QED  BY <1>2, <1>3, SMT

\* What DIR_do_editmail adds differs by at most one from the difference of the two sizes.
LEMMA WholeUp ==
  ASSUME NEW x \in Nat \ {0}, NEW y \in Nat \ {0}, x <= y
  PROVE  /\ (y - x) \div Unit \in Nat
         /\ (y - x) \div Unit - (Kb(y) - Kb(x)) \in -1 .. 1
<1>1. Unit \in Nat /\ Unit >= 1  OBVIOUS
<1> DEFINE qx == x \div Unit
           qy == y \div Unit
           qd == (y - x) \div Unit
<1>2. PICK rx \in 0 .. Unit - 1 : x = Unit * qx + rx  BY Quotient
<1>3. PICK ry \in 0 .. Unit - 1 : y = Unit * qy + ry  BY Quotient
<1>4. y - x \in Nat  OBVIOUS
<1>5. PICK rd \in 0 .. Unit - 1 : y - x = Unit * qd + rd  BY <1>4, Quotient
<1>6. qx \in Nat /\ qy \in Nat /\ qd \in Nat  BY <1>4, Quotient
<1>7. Kb(x) = (IF qx = 0 THEN 1 ELSE qx) /\ Kb(y) = (IF qy = 0 THEN 1 ELSE qy)
  <2>1. ASSUME NEW z \in Nat, NEW q \in Nat, NEW r \in 0 .. Unit - 1, z = Unit * q + r
        PROVE  z < Unit <=> q = 0
    <3>1. CASE q = 0  BY <1>1, <2>1, <3>1, SMT
    <3>2. CASE q >= 1
      <4>1. Unit * q >= Unit  BY <1>1, <3>2, SMT
      <4>2. QED  BY <1>1, <2>1, <3>2, <4>1, SMT
    <3>3. QED  BY <3>1, <3>2, SMT
  <2>2. x < Unit <=> qx = 0  BY <1>2, <1>6, <2>1
  <2>3. y < Unit <=> qy = 0  BY <1>3, <1>6, <2>1
  <2>4. QED  BY <2>2, <2>3 DEF Kb
<1> HIDE DEF qx, qy, qd
<1> DEFINE k == qy - qx - qd
<1>8. k \in Int  BY <1>6
<1>9. Unit * k = Unit * qy - Unit * qx - Unit * qd  BY <1>1, <1>6, SMT
<1>10. Unit * qy \in Int /\ Unit * qx \in Int /\ Unit * qd \in Int  BY <1>1, <1>6
<1>11. Unit * k = rx + rd - ry  BY <1>1, <1>2, <1>3, <1>5, <1>9, <1>10, SMT
<1>12. -Unit < Unit * k /\ Unit * k < 2 * Unit  BY <1>1, <1>11, SMT
<1>13. k \in 0 .. 1
  <2> HIDE DEF k
  <2> QED  BY <1>8, <1>12, FewUnits
<1>14. CASE qx = 0 \/ qy > 0
  <2>1. qd - ((IF qy = 0 THEN 1 ELSE qy) - (IF qx = 0 THEN 1 ELSE qx)) \in -1 .. 1
    BY <1>6, <1>13, <1>14, SMT
  <2>2. qd - (Kb(y) - Kb(x)) \in -1 .. 1  BY <1>7, <2>1
  <2>3. QED  BY <1>6, <2>2 DEF qd
<1>15. CASE qx > 0 /\ qy = 0
  <2>1. Unit * qx >= Unit  BY <1>1, <1>6, <1>15, SMT
  <2>2. Unit * qy = 0  BY <1>1, <1>15, SMT
  <2>3. QED  BY <1>1, <1>2, <1>3, <1>10, <2>1, <2>2, SMT
<1>16. QED  BY <1>6, <1>14, <1>15, SMT DEF qd

LEMMA WholeClose ==
  ASSUME NEW x \in Nat \ {0}, NEW y \in Nat \ {0}
  PROVE  /\ Whole(y - x) \in Int
         /\ Whole(y - x) - (Kb(y) - Kb(x)) \in -1 .. 1
<1>1. Kb(x) \in Nat /\ Kb(y) \in Nat  BY KbIsNat
<1>2. CASE x <= y
  <2>1. Whole(y - x) = (y - x) \div Unit  BY <1>2 DEF Whole
  <2>2. QED  BY <1>1, <1>2, <2>1, WholeUp, SMT
<1>3. CASE y < x
  <2>1. -(y - x) = x - y  OBVIOUS
  <2>2. Whole(y - x) = -((x - y) \div Unit)  BY <1>3, <2>1 DEF Whole
  <2> DEFINE q == (x - y) \div Unit
  <2>3. q \in Nat /\ q - (Kb(x) - Kb(y)) \in -1 .. 1  BY <1>3, WholeUp
  <2> HIDE DEF q
  <2>4. -q - (Kb(y) - Kb(x)) \in -1 .. 1  BY <1>1, <2>3, SMT
  <2>5. QED  BY <2>2, <2>3, <2>4 DEF q
<1>4. QED  BY <1>2, <1>3

-----------------------------------------------------------------------------
(* Sums of sizes *)

LEMMA Finite ==
  ASSUME NEW b \in [Mails -> Nat], NEW M \in SUBSET Mails
  PROVE  IsFiniteSet(M) /\ IsFiniteSet(Kilobytes(b, M)) /\ KbOf(b, M) \in Nat
<1>1. IsFiniteSet(M)  BY FS_Subset
<1>2. ASSUME NEW m \in M PROVE IsFiniteSet({m} \X (1 .. Kb(b[m])))
  <2>1. Kb(b[m]) \in Int  BY KbIsNat
  <2>2. IsFiniteSet(1 .. Kb(b[m]))  BY <2>1, FS_Interval
  <2>3. QED  BY <2>2, FS_Singleton, FS_Product
<1> DEFINE F == [m \in M |-> {m} \X (1 .. Kb(b[m]))]
           S == {{m} \X (1 .. Kb(b[m])) : m \in M}
<1>3. F \in Surjection(M, S)  BY DEF Surjection
<1>4. IsFiniteSet(S)
  <2> HIDE DEF F, S
  <2> QED  BY <1>1, <1>3, FS_Surjection
<1>5. \A T \in S : IsFiniteSet(T)  BY <1>2
<1>6. IsFiniteSet(UNION S)
  <2> HIDE DEF S
  <2> QED  BY <1>4, <1>5, FS_UNION
<1>7. IsFiniteSet(Kilobytes(b, M))  BY <1>6 DEF Kilobytes
<1>8. QED  BY <1>1, <1>7, FS_CardinalityType DEF KbOf

LEMMA OneMail ==
  ASSUME NEW b \in [Mails -> Nat], NEW m \in Mails
  PROVE  KbOf(b, {m}) = Kb(b[m])
<1>1. Kb(b[m]) \in Nat /\ Kb(b[m]) >= 1  BY KbIsNat
<1>2. IsFiniteSet(1 .. Kb(b[m])) /\ Cardinality(1 .. Kb(b[m])) = Kb(b[m])
  BY <1>1, FS_Interval
<1>3. IsFiniteSet({m}) /\ Cardinality({m}) = 1  BY FS_Singleton
<1>4. Cardinality({m} \X (1 .. Kb(b[m]))) = 1 * Kb(b[m])
  <2>1. Cardinality({m} \X (1 .. Kb(b[m]))) = Cardinality({m}) * Cardinality(1 .. Kb(b[m]))
    BY <1>2, <1>3, FS_Product
  <2>2. QED  BY <1>2, <1>3, <2>1
<1>5. Kilobytes(b, {m}) = {m} \X (1 .. Kb(b[m]))  BY DEF Kilobytes
<1>6. KbOf(b, {m}) = Cardinality({m} \X (1 .. Kb(b[m])))  BY <1>5 DEF KbOf
<1>7. 1 * Kb(b[m]) = Kb(b[m])  BY <1>1
<1>8. QED  BY <1>4, <1>6, <1>7

LEMMA NoMail == \A b : KbOf(b, {}) = 0
  BY FS_EmptySet DEF KbOf, Kilobytes

LEMMA TwoParts ==
  ASSUME NEW b \in [Mails -> Nat], NEW M \in SUBSET Mails, NEW N \in SUBSET Mails,
         M \cap N = {}
  PROVE  KbOf(b, M \cup N) = KbOf(b, M) + KbOf(b, N)
<1>1. Kilobytes(b, M \cup N) = Kilobytes(b, M) \cup Kilobytes(b, N)
  BY DEF Kilobytes
<1>2. Kilobytes(b, M) \cap Kilobytes(b, N) = {}
  BY DEF Kilobytes
<1>3. IsFiniteSet(Kilobytes(b, M)) /\ IsFiniteSet(Kilobytes(b, N))
      /\ KbOf(b, M) \in Nat /\ KbOf(b, N) \in Nat
  BY Finite
<1>4. Cardinality(Kilobytes(b, M) \cup Kilobytes(b, N)) =
      Cardinality(Kilobytes(b, M)) + Cardinality(Kilobytes(b, N)) - Cardinality({})
  BY <1>2, <1>3, FS_Union
<1>5. KbOf(b, M \cup N) = KbOf(b, M) + KbOf(b, N) - 0
  BY <1>1, <1>4, FS_EmptySet DEF KbOf
<1>6. QED  BY <1>3, <1>5

LEMMA SameSizes ==
  ASSUME NEW b, NEW c, NEW M, \A m \in M : b[m] = c[m]
  PROVE  KbOf(b, M) = KbOf(c, M)
<1>1. Kilobytes(b, M) = Kilobytes(c, M)  BY DEF Kilobytes
<1>2. QED  BY <1>1 DEF KbOf

LEMMA SumWith ==
  ASSUME NEW b \in [Mails -> Nat], NEW c \in [Mails -> Nat], NEW m \in Mails,
         b[m] = 0, c[m] # 0, \A x \in Mails \ {m} : c[x] = b[x]
  PROVE  KbOf(c, Present(c)) = KbOf(b, Present(b)) + Kb(c[m])
<1>1. Present(c) = Present(b) \cup {m} /\ Present(b) \cap {m} = {}
      /\ Present(b) \in SUBSET Mails /\ {m} \in SUBSET Mails
  BY DEF Present
<1>2. \A x \in Present(b) : b[x] = c[x]  BY DEF Present
<1>3. KbOf(b, Present(b)) = KbOf(c, Present(b))  BY <1>2, SameSizes
<1>4. KbOf(c, Present(b) \cup {m}) = KbOf(c, Present(b)) + KbOf(c, {m})
  BY <1>1, TwoParts
<1>5. QED  BY <1>1, <1>3, <1>4, OneMail

LEMMA SumEdited ==
  ASSUME NEW b \in [Mails -> Nat], NEW c \in [Mails -> Nat], NEW m \in Mails,
         b[m] # 0, c[m] # 0, \A x \in Mails \ {m} : c[x] = b[x]
  PROVE  KbOf(c, Present(c)) = KbOf(b, Present(b)) - Kb(b[m]) + Kb(c[m])
<1> DEFINE o == [x \in Mails |-> IF x = m THEN 0 ELSE b[x]]
<1>1. o \in [Mails -> Nat] /\ o[m] = 0
      /\ (\A x \in Mails \ {m} : b[x] = o[x]) /\ (\A x \in Mails \ {m} : c[x] = o[x])
  OBVIOUS
<1> HIDE DEF o
<1>2. KbOf(c, Present(c)) = KbOf(o, Present(o)) + Kb(c[m])  BY <1>1, SumWith
<1>3. KbOf(b, Present(b)) = KbOf(o, Present(o)) + Kb(b[m])  BY <1>1, SumWith
<1>4. KbOf(o, Present(o)) \in Nat  BY <1>1, Finite DEF Present
<1>5. Kb(c[m]) \in Nat /\ Kb(b[m]) \in Nat  BY KbIsNat
<1>6. QED  BY <1>2, <1>3, <1>4, <1>5

LEMMA SumWithout ==
  ASSUME NEW b \in [Mails -> Nat], NEW c \in [Mails -> Nat], NEW D \in SUBSET Present(b),
         \A x \in Mails : c[x] = IF x \in D THEN 0 ELSE b[x]
  PROVE  KbOf(c, Present(c)) = KbOf(b, Present(b)) - KbOf(b, D)
<1>1. Present(b) = Present(c) \cup D /\ Present(c) \cap D = {}
      /\ Present(c) \in SUBSET Mails /\ D \in SUBSET Mails
  BY DEF Present
<1>2. \A x \in Present(c) : c[x] = b[x]  BY DEF Present
<1>3. KbOf(c, Present(c)) = KbOf(b, Present(c))  BY <1>2, SameSizes
<1>4. KbOf(b, Present(b)) = KbOf(b, Present(c)) + KbOf(b, D)  BY <1>1, TwoParts
<1>5. KbOf(b, Present(c)) \in Nat /\ KbOf(b, D) \in Nat  BY <1>1, Finite
<1>6. QED  BY <1>3, <1>4, <1>5

LEMMA SumIsNat == TypeOK => Sum \in Nat
  BY Finite DEF TypeOK, Sum, Present

-----------------------------------------------------------------------------
(* Types *)

LEMMA OneHolder == ASSUME NEW a PROVE Cardinality({a}) <= 1 /\ Cardinality({}) <= 1
<1>1. Cardinality({a}) = 1  BY FS_Singleton
<1>2. Cardinality({}) = 0  BY FS_EmptySet
<1>3. QED  BY <1>1, <1>2

LEMMA InitType == Init => TypeOK
<1> SUFFICES ASSUME Init PROVE TypeOK  OBVIOUS
<1>1. box \in [Mails -> Nat] /\ mailsize \in Int  BY DEF Init
<1>2. lock \in SUBSET Actors /\ Cardinality(lock) <= 1  BY OneHolder DEF Init
<1>3. op \in [Actors -> [pc : {"idle", "ready", "locked", "quit", "hung", "end"},
                        todo : SUBSET Mails, done : SUBSET Mails]]
  BY DEF Init, Idle
<1>4. pop \in [Pops -> [seen : SUBSET Mails, dele : SUBSET Mails, left : SUBSET Mails]]
  BY DEF Init, Closed
<1>5. edits \in 0 .. MaxEdits /\ fixes \in 0 .. MaxFixes /\ deaths \in 0 .. MaxDeaths
      /\ slack \in Nat
  BY DEF Init
<1>6. over \in BOOLEAN /\ late \in SUBSET Actors
  BY DEF Init
<1>7. QED  BY <1>1, <1>2, <1>3, <1>4, <1>5, <1>6 DEF TypeOK

LEMMA GetMailsizeType ==
  ASSUME TypeOK, NEW a, GetMailsize(a)
  PROVE  mailsize' \in Int /\ slack' \in Nat /\ over' \in BOOLEAN /\ late' \in SUBSET Actors
<1>1. Recounted \in Int  BY SumIsNat DEF Recounted
<1>2. mailsize' \in Int /\ slack' \in Nat  BY <1>1 DEF GetMailsize, TypeOK
<1>3. over' \in BOOLEAN
  <2>1. over' = over \/ over' = (Recounted = -1)  BY DEF GetMailsize
  <2>2. over \in BOOLEAN  BY DEF TypeOK
  <2>3. QED  BY <2>1, <2>2
<1>4. late' \in SUBSET Actors  BY DEF GetMailsize, TypeOK
<1>5. QED  BY <1>2, <1>3, <1>4

\* The parts of the type invariant that a step can leave alone together.
OpType == op \in [Actors -> [pc : {"idle", "ready", "locked", "quit", "hung", "end"},
                             todo : SUBSET Mails, done : SUBSET Mails]]
PopType == pop \in [Pops -> [seen : SUBSET Mails, dele : SUBSET Mails, left : SUBSET Mails]]
LockType == lock \in SUBSET Actors /\ Cardinality(lock) <= 1
CounterType == mailsize \in Int /\ slack \in Nat /\ over \in BOOLEAN /\ late \in SUBSET Actors
BoundsType == edits \in 0 .. MaxEdits /\ fixes \in 0 .. MaxFixes /\ deaths \in 0 .. MaxDeaths
BoxType == box \in [Mails -> Nat]

LEMMA Types ==
  TypeOK <=> OpType /\ PopType /\ LockType /\ CounterType /\ BoundsType /\ BoxType
  BY DEF TypeOK, OpType, PopType, LockType, CounterType, BoundsType, BoxType

LEMMA TypesNext ==
  TypeOK' <=> OpType' /\ PopType' /\ LockType' /\ CounterType' /\ BoundsType' /\ BoxType'
  BY Types, PTL

LEMMA OpChange ==
  ASSUME OpType, NEW a \in Actors,
         NEW p \in {"idle", "ready", "locked", "quit", "hung", "end"},
         NEW T \in SUBSET Mails, NEW D \in SUBSET Mails,
         op' = [op EXCEPT ![a] = [pc |-> p, todo |-> T, done |-> D]]
  PROVE  OpType'
  BY DEF OpType

LEMMA PcChange ==
  ASSUME OpType, NEW a \in Actors,
         NEW p \in {"idle", "ready", "locked", "quit", "hung", "end"},
         op' = [op EXCEPT ![a].pc = p]
  PROVE  OpType'
  BY DEF OpType

LEMMA LockChange ==
  ASSUME LockType, NEW a \in Actors, lock' = {a} \/ lock' = {} \/ lock' = lock
  PROVE  LockType'
  BY OneHolder DEF LockType

LEMMA UpType == ASSUME mailsize \in Int, NEW m \in Mails PROVE Up(m) \in Int
<1>1. SizeOf[m] \in Nat  OBVIOUS
<1>2. Kb(SizeOf[m]) \in Nat  BY <1>1, KbIsNat
<1>3. QED  BY <1>2 DEF Up

LEMMA DownType == ASSUME TypeOK, NEW m \in Mails PROVE Down(m) \in Int
<1>1. box[m] \in Nat /\ mailsize \in Int  BY DEF TypeOK
<1>2. Kb(box[m]) \in Nat  BY <1>1, KbIsNat
<1>3. Recounted \in Int  BY SumIsNat DEF Recounted
<1>4. QED  BY <1>1, <1>2, <1>3 DEF Down

LEMMA StoreType ==
  ASSUME CounterType, NEW n \in Int, Store(n)
  PROVE  mailsize' \in Int /\ over' \in BOOLEAN
<1>1. mailsize' \in Int  BY DEF Store
<1>2. over' \in BOOLEAN  BY DEF Store
<1>3. QED  BY <1>1, <1>2

LEMMA KeptMails == ASSUME TypeOK, NEW a \in Actors
  PROVE  /\ op[a].todo \in SUBSET Mails /\ op[a].done \in SUBSET Mails
         /\ op[a].pc \in {"idle", "ready", "locked", "quit", "hung", "end"}
  BY DEF TypeOK

LEMMA NextType == TypeOK /\ [Next]_vars => TypeOK'
<1> SUFFICES ASSUME TypeOK, [Next]_vars PROVE TypeOK'  OBVIOUS
<1>0. OpType /\ PopType /\ LockType /\ CounterType /\ BoundsType /\ BoxType  BY Types
<1> USE DEF Actors
<1> SUFFICES OpType' /\ PopType' /\ LockType' /\ CounterType' /\ BoundsType' /\ BoxType'
  BY TypesNext
<1>1. ASSUME NEW m \in Mails, Send(m) PROVE OpType' /\ CounterType'
                     /\ UNCHANGED <<pop, lock, edits, fixes, deaths, box>>
  <2>1. OpType'  BY <1>0, <1>1, PcChange DEF Send
  <2>2. CounterType'  BY <1>1, GetMailsizeType DEF Send, CounterType
  <2>3. QED  BY <1>1, <2>1, <2>2 DEF Send
<1>2. ASSUME NEW s \in Sessions, Check(s) PROVE OpType' /\ CounterType'
                     /\ UNCHANGED <<pop, lock, edits, fixes, deaths, box>>
  <2>1. OpType'  BY <1>0, <1>2, PcChange DEF Check
  <2>2. CounterType'  BY <1>2, GetMailsizeType DEF Check, CounterType
  <2>3. QED  BY <1>2, <2>1, <2>2 DEF Check
<1>3. ASSUME NEW p \in Pops, Pass(p) PROVE OpType' /\ CounterType' /\ PopType'
                     /\ UNCHANGED <<lock, edits, fixes, deaths, box>>
  <2>1. OpType'  BY <1>0, <1>3, PcChange DEF Pass
  <2>2. CounterType'  BY <1>3, GetMailsizeType DEF Pass, CounterType
  <2>3. PopType'  BY <1>0, <1>3 DEF Pass, PopType, Closed, Present
  <2>4. QED  BY <1>3, <2>1, <2>2, <2>3 DEF Pass
<1>4. ASSUME NEW a \in Actors, NEW M \in SUBSET Mails, Lock(a, M)
      PROVE  OpType' /\ LockType'
             /\ UNCHANGED <<box, mailsize, pop, edits, fixes, deaths, slack, over, late>>
  BY <1>0, <1>4, OpChange, LockChange DEF Lock
<1>5. ASSUME NEW a \in Actors, Count(a)
      PROVE  OpType' /\ mailsize' \in Int /\ over' \in BOOLEAN
             /\ UNCHANGED <<box, lock, pop, edits, fixes, deaths, slack, late>>
  <2>1. PICK m \in op[a].todo :
       IF mailsize = -2 THEN Hang(a) /\ UNCHANGED <<mailsize, over>>
       ELSE /\ Store(IF a \in Mails THEN Up(m) ELSE Down(m))
            /\ op' = [op EXCEPT ![a].todo = @ \ {m}, ![a].done = @ \cup {m}]
    BY <1>5 DEF Count
  <2>2. m \in Mails  BY KeptMails
  <2>3. mailsize \in Int /\ over \in BOOLEAN  BY <1>0 DEF CounterType
  <2>4. CASE mailsize = -2
    <3>1. Hang(a) /\ mailsize' = mailsize /\ over' = over  BY <2>1, <2>4
    <3>2. OpType'  BY <1>0, <3>1, PcChange DEF Hang
    <3>3. QED  BY <1>5, <2>3, <3>1, <3>2 DEF Count
  <2>5. CASE mailsize # -2
    <3>1. Store(IF a \in Mails THEN Up(m) ELSE Down(m))  BY <2>1, <2>5
    <3>2. (IF a \in Mails THEN Up(m) ELSE Down(m)) \in Int
      BY <2>2, <2>3, UpType, DownType
    <3>3. mailsize' \in Int /\ over' \in BOOLEAN  BY <1>0, <3>1, <3>2, StoreType
    <3>4. op' = [op EXCEPT ![a].todo = @ \ {m}, ![a].done = @ \cup {m}]
      BY <2>1, <2>5
    <3>5. OpType'  BY <1>0, <2>2, <3>4 DEF OpType
    <3>6. QED  BY <1>5, <3>3, <3>5 DEF Count
  <2>6. QED  BY <2>4, <2>5
<1>6. ASSUME NEW m \in Mails, Refuse(m)
      PROVE  OpType' /\ LockType'
             /\ UNCHANGED <<box, mailsize, pop, edits, fixes, deaths, slack, over, late>>
  BY <1>0, <1>6, LockChange DEF Refuse, OpType, Idle
<1>7. ASSUME NEW a \in Actors, Commit(a)
      PROVE  OpType' /\ LockType' /\ BoxType'
             /\ UNCHANGED <<mailsize, pop, edits, fixes, deaths, slack, over, late>>
  <2>1. BoxType'  BY <1>0, <1>7 DEF Commit, BoxType
  <2>2. OpType'  BY <1>0, <1>7 DEF Commit, OpType, Idle
  <2>3. QED  BY <1>0, <1>7, <2>1, <2>2, LockChange DEF Commit
<1>8. ASSUME NEW a \in Actors, Die(a)
      PROVE  OpType' /\ LockType' /\ PopType' /\ slack' \in Nat /\ deaths' \in 0 .. MaxDeaths
             /\ UNCHANGED <<box, mailsize, edits, fixes, over, late>>
  <2>1. OpType'  BY <1>0, <1>8 DEF Die, OpType, Idle
  <2>2. PopType'  BY <1>0, <1>8 DEF Die, PopType, Closed
  <2>3. KbOf(IF a \in Mails THEN SizeOf ELSE box, op[a].done) \in Nat
    <3>1. SizeOf \in [Mails -> Nat]  OBVIOUS
    <3>2. QED  BY <1>0, <3>1, KeptMails, Finite DEF BoxType
  <2>4. slack' \in Nat  BY <1>0, <1>8, <2>3 DEF Die, CounterType
  <2>5. deaths' \in 0 .. MaxDeaths  BY <1>0, <1>8 DEF Die, BoundsType
  <2>6. QED  BY <1>0, <1>8, <2>1, <2>2, <2>4, <2>5, LockChange DEF Die
<1>9. ASSUME NEW s \in Sessions, NEW m \in Mails, NEW x \in Sizes, Edit(s, m, x)
      PROVE  OpType' /\ LockType' /\ BoxType' /\ mailsize' \in Int /\ slack' \in Nat
             /\ edits' \in 0 .. MaxEdits /\ over' = over
             /\ UNCHANGED <<pop, fixes, deaths, late>>
  <2>1. x \in Nat /\ x # 0 /\ box[m] \in Nat \ {0} /\ mailsize \in Int /\ slack \in Nat
    BY <1>0, <1>9 DEF Edit, BoxType, CounterType
  <2>2. Whole(x - box[m]) \in Int  BY <2>1, WholeClose
  <2>3. Grown(m, x) \in Int /\ Edited(m, x) \in Int  BY <2>1, <2>2 DEF Grown, Edited
  <2>4. edits' \in 0 .. MaxEdits  BY <1>0, <1>9 DEF Edit, BoundsType
  <2>5. CASE mailsize = -2
    <3>1. OpType' /\ LockType'  BY <1>0, <1>9, <2>5, PcChange, LockChange DEF Edit, Hang
    <3>2. QED  BY <1>0, <1>9, <2>1, <2>4, <2>5, <3>1 DEF Edit, BoxType
  <2>6. CASE mailsize # -2
    <3>1. BoxType'  BY <1>0, <1>9, <2>1, <2>6 DEF Edit, BoxType
    <3>2. mailsize' = Edited(m, x) /\ over' = over /\ UNCHANGED <<lock, op>>
      BY <1>9, <2>6 DEF Edit
    <3>3. slack' = slack + 1 + (IF Grown(m, x) > SHRT_MAX THEN Grown(m, x) - SHRT_MAX ELSE 0)
      BY <1>9, <2>6 DEF Edit
    <3>4. slack' \in Nat  BY <2>1, <2>3, <3>3
    <3>5. OpType' /\ LockType'  BY <1>0, <3>2 DEF OpType, LockType
    <3>6. QED  BY <1>9, <2>3, <2>4, <3>1, <3>2, <3>4, <3>5 DEF Edit
  <2>7. QED  BY <2>5, <2>6

<1>10. ASSUME NEW p \in Pops, Rset(p) \/ \E m \in Mails : Dele(p, m)
       PROVE  PopType' /\ UNCHANGED <<box, mailsize, lock, op, edits, fixes, deaths, slack, over, late>>
  BY <1>0, <1>10 DEF Dele, Rset, PopType
<1>11. ASSUME NEW p \in Pops, Quit(p)
       PROVE  OpType' /\ PopType'
              /\ UNCHANGED <<box, mailsize, lock, edits, fixes, deaths, slack, over, late>>
  <2>1. OpType'  BY <1>0, <1>11, PcChange DEF Quit
  <2>2. PopType'  BY <1>0, <1>11 DEF Quit, PopType
  <2>3. QED  BY <1>11, <2>1, <2>2 DEF Quit
<1>12. ASSUME NEW p \in Pops, NEW m \in Mails, QuitNext(p, m)
       PROVE  OpType' /\ PopType' /\ LockType'
              /\ UNCHANGED <<box, mailsize, edits, fixes, deaths, slack, over, late>>
  <2> DEFINE T == {m} \cap Present(box)
  <2>1. op' = [op EXCEPT ![p] = [pc |-> "locked", todo |-> T, done |-> {}]]
    BY <1>12 DEF QuitNext
  <2>2. T \in SUBSET Mails /\ {} \in SUBSET Mails /\ p \in Actors  OBVIOUS
  <2>3. OpType'
    <3> HIDE DEF T
    <3>1. QED  BY <1>0, <2>1, <2>2, OpChange
  <2>4. PopType'  BY <1>0, <1>12 DEF QuitNext, PopType
  <2>5. QED  BY <1>0, <1>12, <2>3, <2>4, LockChange DEF QuitNext
<1>13. ASSUME NEW s \in Sessions \cup Pops, Leave(s)
       PROVE  OpType' /\ PopType'
              /\ UNCHANGED <<box, mailsize, lock, edits, fixes, deaths, slack, over, late>>
  <2>1. OpType'  BY <1>0, <1>13, OpChange DEF Leave, Idle
  <2>2. PopType'  BY <1>0, <1>13 DEF Leave, PopType, Closed
  <2>3. QED  BY <1>13, <2>1, <2>2 DEF Leave
<1>14. ASSUME Fix
       PROVE  mailsize' \in Int /\ fixes' \in 0 .. MaxFixes /\ late' \in SUBSET Actors
              /\ UNCHANGED <<box, lock, op, pop, edits, deaths, slack, over>>
  BY <1>0, <1>14 DEF Fix, BoundsType, CounterType
<1>15. /\ op' = op => OpType'
       /\ pop' = pop => PopType'
       /\ lock' = lock => LockType'
       /\ box' = box => BoxType'
       /\ edits' = edits /\ fixes' = fixes /\ deaths' = deaths => BoundsType'
  BY <1>0 DEF OpType, PopType, LockType, BoxType, BoundsType
<1>16. mailsize' = mailsize /\ slack' = slack /\ over' = over /\ late' = late => CounterType'
  BY <1>0 DEF CounterType
<1>17. CASE UNCHANGED vars
  BY <1>15, <1>16, <1>17 DEF vars
<1>18. ASSUME NEW m \in Mails, Deliver(m) PROVE Lock(m, {m})  BY <1>18 DEF Deliver
<1>19. ASSUME NEW s \in Sessions, NEW M \in SUBSET Mails, Delete(s, M)
       PROVE  Lock(s, M \cap Present(box))
  BY <1>19 DEF Delete
<1>20. ASSUME NEW a \in Actors, NEW M \in SUBSET Mails, Lock(a, M)
       PROVE  OpType' /\ PopType' /\ LockType' /\ CounterType' /\ BoundsType' /\ BoxType'
  BY <1>20, <1>4, <1>15, <1>16
<1>21. QED
  <2>1. ASSUME NEW m \in Mails, Send(m) \/ Deliver(m) \/ Refuse(m)
        PROVE  OpType' /\ PopType' /\ LockType' /\ CounterType' /\ BoundsType' /\ BoxType'
    <3>1. CASE Send(m)  BY <1>1, <1>15, <3>1
    <3>2. CASE Deliver(m)  BY <1>18, <1>20, <3>2
    <3>3. CASE Refuse(m)  BY <1>6, <1>15, <1>16, <3>3
    <3>4. QED  BY <2>1, <3>1, <3>2, <3>3
  <2>2. ASSUME NEW s \in Sessions, Check(s) \/ (\E M \in SUBSET Mails : Delete(s, M))
        PROVE  OpType' /\ PopType' /\ LockType' /\ CounterType' /\ BoundsType' /\ BoxType'
    <3>1. CASE Check(s)  BY <1>2, <1>15, <3>1
    <3>2. CASE \E M \in SUBSET Mails : Delete(s, M)
      <4>1. PICK M \in SUBSET Mails : Delete(s, M)  BY <3>2
      <4>2. M \cap Present(box) \in SUBSET Mails  OBVIOUS
      <4>3. QED  BY <1>19, <1>20, <4>1, <4>2
    <3>3. QED  BY <2>2, <3>1, <3>2
  <2>3. ASSUME NEW s \in Sessions, NEW m \in Mails, NEW x \in Sizes, Edit(s, m, x)
        PROVE  OpType' /\ PopType' /\ LockType' /\ CounterType' /\ BoundsType' /\ BoxType'
    <3>1. CounterType'  BY <1>0, <1>9, <2>3 DEF CounterType
    <3>2. BoundsType'  BY <1>0, <1>9, <2>3 DEF BoundsType
    <3>3. QED  BY <1>9, <1>15, <2>3, <3>1, <3>2
  <2>4. ASSUME NEW p \in Pops, Pass(p) \/ Rset(p) \/ Quit(p)
                                \/ \E m \in Mails : Dele(p, m) \/ QuitNext(p, m)
        PROVE  OpType' /\ PopType' /\ LockType' /\ CounterType' /\ BoundsType' /\ BoxType'
    <3>1. CASE Pass(p)  BY <1>3, <1>15, <3>1
    <3>2. CASE Rset(p) \/ \E m \in Mails : Dele(p, m)  BY <1>10, <1>15, <1>16, <3>2
    <3>3. CASE Quit(p)  BY <1>11, <1>15, <1>16, <3>3
    <3>4. CASE \E m \in Mails : QuitNext(p, m)  BY <1>12, <1>15, <1>16, <3>4
    <3>5. QED  BY <2>4, <3>1, <3>2, <3>3, <3>4
  <2>5. ASSUME NEW a \in Actors, Count(a) \/ Commit(a) \/ Die(a)
        PROVE  OpType' /\ PopType' /\ LockType' /\ CounterType' /\ BoundsType' /\ BoxType'
    <3>1. CASE Count(a)
      <4>1. CounterType'  BY <1>0, <1>5, <3>1 DEF CounterType
      <4>2. QED  BY <1>5, <1>15, <3>1, <4>1
    <3>2. CASE Commit(a)  BY <1>7, <1>15, <1>16, <3>2
    <3>3. CASE Die(a)
      <4>1. CounterType'  BY <1>0, <1>8, <3>3 DEF CounterType
      <4>2. BoundsType'  BY <1>0, <1>8, <3>3 DEF BoundsType
      <4>3. QED  BY <1>8, <1>15, <3>3, <4>1, <4>2
    <3>4. QED  BY <2>5, <3>1, <3>2, <3>3
  <2>6. ASSUME NEW s \in Sessions \cup Pops, Leave(s)
        PROVE  OpType' /\ PopType' /\ LockType' /\ CounterType' /\ BoundsType' /\ BoxType'
    BY <1>13, <1>15, <1>16, <2>6
  <2>7. CASE Fix
    <3>1. CounterType'  BY <1>0, <1>14, <2>7 DEF CounterType
    <3>2. BoundsType'  BY <1>0, <1>14, <2>7 DEF BoundsType
    <3>3. QED  BY <1>14, <1>15, <2>7, <3>1, <3>2
  <2>8. QED  BY <1>17, <2>1, <2>2, <2>3, <2>4, <2>5, <2>6, <2>7 DEF Next

\* The mailbox keeps its types, whatever the numbers of mails and sessions: one holder of
\* the lock at most, a counter that is an integer, and mails of a size that is not negative.
THEOREM TypeCorrect == Spec => []TypeOK
  BY InitType, NextType, PTL DEF Spec

-----------------------------------------------------------------------------
(* The invariant: what the steps have in common *)

\* Only a's control state changes, to p with the mails T to do and D done.
Moves(a, p, T, D) ==
  /\ op'[a].pc = p /\ op'[a].todo = T /\ op'[a].done = D
  /\ \A b \in Actors \ {a} : op'[b] = op[b]

Uncounted == mailsize' = mailsize /\ slack' = slack /\ over' = over

\* A step of a outside a locked section.  It gets past a check only with get_mailsize.
Walks(a) ==
  /\ op[a].pc \in {"idle", "ready", "quit"}
  /\ \E p \in {"idle", "ready", "quit"} :
       /\ Moves(a, p, {}, {})
       /\ p = "quit" => a \notin Mails
       /\ \/ Uncounted /\ late' = late /\ (p # "idle" => op[a].pc # "idle")
          \/ GetMailsize(a)
  /\ UNCHANGED <<box, lock>>

\* a gets the lock.
Enters(a) ==
  /\ op[a].pc \in {"ready", "quit"} /\ lock = {} /\ lock' = {a}
  /\ \E T \in SUBSET Mails :
       /\ Moves(a, "locked", T, {})
       /\ a \in Mails => T = {a}
       /\ a \notin Mails => T \subseteq Present(box)
  /\ box' = box /\ Uncounted /\ late' = late

LEMMA SafeNext ==
  Safe' <=> /\ Held' /\ SendersInv' /\ DeletersInv' /\ Ranged'
            /\ CounterClose' /\ Ahead' /\ Fits' /\ Warned'
<1>1. Safe <=> /\ Held /\ SendersInv /\ DeletersInv /\ Ranged
               /\ CounterClose /\ Ahead /\ Fits /\ Warned
  BY DEF Safe
<1>2. QED  BY <1>1, PTL

LEMMA SameSum ==
  ASSUME box' = box, NEW a
  PROVE  /\ Present(box') = Present(box) /\ Present(box)' = Present(box) /\ Sum' = Sum
         /\ op'[a].done = op[a].done => Target(a)' = Target(a)
  BY DEF Sum, Target, Present

LEMMA WalksSafe ==
  ASSUME TypeOK, TypeOK', Safe, NEW a \in Actors, Walks(a)
  PROVE  Safe'
<1> USE DEF Actors
<1>0. Held /\ SendersInv /\ DeletersInv /\ Ranged /\ CounterClose /\ Ahead /\ Fits /\ Warned
  BY DEF Safe
<1>1. PICK p \in {"idle", "ready", "quit"} :
       /\ Moves(a, p, {}, {})
       /\ p = "quit" => a \notin Mails
       /\ \/ Uncounted /\ late' = late /\ (p # "idle" => op[a].pc # "idle")
          \/ GetMailsize(a)
  BY DEF Walks
<1>2. box' = box /\ lock' = lock /\ op[a].pc \in {"idle", "ready", "quit"}  BY DEF Walks
<1>3. op[a].todo = {} /\ op[a].done = {} /\ lock # {a}  BY <1>0, <1>2 DEF Held
<1>4. ASSUME NEW b \in Actors
      PROVE  /\ op'[b].todo = op[b].todo /\ op'[b].done = op[b].done
             /\ b # a => op'[b].pc = op[b].pc
             /\ op'[a].pc = p
  BY <1>1, <1>3 DEF Moves
<1>5. Held'
  BY <1>0, <1>2, <1>4 DEF Held
<1>6. SendersInv'
  BY <1>0, <1>2, <1>4 DEF SendersInv
<1>7. DeletersInv'
  <2>1. Present(box)' = Present(box)  BY <1>2, SameSum
  <2>2. QED  BY <1>0, <1>4, <2>1 DEF DeletersInv
<1>8. CASE Uncounted
  <2>1. mailsize' = mailsize /\ slack' = slack /\ over' = over  BY <1>8 DEF Uncounted
  <2>2. Ranged'  BY <1>0, <2>1 DEF Ranged
  <2>3. CounterClose'  BY <1>0, <1>2, <2>1, SameSum DEF CounterClose
  <2>4. Ahead'
    <3>1. \A b \in Actors : Target(b)' = Target(b)  BY <1>2, <1>4, SameSum
    <3>2. QED  BY <1>0, <1>2, <2>1, <3>1 DEF Ahead
  <2>5. Fits'
    <3>1. Sum' = Sum  BY <1>2, SameSum
    <3>2. QED  BY <1>0, <1>4, <2>1, <3>1 DEF Fits
  <2>6. Warned'
    <3>1. CASE GetMailsize(a) /\ mailsize # -2
      <4>1. late' = late \ {a}  BY <3>1 DEF GetMailsize
      <4>2. QED  BY <1>0, <1>4, <2>1, <3>1, <4>1 DEF Warned
    <3>2. CASE late' = late /\ (p # "idle" => op[a].pc # "idle")
      BY <1>0, <1>2, <1>4, <2>1, <3>2 DEF Warned
    <3>3. CASE GetMailsize(a) /\ mailsize = -2
      <4>1. Recounted = -2  BY <2>1, <3>3 DEF GetMailsize
      <4>2. Sum \in Nat  BY SumIsNat
      <4>3. QED  BY <4>1, <4>2 DEF Recounted
    <3>4. QED  BY <1>1, <3>1, <3>2, <3>3
  <2>7. QED  BY <1>5, <1>6, <1>7, <2>2, <2>3, <2>4, <2>5, <2>6, SafeNext
<1>9. CASE GetMailsize(a) /\ mailsize = -2
  <2>1. lock = {} /\ mailsize' = Recounted /\ slack' = 0 /\ late' = late \ {a}
        /\ over' = (Recounted = -1)
    BY <1>9 DEF GetMailsize
  <2>2. Sum \in Nat /\ Sum' = Sum  BY <1>2, SameSum, SumIsNat
  <2>3. Recounted = -1 \/ Recounted = Sum  BY DEF Recounted
  <2>4. over' \/ mailsize' = Sum  BY <2>1, <2>3
  <2>5. Ranged'  BY <2>2, <2>4 DEF Ranged
  <2>6. CounterClose'
    <3>1. CASE over'  BY <3>1 DEF CounterClose
    <3>2. CASE mailsize' = Sum
      <4>1. mailsize' - Sum' \in -slack' .. slack'  BY <2>1, <2>2, <3>2
      <4>2. QED  BY <4>1 DEF CounterClose
    <3>3. QED  BY <2>4, <3>1, <3>2
  <2>7. Ahead'  BY <1>2, <2>1 DEF Ahead
  <2>8. \A b \in Actors : op'[b].done = {} /\ op'[b].pc # "hung"  BY <1>5, <1>2, <2>1 DEF Held
  <2>9. Fits'  BY <2>8 DEF Fits
  <2>10. Warned'
    <3>1. over' \/ mailsize' # -2  BY <2>2, <2>4
    <3>2. \A b \in Actors : op'[b].pc \in {"idle", "ready", "locked", "quit", "hung", "end"}
      BY DEF TypeOK
    <3>3. QED  BY <2>8, <3>1, <3>2 DEF Warned
  <2>11. QED  BY <1>5, <1>6, <1>7, <2>5, <2>6, <2>7, <2>9, <2>10, SafeNext
<1>10. QED
  <2>1. CASE GetMailsize(a)
    <3>1. mailsize = -2 \/ Uncounted  BY <2>1 DEF GetMailsize, Uncounted
    <3>2. QED  BY <1>8, <1>9, <2>1, <3>1
  <2>2. CASE Uncounted  BY <1>8, <2>2
  <2>3. QED  BY <1>1, <2>1, <2>2

LEMMA EntersSafe ==
  ASSUME TypeOK, TypeOK', Safe, NEW a \in Actors, Enters(a)
  PROVE  Safe'
<1> USE DEF Actors
<1>0. Held /\ SendersInv /\ DeletersInv /\ Ranged /\ CounterClose /\ Ahead /\ Fits /\ Warned
  BY DEF Safe
<1>1. PICK T \in SUBSET Mails :
       /\ Moves(a, "locked", T, {})
       /\ a \in Mails => T = {a}
       /\ a \notin Mails => T \subseteq Present(box)
  BY DEF Enters
<1>2. /\ box' = box /\ mailsize' = mailsize /\ slack' = slack /\ over' = over /\ late' = late
      /\ lock = {} /\ lock' = {a} /\ op[a].pc \in {"ready", "quit"}
  BY DEF Enters, Uncounted
<1>3. \A b \in Actors : op[b].todo = {} /\ op[b].done = {}
                        /\ op[b].pc \notin {"locked", "hung"}
  BY <1>0, <1>2 DEF Held
<1>4. ASSUME NEW b \in Actors
      PROVE  /\ op'[b].done = {}
             /\ b # a => op'[b].pc = op[b].pc /\ op'[b].todo = {}
             /\ op'[a].pc = "locked" /\ op'[a].todo = T
  BY <1>1, <1>3 DEF Moves
<1>5. Held'
  <2>1. ASSUME NEW b \in Actors
        PROVE  /\ op'[b].pc \in {"locked", "hung"} <=> lock' = {b}
               /\ op'[b].pc \notin {"locked", "hung"} => op'[b].todo = {} /\ op'[b].done = {}
               /\ op'[b].todo \cap op'[b].done = {}
    BY <1>2, <1>3, <1>4
  <2>2. QED  BY <2>1 DEF Held
<1>6. SendersInv'
  BY <1>0, <1>1, <1>2, <1>3, <1>4 DEF SendersInv
<1>7. DeletersInv'
  <2>1. Present(box)' = Present(box)  BY <1>2, SameSum
  <2>2. QED  BY <1>1, <1>4, <2>1 DEF DeletersInv
<1>8. Ranged'  BY <1>0, <1>2 DEF Ranged
<1>9. CounterClose'  BY <1>2 DEF CounterClose
<1>10. Ahead'
  <2>1. SizeOf \in [Mails -> Nat]  OBVIOUS
  <2>2. Sum \in Nat /\ KbOf(SizeOf, {}) = 0 /\ KbOf(box, {}) = 0  BY SumIsNat, NoMail
  <2>3. Target(a) = Sum
    <3>1. op[a].done = {}  BY <1>3
    <3>2. Target(a) = IF a \in Mails THEN Sum + 0 ELSE Sum - 0  BY <2>2, <3>1 DEF Target
    <3>3. QED  BY <2>2, <3>2
  <2>4. op'[a].done = op[a].done  BY <1>3, <1>4
  <2>5. Target(a)' = Sum  BY <1>2, <2>3, <2>4, SameSum
  <2>6. ~over => mailsize = -2 \/ mailsize - Sum \in -slack .. slack
    BY <1>0, <1>2 DEF CounterClose
  <2>7. ASSUME NEW b \in Actors, lock' = {b}, ~over'
        PROVE  mailsize' = -2 \/ mailsize' - Target(b)' \in -slack' .. slack'
    BY <1>2, <2>5, <2>6, <2>7
  <2>8. QED  BY <2>7 DEF Ahead
<1>11. Fits'  BY <1>4 DEF Fits
<1>12. Warned'  BY <1>0, <1>2, <1>4 DEF Warned
<1>13. QED
  BY <1>5, <1>6, <1>7, <1>8, <1>9, <1>10, <1>11, <1>12, SafeNext

-----------------------------------------------------------------------------
(* The steps inside a locked section *)

LEMMA OthersOutside ==
  ASSUME Held, NEW a \in Actors, lock = {a}, NEW b \in Actors \ {a}
  PROVE  op[b].todo = {} /\ op[b].done = {} /\ op[b].pc \notin {"locked", "hung"}
  BY DEF Held

\* A mail less to count, and not one that has been counted.
LEMMA MoreCounted ==
  ASSUME TypeOK, NEW D \in SUBSET Present(box), NEW m \in Present(box) \ D
  PROVE  /\ KbOf(box, D) \in Nat /\ Kb(box[m]) \in Nat
         /\ KbOf(box, D \cup {m}) = KbOf(box, D) + Kb(box[m])
         /\ KbOf(box, D \cup {m}) <= Sum
<1>1. box \in [Mails -> Nat] /\ m \in Mails /\ D \in SUBSET Mails /\ {m} \in SUBSET Mails
      /\ D \cap {m} = {}
  BY DEF TypeOK, Present
<1>2. KbOf(box, D \cup {m}) = KbOf(box, D) + KbOf(box, {m})  BY <1>1, TwoParts
<1>3. KbOf(box, {m}) = Kb(box[m])  BY <1>1, OneMail
<1>4. Kb(box[m]) \in Nat  BY <1>1, KbIsNat
<1>5. KbOf(box, D) \in Nat  BY <1>1, Finite
<1> DEFINE E == D \cup {m}
           R == Present(box) \ E
<1>6. E \in SUBSET Mails /\ R \in SUBSET Mails /\ E \cap R = {} /\ E \cup R = Present(box)
  BY <1>1 DEF Present
<1> HIDE DEF E, R
<1>7. KbOf(box, Present(box)) = KbOf(box, E) + KbOf(box, R)  BY <1>1, <1>6, TwoParts
<1>8. KbOf(box, R) \in Nat /\ KbOf(box, E) \in Nat  BY <1>1, <1>6, Finite
<1>9. KbOf(box, E) <= Sum  BY <1>7, <1>8 DEF Sum
<1>10. QED  BY <1>2, <1>3, <1>4, <1>5, <1>9 DEF E

\* A sender adds its mail to the counter.
LEMMA UpClose ==
  ASSUME TypeOK, mailsize \in Nat, NEW m \in Mails, Up(m) # -1,
         mailsize - Sum \in -slack .. slack
  PROVE  /\ Up(m) \in Nat
         /\ Up(m) - (Sum + Kb(SizeOf[m])) \in -slack .. slack
<1>1. Sum \in Nat /\ slack \in Nat  BY SumIsNat DEF TypeOK
<1>2. SizeOf[m] \in Nat  OBVIOUS
<1>3. Kb(SizeOf[m]) \in Nat  BY <1>2, KbIsNat
<1>4. Up(m) = mailsize + Kb(SizeOf[m])  BY DEF Up
<1>5. QED  BY <1>1, <1>3, <1>4

\* The others subtract one.
LEMMA DownClose ==
  ASSUME TypeOK, mailsize \in Nat, NEW D \in SUBSET Present(box), NEW m \in Present(box) \ D,
         Down(m) # -1, mailsize - (Sum - KbOf(box, D)) \in -slack .. slack
  PROVE  /\ Down(m) \in Nat
         /\ Down(m) - (Sum - KbOf(box, D \cup {m})) \in -slack .. slack
<1>1. Sum \in Nat /\ slack \in Nat  BY SumIsNat DEF TypeOK
<1> DEFINE K == Kb(box[m])
           B == KbOf(box, D)
           C == KbOf(box, D \cup {m})
<1>2. B \in Nat /\ K \in Nat /\ C = B + K /\ C <= Sum  BY MoreCounted
<1>3. \/ Down(m) = 0 /\ mailsize < K
      \/ Down(m) = mailsize - K /\ mailsize >= K
  <2>1. mailsize # -1  OBVIOUS
  <2>2. Down(m) = CASE mailsize < K -> 0
                    [] mailsize - K > SHRT_MAX -> -1
                    [] OTHER -> mailsize - K
    BY <2>1 DEF Down
  <2>3. QED  BY <1>2, <2>2
<1>4. mailsize - (Sum - B) \in -slack .. slack  OBVIOUS
<1> HIDE DEF K, B, C
<1>5. Down(m) - (Sum - C) \in -slack .. slack /\ Down(m) \in Nat
  <2>1. CASE Down(m) = mailsize - K /\ mailsize >= K
    BY <1>1, <1>2, <1>4, <2>1
  <2>2. CASE Down(m) = 0 /\ mailsize < K
    BY <1>1, <1>2, <1>4, <2>2
  <2>3. QED  BY <1>3, <2>1, <2>2
<1>6. QED  BY <1>5 DEF C

LEMMA CountSafe ==
  ASSUME TypeOK, TypeOK', Safe, NEW a \in Actors, Count(a)
  PROVE  Safe'
<1> USE DEF Actors
<1>0. Held /\ SendersInv /\ DeletersInv /\ Ranged /\ CounterClose /\ Ahead /\ Fits /\ Warned
  BY DEF Safe
<1>1. PICK m \in op[a].todo :
       IF mailsize = -2 THEN Hang(a) /\ UNCHANGED <<mailsize, over>>
       ELSE /\ a \in Mails => ~Refused(m)
            /\ Store(IF a \in Mails THEN Up(m) ELSE Down(m))
            /\ op' = [op EXCEPT ![a].todo = @ \ {m}, ![a].done = @ \cup {m}]
  BY DEF Count
<1>2. box' = box /\ lock' = lock /\ slack' = slack /\ late' = late /\ op[a].pc = "locked"
  BY DEF Count
<1>3. lock = {a}  BY <1>0, <1>2 DEF Held
<1>4. m \in Mails  BY KeptMails
<1>5. Sum' = Sum /\ Present(box)' = Present(box)  BY <1>2, SameSum
<1>6. op \in [Actors -> [pc : {"idle", "ready", "locked", "quit", "hung", "end"},
                         todo : SUBSET Mails, done : SUBSET Mails]]
  BY DEF TypeOK
<1>7. CounterClose'  BY <1>2, <1>3 DEF CounterClose
<1>8. CASE mailsize = -2
  <2>1. Hang(a) /\ mailsize' = mailsize /\ over' = over  BY <1>1, <1>8
  <2>2. ASSUME NEW b \in Actors
        PROVE  /\ op'[b].todo = op[b].todo /\ op'[b].done = op[b].done
               /\ b # a => op'[b].pc = op[b].pc
               /\ op'[a].pc = "hung"
    BY <1>6, <2>1 DEF Hang
  <2>3. Held'  BY <1>0, <1>2, <1>3, <2>2 DEF Held
  <2>4. SendersInv'  BY <1>0, <1>2, <2>2 DEF SendersInv
  <2>5. DeletersInv'  BY <1>0, <1>5, <2>2 DEF DeletersInv
  <2>6. Ranged'  BY <1>0, <2>1 DEF Ranged
  <2>7. Ahead'  BY <1>8, <2>1 DEF Ahead
  <2>8. Fits'  BY <1>0, <1>2, <1>5, <2>1, <2>2 DEF Fits
  <2>9. Warned'  BY <1>0, <1>2, <1>8, <2>1, <2>2 DEF Warned
  <2>10. QED  BY <1>7, <2>3, <2>4, <2>5, <2>6, <2>7, <2>8, <2>9, SafeNext
<1>9. CASE mailsize # -2
  <2> DEFINE n == IF a \in Mails THEN Up(m) ELSE Down(m)
  <2>1. /\ a \in Mails => ~Refused(m)
        /\ mailsize' = n /\ over' = (over \/ n = -1)
        /\ op' = [op EXCEPT ![a].todo = @ \ {m}, ![a].done = @ \cup {m}]
    BY <1>1, <1>9 DEF Store
  <2>2. /\ op'[a].pc = "locked" /\ op'[a].todo = op[a].todo \ {m}
        /\ op'[a].done = op[a].done \cup {m}
        /\ \A b \in Actors \ {a} : op'[b] = op[b]
    BY <1>2, <1>6, <2>1
  <2>3. m \notin op[a].done  BY <1>0 DEF Held
  <2>4. Held'
    <3>1. ASSUME NEW b \in Actors
          PROVE  /\ op'[b].pc \in {"locked", "hung"} <=> lock' = {b}
                 /\ op'[b].pc \notin {"locked", "hung"} => op'[b].todo = {} /\ op'[b].done = {}
                 /\ op'[b].todo \cap op'[b].done = {}
      <4>1. CASE b = a  BY <1>0, <1>2, <1>3, <2>2, <4>1 DEF Held
      <4>2. CASE b # a  BY <1>0, <1>2, <2>2, <4>2 DEF Held
      <4>3. QED  BY <4>1, <4>2
    <3>2. QED  BY <3>1 DEF Held
  <2>5. SendersInv'  BY <1>0, <1>2, <2>2 DEF SendersInv
  <2>6. DeletersInv'  BY <1>0, <1>5, <2>2 DEF DeletersInv
  <2>7. /\ ~over => mailsize \in Nat /\ mailsize - Target(a) \in -slack .. slack
        /\ over => over'
    <3>1. ~over => mailsize \in Nat  BY <1>0, <1>9 DEF Ranged
    <3>2. ~over => mailsize - Target(a) \in -slack .. slack  BY <1>0, <1>3, <1>9 DEF Ahead
    <3>3. over => over'  BY <2>1
    <3>4. QED  BY <3>1, <3>2, <3>3
  <2>8. CASE over'
    <3>1. Ranged' /\ Ahead' /\ Fits' /\ Warned'  BY <2>8 DEF Ranged, Ahead, Fits, Warned
    <3>2. QED  BY <1>7, <2>4, <2>5, <2>6, <3>1, SafeNext
  <2>9. CASE ~over'
    <3>1. ~over /\ n # -1  BY <2>1, <2>9
    <3>2. CASE a \in Mails
      <4>1. m = a /\ op[a].done = {} /\ op'[a].done = {a}
        BY <1>0, <2>2, <2>3, <3>2 DEF SendersInv
      <4>2. Sum \in Nat  BY SumIsNat
      <4>3. Target(a) = Sum + 0  BY <3>2, <4>1, NoMail DEF Target
      <4>4. mailsize \in Nat /\ mailsize - Sum \in -slack .. slack
        BY <2>7, <3>1, <4>2, <4>3
      <4>5. n = Up(a) /\ Up(a) # -1  BY <3>1, <3>2, <4>1
      <4>6. n \in Nat /\ n - (Sum + Kb(SizeOf[a])) \in -slack .. slack
        BY <3>2, <4>4, <4>5, UpClose
      <4>7. KbOf(SizeOf, {a}) = Kb(SizeOf[a])
        <5>1. SizeOf \in [Mails -> Nat]  OBVIOUS
        <5>2. QED  BY <3>2, <5>1, OneMail
      <4>8. Target(a)' = Sum + Kb(SizeOf[a])
        BY <1>5, <3>2, <4>1, <4>7 DEF Target
      <4>9. Ahead'  BY <1>2, <1>3, <2>1, <4>6, <4>8 DEF Ahead
      <4>10. Ranged'  BY <2>1, <4>6 DEF Ranged
      <4>11. Warned'
        <5>1. mailsize' # -2  BY <2>1, <4>6
        <5>2. QED  BY <1>0, <1>2, <1>9, <2>2, <3>1, <5>1 DEF Warned
      <4>12. a \notin System => Sum + Kb(SizeOf[a]) <= MaxSize + slack
        <5>1. a \notin System => mailsize + Kb(SizeOf[a]) <= MaxSize
          <6>1. SizeOf[a] \in Nat  BY <3>2
          <6>2. Kb(SizeOf[a]) \in Nat  BY <6>1, KbIsNat
          <6>3. QED  BY <2>1, <3>2, <4>1, <4>4, <6>2 DEF Refused
        <5>2. SizeOf[a] \in Nat /\ slack \in Nat  BY <3>2 DEF TypeOK
        <5>3. Kb(SizeOf[a]) \in Nat  BY <5>2, KbIsNat
        <5>4. QED  BY <4>2, <4>4, <5>1, <5>2, <5>3
      <4>13. Fits'
        <5>1. \A b \in Mails \ {a} : op'[b].done = op[b].done  BY <2>2
        <5>2. QED  BY <1>0, <1>2, <1>5, <3>1, <4>12, <5>1 DEF Fits
      <4>14. QED  BY <1>7, <2>4, <2>5, <2>6, <4>9, <4>10, <4>11, <4>13, SafeNext
    <3>3. CASE a \notin Mails
      <4> DEFINE D == op[a].done
      <4>1. D \in SUBSET Present(box) /\ m \in Present(box) \ D
        BY <1>0, <2>3, <3>3 DEF DeletersInv
      <4>2. Target(a) = Sum - KbOf(box, D)  BY <3>3 DEF Target
      <4>3. mailsize \in Nat /\ mailsize - (Sum - KbOf(box, D)) \in -slack .. slack
        BY <2>7, <3>1, <4>2
      <4>4. n = Down(m) /\ Down(m) # -1  BY <3>1, <3>3
      <4>5. n \in Nat /\ n - (Sum - KbOf(box, D \cup {m})) \in -slack .. slack
        <5> HIDE DEF D
        <5>1. QED  BY <4>1, <4>3, <4>4, DownClose
      <4>6. Target(a)' = Sum - KbOf(box, D \cup {m})
        BY <1>2, <1>5, <2>2, <3>3 DEF Target
      <4>7. Ahead'  BY <1>2, <1>3, <2>1, <4>5, <4>6 DEF Ahead
      <4>8. Ranged'  BY <2>1, <4>5 DEF Ranged
      <4>9. Warned'
        <5>1. mailsize' # -2  BY <2>1, <4>5
        <5>2. QED  BY <1>0, <1>2, <1>9, <2>2, <3>1, <5>1 DEF Warned
      <4>10. Fits'
        <5>1. \A b \in Mails : op'[b].done = op[b].done  BY <2>2, <3>3
        <5>2. QED  BY <1>0, <1>2, <1>5, <3>1, <5>1 DEF Fits
      <4>11. QED  BY <1>7, <2>4, <2>5, <2>6, <4>7, <4>8, <4>9, <4>10, SafeNext
    <3>4. QED  BY <3>2, <3>3
  <2>10. QED  BY <2>8, <2>9
<1>10. QED  BY <1>8, <1>9

\* a gives the lock back and has nothing to do any more.
Exits(a) ==
  /\ lock = {a} /\ lock' = {}
  /\ \E p \in {"idle", "ready", "quit", "end"} : Moves(a, p, {}, {})

LEMMA ExitsSafe ==
  ASSUME TypeOK, Safe, NEW a \in Actors, Exits(a)
  PROVE  /\ Held' /\ Fits' /\ Ahead'
         /\ \A b \in Actors : op'[b].todo = {} /\ op'[b].done = {}
<1>1. Held  BY DEF Safe
<1>2. PICK p \in {"idle", "ready", "quit", "end"} : Moves(a, p, {}, {})  BY DEF Exits
<1>3. lock = {a} /\ lock' = {}  BY DEF Exits
<1>4. ASSUME NEW b \in Actors
      PROVE  op'[b].todo = {} /\ op'[b].done = {} /\ op'[b].pc \notin {"locked", "hung"}
  <2>1. CASE b = a  BY <1>2, <2>1 DEF Moves
  <2>2. CASE b # a  BY <1>1, <1>2, <1>3, <2>2, OthersOutside DEF Moves
  <2>3. QED  BY <2>1, <2>2
<1>5. Held'  BY <1>3, <1>4 DEF Held
<1>6. Fits'
  <2>1. \A m \in Mails : m \notin op'[m].done  BY <1>4 DEF Actors
  <2>2. QED  BY <2>1 DEF Fits
<1>7. Ahead'  BY <1>3 DEF Ahead
<1>8. QED  BY <1>4, <1>5, <1>6, <1>7

LEMMA RefuseSafe ==
  ASSUME TypeOK, TypeOK', Safe, NEW a \in Mails, Refuse(a)
  PROVE  Safe'
<1> USE DEF Actors
<1>0. Held /\ SendersInv /\ DeletersInv /\ Ranged /\ CounterClose /\ Ahead /\ Fits /\ Warned
  BY DEF Safe
<1>1. /\ box' = box /\ mailsize' = mailsize /\ slack' = slack /\ over' = over /\ late' = late
      /\ lock' = {} /\ op[a].pc = "locked" /\ a \in op[a].todo
      /\ op' = [op EXCEPT ![a] = [Idle EXCEPT !.pc = "end"]]
  BY DEF Refuse
<1>2. lock = {a}  BY <1>0, <1>1 DEF Held
<1>3. op \in [Actors -> [pc : {"idle", "ready", "locked", "quit", "hung", "end"},
                         todo : SUBSET Mails, done : SUBSET Mails]]
  BY DEF TypeOK
<1>4. Moves(a, "end", {}, {})  BY <1>1, <1>3 DEF Moves, Idle
<1>5. Exits(a)  BY <1>1, <1>2, <1>4 DEF Exits
<1>6. /\ Held' /\ Fits' /\ Ahead'
      /\ \A b \in Actors : op'[b].todo = {} /\ op'[b].done = {}
  BY <1>5, ExitsSafe
<1>7. SendersInv'  BY <1>0, <1>1, <1>4, <1>6 DEF SendersInv, Moves
<1>8. DeletersInv'  BY <1>6 DEF DeletersInv
<1>9. Ranged'  BY <1>0, <1>1 DEF Ranged
<1>10. CounterClose'
  <2>1. op[a].done = {}  BY <1>0, <1>1 DEF Held, SendersInv
  <2>2. Sum \in Nat  BY SumIsNat
  <2>3. Target(a) = Sum + 0  BY <2>1, NoMail DEF Target
  <2>4. ~over => mailsize = -2 \/ mailsize - Sum \in -slack .. slack
    BY <1>0, <1>2, <2>2, <2>3 DEF Ahead
  <2>5. QED  BY <1>1, <2>4, SameSum DEF CounterClose
<1>11. Warned'  BY <1>0, <1>1, <1>4 DEF Warned, Moves
<1>12. QED  BY <1>6, <1>7, <1>8, <1>9, <1>10, <1>11, SafeNext

\* What a locked section leaves in .DIR is what the counter was moved to.
LEMMA CommitSum ==
  ASSUME TypeOK, TypeOK', Safe, NEW a \in Actors, Commit(a)
  PROVE  Sum' = Target(a)
<1> USE DEF Actors
<1>0. Held /\ SendersInv /\ DeletersInv  BY DEF Safe
<1>1. /\ op[a].pc = "locked"
      /\ box' = [m \in Mails |-> IF m \notin op[a].done THEN box[m]
                                 ELSE IF a = m THEN SizeOf[m] ELSE 0]
  BY DEF Commit
<1>2. box \in [Mails -> Nat] /\ box' \in [Mails -> Nat]  BY DEF TypeOK
<1>3. Sum' = KbOf(box', Present(box'))  BY DEF Sum, Present
<1>4. Sum \in Nat  BY SumIsNat
<1>5. CASE a \in Mails /\ op[a].done = {}
  <2>1. box' = box  BY <1>1, <1>2, <1>5
  <2>2. Target(a) = Sum + 0  BY <1>5, NoMail DEF Target
  <2>3. QED  BY <1>4, <2>1, <2>2, SameSum
<1>6. CASE a \in Mails /\ op[a].done # {}
  <2>1. op[a].done = {a} /\ box[a] = 0  BY <1>0, <1>1, <1>6 DEF SendersInv
  <2>2. box'[a] = SizeOf[a] /\ SizeOf[a] # 0 /\ \A x \in Mails \ {a} : box'[x] = box[x]
    BY <1>1, <1>6, <2>1
  <2>3. KbOf(box', Present(box')) = KbOf(box, Present(box)) + Kb(box'[a])
    BY <1>2, <1>6, <2>1, <2>2, SumWith
  <2>4. SizeOf \in [Mails -> Nat]  OBVIOUS
  <2>5. KbOf(SizeOf, {a}) = Kb(SizeOf[a])  BY <1>6, <2>4, OneMail
  <2>6. QED  BY <1>3, <1>6, <2>1, <2>2, <2>3, <2>5 DEF Target, Sum
<1>7. CASE a \notin Mails
  <2>1. op[a].done \in SUBSET Present(box)  BY <1>0, <1>7 DEF DeletersInv
  <2>2. \A x \in Mails : box'[x] = IF x \in op[a].done THEN 0 ELSE box[x]
    BY <1>1, <1>7
  <2>3. KbOf(box', Present(box')) = KbOf(box, Present(box)) - KbOf(box, op[a].done)
    BY <1>2, <2>1, <2>2, SumWithout
  <2>4. QED  BY <1>3, <1>7, <2>3 DEF Target, Sum
<1>8. QED  BY <1>5, <1>6, <1>7

LEMMA CommitSafe ==
  ASSUME TypeOK, TypeOK', Safe, NEW a \in Actors, Commit(a)
  PROVE  Safe'
<1> USE DEF Actors
<1>0. Held /\ SendersInv /\ DeletersInv /\ Ranged /\ CounterClose /\ Ahead /\ Fits /\ Warned
  BY DEF Safe
<1> DEFINE p == IF a \in Mails THEN "end" ELSE IF a \in Pops THEN "quit" ELSE "ready"
<1>1. /\ mailsize' = mailsize /\ slack' = slack /\ over' = over /\ late' = late
      /\ lock' = {} /\ op[a].pc = "locked"
      /\ op' = [op EXCEPT ![a] = [Idle EXCEPT !.pc = p]]
      /\ box' = [m \in Mails |-> IF m \notin op[a].done THEN box[m]
                                 ELSE IF a = m THEN SizeOf[m] ELSE 0]
  BY DEF Commit
<1>2. lock = {a}  BY <1>0, <1>1 DEF Held
<1>3. op \in [Actors -> [pc : {"idle", "ready", "locked", "quit", "hung", "end"},
                         todo : SUBSET Mails, done : SUBSET Mails]]
  BY DEF TypeOK
<1>4. Moves(a, p, {}, {})  BY <1>1, <1>3 DEF Moves, Idle
<1>5. Exits(a)  BY <1>1, <1>2, <1>4 DEF Exits
<1>6. /\ Held' /\ Fits' /\ Ahead'
      /\ \A b \in Actors : op'[b].todo = {} /\ op'[b].done = {}
  BY <1>5, ExitsSafe
<1>7. SendersInv'
  <2>1. ASSUME NEW m \in Mails, op'[m].pc # "end" PROVE box'[m] = 0
    <3>1. m # a /\ op[m].pc # "end"  BY <1>4, <2>1 DEF Moves
    <3>2. box[m] = 0  BY <1>0, <3>1 DEF SendersInv
    <3>3. QED  BY <1>1, <3>1, <3>2
  <2>2. QED  BY <1>6, <2>1 DEF SendersInv
<1>8. DeletersInv'  BY <1>6 DEF DeletersInv
<1>9. Ranged'  BY <1>0, <1>1 DEF Ranged
<1>10. CounterClose'
  <2>1. ~over => mailsize = -2 \/ mailsize - Target(a) \in -slack .. slack
    BY <1>0, <1>2 DEF Ahead
  <2>2. QED  BY <1>1, <2>1, CommitSum DEF CounterClose
<1>11. Warned'  BY <1>0, <1>1, <1>4 DEF Warned, Moves
<1>12. QED  BY <1>6, <1>7, <1>8, <1>9, <1>10, <1>11, SafeNext

LEMMA DieSafe ==
  ASSUME TypeOK, TypeOK', Safe, NEW a \in Actors, Die(a)
  PROVE  Safe'
<1> USE DEF Actors
<1>0. Held /\ SendersInv /\ DeletersInv /\ Ranged /\ CounterClose /\ Ahead /\ Fits /\ Warned
  BY DEF Safe
<1> DEFINE p == IF a \in Mails THEN "end" ELSE "idle"
           K == KbOf(IF a \in Mails THEN SizeOf ELSE box, op[a].done)
<1>1. /\ box' = box /\ mailsize' = mailsize /\ over' = over /\ late' = late
      /\ lock = {a} /\ lock' = {} /\ slack' = slack + K
      /\ op' = [op EXCEPT ![a] = [Idle EXCEPT !.pc = p]]
  BY DEF Die
<1>2. op \in [Actors -> [pc : {"idle", "ready", "locked", "quit", "hung", "end"},
                         todo : SUBSET Mails, done : SUBSET Mails]]
  BY DEF TypeOK
<1>3. Moves(a, p, {}, {})  BY <1>1, <1>2 DEF Moves, Idle
<1>4. Exits(a)  BY <1>1, <1>3 DEF Exits
<1>5. /\ Held' /\ Fits' /\ Ahead'
      /\ \A b \in Actors : op'[b].todo = {} /\ op'[b].done = {}
  BY <1>4, ExitsSafe
<1>6. SendersInv'
  <2>1. ASSUME NEW m \in Mails, op'[m].pc # "end" PROVE box'[m] = 0
    <3>1. m # a /\ op[m].pc # "end"  BY <1>3, <2>1 DEF Moves
    <3>2. QED  BY <1>0, <1>1, <3>1 DEF SendersInv
  <2>2. QED  BY <1>5, <2>1 DEF SendersInv
<1>7. DeletersInv'  BY <1>5 DEF DeletersInv
<1>8. Ranged'  BY <1>0, <1>1 DEF Ranged
<1>9. CounterClose'
  <2>1. ~over => mailsize = -2 \/ mailsize - Target(a) \in -slack .. slack
    BY <1>0, <1>1 DEF Ahead
  <2>2. K \in Nat
    <3>1. SizeOf \in [Mails -> Nat] /\ box \in [Mails -> Nat]  BY DEF TypeOK
    <3>2. QED  BY <1>2, <3>1, Finite
  <2>3. Target(a) = Sum + K \/ Target(a) = Sum - K  BY DEF Target
  <2>4. Sum \in Nat /\ slack \in Nat /\ mailsize \in Int  BY SumIsNat DEF TypeOK
  <2>5. ASSUME mailsize - Target(a) \in -slack .. slack
        PROVE  mailsize - Sum \in -(slack + K) .. (slack + K)
    <3> HIDE DEF K
    <3>1. QED  BY <2>2, <2>3, <2>4, <2>5
  <2>6. Sum' = Sum  BY <1>1, SameSum
  <2>7. ~over' => mailsize' = -2 \/ mailsize' - Sum' \in -slack' .. slack'
    <3> HIDE DEF K
    <3>1. QED  BY <1>1, <2>1, <2>5, <2>6
  <2>8. QED  BY <2>7 DEF CounterClose
<1>10. Warned'  BY <1>0, <1>1, <1>3 DEF Warned, Moves
<1>11. QED  BY <1>5, <1>6, <1>7, <1>8, <1>9, <1>10, SafeNext

\* The arithmetic of DIR_do_editmail.
LEMMA EditClose ==
  ASSUME TypeOK, mailsize \in Nat, NEW m \in Mails, NEW x \in Nat \ {0}, box[m] # 0,
         NEW S \in Nat, S = Sum - Kb(box[m]) + Kb(x),
         NEW t, t = slack + 1 + IF Grown(m, x) > SHRT_MAX THEN Grown(m, x) - SHRT_MAX ELSE 0,
         mailsize - Sum \in -slack .. slack
  PROVE  Edited(m, x) \in Nat /\ Edited(m, x) - S \in -t .. t
<1>1. Sum \in Nat /\ slack \in Nat /\ box[m] \in Nat \ {0}  BY SumIsNat DEF TypeOK
<1> DEFINE w == Whole(x - box[m])
           e == Edited(m, x)
           n == Grown(m, x)
<1>2. w \in Int /\ w - (Kb(x) - Kb(box[m])) \in -1 .. 1  BY <1>1, WholeClose
<1>3. Kb(x) \in Nat /\ Kb(box[m]) \in Nat  BY <1>1, KbIsNat
<1>4. n = mailsize + w  BY DEF Grown
<1>5. e = IF n > SHRT_MAX THEN SHRT_MAX ELSE IF n < 0 THEN 0 ELSE n  BY DEF Edited
<1>6. t = slack + 1 + IF n > SHRT_MAX THEN n - SHRT_MAX ELSE 0  OBVIOUS
<1>7. SHRT_MAX \in Nat  OBVIOUS
<1> HIDE DEF w, e, n
<1>8. n \in Int /\ n - S \in -(slack + 1) .. (slack + 1)
  BY <1>1, <1>2, <1>3, <1>4
<1>9. e \in Nat /\ e - S \in -t .. t
  <2>1. CASE n > SHRT_MAX  BY <1>1, <1>5, <1>6, <1>7, <1>8, <2>1
  <2>2. CASE n <= SHRT_MAX /\ n < 0  BY <1>1, <1>5, <1>6, <1>7, <1>8, <2>2
  <2>3. CASE n <= SHRT_MAX /\ n >= 0  BY <1>1, <1>5, <1>6, <1>7, <1>8, <2>3
  <2>4. QED  BY <1>7, <1>8, <2>1, <2>2, <2>3
<1>10. QED  BY <1>9 DEF e

LEMMA EditSafe ==
  ASSUME TypeOK, TypeOK', Safe, NEW s \in Sessions, NEW m \in Mails, NEW x \in Sizes,
         Edit(s, m, x)
  PROVE  Safe'
<1> USE DEF Actors
<1>0. Held /\ SendersInv /\ DeletersInv /\ Ranged /\ CounterClose /\ Ahead /\ Fits /\ Warned
  BY DEF Safe
<1>1. op[s].pc = "ready" /\ lock = {} /\ box[m] # 0 /\ late' = late
  BY DEF Edit
<1>2. \A b \in Actors : op[b].todo = {} /\ op[b].done = {}
                        /\ op[b].pc \notin {"locked", "hung"}
  BY <1>0, <1>1 DEF Held
<1>3. op \in [Actors -> [pc : {"idle", "ready", "locked", "quit", "hung", "end"},
                         todo : SUBSET Mails, done : SUBSET Mails]]
      /\ box \in [Mails -> Nat] /\ box' \in [Mails -> Nat]
  BY DEF TypeOK
<1>4. CASE mailsize = -2
  <2>1. /\ op' = [op EXCEPT ![s].pc = "hung"] /\ lock' = {s}
        /\ box' = box /\ mailsize' = mailsize /\ over' = over /\ slack' = slack
    BY <1>4 DEF Edit, Hang
  <2>2. ASSUME NEW b \in Actors
        PROVE  /\ op'[b].todo = {} /\ op'[b].done = {}
               /\ b # s => op'[b].pc = op[b].pc
               /\ op'[s].pc = "hung"
    BY <1>2, <1>3, <2>1
  <2>3. Held'
    <3>1. ASSUME NEW b \in Actors
          PROVE  /\ op'[b].pc \in {"locked", "hung"} <=> lock' = {b}
                 /\ op'[b].todo = {} /\ op'[b].done = {}
      BY <1>2, <2>1, <2>2
    <3>2. QED  BY <3>1 DEF Held
  <2>4. SendersInv'  BY <1>0, <1>2, <2>1, <2>2 DEF SendersInv
  <2>5. DeletersInv'  BY <2>2 DEF DeletersInv
  <2>6. Ranged' /\ CounterClose' /\ Ahead'
    BY <1>4, <2>1 DEF Ranged, CounterClose, Ahead
  <2>7. Fits'  BY <2>2 DEF Fits
  <2>8. Warned'  BY <1>0, <1>1, <1>4, <2>1, <2>2 DEF Warned
  <2>9. QED  BY <2>3, <2>4, <2>5, <2>6, <2>7, <2>8, SafeNext
<1>5. CASE mailsize # -2
  <2>1. /\ lock' = lock /\ op' = op /\ over' = over /\ mailsize' = Edited(m, x)
        /\ box' = [box EXCEPT ![m] = x]
        /\ slack' = slack + 1 + IF Grown(m, x) > SHRT_MAX THEN Grown(m, x) - SHRT_MAX ELSE 0
    BY <1>5 DEF Edit
  <2>2. Held'  BY <1>0, <2>1 DEF Held
  <2>3. SendersInv'
    <3>1. ASSUME NEW q \in Mails, op[q].pc # "end" PROVE box'[q] = 0
      <4>1. box[q] = 0 /\ q # m  BY <1>0, <1>1, <3>1 DEF SendersInv
      <4>2. QED  BY <1>3, <2>1, <4>1
    <3>2. QED  BY <1>2, <2>1, <3>1 DEF SendersInv
  <2>4. DeletersInv'  BY <1>2, <2>1 DEF DeletersInv
  <2>5. Ahead' /\ Fits'
    <3>1. \A b \in Actors : op'[b].done = {} /\ lock' # {b}  BY <1>1, <1>2, <2>1
    <3>2. QED  BY <3>1 DEF Ahead, Fits
  <2>6. CASE over
    <3>1. over'  BY <2>1, <2>6
    <3>2. Ranged' /\ CounterClose' /\ Warned'  BY <3>1 DEF Ranged, CounterClose, Warned
    <3>3. QED  BY <2>2, <2>3, <2>4, <2>5, <3>2, SafeNext
  <2>7. CASE ~over
    <3>1. mailsize \in Nat  BY <1>0, <1>5, <2>7 DEF Ranged
    <3>2. mailsize - Sum \in -slack .. slack  BY <1>0, <1>1, <1>5, <2>7 DEF CounterClose
    <3>3. x \in Nat \ {0} /\ box'[m] = x /\ \A y \in Mails \ {m} : box'[y] = box[y]
      BY <1>3, <2>1
    <3>4. KbOf(box', Present(box')) = KbOf(box, Present(box)) - Kb(box[m]) + Kb(box'[m])
      <4>1. box'[m] # 0  BY <3>3
      <4> HIDE MailboxAssumption
      <4>2. QED  BY <1>1, <1>3, <3>3, <4>1, SumEdited
    <3>5. Sum' = Sum - Kb(box[m]) + Kb(x)  BY <3>3, <3>4 DEF Sum, Present
    <3>6. Sum' \in Nat
      <4>1. Present(box') \in SUBSET Mails  BY DEF Present
      <4>2. KbOf(box', Present(box')) \in Nat  BY <1>3, <4>1, Finite
      <4>3. QED  BY <4>2 DEF Sum, Present
    <3> DEFINE t == slack + 1 + IF Grown(m, x) > SHRT_MAX THEN Grown(m, x) - SHRT_MAX ELSE 0
               S == Sum - Kb(box[m]) + Kb(x)
    <3>7. Edited(m, x) \in Nat /\ Edited(m, x) - S \in -t .. t
      <4>1. S \in Nat  BY <3>5, <3>6
      <4>2. S = Sum - Kb(box[m]) + Kb(x)
            /\ t = slack + 1 + IF Grown(m, x) > SHRT_MAX THEN Grown(m, x) - SHRT_MAX ELSE 0
        OBVIOUS
      <4> HIDE DEF S, t
      <4>3. QED  BY <1>1, <3>1, <3>2, <3>3, <4>1, <4>2, EditClose
    <3>8. slack' = t /\ Sum' = S /\ mailsize' = Edited(m, x)  BY <2>1, <3>5
    <3>9. Ranged' /\ CounterClose'
      <4> HIDE DEF S, t
      <4>1. QED  BY <3>7, <3>8 DEF Ranged, CounterClose
    <3>10. Warned'
      <4>1. mailsize' # -2  BY <3>7, <3>8
      <4>2. QED  BY <1>0, <1>1, <1>5, <2>1, <4>1 DEF Warned
    <3>11. QED  BY <2>2, <2>3, <2>4, <2>5, <3>9, <3>10, SafeNext
  <2>8. QED  BY <2>6, <2>7
<1>6. QED  BY <1>4, <1>5

LEMMA FixSafe ==
  ASSUME TypeOK, TypeOK', Safe, Fix
  PROVE  Safe'
<1>0. Held /\ SendersInv /\ DeletersInv /\ Ranged /\ CounterClose /\ Ahead /\ Fits /\ Warned
  BY DEF Safe
<1>1. /\ box' = box /\ lock' = lock /\ op' = op /\ slack' = slack /\ over' = over
      /\ mailsize' = -2
      /\ late' = late \cup {a \in Actors : op[a].pc \in {"ready", "locked", "quit"}}
  BY DEF Fix
<1>2. Held' /\ SendersInv'  BY <1>0, <1>1 DEF Held, SendersInv
<1>3. DeletersInv'  BY <1>0, <1>1, SameSum DEF DeletersInv
<1>4. Ranged' /\ CounterClose' /\ Ahead'  BY <1>1 DEF Ranged, CounterClose, Ahead
<1>5. Fits'
  <2>1. Sum' = Sum  BY <1>1, SameSum
  <2>2. QED  BY <1>0, <1>1, <2>1 DEF Fits
<1>6. Warned'  BY <1>0, <1>1 DEF Warned
<1>7. QED  BY <1>2, <1>3, <1>4, <1>5, <1>6, SafeNext

-----------------------------------------------------------------------------
(* Which step is of which kind *)

LEMMA Walking ==
  ASSUME TypeOK, Safe
  PROVE  /\ \A m \in Mails : Send(m) => Walks(m)
         /\ \A s \in Sessions : Check(s) => Walks(s)
         /\ \A p \in Pops : Pass(p) \/ Quit(p) => Walks(p)
         /\ \A s \in Sessions \cup Pops : Leave(s) => Walks(s)
<1> USE DEF Actors
<1>1. op \in [Actors -> [pc : {"idle", "ready", "locked", "quit", "hung", "end"},
                         todo : SUBSET Mails, done : SUBSET Mails]]
  BY DEF TypeOK
<1>2. ASSUME NEW a \in Actors, op[a].pc \in {"idle", "ready", "quit"},
             NEW p \in {"idle", "ready", "quit"}, op' = [op EXCEPT ![a].pc = p]
      PROVE  Moves(a, p, {}, {})
  <2>1. op[a].todo = {} /\ op[a].done = {}  BY <1>2 DEF Safe, Held
  <2>2. QED  BY <1>1, <1>2, <2>1 DEF Moves
<1>3. ASSUME NEW m \in Mails, Send(m) PROVE Walks(m)
  <2>1. Moves(m, "ready", {}, {})  BY <1>2, <1>3 DEF Send
  <2>2. QED  BY <1>3, <2>1 DEF Send, Walks
<1>4. ASSUME NEW s \in Sessions, Check(s) PROVE Walks(s)
  <2>1. Moves(s, "ready", {}, {})  BY <1>2, <1>4 DEF Check
  <2>2. QED  BY <1>4, <2>1 DEF Check, Walks
<1>5. ASSUME NEW p \in Pops, Pass(p) PROVE Walks(p)
  <2>1. Moves(p, "ready", {}, {})  BY <1>2, <1>5 DEF Pass
  <2>2. QED  BY <1>5, <2>1 DEF Pass, Walks
<1>6. ASSUME NEW p \in Pops, Quit(p) PROVE Walks(p)
  <2>1. op[p].pc = "ready" /\ op' = [op EXCEPT ![p].pc = "quit"]  BY <1>6 DEF Quit
  <2>2. Moves(p, "quit", {}, {})  BY <1>2, <2>1
  <2>3. box' = box /\ lock' = lock /\ Uncounted /\ late' = late  BY <1>6 DEF Quit, Uncounted
  <2>4. p \notin Mails  OBVIOUS
  <2>5. QED  BY <2>1, <2>2, <2>3, <2>4 DEF Walks
<1>7. ASSUME NEW s \in Sessions \cup Pops, Leave(s) PROVE Walks(s)
  <2>1. op[s].pc \in {"ready", "quit"} /\ op' = [op EXCEPT ![s] = Idle]  BY <1>7 DEF Leave
  <2>2. Moves(s, "idle", {}, {})  BY <1>1, <2>1 DEF Moves, Idle
  <2>3. box' = box /\ lock' = lock /\ Uncounted /\ late' = late
    BY <1>7 DEF Leave, Uncounted
  <2>4. QED  BY <2>1, <2>2, <2>3 DEF Walks
<1>8. QED  BY <1>3, <1>4, <1>5, <1>6, <1>7

LEMMA Entering ==
  ASSUME TypeOK, Safe
  PROVE  /\ \A m \in Mails : Deliver(m) => Enters(m)
         /\ \A s \in Sessions, M \in SUBSET Mails : Delete(s, M) => Enters(s)
         /\ \A p \in Pops, m \in Mails : QuitNext(p, m) => Enters(p)
<1> USE DEF Actors
<1>1. op \in [Actors -> [pc : {"idle", "ready", "locked", "quit", "hung", "end"},
                         todo : SUBSET Mails, done : SUBSET Mails]]
  BY DEF TypeOK
<1>2. ASSUME NEW a \in Actors, NEW T \in SUBSET Mails,
             op' = [op EXCEPT ![a] = [pc |-> "locked", todo |-> T, done |-> {}]]
      PROVE  Moves(a, "locked", T, {})
  BY <1>1, <1>2 DEF Moves
<1>3. ASSUME NEW m \in Mails, Deliver(m) PROVE Enters(m)
  <2>1. {m} \in SUBSET Mails /\ m \in Actors  OBVIOUS
  <2>2. op[m].pc = "ready" /\ Lock(m, {m})  BY <1>3 DEF Deliver
  <2>3. Moves(m, "locked", {m}, {})  BY <1>2, <2>1, <2>2 DEF Lock
  <2>4. box' = box /\ Uncounted /\ late' = late /\ lock = {} /\ lock' = {m}
    BY <2>2 DEF Lock, Uncounted
  <2>5. QED  BY <2>1, <2>2, <2>3, <2>4 DEF Enters
<1>4. ASSUME NEW s \in Sessions, NEW M \in SUBSET Mails, Delete(s, M) PROVE Enters(s)
  <2> DEFINE T == M \cap Present(box)
  <2>1. T \in SUBSET Mails /\ T \subseteq Present(box) /\ s \in Actors /\ s \notin Mails
    OBVIOUS
  <2>2. op[s].pc = "ready" /\ Lock(s, T)  BY <1>4 DEF Delete
  <2> HIDE DEF T
  <2>3. Moves(s, "locked", T, {})  BY <1>2, <2>1, <2>2 DEF Lock
  <2>4. box' = box /\ Uncounted /\ late' = late /\ lock = {} /\ lock' = {s}
    BY <2>2 DEF Lock, Uncounted
  <2>5. QED  BY <2>1, <2>2, <2>3, <2>4 DEF Enters
<1>5. ASSUME NEW p \in Pops, NEW m \in Mails, QuitNext(p, m) PROVE Enters(p)
  <2> DEFINE T == {m} \cap Present(box)
  <2>1. T \in SUBSET Mails /\ T \subseteq Present(box) /\ p \in Actors /\ p \notin Mails
    OBVIOUS
  <2>2. op[p].pc = "quit" /\ op' = [op EXCEPT ![p] = [pc |-> "locked", todo |-> T, done |-> {}]]
    BY <1>5 DEF QuitNext
  <2> HIDE DEF T
  <2>3. Moves(p, "locked", T, {})  BY <1>2, <2>1, <2>2
  <2>4. box' = box /\ Uncounted /\ late' = late /\ lock = {} /\ lock' = {p}
    BY <1>5 DEF QuitNext, Uncounted
  <2>5. QED  BY <2>1, <2>2, <2>3, <2>4 DEF Enters
<1>6. QED  BY <1>3, <1>4, <1>5

\* A step the invariant does not see.
LEMMA UnseenSafe ==
  ASSUME Safe, box' = box, lock' = lock, op' = op, Uncounted, late' = late
  PROVE  Safe'
<1>0. Held /\ SendersInv /\ DeletersInv /\ Ranged /\ CounterClose /\ Ahead /\ Fits /\ Warned
  BY DEF Safe
<1>1. mailsize' = mailsize /\ slack' = slack /\ over' = over  BY DEF Uncounted
<1>2. Sum' = Sum /\ Present(box)' = Present(box) /\ \A a \in Actors : Target(a)' = Target(a)
  BY SameSum
<1>3. Held' /\ SendersInv'  BY <1>0 DEF Held, SendersInv
<1>4. DeletersInv' /\ Ranged'  BY <1>0, <1>1, <1>2 DEF DeletersInv, Ranged
<1>5. CounterClose' /\ Ahead'  BY <1>0, <1>1, <1>2 DEF CounterClose, Ahead
<1>6. Fits' /\ Warned'  BY <1>0, <1>1, <1>2 DEF Fits, Warned
<1>7. QED  BY <1>3, <1>4, <1>5, <1>6, SafeNext

LEMMA InitSafe == Init => Safe
<1> SUFFICES ASSUME Init PROVE Safe  OBVIOUS
<1>1. /\ box = [m \in Mails |-> 0] /\ mailsize = 0 /\ lock = {} /\ slack = 0
      /\ \A a \in Actors : op[a].pc = "idle" /\ op[a].todo = {} /\ op[a].done = {}
  BY DEF Init, Idle
<1>2. Present(box) = {}  BY <1>1 DEF Present
<1>3. Sum = 0  BY <1>2, NoMail DEF Sum
<1>4. Held /\ SendersInv /\ DeletersInv  BY <1>1 DEF Held, SendersInv, DeletersInv, Actors
<1>5. Ranged /\ CounterClose /\ Ahead  BY <1>1, <1>3 DEF Ranged, CounterClose, Ahead
<1>6. Fits /\ Warned  BY <1>1 DEF Fits, Warned, Actors
<1>7. QED  BY <1>4, <1>5, <1>6 DEF Safe

LEMMA NextSafe == TypeOK /\ TypeOK' /\ Safe /\ [Next]_vars => Safe'
<1> SUFFICES ASSUME TypeOK, TypeOK', Safe, [Next]_vars PROVE Safe'  OBVIOUS
<1> USE DEF Actors
<1>1. ASSUME NEW m \in Mails, Send(m) \/ Deliver(m) \/ Refuse(m) PROVE Safe'
  BY <1>1, Walking, WalksSafe, Entering, EntersSafe, RefuseSafe
<1>2. ASSUME NEW s \in Sessions, Check(s) PROVE Safe'
  BY <1>2, Walking, WalksSafe
<1>3. ASSUME NEW s \in Sessions, NEW M \in SUBSET Mails, Delete(s, M) PROVE Safe'
  BY <1>3, Entering, EntersSafe
<1>4. ASSUME NEW s \in Sessions, NEW m \in Mails, NEW x \in Sizes, Edit(s, m, x) PROVE Safe'
  BY <1>4, EditSafe
<1>5. ASSUME NEW p \in Pops, Pass(p) \/ Quit(p) PROVE Safe'
  BY <1>5, Walking, WalksSafe
<1>6. ASSUME NEW p \in Pops, NEW m \in Mails, QuitNext(p, m) PROVE Safe'
  BY <1>6, Entering, EntersSafe
<1>7. ASSUME NEW p \in Pops, Rset(p) \/ \E m \in Mails : Dele(p, m) PROVE Safe'
  <2>1. box' = box /\ lock' = lock /\ op' = op /\ Uncounted /\ late' = late
    BY <1>7 DEF Rset, Dele, Uncounted
  <2>2. QED  BY <2>1, UnseenSafe
<1>8. ASSUME NEW a \in Actors, Count(a) \/ Commit(a) \/ Die(a) PROVE Safe'
  BY <1>8, CountSafe, CommitSafe, DieSafe
<1>9. ASSUME NEW s \in Sessions \cup Pops, Leave(s) PROVE Safe'
  BY <1>9, Walking, WalksSafe
<1>10. CASE Fix  BY <1>10, FixSafe
<1>11. CASE UNCHANGED vars
  <2>1. box' = box /\ lock' = lock /\ op' = op /\ Uncounted /\ late' = late
    BY <1>11 DEF vars, Uncounted
  <2>2. QED  BY <2>1, UnseenSafe
<1>12. QED
  BY <1>1, <1>2, <1>3, <1>4, <1>5, <1>6, <1>7, <1>8, <1>9, <1>10, <1>11 DEF Next

LEMMA AlwaysSafe == Spec => []Safe
<1>1. Spec => []TypeOK  BY TypeCorrect
<1>2. QED  BY <1>1, InitSafe, NextSafe, PTL DEF Spec

-----------------------------------------------------------------------------
(* The theorems *)

\* get_mailsize, update_mailsize_up, update_mailsize_down and DIR_do_editmail keep the
\* counter within slack of the mailbox for any number of mails, sessions, edits and deaths.
THEOREM CounterCorrect == Spec => []CounterClose
<1>1. Safe => CounterClose  BY DEF Safe
<1>2. QED  BY <1>1, AlwaysSafe, PTL

\* Nobody waits for its own lock but an actor fixmailsize overtook, or in a mailbox that has
\* been too large: every locked section is entered with a counter that has been checked.
THEOREM WaitsExcused == Spec => []NoSelfWait
<1>1. Safe => NoSelfWait  BY DEF Safe, Warned, NoSelfWait
<1>2. QED  BY <1>1, AlwaysSafe, PTL

\* update_mailsize_up lets no mail but the system's into a full mailbox, whatever is deleted,
\* edited, recounted or killed between its check and the end of append_dir_callback.
THEOREM QuotaCorrect == Spec => QuotaKept
<1>1. TypeOK /\ TypeOK' /\ Safe /\ [Next]_vars =>
        [\A m \in Mails \ System :
           box[m] = 0 /\ box'[m] # 0 /\ ~over => Sum' <= MaxSize + slack]_vars
  <2> SUFFICES ASSUME TypeOK, TypeOK', Safe, [Next]_vars,
                      NEW m \in Mails \ System, box[m] = 0, box'[m] # 0, ~over
               PROVE  Sum' <= MaxSize + slack
    OBVIOUS
  <2> USE DEF Actors
  <2>1. ASSUME NEW a \in Actors, Commit(a) PROVE Sum' <= MaxSize + slack
    <3>1. box' = [q \in Mails |-> IF q \notin op[a].done THEN box[q]
                                  ELSE IF a = q THEN SizeOf[q] ELSE 0]
      BY <2>1 DEF Commit
    <3>2. a = m /\ m \in op[m].done  BY <3>1
    <3>3. op[m].done = {m}  BY <3>2 DEF Safe, SendersInv
    <3>4. Sum' = Sum + KbOf(SizeOf, {m})  BY <2>1, <3>2, <3>3, CommitSum DEF Target
    <3>5. KbOf(SizeOf, {m}) = Kb(SizeOf[m])
      <4>1. SizeOf \in [Mails -> Nat]  OBVIOUS
      <4>2. QED  BY <4>1, OneMail
    <3>6. Sum + Kb(SizeOf[m]) <= MaxSize + slack  BY <3>2 DEF Safe, Fits
    <3>7. QED  BY <3>4, <3>5, <3>6
  <2>2. ASSUME NEW s \in Sessions, NEW q \in Mails, NEW x \in Sizes, Edit(s, q, x)
        PROVE  FALSE
    <3>1. box[q] # 0 /\ (box' = box \/ box' = [box EXCEPT ![q] = x])  BY <2>2 DEF Edit
    <3>2. box \in [Mails -> Nat]  BY DEF TypeOK
    <3>3. QED  BY <3>1, <3>2
  <2>3. box' # box  OBVIOUS
  <2>4. QED
    BY <2>1, <2>2, <2>3
    DEF Next, vars, Send, Deliver, Lock, Refuse, Check, Delete, Pass, Dele, Rset, Quit,
        QuitNext, Leave, Count, Die, Fix
<1>2. Spec => []TypeOK  BY TypeCorrect
<1>3. QED  BY <1>1, <1>2, AlwaysSafe, PTL DEF Spec, QuotaKept
=============================================================================
