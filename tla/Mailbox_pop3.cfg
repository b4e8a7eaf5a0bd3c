\* A POP3 session deletes one of two or three messages.
CONSTANTS
  m1 = m1
  m2 = m2
  m3 = m3
  s1 = s1
  p1 = p1
  Mails <- ThreeMails
  System <- OneMail
  Marked <- OtherMail
  SizeOf <- Sent
  Sizes <- EditSizes
  Unit = 2
  Sessions <- OneSession
  Pops <- OnePop
  MaxSize = 2
  SHRT_MAX = 3
  MaxEdits = 1
  MaxFixes = 1
  MaxDeaths = 1
SPECIFICATION Spec
PROPERTIES OnlyDeleLeaves
CHECK_DEADLOCK FALSE
