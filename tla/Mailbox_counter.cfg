\* Three mails of at most two kilobytes, one of them the system's, in a mailbox for two;
\* a session, a POP3 session, an edit and a fixmailsize.
CONSTANTS
  m1 = m1
  m2 = m2
  m3 = m3
  s1 = s1
  p1 = p1
  Mails <- ThreeMails
  System <- OneMail
  Marked <- OtherMail
  SizeOf <- Sent
  Sizes <- EditSizes
  Unit = 2
  Sessions <- OneSession
  Pops <- OnePop
  MaxSize = 2
  SHRT_MAX = 3
  MaxEdits = 1
  MaxFixes = 1
  MaxDeaths = 1
SPECIFICATION Spec
INVARIANTS TypeOK  NoSelfWait
 
CHECK_DEADLOCK FALSE
