\* A message and a broadcast to a telnet session whose user blocks messages, looks at
\* them, or sends some: two of these.
CONSTANTS
  m1 = m1
  m2 = m2
  t1 = t1
  w1 = w1
  Msgs <- TwoMsgs
  Walls <- OneMsg
  Telnets <- OneTelnet
  Webs <- NoWeb
  Nobody = Nobody
  MAXMESSAGE = 0
  MaxClears = 0
  MaxLogins = 1
  MaxCommands = 2
SPECIFICATION FairSpec
INVARIANTS NotForgotten
PROPERTIES ReadAtLast
CHECK_DEADLOCK FALSE
