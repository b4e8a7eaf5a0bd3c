\* A message and a broadcast are written while a telnet session and a page read, and the
\* user clears his messages once.
CONSTANTS
  m1 = m1
  m2 = m2
  t1 = t1
  w1 = w1
  Msgs <- TwoMsgs
  Walls <- OneMsg
  Telnets <- OneTelnet
  Webs <- OneWeb
  Nobody = Nobody
  MAXMESSAGE = 0
  MaxClears = 1
  MaxLogins = 1
  MaxCommands = 0
SPECIFICATION Spec
INVARIANTS TypeOK NoneSkipped 
CHECK_DEADLOCK FALSE
