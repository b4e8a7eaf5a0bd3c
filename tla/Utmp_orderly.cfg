\* One telnet process and one web request, no death inside the lock and no
\* stale logout: safety of a telnet session, liveness of utmp_kickidle.
CONSTANTS
  MAXACTIVE = 2
  MAXACTIVERUN = 2
  UTMPHASH_SIZE = 2
  USHRT_MAX = 2
  UIDX = 2
  WwwLimit = 2
  TelnetLimit = 1
  u1 = u1
  guest = guest
  nobody = nobody
  r1 = r1
  r2 = r2
  h1 = h1
  Users <- OneUser
  Guest <- guest
  Nobody <- nobody
  Procs <- OneProc
  Reqs <- OneReq
  Hosts <- OneHost
  TelnetHost <- h1
  RealHash <- Real1
  MaskHash <- MaskOther
SPECIFICATION FairSpec
INVARIANTS TelnetKeepsSlot GuestChainsExact
PROPERTIES IdleIsReclaimed 
CHECK_DEADLOCK FALSE
