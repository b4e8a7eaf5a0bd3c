\* Two telnet processes and web logins of the same user, a slot that may
\* never be used (MAXACTIVERUN < MAXACTIVE): deaths, SIGHUP, unlocked clears.
CONSTANTS
  MAXACTIVE = 3
  MAXACTIVERUN = 2
  UTMPHASH_SIZE = 1
  USHRT_MAX = 3
  UIDX = 2
  WwwLimit = 2
  TelnetLimit = 1
  u1 = u1
  guest = guest
  nobody = nobody
  r1 = r1
  r2 = r2
  h1 = h1
  Users <- OneUser
  Guest <- guest
  Nobody <- nobody
  Procs <- TwoProcs
  Reqs <- NoReqs
  Hosts <- OneHost
  TelnetHost <- h1
  RealHash <- Real1
  MaskHash <- Mask
SPECIFICATION Spec
INVARIANTS FreeListExact UIndexSound
CHECK_DEADLOCK FALSE
