\* Two concurrent web requests, registered users and guests, no telnet: logouts,
\* kicks and releases in every order.  Requests are interchangeable.
CONSTANTS
  MAXACTIVE = 2
  MAXACTIVERUN = 2
  UTMPHASH_SIZE = 1
  USHRT_MAX = 2
  UIDX = 2
  WwwLimit = 2
  TelnetLimit = 1
  u1 = u1
  guest = guest
  nobody = nobody
  r1 = r1
  r2 = r2
  h1 = h1
  Users <- OneUser
  Guest <- guest
  Nobody <- nobody
  Procs <- NoProcs
  Reqs <- TwoReqs
  Hosts <- OneHost
  TelnetHost <- h1
  RealHash <- Real1
  MaskHash <- Mask
SPECIFICATION Spec
INVARIANTS TypeOK FreeListExact ActiveUserExact
SYMMETRY Symmetry
CHECK_DEADLOCK FALSE
