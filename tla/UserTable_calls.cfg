\* Three processes, users that collide in the hash: registrations, kickouts, deletions,
\* lookups and updates in every order.
CONSTANTS
  MAXUSERS = 3
  UCACHE_HASHSIZE = 1
  MaxRegs = 2
  sysop = sysop
  n1 = n1
  n2 = n2
  noname = noname
  p1 = p1
  p2 = p2
  p3 = p3
  Names <- ThreeNames
  Sysop <- sysop
  NoName <- noname
  Hash <- OneChain
  Procs <- ThreeProcs
SPECIFICATION PromptSpec
INVARIANTS TypeOK ChainsExact UsersumExact CanBoot
PROPERTIES ImplementsDir
SYMMETRY Symmetry
CHECK_DEADLOCK FALSE
