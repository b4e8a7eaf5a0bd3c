\* Two boards and the settings in a file with room for five, lists of two times; a telnet
\* session and a web session of one user.
SPECIFICATION Spec
CONSTANTS
  b1 = b1
  b2 = b2
  t1 = t1
  w1 = w1
  INFO = INFO
  None = None
  Boards <- MCBoards
  Times <- MCTimes
  Telnets <- MCTelnets
  Webs <- MCWebs
  BRC_MAXNUM = 2
  MaxSize = 5
  MaxReads = 3
  MaxVisits = 3
SYMMETRY BoardsAlike
INVARIANT TypeOK
PROPERTIES ReadExact SavedAsRead  InfoKept
CHECK_DEADLOCK FALSE
