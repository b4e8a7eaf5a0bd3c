\* Two articles or more, a session and a web editor, a clock that is set.
CONSTANTS
  MaxNow = 1
  a1 = a1
  a2 = a2
  a3 = a3
  s1 = s1
  s2 = s2
  Arts <- ThreeArts
  Typed <- OneJunk
  Junk <- OneJunk
  Staff <- OneStaff
  Webs <- OneJunk
  Flags <- TwoFlags
  Switched <- OneFlag
SPECIFICATION ByNameSpec
INVARIANTS TypeOK DoublesAreNeighbours HeldIsReached 
 
SYMMETRY Symmetry
CHECK_DEADLOCK FALSE
