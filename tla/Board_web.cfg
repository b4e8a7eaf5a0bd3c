\* As Board_files, with deletions from the web.
CONSTANTS
  MaxNow = 1
  a1 = a1
  a2 = a2
  a3 = a3
  s1 = s1
  s2 = s2
  Arts <- ThreeArts
  Typed <- OneJunk
  Junk <- OneJunk
  Staff <- OneStaff
  Webs <- OneJunk
  Flags <- TwoFlags
  Switched <- OneFlag
SPECIFICATION Spec
PROPERTIES OnlyNamedIsDeleted
CHECK_DEADLOCK FALSE
