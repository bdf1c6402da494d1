SPECIFICATION FairSpec
CONSTANTS
  Slots = {s1, s2}
  Places = {p1}
  Convs = {}
  None = None
PROPERTY RestoreEnds
CHECK_DEADLOCK FALSE
