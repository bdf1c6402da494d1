SPECIFICATION Spec
CONSTANTS
  Slots = {s1, s2}
  Places = {p1, p2}
  Convs = {c1, c2}
  None = None
PROPERTY EditKeepsConversation
CHECK_DEADLOCK FALSE
