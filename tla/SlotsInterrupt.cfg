SPECIFICATION Spec
CONSTANTS
  Slots = {s1, s2}
  Places = {p1}
  Convs = {c1, c2}
  None = None
PROPERTY OthersUndisturbed
CHECK_DEADLOCK FALSE
