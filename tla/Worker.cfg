CONSTANTS
  None = None
  Slots = {s1}
  Workers = {w1, w2}
  Launches = {l1, l2, l3}
  RestartLimit = 1
SPECIFICATION Spec
VIEW View
SYMMETRY Symmetry
INVARIANTS
  TypeOK
  Managed
  ServedRunIsOpen
  StoppedSlotIsClosed
PROPERTIES
  ImplementsSlotLife
CHECK_DEADLOCK FALSE
