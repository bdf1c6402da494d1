SPECIFICATION Spec
CONSTANTS
  Slots = {s1, s2}
  Places = {p1, p2}
  Convs = {c1}
  None = None
INVARIANTS TypeOK WorkerIsWanted ResumeInPlace TalksInItsConversation
SYMMETRY Symmetry
CHECK_DEADLOCK FALSE
