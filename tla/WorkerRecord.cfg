CONSTANTS
  None = None
  Slots = {s1}
  Workers = {w1}
  Launches = {l1, l2}
  RestartLimit = 1
SPECIFICATION Spec
INVARIANT StoppedSlotHasNoRecord
CHECK_DEADLOCK FALSE
