SPECIFICATION Spec
CONSTANTS
  Tools = {t1, t2}
  Conversations = {c1, c2}
  MaxRuns = 2
  MaxSent = 2
  None = None
INVARIANTS TypeOK ShownIsOfThisRun IdleShowsNothing ResumeIsShown Settled
PROPERTY NoResurrection
SYMMETRY Symmetry
CHECK_DEADLOCK FALSE
