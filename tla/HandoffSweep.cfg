CONSTANTS
  None = None
  Hooks = {h1, h2}
  Dests = {d1, d2}
  Sources = {s1}
  MaxTickets = 2
  MaxDay = 3
  TicketDays = 2
  RetentionDays = 1
SPECIFICATION Spec
PROPERTY SweepKeepsTickets
CHECK_DEADLOCK FALSE
