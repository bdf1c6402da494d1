CONSTANTS
  None = None
  Hooks = {h1, h2}
  Dests = {d1, d2}
  Sources = {s1}
  MaxTickets = 2
  MaxDay = 3
  TicketDays = 2
  RetentionDays = 1
SPECIFICATION FairSpec
INVARIANTS
  TypeOK
  ConsumedOnce
  ConsumedWasDelivered
PROPERTIES
  ClaimIsExclusive
  ImplementsTicket
  ClaimsReturn
CHECK_DEADLOCK FALSE
