\* Two dispatchers send up to four messages through a ring of two slots.
SPECIFICATION FairSpec
CONSTANTS
  p1 = p1
  p2 = p2
  m1 = m1
  m2 = m2
  NoMessage = NoMessage
  Producer = {p1, p2}
  Message = {m1, m2}
  Capacity = 2
  MaxTail = 4
INVARIANTS NoTornMessage
PROPERTIES ImplementsChannel ClaimedIsConsumed SendReturns
