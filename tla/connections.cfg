SPECIFICATION FairSpec
CONSTANTS
  Clients = {c1}
  MaxConnections = 2
  MaxAttempts = 3
  Stories <- Troubles
CHECK_DEADLOCK FALSE
INVARIANTS OneConnection StaysClosed ClosedServerIsEmpty
PROPERTIES ClientCloses ServerCloses SlotsReturn
