SPECIFICATION FairSpec
CONSTANTS
  x1 = x1
  x2 = x2
  Exchanges = {x1, x2}
  Schema = {}
  Asks = TRUE
  Trips = 2
  MaxEntries = 0
  MaxFaults = 1
  Partial = FALSE
  MaxOpens = 1
INVARIANTS
  CancelReachesItsOwn
  EventsTheirOwn
PROPERTIES
  ExchangesEnd
  CancelsEnd
CHECK_DEADLOCK FALSE
