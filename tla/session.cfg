SPECIFICATION Spec
CONSTANTS
  x1 = x1
  x2 = x2
  Exchanges = {x1, x2}
  Schema = {x1}
  Asks = FALSE
  Trips = 1
  MaxEntries = 1
  MaxFaults = 1
  Partial = TRUE
  MaxOpens = 2
INVARIANTS
  TypeOK
  EntriesTheirOwn
  RecordedBeforeEnd
  JournalHolds
  CancelledOwesNothing
