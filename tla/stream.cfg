SPECIFICATION Spec
CONSTANTS
  loop = loop
  canceller = canceller
  server = server
  c1 = c1
  Loop = loop
  Canceller = canceller
  Writers = {loop, canceller}
  Process <- OneProcess
  Clients = {c1}
  MaxEvents = 3
  MaxFaults = 1
  MaxLive = 1
  MaxRuns = 2
  MaxConnects = 2
  MaxCrashes = 1
  Homes = {TRUE, FALSE}
INVARIANTS
  TypeOK
  LogIsNumbered
  StreamIsLog
  StopsComplete
  NoEventBetween
  StreamIsFed
  NoLostWake
PROPERTIES
  FileKeepsItsPromise
