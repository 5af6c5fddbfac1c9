SPECIFICATION Spec
CONSTANTS
  loop = loop
  canceller = canceller
  server = server
  c1 = c1
  Loop = loop
  Canceller = canceller
  Writers = {loop, canceller}
  Process <- OneProcess
  Clients = {c1}
  MaxEvents = 2
  MaxFaults = 1
  MaxLive = 0
  MaxRuns = 2
  MaxConnects = 0
  MaxCrashes = 1
  Homes = {TRUE}
PROPERTIES
  ReportedIsKept
