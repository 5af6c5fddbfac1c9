SPECIFICATION Spec
CONSTANTS
  r1 = r1
  r2 = r2
  s1 = s1
  s2 = s2
  s3 = s3
  a = a
  b = b
  c1 = c1
  c2 = c2
  c3 = c3
  Steps = {s1, s2}
  Sessions = {a, b}
  Runs = {r1}
  Callers = {c1, c2, c3}
  RunOf <- OneRun
  Sess <- Shared
  After <- NoAfter
  Rank <- Declared
  Workflows <- MCWorkflows
  Limit = 1
  MaxNow = 0
  MaxLimits = 0
  MaxFaults = 1
  MaxShutdowns = 0
  MaxCrashes = 1
SYMMETRY CallerSymmetry
INVARIANTS
  TypeOK
  MemoryIsALog
  NoWorkOutlives
PROPERTIES
  DecidedStays
  LogsKeepTheirPromise
  FailureStartsNothing
  EndIsAccounted
