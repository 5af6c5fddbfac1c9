SPECIFICATION Spec
CONSTANTS
  r1 = r1
  r2 = r2
  s1 = s1
  s2 = s2
  s3 = s3
  a = a
  b = b
  c1 = c1
  c2 = c2
  c3 = c3
  Steps = {s1}
  Sessions = {a}
  Runs = {r1}
  Callers = {c1, c2}
  RunOf <- OneRun
  Sess <- Shared
  After <- NoAfter
  Rank <- Declared
  Workflows <- MCWorkflows
  Limit = 0
  MaxNow = 0
  MaxLimits = 0
  MaxFaults = 0
  MaxShutdowns = 1
  MaxCrashes = 0
INVARIANTS
  CancelledOnRequest
