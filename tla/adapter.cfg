SPECIFICATION Spec
CONSTANTS
  RespondTools = {"ra", "rb"}
  Calls <- MCCalls
  Requests <- MCRequests
  Wants <- MCWants
  MaxTroubles = 1
INVARIANTS
  TypeOK
  FilesAreWhole
  OneResponse
  NoStaleTool
  ResponseIsAsked
  LimitIsTheTurns
  TurnIsWhole
  NothingLeft
