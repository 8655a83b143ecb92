CONSTANTS
  Clients = {c1, c2}
  Single = {c2}
  Commands = {"WORK", "QUIT", "OTHER"}
  Signums = {"INT", "KILL"}
  MAX_REQUESTS = 2
  MAX_SIGNALS = 2
  MAX_BOOTS = 2
SPECIFICATION FairSpec
INVARIANTS
  TypeOK
  RequestIsSomewhere
  AnswerIsToTheRequest
  WaitsOnlyForTheInterrupted
  NoFifoLeftBehind
  OneMoreRequestAtMost
PROPERTIES
  AnsweredUnlessLost
  StopsWhenTold
CHECK_DEADLOCK FALSE
