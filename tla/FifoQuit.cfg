CONSTANTS
  Clients = {c1, c2}
  Single = {c2}
  Commands = {"QUIT"}
  Signums = {}
  MAX_REQUESTS = 1
  MAX_SIGNALS = 0
  MAX_BOOTS = 1
SPECIFICATION FairSpec
PROPERTY QuitExits
CHECK_DEADLOCK FALSE
