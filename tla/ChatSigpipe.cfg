CONSTANTS
  Conns = {1, 2, 3}
  Nicks = {n1, n2}
  MAX_CLIENTS = 2
  HISTORY_LINES = 1
  MAX_SENDS = 2
  MAX_DROPS = 1
  NoConn = NoConn
  NoNick = NoNick
  BadNick = BadNick
  NoLine = NoLine
  Lines <- MCLines
  Inputs <- AllInputs
SPECIFICATION Spec
PROPERTY SendFailureIsDropped
CHECK_DEADLOCK FALSE
