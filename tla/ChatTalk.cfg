CONSTANTS
  Conns = {1, 2}
  Nicks = {n1, n2}
  MAX_CLIENTS = 2
  HISTORY_LINES = 2
  MAX_SENDS = 5
  MAX_DROPS = 1
  NoConn = NoConn
  NoNick = NoNick
  BadNick = BadNick
  NoLine = NoLine
  Lines <- MCLines
  Inputs <- TalkInputs
SPECIFICATION Spec
INVARIANTS
  HistTypeOK
  TranscriptHasNoGap
PROPERTY RefinesRecentLines
SYMMETRY NickSymmetry
CHECK_DEADLOCK FALSE
