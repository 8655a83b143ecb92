CONSTANTS
  Conns = {1, 2, 3}
  Nicks = {n1, n2}
  MAX_CLIENTS = 2
  HISTORY_LINES = 1
  MAX_SENDS = 3
  MAX_DROPS = 2
  NoConn = NoConn
  NoNick = NoNick
  BadNick = BadNick
  NoLine = NoLine
  Lines <- MCLines
  Inputs <- RoomInputs
SPECIFICATION Spec
INVARIANTS
  TypeOK
  NicksUnique
  OneSlotPerConnection
  AckComesFirst
  PrivateToTheTwo
  NoticesAgree
CHECK_DEADLOCK FALSE
