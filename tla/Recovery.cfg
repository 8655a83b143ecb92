\* Two numbers, two successors, three signals.
SPECIFICATION Spec
CONSTANTS
  MAX_COUNT = 2
  MAX_FORKS = 2
  MAX_SIGNALS = 3
INVARIANTS
  TypeOK OneSuccessor EachNumberLogged
CHECK_DEADLOCK FALSE
