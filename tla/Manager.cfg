\* Two workers, three rounds.
SPECIFICATION FairSpec
CONSTANTS
  NUM_WORKERS = 2
  ROUNDS = 3
INVARIANTS
  TypeOK OneThreadPerSlot JoinedOnce WaitsForTheDying
PROPERTIES
  FailureNoticed Halts
CHECK_DEADLOCK FALSE
