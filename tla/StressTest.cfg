\* Steps of 1, 2 and 3 threads; the fourth is one more than the arrays hold.
SPECIFICATION FairSpec
CONSTANTS
  INITIAL = 1
  STEP = 1
  MAX = 4
  MAX_THREADS = 3
  ITERATIONS = 2
  WORD = 4
  MAX_TOGGLES = 2
INVARIANTS
  TypeOK FrameOutlived PauseEatsNoWork RecordsAreFinal
PROPERTIES
  StopEndsTheTest EndsUnlessPaused
CHECK_DEADLOCK FALSE
