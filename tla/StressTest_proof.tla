--------------------------- MODULE StressTest_proof ---------------------------
(***************************************************************************)
(* The stress test, for any numbers of threads, steps and iterations: type *)
(* correctness, no thread that outlives its frame, records of ended        *)
(* threads, and work that pauses do not change.                            *)
(***************************************************************************)
EXTENDS StressTest, FiniteSetTheorems, SequenceTheorems, TLAPS

InFrame == mpc \in {"create", "join", "joining", "collect", "copy"}

(* Where main is, and the bounds of its indices there.                     *)
Place ==
  /\ step \in Nat \ {0} /\ step <= current_threads
  /\ InFrame => /\ frame = step /\ step <= MAX
                /\ current_threads <= MAX_THREADS /\ k <= current_threads
  /\ ~InFrame => frame = 0
  /\ mpc = "joining" => k < current_threads
  /\ mpc = "delay" => step <= MAX /\ current_threads <= MAX_THREADS

(* The threads that were not created yet.                                  *)
Future(t) ==
  \/ t[1] > step
  \/ t[1] = step /\ mpc \in {"steps", "stats", "exit"}
  \/ t[1] = step /\ (t[2] >= current_threads \/ (mpc = "create" /\ t[2] >= k))

Created == \A t \in Threads : Future(t) => tpc[t] = "none"

(* The threads that main has waited for.                                   *)
Joins(t) ==
  \/ t[1] < step
  \/ t[1] = step /\ mpc \in {"join", "joining"} /\ t[2] < k
  \/ t[1] = step /\ mpc \in {"collect", "copy", "delay"}

Ended ==
  \A t \in Threads :
    /\ g_running /\ Joins(t) => tpc[t] \in {"none", "done"}
    /\ g_running /\ Joins(t) /\ t[1] = step /\ t[2] < current_threads => tpc[t] = "done"
    /\ InFrame /\ t[1] # step => tpc[t] \in {"none", "done"}

(* The frame's flags are those of its threads.                             *)
Flags ==
  InFrame => \A j \in 0 .. current_threads - 1 :
               ~is_active[j] <=> tpc[<<step, j>>] = "done"

(* A thread's work is its counter.                                         *)
Counters ==
  \A t \in Threads :
    /\ ti[t] \in 0 .. ITERATIONS /\ work[t] = ti[t]
    /\ tpc[t] = "none" => ti[t] = 0
    /\ tpc[t] = "body" => ti[t] < ITERATIONS
    /\ tpc[t] \in {"finish", "done"} /\ g_running => ti[t] = ITERATIONS

(* The threads whose entries were copied, and those that were counted.     *)
Copied(t) ==
  \/ t[1] < step
  \/ t[1] = step /\ ((mpc = "copy" /\ t[2] < k) \/ mpc = "delay")
Counted(t) == t[1] < step \/ (t[1] = step /\ mpc \in {"copy", "delay"})

FalseRecords == {r \in DOMAIN recorded : ~recorded[r]}
TrueRecords == {r \in DOMAIN recorded : recorded[r]}
DoneCopied == {t \in Threads : tpc[t] = "done" /\ Copied(t)}
DoneCounted == {t \in Threads : tpc[t] = "done" /\ Counted(t)}

Records ==
  /\ g_running => TrueRecords = {}
  /\ Cardinality(FalseRecords) <= Cardinality(DoneCopied)

Totals == g_running => total_iterations = Cardinality(DoneCounted) * ITERATIONS

Core == TypeOK /\ Place /\ Created /\ Ended /\ Flags /\ Counters

Inv == Core /\ Records /\ Totals
------------------------------------------------------------------------------
(* What % does to the values the counter takes.                            *)
LEMMA ModSmall == ASSUME NEW m \in Nat \ {0}, NEW x \in 0 .. m - 1
                  PROVE  x % m = x
  OBVIOUS

LEMMA ModSelf == ASSUME NEW m \in Nat \ {0}
                 PROVE  m % m = 0
  OBVIOUS

LEMMA ModMinusOne == ASSUME NEW m \in Nat \ {0}
                     PROVE  (0 - 1) % m = m - 1
  OBVIOUS

LEMMA NextStepCore ==
  ASSUME Core, NextStep
  PROVE  Core'
  <1> USE StressAssumption DEF Core, Indices, InFrame
  <1>1. TypeOK'
    BY DEF TypeOK, Place, NextStep, mainVars, threadVars, signalVars
  <1>2. Place'
    BY DEF TypeOK, Place, NextStep, mainVars, threadVars, signalVars
  <1>3. Created'
    BY DEF TypeOK, Place, Created, Future, Threads, Steps, NextStep, mainVars, threadVars, signalVars
  <1>4. Ended'
    BY DEF TypeOK, Place, Created, Future, Ended, Joins, Threads, Steps, NextStep, mainVars, threadVars, signalVars
  <1>5. Flags'
    <2> SUFFICES ASSUME NEW j \in 0 .. current_threads' - 1
                 PROVE  is_active'[j] /\ tpc'[<<step', j>>] # "done"
      BY DEF Flags
    <2>1. j \in Indices /\ j < current_threads
      BY DEF NextStep, TypeOK
    <2>2. is_active'[j]
      BY <2>1 DEF NextStep
    <2>3. tpc[<<step, j>>] = "none"
      BY <2>1 DEF NextStep, Place, Created, Future, Threads, Steps, TypeOK
    <2>4. QED
      BY <2>2, <2>3 DEF NextStep, threadVars
  <1>6. Counters'
    BY DEF TypeOK, Place, Created, Future, Counters, Threads, Steps, NextStep, mainVars, threadVars, signalVars
  <1>7. QED
    BY <1>1, <1>2, <1>3, <1>4, <1>5, <1>6

LEMMA NoNextStepCore ==
  ASSUME Core, NoNextStep
  PROVE  Core'
  <1> USE StressAssumption DEF Core, Indices, InFrame
  <1>1. TypeOK'
    BY DEF TypeOK, Place, NoNextStep, mainVars, threadVars, signalVars
  <1>2. Place'
    BY DEF TypeOK, Place, NoNextStep, mainVars, threadVars, signalVars
  <1>3. Created'
    BY DEF TypeOK, Place, Created, Future, Threads, Steps, NoNextStep, mainVars, threadVars, signalVars
  <1>4. Ended'
    BY DEF TypeOK, Place, Created, Future, Ended, Joins, Threads, Steps, NoNextStep, mainVars, threadVars, signalVars
  <1>5. Flags'
    BY DEF TypeOK, Place, Created, Future, Ended, Joins, Flags, Threads, Steps, NoNextStep, mainVars, threadVars, signalVars
  <1>6. Counters'
    BY DEF TypeOK, Place, Created, Future, Counters, Threads, Steps, NoNextStep, mainVars, threadVars, signalVars
  <1>7. QED
    BY <1>1, <1>2, <1>3, <1>4, <1>5, <1>6

LEMMA CreateCore ==
  ASSUME Core, Create
  PROVE  Core'
  <1> USE StressAssumption DEF Core, Indices, InFrame
  <1>1. TypeOK'
    <2>1. k' \in 0 .. MAX_THREADS
      BY DEF TypeOK, Place, Create
    <2>2. tpc' \in [Threads -> {"none", "test", "body", "finish", "done"}]
      BY DEF TypeOK, Create
    <2>3. QED
      BY <2>1, <2>2 DEF TypeOK, Create, signalVars
  <1>2. Place'
    BY DEF TypeOK, Place, Create, mainVars, threadVars, signalVars
  <1>3. Created'
    BY DEF TypeOK, Place, Created, Future, Threads, Steps, Create, mainVars, threadVars, signalVars
  <1>4. Ended'
    BY DEF TypeOK, Place, Created, Future, Ended, Joins, Threads, Steps, Create, mainVars, threadVars, signalVars
  <1>5. Flags'
    <2> SUFFICES ASSUME NEW j \in 0 .. current_threads - 1
                 PROVE  ~is_active[j] <=> tpc'[<<step, j>>] = "done"
      BY DEF Flags, Create
    <2>1. /\ mpc = "create" /\ step \in Steps /\ current_threads <= MAX_THREADS
          /\ k \in 0 .. current_threads - 1
      BY DEF Create, Place, TypeOK, Steps
    <2>2. <<step, j>> \in Threads /\ <<step, k>> \in Threads
      BY <2>1 DEF TypeOK, Threads
    <2>3. tpc[<<step, k>>] = "none"
      BY <2>1, <2>2 DEF Created, Future
    <2>4. ~is_active[j] <=> tpc[<<step, j>>] = "done"
      BY <2>1 DEF Flags
    <2>5. tpc'[<<step, j>>] = IF j = k THEN "test" ELSE tpc[<<step, j>>]
      BY <2>1, <2>2 DEF Create, TypeOK
    <2>6. QED
      BY <2>3, <2>4, <2>5
  <1>6. Counters'
    BY DEF TypeOK, Place, Created, Future, Counters, Threads, Steps, Create, mainVars, threadVars, signalVars
  <1>7. QED
    BY <1>1, <1>2, <1>3, <1>4, <1>5, <1>6

LEMMA CreateFailsCore ==
  ASSUME Core, CreateFails
  PROVE  Core'
  <1> USE StressAssumption DEF Core, Indices, InFrame
  <1>1. TypeOK'
    <2>1. k' \in 0 .. MAX_THREADS
      BY DEF CreateFails
    <2>2. g_running' \in BOOLEAN
      BY DEF CreateFails
    <2>3. QED
      BY <2>1, <2>2 DEF TypeOK, CreateFails, threadVars, signalVars
  <1>2. Place'
    BY DEF TypeOK, Place, CreateFails, mainVars, threadVars, signalVars
  <1>3. Created'
    BY DEF TypeOK, Place, Created, Future, Threads, Steps, CreateFails, mainVars, threadVars, signalVars
  <1>4. Ended'
    BY DEF TypeOK, Place, Created, Future, Ended, Joins, Threads, Steps, CreateFails, mainVars, threadVars, signalVars
  <1>5. Flags'
    BY DEF TypeOK, Place, Created, Future, Ended, Joins, Flags, Threads, Steps, CreateFails, mainVars, threadVars, signalVars
  <1>6. Counters'
    BY DEF TypeOK, Place, Created, Future, Counters, Threads, Steps, CreateFails, mainVars, threadVars, signalVars
  <1>7. QED
    BY <1>1, <1>2, <1>3, <1>4, <1>5, <1>6

LEMMA CreatedAllCore ==
  ASSUME Core, CreatedAll
  PROVE  Core'
  <1> USE StressAssumption DEF Core, Indices, InFrame
  <1>1. TypeOK'
    BY DEF TypeOK, Place, CreatedAll, mainVars, threadVars, signalVars
  <1>2. Place'
    BY DEF TypeOK, Place, CreatedAll, mainVars, threadVars, signalVars
  <1>3. Created'
    BY DEF TypeOK, Place, Created, Future, Threads, Steps, CreatedAll, mainVars, threadVars, signalVars
  <1>4. Ended'
    BY DEF TypeOK, Place, Created, Future, Ended, Joins, Threads, Steps, CreatedAll, mainVars, threadVars, signalVars
  <1>5. Flags'
    BY DEF TypeOK, Place, Created, Future, Ended, Joins, Flags, Threads, Steps, CreatedAll, mainVars, threadVars, signalVars
  <1>6. Counters'
    BY DEF TypeOK, Place, Created, Future, Counters, Threads, Steps, CreatedAll, mainVars, threadVars, signalVars
  <1>7. QED
    BY <1>1, <1>2, <1>3, <1>4, <1>5, <1>6

LEMMA JoinNextCore ==
  ASSUME Core, JoinNext
  PROVE  Core'
  <1> USE StressAssumption DEF Core, Indices, InFrame
  <1>1. TypeOK'
    BY DEF TypeOK, Place, JoinNext, JoinsGoOn, mainVars, threadVars, signalVars
  <1>2. Place'
    BY DEF TypeOK, Place, JoinNext, JoinsGoOn, mainVars, threadVars, signalVars
  <1>3. Created'
    BY DEF TypeOK, Place, Created, Future, Threads, Steps, JoinNext, JoinsGoOn, mainVars, threadVars, signalVars
  <1>4. Ended'
    BY DEF TypeOK, Place, Created, Future, Ended, Joins, Threads, Steps, JoinNext, JoinsGoOn, mainVars, threadVars, signalVars
  <1>5. Flags'
    BY DEF TypeOK, Place, Created, Future, Ended, Joins, Flags, Threads, Steps, JoinNext, JoinsGoOn, mainVars, threadVars, signalVars
  <1>6. Counters'
    BY DEF TypeOK, Place, Created, Future, Counters, Threads, Steps, JoinNext, JoinsGoOn, mainVars, threadVars, signalVars
  <1>7. QED
    BY <1>1, <1>2, <1>3, <1>4, <1>5, <1>6

LEMMA JoinedCore ==
  ASSUME Core, Joined
  PROVE  Core'
  <1> USE StressAssumption DEF Core, Indices, InFrame
  <1>1. TypeOK'
    BY DEF TypeOK, Place, Joined, mainVars, threadVars, signalVars
  <1>2. Place'
    BY DEF TypeOK, Place, Joined, mainVars, threadVars, signalVars
  <1>3. Created'
    BY DEF TypeOK, Place, Created, Future, Threads, Steps, Joined, mainVars, threadVars, signalVars
  <1>4. Ended'
    <2> SUFFICES ASSUME NEW t \in Threads
                 PROVE  /\ g_running /\ Joins(t)' => tpc[t] \in {"none", "done"}
                        /\ g_running /\ Joins(t)' /\ t[1] = step /\ t[2] < current_threads
                             => tpc[t] = "done"
                        /\ t[1] # step => tpc[t] \in {"none", "done"}
      BY DEF Ended, Joined, threadVars
    <2>1. t = <<t[1], t[2]>> /\ t[2] \in Indices
      BY DEF Threads
    <2>2. ASSUME Joins(t)' PROVE Joins(t) \/ t = <<step, k>>
      <3>1. t[1] < step \/ (t[1] = step /\ t[2] < k + 1)
        BY <2>2 DEF Joined, Joins
      <3>2. t[2] \in Int /\ k \in Int
        BY <2>1 DEF TypeOK
      <3>3. QED
        <4>1. t[2] < k + 1 => t[2] < k \/ t[2] = k
          BY <3>2
        <4>2. QED
          BY <2>1, <3>1, <4>1 DEF Joined, Joins
    <2>3. QED
      BY <2>2 DEF Ended, Joined
  <1>5. Flags'
    BY DEF TypeOK, Place, Created, Future, Ended, Joins, Flags, Threads, Steps, Joined, mainVars, threadVars, signalVars
  <1>6. Counters'
    BY DEF TypeOK, Place, Created, Future, Counters, Threads, Steps, Joined, mainVars, threadVars, signalVars
  <1>7. QED
    BY <1>1, <1>2, <1>3, <1>4, <1>5, <1>6

LEMMA CollectCore ==
  ASSUME Core, Collect
  PROVE  Core'
  <1> USE StressAssumption DEF Core, Indices, InFrame
  <1>1. TypeOK'
    <2>1. current_threads * ITERATIONS \in Nat
      BY DEF TypeOK
    <2>2. total_iterations' \in Nat
      <3>1. total_iterations \in Nat /\ Planned \in Nat
        BY <2>1 DEF TypeOK, Planned
      <3>2. total_iterations' = total_iterations + Planned
        BY DEF Collect
      <3>3. QED
        BY <3>1, <3>2
    <2>3. k' \in 0 .. MAX_THREADS
      BY DEF Collect
    <2>4. QED
      BY <2>2, <2>3 DEF TypeOK, Collect, threadVars, signalVars
  <1>2. Place'
    BY DEF TypeOK, Place, Collect, Planned, mainVars, threadVars, signalVars
  <1>3. Created'
    BY DEF TypeOK, Place, Created, Future, Threads, Steps, Collect, Planned, mainVars, threadVars, signalVars
  <1>4. Ended'
    BY DEF TypeOK, Place, Created, Future, Ended, Joins, Threads, Steps, Collect, Planned, mainVars, threadVars, signalVars
  <1>5. Flags'
    BY DEF TypeOK, Place, Created, Future, Ended, Joins, Flags, Threads, Steps, Collect, Planned, mainVars, threadVars, signalVars
  <1>6. Counters'
    BY DEF TypeOK, Place, Created, Future, Counters, Threads, Steps, Collect, Planned, mainVars, threadVars, signalVars
  <1>7. QED
    BY <1>1, <1>2, <1>3, <1>4, <1>5, <1>6

LEMMA CopyCore ==
  ASSUME Core, Copy
  PROVE  Core'
  <1> USE StressAssumption DEF Core, Indices, InFrame
  <1>1. TypeOK'
    <2>1. k' \in 0 .. MAX_THREADS /\ is_active[k] \in BOOLEAN
      BY DEF TypeOK, Place, Copy
    <2>2. recorded' \in Seq(BOOLEAN) /\ Len(recorded') <= MAX_THREADS
      <3>1. CASE HasRoom
        <4>1. recorded' = Append(recorded, is_active[k])
          BY <3>1 DEF Copy
        <4>2. QED
          BY <2>1, <3>1, <4>1 DEF TypeOK, HasRoom
      <3>2. CASE ~HasRoom
        BY <3>2 DEF TypeOK, Copy
      <3>3. QED
        BY <3>1, <3>2
    <2>3. QED
      BY <2>1, <2>2 DEF TypeOK, Copy, threadVars, signalVars
  <1>2. Place'
    BY DEF TypeOK, Place, Copy, HasRoom, mainVars, threadVars, signalVars
  <1>3. Created'
    BY DEF TypeOK, Place, Created, Future, Threads, Steps, Copy, HasRoom, mainVars, threadVars, signalVars
  <1>4. Ended'
    BY DEF TypeOK, Place, Created, Future, Ended, Joins, Threads, Steps, Copy, HasRoom, mainVars, threadVars, signalVars
  <1>5. Flags'
    BY DEF TypeOK, Place, Created, Future, Ended, Joins, Flags, Threads, Steps, Copy, HasRoom, mainVars, threadVars, signalVars
  <1>6. Counters'
    BY DEF TypeOK, Place, Created, Future, Counters, Threads, Steps, Copy, HasRoom, mainVars, threadVars, signalVars
  <1>7. QED
    BY <1>1, <1>2, <1>3, <1>4, <1>5, <1>6

LEMMA ReturnCore ==
  ASSUME Core, Return
  PROVE  Core'
  <1> USE StressAssumption DEF Core, Indices, InFrame
  <1>1. TypeOK'
    BY DEF TypeOK, Place, Return, mainVars, threadVars, signalVars
  <1>2. Place'
    BY DEF TypeOK, Place, Return, mainVars, threadVars, signalVars
  <1>3. Created'
    BY DEF TypeOK, Place, Created, Future, Threads, Steps, Return, mainVars, threadVars, signalVars
  <1>4. Ended'
    BY DEF TypeOK, Place, Created, Future, Ended, Joins, Threads, Steps, Return, mainVars, threadVars, signalVars
  <1>5. Flags'
    BY DEF TypeOK, Place, Created, Future, Ended, Joins, Flags, Threads, Steps, Return, mainVars, threadVars, signalVars
  <1>6. Counters'
    BY DEF TypeOK, Place, Created, Future, Counters, Threads, Steps, Return, mainVars, threadVars, signalVars
  <1>7. QED
    BY <1>1, <1>2, <1>3, <1>4, <1>5, <1>6

LEMMA DelayCore ==
  ASSUME Core, Delay
  PROVE  Core'
  <1> USE StressAssumption DEF Core, Indices, InFrame
  <1>1. TypeOK'
    BY DEF TypeOK, Place, Delay, mainVars, threadVars, signalVars
  <1>2. Place'
    BY DEF TypeOK, Place, Delay, mainVars, threadVars, signalVars
  <1>3. Created'
    BY DEF TypeOK, Place, Created, Future, Threads, Steps, Delay, mainVars, threadVars, signalVars
  <1>4. Ended'
    BY DEF TypeOK, Place, Created, Future, Ended, Joins, Threads, Steps, Delay, mainVars, threadVars, signalVars
  <1>5. Flags'
    BY DEF TypeOK, Place, Created, Future, Ended, Joins, Flags, Threads, Steps, Delay, mainVars, threadVars, signalVars
  <1>6. Counters'
    BY DEF TypeOK, Place, Created, Future, Counters, Threads, Steps, Delay, mainVars, threadVars, signalVars
  <1>7. QED
    BY <1>1, <1>2, <1>3, <1>4, <1>5, <1>6

LEMMA FinishCore ==
  ASSUME Core, Finish
  PROVE  Core'
  <1> USE StressAssumption DEF Core, Indices, InFrame
  <1>1. TypeOK'
    BY DEF TypeOK, Place, Finish, mainVars, threadVars, signalVars
  <1>2. Place'
    BY DEF TypeOK, Place, Finish, mainVars, threadVars, signalVars
  <1>3. Created'
    BY DEF TypeOK, Place, Created, Future, Threads, Steps, Finish, mainVars, threadVars, signalVars
  <1>4. Ended'
    BY DEF TypeOK, Place, Created, Future, Ended, Joins, Threads, Steps, Finish, mainVars, threadVars, signalVars
  <1>5. Flags'
    BY DEF TypeOK, Place, Created, Future, Ended, Joins, Flags, Threads, Steps, Finish, mainVars, threadVars, signalVars
  <1>6. Counters'
    BY DEF TypeOK, Place, Created, Future, Counters, Threads, Steps, Finish, mainVars, threadVars, signalVars
  <1>7. QED
    BY <1>1, <1>2, <1>3, <1>4, <1>5, <1>6

LEMMA StopSignalCore ==
  ASSUME Core, StopSignal
  PROVE  Core'
  <1> USE StressAssumption DEF Core, Indices, InFrame
  <1>1. TypeOK'
    BY DEF TypeOK, Place, StopSignal, mainVars, threadVars, signalVars
  <1>2. Place'
    BY DEF TypeOK, Place, StopSignal, mainVars, threadVars, signalVars
  <1>3. Created'
    BY DEF TypeOK, Place, Created, Future, Threads, Steps, StopSignal, mainVars, threadVars, signalVars
  <1>4. Ended'
    BY DEF TypeOK, Place, Created, Future, Ended, Joins, Threads, Steps, StopSignal, mainVars, threadVars, signalVars
  <1>5. Flags'
    BY DEF TypeOK, Place, Created, Future, Ended, Joins, Flags, Threads, Steps, StopSignal, mainVars, threadVars, signalVars
  <1>6. Counters'
    BY DEF TypeOK, Place, Created, Future, Counters, Threads, Steps, StopSignal, mainVars, threadVars, signalVars
  <1>7. QED
    BY <1>1, <1>2, <1>3, <1>4, <1>5, <1>6

LEMMA PauseSignalCore ==
  ASSUME Core, PauseSignal
  PROVE  Core'
  <1> USE StressAssumption DEF Core, Indices, InFrame
  <1>1. TypeOK'
    BY DEF TypeOK, Place, PauseSignal, mainVars, threadVars, signalVars
  <1>2. Place'
    BY DEF TypeOK, Place, PauseSignal, mainVars, threadVars, signalVars
  <1>3. Created'
    BY DEF TypeOK, Place, Created, Future, Threads, Steps, PauseSignal, mainVars, threadVars, signalVars
  <1>4. Ended'
    BY DEF TypeOK, Place, Created, Future, Ended, Joins, Threads, Steps, PauseSignal, mainVars, threadVars, signalVars
  <1>5. Flags'
    BY DEF TypeOK, Place, Created, Future, Ended, Joins, Flags, Threads, Steps, PauseSignal, mainVars, threadVars, signalVars
  <1>6. Counters'
    BY DEF TypeOK, Place, Created, Future, Counters, Threads, Steps, PauseSignal, mainVars, threadVars, signalVars
  <1>7. QED
    BY <1>1, <1>2, <1>3, <1>4, <1>5, <1>6

LEMMA PauseWriteCore ==
  ASSUME Core, PauseWrite
  PROVE  Core'
  <1> USE StressAssumption DEF Core, Indices, InFrame
  <1>1. TypeOK'
    BY DEF TypeOK, Place, PauseWrite, mainVars, threadVars, signalVars
  <1>2. Place'
    BY DEF TypeOK, Place, PauseWrite, mainVars, threadVars, signalVars
  <1>3. Created'
    BY DEF TypeOK, Place, Created, Future, Threads, Steps, PauseWrite, mainVars, threadVars, signalVars
  <1>4. Ended'
    BY DEF TypeOK, Place, Created, Future, Ended, Joins, Threads, Steps, PauseWrite, mainVars, threadVars, signalVars
  <1>5. Flags'
    BY DEF TypeOK, Place, Created, Future, Ended, Joins, Flags, Threads, Steps, PauseWrite, mainVars, threadVars, signalVars
  <1>6. Counters'
    BY DEF TypeOK, Place, Created, Future, Counters, Threads, Steps, PauseWrite, mainVars, threadVars, signalVars
  <1>7. QED
    BY <1>1, <1>2, <1>3, <1>4, <1>5, <1>6

LEMMA LoadTestCore ==
  ASSUME Core, NEW t \in Threads, LoadTest(t)
  PROVE  Core'
  <1> USE StressAssumption DEF Core, Indices, InFrame
  <1>1. TypeOK'
    BY DEF TypeOK, Place, Threads, Counters, LoadTest, Alive, LoadGoesOn, mainVars, threadVars, signalVars
  <1>2. Place'
    BY DEF TypeOK, Place, LoadTest, Alive, LoadGoesOn, mainVars, threadVars, signalVars
  <1>3. Created'
    BY DEF TypeOK, Place, Created, Future, Threads, Steps, LoadTest, Alive, LoadGoesOn, mainVars, threadVars, signalVars
  <1>4. Ended'
    BY DEF TypeOK, Place, Created, Future, Ended, Joins, Threads, Steps, LoadTest, Alive, LoadGoesOn, mainVars, threadVars, signalVars
  <1>5. Flags'
    BY SMTT(30) DEF TypeOK, Place, Created, Future, Ended, Joins, Flags, Threads, Steps, LoadTest, Alive, LoadGoesOn, mainVars, threadVars, signalVars
  <1>6. Counters'
    BY SMTT(30) DEF TypeOK, Place, Created, Future, Counters, Threads, Steps, LoadTest, Alive, LoadGoesOn, mainVars, threadVars, signalVars
  <1>7. QED
    BY <1>1, <1>2, <1>3, <1>4, <1>5, <1>6

(* The i-- of a pause and the i++ of the loop cancel, also at 0.           *)
LEMMA CounterSteps ==
  ASSUME Counters, NEW t \in Threads, ti[t] < ITERATIONS
  PROVE  CounterAfter(t) = IF g_pause THEN ti[t] ELSE ti[t] + 1
  <1> USE StressAssumption
  <1>1. ti[t] \in 0 .. ITERATIONS - 1 /\ WORD \in Nat \ {0} /\ ITERATIONS < WORD
    BY DEF Counters
  <1>2. (ti[t] + 1) % WORD = ti[t] + 1 /\ ti[t] % WORD = ti[t]
    BY <1>1, ModSmall
  <1>3. (((ti[t] - 1) % WORD) + 1) % WORD = ti[t]
    <2>1. CASE ti[t] = 0
      <3>1. (0 - 1) % WORD = WORD - 1
        BY <1>1, ModMinusOne
      <3>2. WORD % WORD = 0
        BY <1>1, ModSelf
      <3>3. QED
        BY <1>1, <2>1, <3>1, <3>2
    <2>2. CASE ti[t] > 0
      <3>1. (ti[t] - 1) % WORD = ti[t] - 1
        BY <1>1, <2>2, ModSmall
      <3>2. QED
        BY <1>1, <1>2, <3>1
    <2>3. QED
      BY <1>1, <2>1, <2>2
  <1>4. QED
    BY <1>2, <1>3 DEF CounterAfter

LEMMA LoadBodyCore ==
  ASSUME Core, NEW t \in Threads, LoadBody(t)
  PROVE  Core'
  <1> USE StressAssumption DEF Core, Indices, InFrame
  <1>0. /\ ti[t] \in 0 .. ITERATIONS - 1 /\ work[t] = ti[t] /\ tpc[t] = "body"
        /\ ti' = [ti EXCEPT ![t] = IF g_pause THEN ti[t] ELSE ti[t] + 1]
        /\ work' = [work EXCEPT ![t] = IF g_pause THEN @ ELSE @ + 1]
        /\ tpc' = [tpc EXCEPT ![t] = "test"]
    <2>1. ti[t] \in 0 .. ITERATIONS - 1 /\ work[t] = ti[t] /\ tpc[t] = "body"
      BY DEF LoadBody, Counters
    <2>2. CounterAfter(t) = IF g_pause THEN ti[t] ELSE ti[t] + 1
      BY <2>1, CounterSteps
    <2>3. QED
      BY <2>1, <2>2 DEF LoadBody
  <1>1. TypeOK'
    <2>1. ti' \in [Threads -> 0 .. WORD - 1] /\ work' \in [Threads -> Nat]
      BY <1>0 DEF TypeOK
    <2>2. tpc' \in [Threads -> {"none", "test", "body", "finish", "done"}]
      BY <1>0 DEF TypeOK
    <2>3. QED
      BY <2>1, <2>2 DEF TypeOK, LoadBody, mainVars, signalVars
  <1>2. Place'
    BY DEF TypeOK, Place, LoadBody, Alive, CounterAfter, mainVars, threadVars, signalVars
  <1>3. Created'
    BY DEF TypeOK, Place, Created, Future, Threads, Steps, LoadBody, Alive, CounterAfter, mainVars, threadVars, signalVars
  <1>4. Ended'
    BY DEF TypeOK, Place, Created, Future, Ended, Joins, Threads, Steps, LoadBody, Alive, CounterAfter, mainVars, threadVars, signalVars
  <1>5. Flags'
    BY SMTT(30) DEF TypeOK, Place, Created, Future, Ended, Joins, Flags, Threads, Steps, LoadBody, Alive, CounterAfter, mainVars, threadVars, signalVars
  <1>6. Counters'
    BY <1>0 DEF TypeOK, Counters, LoadBody
  <1>7. QED
    BY <1>1, <1>2, <1>3, <1>4, <1>5, <1>6

LEMMA LoadFinishCore ==
  ASSUME Core, NEW t \in Threads, LoadFinish(t)
  PROVE  Core'
  <1> USE StressAssumption DEF Core, Indices, InFrame
  <1>1. TypeOK'
    BY DEF TypeOK, Place, Threads, Counters, LoadFinish, Alive, mainVars, threadVars, signalVars
  <1>2. Place'
    BY DEF TypeOK, Place, LoadFinish, Alive, mainVars, threadVars, signalVars
  <1>3. Created'
    BY DEF TypeOK, Place, Created, Future, Threads, Steps, LoadFinish, Alive, mainVars, threadVars, signalVars
  <1>4. Ended'
    BY DEF TypeOK, Place, Created, Future, Ended, Joins, Threads, Steps, LoadFinish, Alive, mainVars, threadVars, signalVars
  <1>5. Flags'
    <2> SUFFICES ASSUME InFrame, NEW j \in 0 .. current_threads - 1
                 PROVE  ~is_active'[j] <=> tpc'[<<step, j>>] = "done"
      BY DEF Flags, LoadFinish, mainVars
    <2>1. /\ t[1] = step /\ t[2] \in Indices /\ t = <<step, t[2]>>
          /\ j \in Indices /\ <<step, j>> \in Threads
      <3>1. t[1] = step
        BY DEF Ended, LoadFinish
      <3>2. QED
        BY <3>1 DEF Place, Threads, Steps, TypeOK
    <2>2. is_active'[j] = IF j = t[2] THEN FALSE ELSE is_active[j]
      BY <2>1 DEF LoadFinish, TypeOK
    <2>3. tpc'[<<step, j>>] = IF j = t[2] THEN "done" ELSE tpc[<<step, j>>]
      BY <2>1 DEF LoadFinish, TypeOK
    <2>4. ~is_active[j] <=> tpc[<<step, j>>] = "done"
      BY DEF Flags
    <2>5. QED
      BY <2>2, <2>3, <2>4
  <1>6. Counters'
    BY DEF TypeOK, Place, Created, Future, Counters, Threads, Steps, LoadFinish, Alive, mainVars, threadVars, signalVars
  <1>7. QED
    BY <1>1, <1>2, <1>3, <1>4, <1>5, <1>6

LEMMA CoreInit == Init => Core
  <1> SUFFICES ASSUME Init PROVE Core
    OBVIOUS
  <1> USE StressAssumption DEF Init
  <1>1. TypeOK
    <2>1. /\ is_active \in [Indices -> BOOLEAN]
          /\ g_running \in BOOLEAN /\ g_pause \in BOOLEAN
      BY Zenon
    <2>2. /\ recorded = <<>> /\ toggling = <<>> /\ <<>> \in Seq(BOOLEAN) /\ Len(<<>>) = 0
          /\ 0 \in 0 .. MAX_THREADS /\ 0 \in 0 .. MAX /\ 0 \in 0 .. WORD - 1
          /\ 0 \in 0 .. MAX_TOGGLES /\ 0 \in Nat /\ INITIAL \in Nat
      OBVIOUS
    <2>3. /\ tpc \in [Threads -> {"none", "test", "body", "finish", "done"}]
          /\ ti \in [Threads -> 0 .. WORD - 1] /\ work \in [Threads -> Nat]
      BY <2>2
    <2>4. QED
      BY <2>1, <2>2, <2>3 DEF TypeOK
  <1>2. Place /\ Flags
    BY DEF Place, Flags, InFrame
  <1>3. Created /\ Ended /\ Counters
    <2>1. \A t \in Threads : tpc[t] = "none" /\ ti[t] = 0 /\ work[t] = 0
      OBVIOUS
    <2>2. QED
      BY <2>1 DEF Created, Ended, Joins, Counters, InFrame
  <1>4. QED
    BY <1>1, <1>2, <1>3 DEF Core

LEMMA CoreStutter == Core /\ UNCHANGED vars => Core'
  BY DEF vars, mainVars, threadVars, signalVars, Core, TypeOK, Place, Created, Future, Ended, Joins,
         Flags, Counters, InFrame

LEMMA CoreStep == Core /\ [Next]_vars => Core'
  <1>1. ASSUME Core, Main PROVE Core'
    BY <1>1, NextStepCore, NoNextStepCore, CreateCore, CreateFailsCore, CreatedAllCore, JoinNextCore,
       JoinedCore, CollectCore, CopyCore, ReturnCore, DelayCore, FinishCore
       DEF Main
  <1>2. ASSUME Core, NEW t \in Threads, Load(t) PROVE Core'
    BY <1>2, LoadTestCore, LoadBodyCore, LoadFinishCore DEF Load
  <1>3. QED
    BY <1>1, <1>2, StopSignalCore, PauseSignalCore, PauseWriteCore, CoreStutter DEF Next
------------------------------------------------------------------------------
(* The sets that are counted here are finite.                              *)
LEMMA ThreadSets ==
  ASSUME NEW S \in SUBSET Threads
  PROVE  IsFiniteSet(S) /\ Cardinality(S) \in Nat
  <1>1. IsFiniteSet(Steps) /\ IsFiniteSet(Indices)
    BY StressAssumption, FS_Interval DEF Steps, Indices
  <1>2. IsFiniteSet(Threads)
    BY <1>1, FS_Product DEF Threads
  <1>3. QED
    BY <1>2, FS_Subset, FS_CardinalityType

LEMMA ThreadSubsets ==
  ASSUME NEW S \in SUBSET Threads, NEW T \in SUBSET S
  PROVE  /\ Cardinality(T) <= Cardinality(S)
         /\ Cardinality(T) \in Nat /\ Cardinality(S) \in Nat
  BY ThreadSets, FS_Subset

LEMMA RecordSets ==
  ASSUME TypeOK
  PROVE  /\ DOMAIN recorded = 1 .. Len(recorded) /\ Len(recorded) \in Nat
         /\ IsFiniteSet(FalseRecords) /\ Cardinality(FalseRecords) \in Nat
  <1>1. DOMAIN recorded = 1 .. Len(recorded) /\ Len(recorded) \in Nat
    BY DEF TypeOK
  <1>2. IsFiniteSet(1 .. Len(recorded))
    BY <1>1, FS_Interval
  <1>3. FalseRecords \in SUBSET (1 .. Len(recorded))
    BY <1>1 DEF FalseRecords
  <1>4. QED
    BY <1>1, <1>2, <1>3, FS_Subset, FS_CardinalityType

(* The test is never started again.                                        *)
LEMMA RunningStays ==
  ASSUME [Next]_vars
  PROVE  g_running' => g_running
  BY Zenon
     DEF Next, Main, NextStep, NoNextStep, Create, CreateFails, CreatedAll, JoinNext, Joined,
         Collect, Copy, Return, Delay, Finish, Load, LoadTest, LoadBody, LoadFinish, StopSignal,
         PauseSignal, PauseWrite, vars

(* A thread that is done stays so, and what was copied stays copied.       *)
LEMMA DoneStays ==
  ASSUME Core, [Next]_vars, NEW t \in Threads
  PROVE  /\ tpc[t] = "done" => tpc'[t] = "done"
         /\ Copied(t) => Copied(t)'
  <1> USE DEF mainVars, threadVars, signalVars
  <1>1. TypeOK /\ Place /\ Created /\ t[1] \in Nat /\ t[2] \in Nat
    BY StressAssumption DEF Core, Threads, Steps, Indices
  <1>2. CASE NextStep
    BY <1>1, <1>2 DEF NextStep, Copied, TypeOK
  <1>3. CASE NoNextStep
    BY <1>1, <1>3 DEF NoNextStep, Copied, TypeOK
  <1>4. CASE Create
    <2>1. <<step, k>> \in Threads /\ tpc[<<step, k>>] = "none"
      BY <1>1, <1>4, StressAssumption
         DEF Create, Place, Created, Future, InFrame, TypeOK, Threads, Steps, Indices
    <2>2. QED
      BY <1>1, <1>4, <2>1 DEF Create, Copied, TypeOK
  <1>5. CASE CreateFails
    BY <1>1, <1>5 DEF CreateFails, Copied, TypeOK
  <1>6. CASE CreatedAll
    BY <1>1, <1>6 DEF CreatedAll, Copied, TypeOK
  <1>7. CASE JoinNext
    BY <1>1, <1>7 DEF JoinNext, Copied, TypeOK
  <1>8. CASE Joined
    BY <1>1, <1>8 DEF Joined, Copied, TypeOK
  <1>9. CASE Collect
    BY <1>1, <1>9 DEF Collect, Copied, TypeOK
  <1>10. CASE Copy
    BY <1>1, <1>10 DEF Copy, Copied, TypeOK
  <1>11. CASE Return
    BY <1>1, <1>11 DEF Return, Copied, TypeOK, Place, InFrame
  <1>12. CASE Delay
    BY <1>1, <1>12 DEF Delay, Copied, TypeOK
  <1>13. CASE Finish
    BY <1>1, <1>13 DEF Finish, Copied, TypeOK
  <1>14. CASE \E u \in Threads : Load(u)
    BY <1>1, <1>14 DEF Load, LoadTest, LoadBody, LoadFinish, Alive, Copied, TypeOK
  <1>15. CASE StopSignal \/ PauseSignal \/ PauseWrite \/ UNCHANGED vars
    BY <1>15 DEF StopSignal, PauseSignal, PauseWrite, vars, Copied
  <1>16. QED
    BY <1>2, <1>3, <1>4, <1>5, <1>6, <1>7, <1>8, <1>9, <1>10, <1>11, <1>12, <1>13, <1>14, <1>15 DEF Next, Main
------------------------------------------------------------------------------
(* The records: only Copy adds one, and then the thread it is about.       *)
LEMMA RecordsInit == Init => Records
  <1> SUFFICES ASSUME Init PROVE Records
    OBVIOUS
  <1>1. TrueRecords = {} /\ FalseRecords = {}
    BY DEF Init, TrueRecords, FalseRecords
  <1>2. DoneCopied \in SUBSET Threads
    BY DEF DoneCopied
  <1>3. Cardinality(DoneCopied) \in Nat
    BY <1>2, ThreadSets
  <1>4. QED
    BY <1>1, <1>3, FS_EmptySet DEF Records

LEMMA CopiedGrows ==
  ASSUME Core, [Next]_vars
  PROVE  /\ DoneCopied \in SUBSET DoneCopied'
         /\ DoneCopied \in SUBSET Threads /\ DoneCopied' \in SUBSET Threads
         /\ Cardinality(DoneCopied) <= Cardinality(DoneCopied')
         /\ Cardinality(DoneCopied) \in Nat /\ Cardinality(DoneCopied') \in Nat
  <1>1. /\ DoneCopied \in SUBSET DoneCopied'
        /\ DoneCopied \in SUBSET Threads /\ DoneCopied' \in SUBSET Threads
    BY DoneStays DEF DoneCopied
  <1>2. QED
    BY <1>1, ThreadSubsets

LEMMA RecordsCopy ==
  ASSUME Core, Records, Copy
  PROVE  Records'
  <1>1. /\ TypeOK /\ mpc = "copy" /\ k \in 0 .. current_threads - 1
        /\ step \in Steps /\ k \in Indices
    <2>1. TypeOK /\ Place /\ mpc = "copy" /\ k < current_threads
      BY DEF Core, Copy
    <2>2. /\ k \in Nat /\ current_threads \in Nat /\ step \in Nat \ {0}
          /\ step <= MAX /\ current_threads <= MAX_THREADS
      BY <2>1 DEF TypeOK, Place, InFrame
    <2>3. QED
      BY <2>1, <2>2, StressAssumption DEF Steps, Indices
  <1>2. <<step, k>> \in Threads
    BY <1>1 DEF Threads
  <1>3. ~is_active[k] <=> tpc[<<step, k>>] = "done"
    BY <1>1 DEF Core, Flags, InFrame
  <1>4. g_running => ~is_active[k]
    <2>1. k < current_threads
      BY DEF Copy
    <2>2. Joins(<<step, k>>)
      BY <1>1 DEF Joins
    <2>3. g_running => tpc[<<step, k>>] = "done"
      BY <1>2, <2>1, <2>2 DEF Core, Ended
    <2>4. QED
      BY <1>3, <2>3
  <1>5. /\ DoneCopied \in SUBSET DoneCopied'
        /\ DoneCopied \in SUBSET Threads /\ DoneCopied' \in SUBSET Threads
        /\ Cardinality(DoneCopied) <= Cardinality(DoneCopied')
        /\ Cardinality(DoneCopied) \in Nat /\ Cardinality(DoneCopied') \in Nat
    BY CopiedGrows DEF Next, Main
  <1>6. CASE recorded' = recorded
    <2>1. FalseRecords' = FalseRecords /\ TrueRecords' = TrueRecords
      BY <1>6 DEF FalseRecords, TrueRecords
    <2>2. Cardinality(FalseRecords) \in Nat
      BY <1>1, RecordSets
    <2>3. Cardinality(FalseRecords') <= Cardinality(DoneCopied')
      BY <1>5, <2>1, <2>2 DEF Records
    <2>4. QED
      BY <2>1, <2>3, Zenon DEF Records, Copy
  <1>7. CASE recorded' = Append(recorded, is_active[k])
    <2> DEFINE r == Len(recorded) + 1
    <2>1. recorded \in Seq(BOOLEAN) /\ is_active[k] \in BOOLEAN
      BY <1>1 DEF TypeOK
    <2>2. /\ DOMAIN recorded' = DOMAIN recorded \cup {r}
          /\ \A q \in DOMAIN recorded : recorded'[q] = recorded[q]
          /\ recorded'[r] = is_active[k] /\ r \notin DOMAIN recorded
      BY <1>7, <2>1
    <2>3. /\ IsFiniteSet(FalseRecords) /\ FalseRecords \subseteq DOMAIN recorded
          /\ Cardinality(FalseRecords) \in Nat
      BY <1>1, RecordSets DEF FalseRecords
    <2>4. CASE is_active[k]
      <3>1. FalseRecords' = FalseRecords
        BY <2>2, <2>4 DEF FalseRecords
      <3>2. Cardinality(FalseRecords') <= Cardinality(DoneCopied')
        BY <1>5, <2>3, <3>1 DEF Records
      <3>3. ~g_running'
        BY <1>4, <2>4, Zenon DEF Copy
      <3>4. QED
        BY <3>2, <3>3 DEF Records
    <2>5. CASE ~is_active[k]
      <3>1. FalseRecords' = FalseRecords \cup {r} /\ TrueRecords' = TrueRecords
        BY <2>2, <2>5 DEF FalseRecords, TrueRecords
      <3>2. Cardinality(FalseRecords') = Cardinality(FalseRecords) + 1
        BY <2>2, <2>3, <3>1, FS_AddElement
      <3>3. <<step, k>> \notin DoneCopied /\ <<step, k>> \in DoneCopied'
        BY <1>1, <1>2, <1>3, <2>5 DEF DoneCopied, Copied, Copy, threadVars, TypeOK
      <3>4. Cardinality(DoneCopied \cup {<<step, k>>}) = Cardinality(DoneCopied) + 1
        BY <1>5, <3>3, ThreadSets, FS_AddElement
      <3>5. DoneCopied \cup {<<step, k>>} \in SUBSET DoneCopied'
        BY <1>5, <3>3
      <3>6. Cardinality(DoneCopied \cup {<<step, k>>}) <= Cardinality(DoneCopied')
        BY <1>5, <3>5, ThreadSubsets
      <3>7. Cardinality(FalseRecords') <= Cardinality(DoneCopied')
        BY <1>5, <2>3, <3>2, <3>4, <3>6 DEF Records
      <3>8. QED
        BY <3>1, <3>7, Zenon DEF Records, Copy
    <2>6. QED
      BY <2>4, <2>5
  <1>8. QED
    BY <1>6, <1>7 DEF Copy

LEMMA RecordsStep ==
  ASSUME Core, Records, [Next]_vars
  PROVE  Records'
  <1>1. CASE recorded' = recorded
    <2>1. FalseRecords' = FalseRecords /\ TrueRecords' = TrueRecords
      BY <1>1 DEF FalseRecords, TrueRecords
    <2>2. g_running => TrueRecords = {}
      BY DEF Records
    <2>3. g_running' => TrueRecords' = {}
      BY <2>1, <2>2, RunningStays, Zenon
    <2>4. Cardinality(FalseRecords) \in Nat
      BY RecordSets DEF Core
    <2>5. Cardinality(FalseRecords') <= Cardinality(DoneCopied')
      BY <2>1, <2>4, CopiedGrows DEF Records
    <2>6. QED
      BY <2>3, <2>5, Zenon DEF Records
  <1>2. CASE Copy
    BY <1>2, RecordsCopy
  <1>3. QED
    BY <1>1, <1>2
       DEF Next, Main, NextStep, NoNextStep, Create, CreateFails, CreatedAll, JoinNext, Joined,
           Collect, Return, Delay, Finish, Load, LoadTest, LoadBody, LoadFinish, StopSignal,
           PauseSignal, PauseWrite, vars, mainVars
------------------------------------------------------------------------------
(* The total: only Collect adds to it, and then the threads of the step,   *)
(* all of which have ended.                                                *)
LEMMA TotalsInit == Init => Totals
  <1> SUFFICES ASSUME Init PROVE Totals
    OBVIOUS
  <1>1. DoneCounted = {} /\ total_iterations = 0
    BY DEF Init, DoneCounted
  <1>2. QED
    BY <1>1, FS_EmptySet, StressAssumption DEF Totals

LEMMA CountedSteady ==
  ASSUME Core, [Next]_vars, ~Collect, NEW t \in Threads
  PROVE  Counted(t)' <=> Counted(t)
  <1> USE DEF mainVars, threadVars, signalVars, Counted
  <1>1. TypeOK /\ t[1] \in Nat
    BY StressAssumption DEF Core, Threads, Steps
  <1>2. CASE Main
    <2>1. CASE NextStep \/ NoNextStep \/ Create \/ CreateFails \/ CreatedAll
      BY <2>1 DEF NextStep, NoNextStep, Create, CreateFails, CreatedAll
    <2>2. CASE JoinNext \/ Joined \/ Copy \/ Return \/ Finish
      BY <2>2 DEF JoinNext, Joined, Copy, Return, Finish
    <2>3. CASE Delay
      BY <1>1, <2>3 DEF Delay, TypeOK
    <2>4. QED
      BY <1>2, <2>1, <2>2, <2>3 DEF Main
  <1>3. CASE \E u \in Threads : Load(u)
    BY <1>3 DEF Load, LoadTest, LoadBody, LoadFinish
  <1>4. CASE StopSignal \/ PauseSignal \/ PauseWrite \/ UNCHANGED vars
    BY <1>4 DEF StopSignal, PauseSignal, PauseWrite, vars
  <1>5. QED
    BY <1>2, <1>3, <1>4 DEF Next

LEMMA DoneAlready ==
  ASSUME Core, [Next]_vars, g_running, NEW t \in Threads, Counted(t), tpc'[t] = "done"
  PROVE  tpc[t] = "done"
  <1>1. /\ TypeOK /\ tpc[t] \in {"none", "done"} /\ t[1] \in Nat
    BY StressAssumption DEF Core, Counted, Joins, Ended, Threads, Steps
  <1>2. CASE Create
    BY <1>1, <1>2 DEF Create, TypeOK
  <1>3. CASE \E u \in Threads : Load(u)
    BY <1>1, <1>3 DEF Load, LoadTest, LoadBody, LoadFinish, TypeOK
  <1>4. CASE UNCHANGED tpc
    BY <1>4
  <1>5. QED
    BY <1>2, <1>3, <1>4
       DEF Next, Main, NextStep, NoNextStep, CreateFails, CreatedAll, JoinNext, Joined, Collect, Copy,
           Return, Delay, Finish, StopSignal, PauseSignal, PauseWrite, vars, threadVars

LEMMA Distributes == \A a, b, c \in Nat : (a + b) * c = a * c + b * c
  OBVIOUS

LEMMA TotalsCollect ==
  ASSUME Core, Totals, Collect
  PROVE  Totals'
  <1> SUFFICES ASSUME g_running
               PROVE  total_iterations' = Cardinality(DoneCounted') * ITERATIONS
    BY DEF Totals, Collect
  <1> DEFINE S == {step} \X (0 .. current_threads - 1)
  <1>1. /\ TypeOK /\ mpc = "collect" /\ mpc' = "copy" /\ step' = step /\ tpc' = tpc
        /\ step \in Steps /\ current_threads \in 0 .. MAX_THREADS
    <2>1. TypeOK /\ Place /\ mpc = "collect"
      BY DEF Core, Collect
    <2>2. step \in Steps /\ current_threads \in 0 .. MAX_THREADS
      BY <2>1 DEF TypeOK, Place, InFrame, Steps
    <2>3. QED
      BY <2>1, <2>2 DEF Collect, threadVars
  <1>2. S \in SUBSET Threads /\ DoneCounted \in SUBSET Threads /\ DoneCounted' \in SUBSET Threads
    BY <1>1, StressAssumption DEF Threads, Indices, DoneCounted
  <1>3. \A t \in Threads : t[1] = step => (tpc[t] = "done" <=> t \in S)
    <2> SUFFICES ASSUME NEW t \in Threads, t[1] = step
                 PROVE  tpc[t] = "done" <=> t \in S
      OBVIOUS
    <2>1. t = <<step, t[2]>> /\ t[2] \in Indices /\ Joins(t)
      BY <1>1 DEF Threads, Joins
    <2>2. t \in S <=> t[2] < current_threads
      BY <1>1, <2>1 DEF Indices
    <2>3. t[2] < current_threads => tpc[t] = "done"
      BY <2>1 DEF Core, Ended
    <2>4. t[2] >= current_threads => tpc[t] = "none"
      BY DEF Core, Created, Future
    <2>5. t[2] < current_threads \/ t[2] >= current_threads
      BY <1>1, <2>1, StressAssumption DEF Indices
    <2>6. QED
      BY <2>2, <2>3, <2>4, <2>5
  <1>4. \A t \in Threads : /\ Counted(t) <=> t[1] < step
                           /\ Counted(t)' <=> t[1] < step \/ t[1] = step
    BY <1>1 DEF Counted
  <1>5. DoneCounted' = DoneCounted \cup S /\ DoneCounted \cap S = {}
    <2>1. \A t \in S : t[1] = step /\ ~(t[1] < step)
      BY <1>1 DEF Steps
    <2>2. S \cap DoneCounted = {} /\ DoneCounted \cup S \subseteq Threads
      BY <1>2, <1>4, <2>1 DEF DoneCounted
    <2>3. ASSUME NEW t \in Threads
          PROVE  t \in DoneCounted' <=> t \in DoneCounted \cup S
      <3>1. t \in DoneCounted' <=> tpc[t] = "done" /\ (t[1] < step \/ t[1] = step)
        BY <1>1 DEF DoneCounted, Counted
      <3>2. t \in DoneCounted <=> tpc[t] = "done" /\ t[1] < step
        BY <1>1 DEF DoneCounted, Counted
      <3>3. tpc[t] = "done" /\ t[1] = step <=> t \in S
        BY <1>3, <2>1
      <3>4. QED
        BY <3>1, <3>2, <3>3
    <2>4. QED
      BY <1>2, <2>2, <2>3
  <1>6. IsFiniteSet(S) /\ Cardinality(S) = current_threads
    <2>1. IsFiniteSet({step}) /\ Cardinality({step}) = 1
      BY FS_Singleton
    <2>2. /\ IsFiniteSet(0 .. current_threads - 1)
          /\ Cardinality(0 .. current_threads - 1) = current_threads
      BY <1>1, FS_Interval
    <2>3. Cardinality(S) = 1 * current_threads
      BY ZenonT(30), <2>1, <2>2, FS_Product
    <2>4. QED
      BY <1>1, <1>2, <2>3, ThreadSets
  <1>7. Cardinality(DoneCounted') = Cardinality(DoneCounted) + current_threads
    <2>1. IsFiniteSet(DoneCounted) /\ Cardinality(DoneCounted) \in Nat
      BY <1>2, ThreadSets
    <2>2. Cardinality(DoneCounted \cup S)
            = Cardinality(DoneCounted) + Cardinality(S) - Cardinality(DoneCounted \cap S)
      BY <1>6, <2>1, FS_Union
    <2>3. Cardinality(DoneCounted \cap S) = 0
      BY <1>5, FS_EmptySet
    <2>4. QED
      BY <1>1, <1>5, <1>6, <2>1, <2>2, <2>3
  <1>8. total_iterations' = Cardinality(DoneCounted) * ITERATIONS + current_threads * ITERATIONS
    BY DEF Totals, Collect, Planned
  <1>9. QED
    BY <1>1, <1>2, <1>7, <1>8, ThreadSets, Distributes, StressAssumption

LEMMA TotalsStep ==
  ASSUME Core, Totals, [Next]_vars
  PROVE  Totals'
  <1>1. CASE Collect
    BY <1>1, TotalsCollect
  <1>2. CASE ~Collect /\ g_running'
    <2>1. g_running
      BY <1>2, RunningStays
    <2>2. total_iterations' = total_iterations
      BY <1>2
         DEF Next, Main, NextStep, NoNextStep, Create, CreateFails, CreatedAll, JoinNext, Joined, Copy,
             Return, Delay, Finish, Load, LoadTest, LoadBody, LoadFinish, StopSignal, PauseSignal,
             PauseWrite, vars, mainVars
    <2>3. \A t \in Threads :
            tpc'[t] = "done" /\ Counted(t)' <=> tpc[t] = "done" /\ Counted(t)
      BY <1>2, <2>1, CountedSteady, DoneAlready, DoneStays
    <2>4. DoneCounted' = DoneCounted
      BY <2>3 DEF DoneCounted
    <2>5. QED
      BY <2>1, <2>2, <2>4 DEF Totals
  <1>3. CASE ~g_running'
    BY <1>3 DEF Totals
  <1>4. QED
    BY <1>1, <1>2, <1>3
------------------------------------------------------------------------------
(* The invariant holds in every reachable state: the program starts in it, *)
(* and every step of main, of a thread and of a handler keeps it.          *)
THEOREM InvHolds == Spec => []Inv
  <1>1. Init => Inv
    BY CoreInit, RecordsInit, TotalsInit DEF Inv
  <1>2. Inv /\ [Next]_vars => Inv'
    BY CoreStep, RecordsStep, TotalsStep DEF Inv
  <1>3. QED
    BY <1>1, <1>2, PTL DEF Spec

(* Type correctness: main's indices stay within the arrays, the number of  *)
(* records within MAX_THREADS, the counters within their width.            *)
THEOREM TypeCorrect == Spec => []TypeOK
  <1>1. Inv => TypeOK
    BY DEF Inv, Core
  <1>2. QED
    BY <1>1, InvHolds, PTL

(* As long as the test runs no thread outlives the call of run_load_step   *)
(* whose frame it writes to.                                               *)
THEOREM NoFrameOutlived == Spec => []FrameOutlived
  <1>1. Inv => FrameOutlived
    <2> SUFFICES ASSUME Inv, g_running, NEW t \in Threads, Alive(t)
                 PROVE  frame = t[1]
      BY DEF FrameOutlived
    <2>1. Place /\ Created /\ Ended /\ tpc[t] \notin {"none", "done"} /\ TypeOK
      BY DEF Inv, Core, Alive
    <2>2. ~Future(t) /\ ~Joins(t) /\ t[1] \in Nat /\ step \in Nat
      BY <2>1, StressAssumption DEF Created, Ended, Threads, Steps, TypeOK
    <2>3. t[1] = step
      BY <2>2 DEF Future, Joins
    <2>4. mpc \notin {"steps", "stats", "exit", "delay"}
      BY <2>2, <2>3 DEF Future, Joins
    <2>5. InFrame
      BY <2>1, <2>4 DEF InFrame, TypeOK
    <2>6. QED
      BY <2>1, <2>3, <2>5 DEF Place
  <1>2. QED
    BY <1>1, InvHolds, PTL

(* Pauses change no work: each thread that ends does its iterations, and   *)
(* what the total adds up, by plan, is the work that was done.             *)
THEOREM PausesAreHarmless == Spec => []PauseEatsNoWork
  <1>1. Inv => PauseEatsNoWork
    <2> SUFFICES ASSUME Inv PROVE PauseEatsNoWork
      OBVIOUS
    <2>1. TypeOK /\ Place /\ Created /\ Ended /\ Counters /\ Totals
      BY DEF Inv, Core
    <2>2. ASSUME NEW t \in Threads
          PROVE  /\ work[t] <= ITERATIONS
                 /\ tpc[t] = "done" /\ g_running => work[t] = ITERATIONS
      BY <2>1, StressAssumption DEF Counters
    <2>3. ASSUME g_running, mpc = "stats"
          PROVE  total_iterations = WorkDone
      <3> DEFINE Done == {t \in Threads : tpc[t] = "done"}
                 W == {w \in Threads \X (1 .. ITERATIONS) : w[2] <= work[w[1]]}
      <3>1. \A t \in Threads : /\ tpc[t] \in {"none", "done"}
                               /\ tpc[t] = "done" => t[1] < step
        <4> SUFFICES ASSUME NEW t \in Threads
                     PROVE  /\ tpc[t] \in {"none", "done"}
                            /\ tpc[t] = "done" => t[1] < step
          OBVIOUS
        <4>1. t[1] \in Nat /\ step \in Nat
          BY <2>1, StressAssumption DEF Threads, Steps, TypeOK
        <4>2. CASE t[1] < step
          BY <2>1, <2>3, <4>2 DEF Ended, Joins
        <4>3. CASE t[1] >= step
          BY <2>1, <2>3, <4>1, <4>3 DEF Created, Future
        <4>4. QED
          BY <4>1, <4>2, <4>3
      <3>2. DoneCounted = Done
        BY <3>1 DEF DoneCounted, Counted
      <3>3. \A t \in Threads : work[t] = IF t \in Done THEN ITERATIONS ELSE 0
        <4>1. ASSUME NEW t \in Threads
              PROVE  work[t] = IF tpc[t] = "done" THEN ITERATIONS ELSE 0
          <5>1. CASE tpc[t] = "done"
            BY <2>2, <2>3, <5>1
          <5>2. CASE tpc[t] = "none"
            BY <2>1, <5>2 DEF Counters
          <5>3. tpc[t] \in {"none", "done"}
            BY <3>1
          <5>4. QED
            BY <5>1, <5>2, <5>3
        <4>2. QED
          BY <4>1
      <3>4. W = Done \X (1 .. ITERATIONS)
        <4>1. \A t \in Threads, n \in 1 .. ITERATIONS : n <= work[t] <=> t \in Done
          BY <3>3, StressAssumption
        <4>2. QED
          BY <4>1
      <3>5. IsFiniteSet(Done) /\ Cardinality(Done) \in Nat
        BY ThreadSets
      <3>6. IsFiniteSet(1 .. ITERATIONS) /\ Cardinality(1 .. ITERATIONS) = ITERATIONS
        BY FS_Interval, StressAssumption
      <3>7. Cardinality(W) = Cardinality(Done) * ITERATIONS
        BY <3>4, <3>5, <3>6, FS_Product
      <3>8. QED
        BY <2>1, <2>3, <3>2, <3>7 DEF Totals, WorkDone
    <2>4. QED
      BY <2>2, <2>3 DEF PauseEatsNoWork
  <1>2. QED
    BY <1>1, InvHolds, PTL

(* What print_stats reports of a thread is what its thread was when it     *)
(* ended, unless the test was stopped; no thread is reported as ended that *)
(* had not.                                                                *)
THEOREM RecordedInTheEnd == Spec => []RecordsAreFinal
  <1>1. Inv => RecordsAreFinal
    <2> SUFFICES ASSUME Inv PROVE RecordsAreFinal
      OBVIOUS
    <2> DEFINE Done == {t \in Threads : tpc[t] = "done"}
    <2>1. DoneCopied \in SUBSET Done /\ Done \in SUBSET Threads
      BY DEF DoneCopied
    <2>2. Cardinality(DoneCopied) <= Cardinality(Done)
      BY <2>1, ThreadSubsets
    <2>3. /\ Cardinality(DoneCopied) \in Nat /\ Cardinality(Done) \in Nat
          /\ Cardinality(FalseRecords) \in Nat
      BY <2>1, ThreadSubsets, RecordSets DEF Inv, Core
    <2>4. Cardinality(FalseRecords) <= Cardinality(Done)
      BY <2>2, <2>3 DEF Inv, Records
    <2>5. g_running => \A r \in DOMAIN recorded : ~recorded[r]
      BY Zenon DEF Inv, Records, TrueRecords
    <2>6. QED
      BY <2>4, <2>5 DEF RecordsAreFinal, FalseRecords
  <1>2. QED
    BY <1>1, InvHolds, PTL
==============================================================================
