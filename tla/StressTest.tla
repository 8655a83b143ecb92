------------------------------ MODULE StressTest ------------------------------
(***************************************************************************)
(* The stress test (LabWork_5/stress_test.c): main runs steps of more and  *)
(* more threads, each step in a call of run_load_step whose frame holds    *)
(* the threads' statistics; SIGINT and SIGTERM stop the test, SIGUSR1      *)
(* switches the pause.  The handlers are persistent (_DEFAULT_SOURCE), run *)
(* on any thread, and block only their own signal on that thread.          *)
(*                                                                         *)
(* The three loads have one control and differ in what an iteration        *)
(* computes, which is left out.                                            *)
(***************************************************************************)
EXTENDS Integers, Sequences, FiniteSets

CONSTANTS
  INITIAL, STEP, MAX,  \* initial_threads, step_threads, max_threads
  MAX_THREADS,         \* length of the arrays
  ITERATIONS,          \* iterations_per_thread
  WORD,                \* the counters count modulo this (2^64)
  MAX_TOGGLES          \* bound: SIGUSR1s received

ASSUME StressAssumption ==
  /\ INITIAL \in Nat \ {0} /\ STEP \in Nat \ {0} /\ MAX \in Nat
  /\ MAX_THREADS \in Nat \ {0}
  /\ ITERATIONS \in Nat /\ WORD \in Nat /\ ITERATIONS < WORD
  /\ MAX_TOGGLES \in Nat

Steps == 1 .. MAX
Indices == 0 .. MAX_THREADS - 1
Threads == Steps \X Indices     \* the i-th thread of a step

VARIABLES
  g_running, g_pause,
  (* main *)
  mpc,
  step, current_threads,
  k,              \* the i of the loops of run_load_step
  frame,          \* the step whose call of run_load_step is live, or 0
  (* run_load_step's stats[], at the same place of the stack in every call *)
  is_active,
  (* g_stats *)
  total_iterations,
  recorded,       \* g_stats.threads[0 .. total_threads - 1]: their is_active
  (* the threads *)
  tpc, ti,        \* where each is; its loop counter
  toggling,       \* the values of g_pause that running handlers have read
  (* ghosts *)
  work,           \* the iterations each thread has computed
  toggles         \* the SIGUSR1s received

mainVars == <<mpc, step, current_threads, k, frame, total_iterations, recorded>>
threadVars == <<tpc, ti, work>>
signalVars == <<g_pause, toggling, toggles>>
vars == <<g_running, mainVars, is_active, threadVars, signalVars>>

Init ==
  /\ g_running = TRUE /\ g_pause = FALSE
  /\ mpc = "steps" /\ step = 1 /\ current_threads = INITIAL
  /\ k = 0 /\ frame = 0
  /\ is_active = [i \in Indices |-> FALSE]
  /\ total_iterations = 0 /\ recorded = <<>>
  /\ tpc = [t \in Threads |-> "none"]
  /\ ti = [t \in Threads |-> 0]
  /\ work = [t \in Threads |-> 0]
  /\ toggling = <<>> /\ toggles = 0
------------------------------------------------------------------------------
(* main and run_load_step.                                                 *)

(* The loop of main: a further step, the end of the test, or, with more    *)
(* threads than the arrays hold, the error that breaks the loop.           *)
NextStep ==
  /\ mpc = "steps"
  /\ g_running /\ current_threads <= MAX /\ current_threads <= MAX_THREADS
  /\ frame' = step /\ mpc' = "create" /\ k' = 0
  /\ is_active' = [i \in Indices |-> i < current_threads \/ is_active[i]]
  /\ UNCHANGED <<g_running, step, current_threads, total_iterations, recorded, threadVars,
                 signalVars>>

NoNextStep ==
  /\ mpc = "steps"
  /\ ~g_running \/ current_threads > MAX \/ current_threads > MAX_THREADS
  /\ mpc' = "stats"
  /\ UNCHANGED <<g_running, step, current_threads, k, frame, total_iterations, recorded,
                 is_active, threadVars, signalVars>>

Create ==
  /\ mpc = "create" /\ k < current_threads
  /\ tpc' = [tpc EXCEPT ![<<step, k>>] = "test"]
  /\ k' = k + 1
  /\ UNCHANGED <<g_running, mpc, step, current_threads, frame, total_iterations, recorded,
                 is_active, ti, work, signalVars>>

(* Mutated form: the failure is reported, and that is all.                 *)
CreateFailsOn ==
  /\ mpc = "create" /\ k < current_threads
  /\ mpc' = "join" /\ k' = current_threads
  /\ UNCHANGED <<g_running, step, current_threads, frame, total_iterations, recorded,
                 is_active, threadVars, signalVars>>

(* Mutated form: the joins are not told.                                   *)
CreateFailsUnnoticed ==
  /\ mpc = "create" /\ k < current_threads
  /\ mpc' = "join" /\ k' = 0
  /\ UNCHANGED <<g_running, step, current_threads, frame, total_iterations, recorded,
                 is_active, threadVars, signalVars>>

(* pthread_create fails: the test stops, the rest is not created.          *)
CreateFails ==
  /\ mpc = "create" /\ k < current_threads
  /\ g_running' = FALSE
  /\ mpc' = "join" /\ k' = 0
  /\ UNCHANGED <<step, current_threads, frame, total_iterations, recorded, is_active,
                 threadVars, signalVars>>

CreatedAll ==
  /\ mpc = "create" /\ k = current_threads
  /\ mpc' = "join" /\ k' = 0
  /\ UNCHANGED <<g_running, step, current_threads, frame, total_iterations, recorded,
                 is_active, threadVars, signalVars>>

(* Mutated form: the last thread is not waited for.                        *)
JoinsGoOnShort == k + 1 < current_threads /\ g_running

JoinsGoOn == k < current_threads /\ g_running

(* The test of the join loop, and a pthread_join that returns.             *)
JoinNext ==
  /\ mpc = "join"
  /\ mpc' = IF JoinsGoOn THEN "joining" ELSE "collect"
  /\ UNCHANGED <<g_running, step, current_threads, k, frame, total_iterations, recorded,
                 is_active, threadVars, signalVars>>

Joined ==
  /\ mpc = "joining" /\ tpc[<<step, k>>] = "done"
  /\ mpc' = "join" /\ k' = k + 1
  /\ UNCHANGED <<g_running, step, current_threads, frame, total_iterations, recorded,
                 is_active, threadVars, signalVars>>

(* What the step adds to total_iterations: what its threads were to do.    *)
Planned == current_threads * ITERATIONS

Collect ==
  /\ mpc = "collect"
  /\ total_iterations' = total_iterations + Planned
  /\ mpc' = "copy" /\ k' = 0
  /\ UNCHANGED <<g_running, step, current_threads, frame, recorded, is_active, threadVars,
                 signalVars>>

(* Mutated form: one entry too many.                                       *)
HasRoomOneMore == Len(recorded) <= MAX_THREADS

HasRoom == Len(recorded) < MAX_THREADS

(* One entry of stats[] is copied, while there is room.                    *)
Copy ==
  /\ mpc = "copy" /\ k < current_threads
  /\ recorded' = IF HasRoom THEN Append(recorded, is_active[k]) ELSE recorded
  /\ k' = k + 1
  /\ UNCHANGED <<g_running, mpc, step, current_threads, frame, total_iterations, is_active,
                 threadVars, signalVars>>

Return ==
  /\ mpc = "copy" /\ k = current_threads
  /\ frame' = 0 /\ mpc' = "delay" /\ k' = 0
  /\ UNCHANGED <<g_running, step, current_threads, total_iterations, recorded, is_active,
                 threadVars, signalVars>>

(* The delay, which a stop cuts short, and the end of main's loop body.    *)
Delay ==
  /\ mpc = "delay"
  /\ current_threads' = current_threads + STEP
  /\ step' = step + 1 /\ mpc' = "steps"
  /\ UNCHANGED <<g_running, k, frame, total_iterations, recorded, is_active, threadVars,
                 signalVars>>

(* print_stats, and the end of the process with all its threads.           *)
Finish ==
  /\ mpc = "stats" /\ mpc' = "exit"
  /\ UNCHANGED <<g_running, step, current_threads, k, frame, total_iterations, recorded,
                 is_active, threadVars, signalVars>>

Main ==
  \/ NextStep \/ NoNextStep \/ Create \/ CreateFails \/ CreatedAll
  \/ JoinNext \/ Joined \/ Collect \/ Copy \/ Return \/ Delay \/ Finish
------------------------------------------------------------------------------
(* cpu_load, memory_load, mixed_load.                                      *)

Alive(t) == mpc # "exit" /\ tpc[t] \notin {"none", "done"}

(* Mutated form: a paused thread does not look at g_running.               *)
LoadGoesOnPaused(t) == ti[t] < ITERATIONS /\ (g_running \/ g_pause)

LoadGoesOn(t) == ti[t] < ITERATIONS /\ g_running

LoadTest(t) ==
  /\ Alive(t) /\ tpc[t] = "test"
  /\ tpc' = [tpc EXCEPT ![t] = IF LoadGoesOn(t) THEN "body" ELSE "finish"]
  /\ UNCHANGED <<g_running, mainVars, is_active, ti, work, signalVars>>

(* Mutated form: the paused round is counted.                              *)
CounterAfterEaten(t) == (ti[t] + 1) % WORD

(* The i-- of a pause wraps at 0, and the i++ of the loop brings it back.  *)
CounterAfter(t) ==
  (IF g_pause THEN ((ti[t] - 1) % WORD) + 1 ELSE ti[t] + 1) % WORD

LoadBody(t) ==
  /\ Alive(t) /\ tpc[t] = "body"
  /\ work' = [work EXCEPT ![t] = IF g_pause THEN @ ELSE @ + 1]
  /\ ti' = [ti EXCEPT ![t] = CounterAfter(t)]
  /\ tpc' = [tpc EXCEPT ![t] = "test"]
  /\ UNCHANGED <<g_running, mainVars, is_active, signalVars>>

(* The results go to stats[], wherever that now is.                        *)
LoadFinish(t) ==
  /\ Alive(t) /\ tpc[t] = "finish"
  /\ is_active' = [is_active EXCEPT ![t[2]] = FALSE]
  /\ tpc' = [tpc EXCEPT ![t] = "done"]
  /\ UNCHANGED <<g_running, mainVars, ti, work, signalVars>>

Load(t) == LoadTest(t) \/ LoadBody(t) \/ LoadFinish(t)
------------------------------------------------------------------------------
(* handle_signal.                                                          *)

StopSignal ==
  /\ mpc # "exit"
  /\ g_running' = FALSE
  /\ UNCHANGED <<mainVars, is_active, threadVars, signalVars>>

(* g_pause = !g_pause is a read and a write; a second SIGUSR1 is taken by  *)
(* another thread while the first is being handled, and one switch is then *)
(* lost.                                                                   *)
PauseSignal ==
  /\ mpc # "exit" /\ toggles < MAX_TOGGLES
  /\ toggles' = toggles + 1
  /\ toggling' = Append(toggling, g_pause)
  /\ UNCHANGED <<g_running, mainVars, is_active, threadVars, g_pause>>

PauseWrite ==
  /\ \E h \in DOMAIN toggling :
       /\ g_pause' = ~toggling[h]
       /\ toggling' = [j \in 1 .. Len(toggling) - 1 |->
                         IF j < h THEN toggling[j] ELSE toggling[j + 1]]
  /\ UNCHANGED <<g_running, mainVars, is_active, threadVars, toggles>>

Next ==
  \/ Main \/ PauseWrite \/ StopSignal \/ PauseSignal
  \/ \E t \in Threads : Load(t)

(* Main, each thread and a handler once begun are run by the scheduler;    *)
(* signals may come or not.                                                *)
Spec == Init /\ [][Next]_vars
FairSpec == /\ Spec /\ WF_vars(Main) /\ WF_vars(PauseWrite)
            /\ \A t \in Threads : WF_vars(Load(t))
------------------------------------------------------------------------------
(* Properties.                                                             *)

TypeOK ==
  /\ g_running \in BOOLEAN /\ g_pause \in BOOLEAN
  /\ mpc \in {"steps", "create", "join", "joining", "collect", "copy", "delay", "stats", "exit"}
  /\ step \in Nat /\ current_threads \in Nat
  /\ k \in 0 .. MAX_THREADS /\ frame \in 0 .. MAX
  /\ is_active \in [Indices -> BOOLEAN]
  /\ total_iterations \in Nat
  /\ recorded \in Seq(BOOLEAN) /\ Len(recorded) <= MAX_THREADS
  /\ tpc \in [Threads -> {"none", "test", "body", "finish", "done"}]
  /\ ti \in [Threads -> 0 .. WORD - 1]
  /\ work \in [Threads -> Nat]
  /\ toggling \in Seq(BOOLEAN) /\ toggles \in 0 .. MAX_TOGGLES

(* A thread that outlives the call whose frame it writes to, and so might  *)
(* write into the frame of a later step, exists only after the test was    *)
(* stopped: then joins are skipped (stress_test.c:270), but no further     *)
(* step is begun.                                                          *)
FrameOutlived ==
  g_running => \A t \in Threads : Alive(t) => frame = t[1]

(* The sum of work[t]: one pair for each iteration computed.               *)
WorkDone == Cardinality({w \in Threads \X (1 .. ITERATIONS) : w[2] <= work[w[1]]})

(* "The iteration is decreased so that the pause does not eat the planned  *)
(* work" (explanation.md:212): however pauses fall, a thread that ends     *)
(* without a stop has done exactly its iterations, none lost, none twice,  *)
(* and the total that is printed, which adds up what was planned           *)
(* (line 280), is then the work that was done.                             *)
PauseEatsNoWork ==
  /\ \A t \in Threads :
       /\ work[t] <= ITERATIONS
       /\ tpc[t] = "done" /\ g_running => work[t] = ITERATIONS
  /\ g_running /\ mpc = "stats" => total_iterations = WorkDone

(* What print_stats calls completed: unless the test was stopped, every    *)
(* recorded thread is recorded after it ended; and none is recorded as     *)
(* ended that had not.                                                     *)
RecordsAreFinal ==
  /\ g_running => \A r \in DOMAIN recorded : ~recorded[r]
  /\ Cardinality({r \in DOMAIN recorded : ~recorded[r]})
       <= Cardinality({t \in Threads : tpc[t] = "done"})

(* Ctrl+C or SIGTERM end the test, paused or not, whoever is being joined. *)
StopEndsTheTest == ~g_running ~> mpc = "exit"

(* Nor does the test need a stop: it goes through its steps and ends, with *)
(* a pthread_create that fails among them too (no thread is waited for     *)
(* that was never made, stress_test.c:263), unless it is paused for good   *)
(* or again and again.                                                     *)
EndsUnlessPaused == <>(mpc = "exit") \/ []<>g_pause
==============================================================================
