-------------------------------- MODULE Manager --------------------------------
(***************************************************************************)
(* The manager and its workers (VLADOS/Lab_5, main.c and worker.c): one    *)
(* thread per slot, each round every slot is examined, the thread that     *)
(* has failed is joined and replaced, and after the last round all are     *)
(* told to stop and joined.                                                *)
(*                                                                         *)
(* log_mutex guards single prints; a locked print is part of its step.     *)
(* last_heartbeat is never read and left out.                              *)
(***************************************************************************)
EXTENDS Integers, FiniteSets

CONSTANTS
  NUM_WORKERS,
  ROUNDS            \* rounds of the monitoring loop (10)

ASSUME ManagerAssumption == NUM_WORKERS \in Nat \ {0} /\ ROUNDS \in Nat \ {0}

Slots == 0 .. NUM_WORKERS - 1

(* The n-th thread created for a slot.                                     *)
Threads == Slots \X (1 .. ROUNDS + 1)

VARIABLES
  keep_running,
  is_active,        \* per slot, workers[].is_active
  thread,           \* per slot, which of its threads workers[].thread names
  lost,             \* the slots whose last pthread_create failed
  mpc, i, iterations,   \* the manager: where it is, its loop counters
  tpc               \* where each thread is

vars == <<keep_running, is_active, thread, lost, mpc, i, iterations, tpc>>

Init ==
  /\ keep_running = TRUE
  /\ is_active = [s \in Slots |-> FALSE]
  /\ thread = [s \in Slots |-> 0]
  /\ lost = {}
  /\ mpc = "create" /\ i = 0 /\ iterations = 0
  /\ tpc = [t \in Threads |-> "none"]
------------------------------------------------------------------------------
(* The manager.                                                            *)

Handle == <<i, thread[i]>>

Goto(from, to) == mpc = from /\ mpc' = to /\ UNCHANGED <<i, iterations>>

(* pthread_create into slot i.                                             *)
Started ==
  /\ thread' = [thread EXCEPT ![i] = @ + 1]
  /\ tpc' = [tpc EXCEPT ![<<i, thread[i] + 1>>] = "test"]

(* pthread_join on slot i: it waits for the thread's end.                  *)
JoinThread == tpc[Handle] = "ended" /\ tpc' = [tpc EXCEPT ![Handle] = "joined"]

(* Mutated form: one slot too many is started.                             *)
NextSlotPast(done) ==
  IF i < NUM_WORKERS THEN i' = i + 1 /\ UNCHANGED mpc ELSE i' = 0 /\ mpc' = done

(* To the next slot, or to `done` after the last.                          *)
NextSlot(done) ==
  IF i + 1 < NUM_WORKERS THEN i' = i + 1 /\ UNCHANGED mpc ELSE i' = 0 /\ mpc' = done

Create ==
  /\ mpc = "create"
  /\ is_active' = [is_active EXCEPT ![i] = TRUE]
  /\ Started
  /\ NextSlot("sleep")
  /\ UNCHANGED <<keep_running, lost, iterations>>

(* main returns, and the process ends with the threads it has.             *)
CreateFails ==
  /\ Goto("create", "failed")
  /\ is_active' = [is_active EXCEPT ![i] = TRUE]
  /\ UNCHANGED <<keep_running, thread, lost, tpc>>

NextRound ==
  /\ iterations < ROUNDS /\ Goto("sleep", "tryjoin")
  /\ UNCHANGED <<keep_running, is_active, thread, lost, tpc>>

(* The end of a slot's examination: the next slot, or the next second.     *)
NextExamined ==
  IF i + 1 < NUM_WORKERS
    THEN i' = i + 1 /\ mpc' = "tryjoin" /\ UNCHANGED iterations
    ELSE i' = 0 /\ mpc' = "sleep" /\ iterations' = iterations + 1

(* pthread_tryjoin_np; called with the handle of a thread that was joined  *)
(* already, because none was created since, it may return anything.        *)
TryJoin ==
  /\ \/ Goto("tryjoin", "restart") /\ i \notin lost /\ JoinThread
     \/ /\ Goto("tryjoin", "inspect") /\ UNCHANGED tpc
        /\ i \in lost \/ tpc[Handle] # "ended"
     \/ Goto("tryjoin", "restart") /\ i \in lost /\ UNCHANGED tpc
  /\ UNCHANGED <<keep_running, is_active, thread, lost>>

(* It did not join: the flag, read after that, says whether to wait.       *)
StillActive ==
  /\ mpc = "inspect" /\ is_active[i]
  /\ NextExamined
  /\ UNCHANGED <<keep_running, is_active, thread, lost, tpc>>

(* Mutated forms: the failed thread is left to itself, or until later.     *)
AfterFailureUnjoined == Goto("inspect", "restart")
AfterFailureLater == mpc = "inspect" /\ NextExamined

AfterFailure == Goto("inspect", "join")

NoLongerActive ==
  /\ ~is_active[i] /\ AfterFailure
  /\ UNCHANGED <<keep_running, is_active, thread, lost, tpc>>

(* Mutated form: res is not set after the join.                            *)
AfterJoinForgotten == mpc = "join" /\ NextExamined

AfterJoin == Goto("join", "restart")

Join ==
  /\ AfterJoin /\ JoinThread
  /\ UNCHANGED <<keep_running, is_active, thread, lost>>

(* Mutated form: the flag is not set again.                                *)
RemarkedNot == is_active

Remarked == [is_active EXCEPT ![i] = TRUE]

Restart ==
  /\ Goto("restart", "recreate")
  /\ is_active' = Remarked
  /\ UNCHANGED <<keep_running, thread, lost, tpc>>

(* The result of this pthread_create is not looked at.                     *)
Recreate ==
  /\ mpc = "recreate"
  /\ \/ Started /\ lost' = lost \ {i}
     \/ lost' = lost \cup {i} /\ UNCHANGED <<thread, tpc>>
  /\ NextExamined
  /\ UNCHANGED <<keep_running, is_active>>

(* Mutated form: nobody is told.                                           *)
StopSilent == keep_running

Stop == FALSE

Shutdown ==
  /\ iterations = ROUNDS /\ Goto("sleep", "shutdown")
  /\ keep_running' = Stop
  /\ UNCHANGED <<is_active, thread, lost, tpc>>

(* The last joins; one of a thread that was joined already returns.        *)
LastJoin ==
  /\ mpc = "shutdown"
  /\ IF i \in lost THEN UNCHANGED tpc ELSE JoinThread
  /\ NextSlot("halted")
  /\ UNCHANGED <<keep_running, is_active, thread, lost, iterations>>

ManagerStep ==
  \/ Create \/ CreateFails \/ NextRound \/ TryJoin \/ StillActive \/ NoLongerActive
  \/ Join \/ Restart \/ Recreate \/ Shutdown \/ LastJoin
------------------------------------------------------------------------------
(* worker_routine.                                                         *)

Move(t, from, to) ==
  /\ mpc \notin {"halted", "failed"}
  /\ tpc[t] = from /\ tpc' = [tpc EXCEPT ![t] = to]

Others == UNCHANGED <<keep_running, thread, lost, mpc, i, iterations>>

(* The loop is entered as long as the system runs; else the thread returns.*)
WorkerTest(t) ==
  /\ Move(t, "test", IF keep_running THEN "work" ELSE "ended")
  /\ UNCHANGED is_active /\ Others

(* The work takes a while, a stop cuts it short; it succeeds or fails.     *)
WorkerWorks(t) ==
  /\ Move(t, "work", "test") \/ Move(t, "work", "failing")
  /\ UNCHANGED is_active /\ Others

(* is_active = false, and then pthread_exit, which takes its time.         *)
WorkerFails(t) ==
  /\ Move(t, "failing", "exiting")
  /\ is_active' = [is_active EXCEPT ![t[1]] = FALSE] /\ Others

WorkerExits(t) ==
  /\ Move(t, "exiting", "ended")
  /\ UNCHANGED is_active /\ Others

Worker(t) == WorkerTest(t) \/ WorkerWorks(t) \/ WorkerFails(t) \/ WorkerExits(t)

Next == ManagerStep \/ \E t \in Threads : Worker(t)

(* The manager and every thread are run by the scheduler.                  *)
Spec == Init /\ [][Next]_vars
FairSpec == /\ Spec /\ WF_vars(ManagerStep)
            /\ \A t \in Threads : WF_vars(Worker(t))
------------------------------------------------------------------------------
(* Properties.                                                             *)

TypeOK ==
  /\ keep_running \in BOOLEAN
  /\ is_active \in [Slots -> BOOLEAN]
  /\ thread \in [Slots -> 0 .. ROUNDS + 1]
  /\ lost \subseteq Slots
  /\ mpc \in {"create", "sleep", "tryjoin", "inspect", "join", "restart", "recreate",
              "shutdown", "halted", "failed"}
  /\ i \in Slots /\ iterations \in 0 .. ROUNDS
  /\ tpc \in [Threads -> {"none", "test", "work", "failing", "exiting", "ended", "joined"}]

Live(t) == tpc[t] \notin {"none", "ended", "joined"}

(* No two threads share a slot's worker_info_t: one is gone for good       *)
(* before the next is created, however failures fall between tryjoin, the  *)
(* reading of is_active and the join.                                      *)
OneThreadPerSlot ==
  \A s \in Slots : Cardinality({t \in Threads : t[1] = s /\ Live(t)}) <= 1

(* Every thread is joined once: what the manager joins has not been joined *)
(* before, unless the pthread_create of line 58 failed, and when it says   *)
(* that the system is halted and destroys the mutex, no thread runs and    *)
(* none remains unjoined.                                                  *)
JoinedOnce ==
  /\ mpc \in {"tryjoin", "join", "shutdown"} /\ i \notin lost
       => tpc[Handle] \notin {"none", "joined"}
  /\ mpc = "halted" => \A t \in Threads : tpc[t] \in {"none", "joined"}

(* The manager does not stand still behind a healthy worker: the join of   *)
(* line 47 waits for a thread on its way out only.                         *)
WaitsForTheDying == mpc = "join" => tpc[Handle] \in {"exiting", "ended"}

(* A worker that fails while a whole round is still to come is joined in   *)
(* the monitoring loop, not just collected at the end, and its slot comes  *)
(* to the restart, where pthread_create may fail in turn; only a failed    *)
(* start ends the process before that.                                     *)
FailureNoticed ==
  \A t \in Threads :
    tpc[t] = "exiting" /\ iterations + 1 < ROUNDS
      ~> \/ tpc[t] = "joined" /\ mpc = "restart" /\ i = t[1]
         \/ mpc = "failed"

(* The system halts, whatever fails and whenever.                          *)
Halts == <>(mpc \in {"halted", "failed"})
==============================================================================
