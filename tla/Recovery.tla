------------------------------- MODULE Recovery -------------------------------
(***************************************************************************)
(* recovery (VLADOS/Lab_4/recovery.c): a process that counts and logs; on  *)
(* SIGTERM or SIGINT its handler forks, the parent exits and the child     *)
(* goes on where the parent was interrupted.  sa_mask is empty, so each    *)
(* signal interrupts the other's handler, which may be anywhere between    *)
(* its fork and the end of its exit.                                       *)
(*                                                                         *)
(* exit() writes out what fprintf has left in the buffer of f.  stdout is  *)
(* a terminal, and nothing is left in its buffer.                          *)
(***************************************************************************)
EXTENDS Integers, SequencesExt

CONSTANTS
  MAX_COUNT,        \* bound: numbers counted to
  MAX_FORKS,        \* bound: forks that succeed
  MAX_SIGNALS       \* bound: signals sent

ASSUME RecoveryAssumption == {MAX_COUNT, MAX_FORKS, MAX_SIGNALS} \subseteq Nat

Signals == {"SIGTERM", "SIGINT"}
Pids == 1 .. MAX_FORKS + 1
Numbers == 1 .. MAX_COUNT

VARIABLES
  pids,        \* how many processes there have been
  alive,
  pc, counter, \* per process: where start_main_loop is, its counter
  f,           \* per process: the number in the buffer of f, or 0
  handlers,    \* per process: the calls of handle_recovery it is in
  pending,     \* per process: signals that were not delivered yet
  log,         \* LOG_FILE
  signals,     \* the signals sent
  unlogged,    \* ghost: the numbers for which fopen failed
  copies,      \* ghost, per number: forks while it was in the buffer
  lost         \* ghost: a fork failed that was to make the successor

mainVars == <<pc, counter, unlogged>>
procVars == <<pids, alive, handlers, copies, lost>>
signalVars == <<pending, signals>>
vars == <<mainVars, f, log, procVars, signalVars>>

Init ==
  /\ pids = 1 /\ alive = {1}
  /\ pc = [p \in Pids |-> "count"] /\ counter = [p \in Pids |-> 0]
  /\ f = [p \in Pids |-> 0]
  /\ handlers = [p \in Pids |-> <<>>]
  /\ pending = [p \in Pids |-> {}] /\ signals = 0
  /\ log = <<>>
  /\ unlogged = {} /\ copies = [n \in Numbers |-> 0] /\ lost = FALSE
------------------------------------------------------------------------------
(* start_main_loop and log_status.                                         *)

At(p, from) == p \in alive /\ handlers[p] = <<>> /\ pc[p] = from
Go(p, to) == pc' = [pc EXCEPT ![p] = to]

(* sleep ends when its time is over, or early after a signal.              *)
Count(p) ==
  /\ At(p, "count") /\ counter[p] < MAX_COUNT
  /\ counter' = [counter EXCEPT ![p] = @ + 1] /\ Go(p, "fopen")
  /\ UNCHANGED <<unlogged, f, log, procVars, signalVars>>

Open(p) ==
  /\ At(p, "fopen")
  /\ \/ Go(p, "fprintf") /\ UNCHANGED unlogged
     \/ Go(p, "count") /\ unlogged' = unlogged \cup {counter[p]}
  /\ UNCHANGED <<counter, f, log, procVars, signalVars>>

Write(p) ==
  /\ At(p, "fprintf")
  /\ f' = [f EXCEPT ![p] = counter[p]] /\ Go(p, "fclose")
  /\ UNCHANGED <<counter, unlogged, log, procVars, signalVars>>

(* What is in the buffer goes to the end of the file.                      *)
Flush(p) ==
  /\ log' = IF f[p] = 0 THEN log ELSE Append(log, f[p])
  /\ f' = [f EXCEPT ![p] = 0]

Close(p) ==
  /\ At(p, "fclose")
  /\ Flush(p) /\ Go(p, "count")
  /\ UNCHANGED <<counter, unlogged, procVars, signalVars>>
------------------------------------------------------------------------------
(* handle_recovery.                                                        *)

In(p, at) == p \in alive /\ handlers[p] # <<>> /\ Last(handlers[p]).at = at

(* The innermost call goes on at `to`.                                     *)
Advanced(p, to) == [handlers[p] EXCEPT ![Len(handlers[p])].at = to]

(* No call it is in will end it.                                           *)
GoesOn(p) == p \in alive /\ \A k \in DOMAIN handlers[p] : handlers[p][k].at # "exit"

(* Mutated form: the child is sent back to the top of the loop.            *)
ResumesAtTop(p) == "count"

(* Where the child goes on once its handler returns.                       *)
Resumes(p) == pc[p]

(* The child has everything of its parent but the pending signals.         *)
Fork(p) ==
  /\ In(p, "fork") /\ pids <= MAX_FORKS
  /\ LET child == pids + 1
         Copy(g) == [g EXCEPT ![child] = g[p]]
     IN /\ pids' = child /\ alive' = alive \cup {child}
        /\ pc' = [pc EXCEPT ![child] = Resumes(p)] /\ counter' = Copy(counter) /\ f' = Copy(f)
        /\ handlers' = [handlers EXCEPT ![p] = Advanced(p, "exit"),
                                        ![child] = Advanced(p, "return")]
  /\ copies' = [n \in Numbers |-> IF n = f[p] THEN copies[n] + 1 ELSE copies[n]]
  /\ UNCHANGED <<unlogged, log, lost, signalVars>>

ForkFails(p) ==
  /\ In(p, "fork")
  /\ handlers' = [handlers EXCEPT ![p] = Advanced(p, "exit")]
  /\ lost' = (lost \/ GoesOn(p))
  /\ UNCHANGED <<mainVars, f, log, pids, alive, copies, signalVars>>

Exit(p) ==
  /\ In(p, "exit")
  /\ Flush(p) /\ alive' = alive \ {p}
  /\ UNCHANGED <<mainVars, pids, handlers, copies, lost, signalVars>>

(* Mutated form: the parent does not exit from a handler within a handler. *)
ReturnsNested(p) == In(p, "return") \/ (In(p, "exit") /\ Len(handlers[p]) > 1)

Returns(p) == In(p, "return")

Return(p) ==
  /\ Returns(p)
  /\ handlers' = [handlers EXCEPT ![p] = Front(@)]
  /\ UNCHANGED <<mainVars, f, log, pids, alive, copies, lost, signalVars>>
------------------------------------------------------------------------------
(* Signals.                                                                *)

(* kill sends to one process, Ctrl+C to all.                               *)
Send(to, sig) ==
  /\ signals < MAX_SIGNALS /\ signals' = signals + 1
  /\ pending' = [p \in Pids |-> IF p \in to THEN pending[p] \cup {sig} ELSE pending[p]]
  /\ UNCHANGED <<mainVars, f, log, procVars>>

(* Mutated form: a handler's own signal is let in (SA_NODEFER).            *)
BlockedNone(p) == {}

Blocked(p) == {handlers[p][k].sig : k \in DOMAIN handlers[p]}

Deliver(p, sig) ==
  /\ p \in alive /\ sig \in pending[p] \ Blocked(p)
  /\ pending' = [pending EXCEPT ![p] = @ \ {sig}]
  /\ handlers' = [handlers EXCEPT ![p] = Append(@, [sig |-> sig, at |-> "fork"])]
  /\ UNCHANGED <<mainVars, f, log, pids, alive, copies, lost, signals>>

Process(p) ==
  \/ Count(p) \/ Open(p) \/ Write(p) \/ Close(p)
  \/ Fork(p) \/ ForkFails(p) \/ Exit(p) \/ Return(p)

Next ==
  \/ \E p \in Pids : Process(p)
  \/ \E p \in alive, sig \in Signals : Send({p}, sig) \/ Deliver(p, sig)
  \/ Send(alive, "SIGINT")

Spec == Init /\ [][Next]_vars
------------------------------------------------------------------------------
(* Properties.                                                             *)

TypeOK ==
  /\ pids \in Pids /\ alive \subseteq 1 .. pids
  /\ pc \in [Pids -> {"count", "fopen", "fprintf", "fclose"}]
  /\ counter \in [Pids -> 0 .. MAX_COUNT] /\ f \in [Pids -> 0 .. MAX_COUNT]
  /\ \A p \in Pids : /\ handlers[p] \in Seq([sig : Signals, at : {"fork", "exit", "return"}])
                     /\ Len(handlers[p]) <= Cardinality(Signals)
  /\ pending \in [Pids -> SUBSET Signals] /\ signals \in 0 .. MAX_SIGNALS
  /\ log \in Seq(Numbers) /\ unlogged \subseteq Numbers
  /\ copies \in [Numbers -> 0 .. MAX_FORKS] /\ lost \in BOOLEAN

(* However signals fall into each other's handlers, before the fork, after *)
(* it or during the exit, there is one process that will go on counting;   *)
(* there is none only when the fork that was to make it has failed.        *)
OneSuccessor == Cardinality({p \in Pids : GoesOn(p)}) = IF lost THEN 0 ELSE 1

Finished(p) == IF pc[p] = "count" THEN counter[p] ELSE counter[p] - 1

(* The log has every number the successor is past, whichever process wrote *)
(* it and wherever between fopen and fclose the fork fell, unless fopen    *)
(* had failed.  It has one again only for a fork between fprintf and       *)
(* fclose, when both processes may write the line, the parent in exit().   *)
EachNumberLogged ==
  \A n \in Numbers :
    LET lines == Cardinality({k \in DOMAIN log : log[k] = n})
    IN /\ lines <= 1 + copies[n]
       /\ (\E p \in Pids : GoesOn(p) /\ n <= Finished(p)) /\ n \notin unlogged => lines > 0
==============================================================================
