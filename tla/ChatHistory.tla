----------------------------- MODULE ChatHistory -----------------------------
(***************************************************************************)
(* The message history of the chat server (LabWork_6/server.c): a ring of  *)
(* HISTORY_LINES lines, written by hist_push and replayed, oldest first,   *)
(* by send_history_to.                                                     *)
(***************************************************************************)
EXTENDS Naturals, Sequences

CONSTANTS
  Lines,            \* the lines that can be said
  NoLine,           \* the content of a slot never written (static storage)
  HISTORY_LINES     \* the number of slots of the ring

ASSUME HistoryAssumption ==
  /\ HISTORY_LINES \in Nat \ {0}
  /\ NoLine \notin Lines

VARIABLES
  history,          \* the slots, 0 .. HISTORY_LINES - 1
  hist_count,       \* how many of them hold a line
  hist_start        \* the slot of the oldest line

histVars == <<history, hist_count, hist_start>>

HistInit ==
  /\ history = [k \in 0 .. HISTORY_LINES - 1 |-> NoLine]
  /\ hist_count = 0
  /\ hist_start = 0

(* The slot of the k-th line, counted from the oldest one. *)
SlotAt(k) == (hist_start + k) % HISTORY_LINES

(* Mutated forms: the index runs off the ring; the oldest line stays.      *)
AdvanceUnwrapped(start) == start + 1
AdvanceStuck(start) == start

(* The slot that becomes the oldest when the oldest line is overwritten.   *)
Advance(start) == (start + 1) % HISTORY_LINES

(* The slot is chosen before the counters move; a full ring overwrites its *)
(* oldest line.                                                            *)
hist_push(l) ==
  /\ IF hist_count < HISTORY_LINES
       THEN hist_count' = hist_count + 1 /\ UNCHANGED hist_start
       ELSE hist_start' = Advance(hist_start) /\ UNCHANGED hist_count
  /\ history' = [history EXCEPT ![SlotAt(hist_count)] = l]

(* The lines send_history_to walks over, in its order. *)
Replay == [k \in 1 .. hist_count |-> history[SlotAt(k - 1)]]

HistNext == \E l \in Lines : hist_push(l)

HistSpec == HistInit /\ [][HistNext]_histVars
------------------------------------------------------------------------------
(* The counters stay inside the ring, and a replay hands out written slots *)
(* only, never one that still holds its static initial value.              *)
HistTypeOK ==
  /\ history \in [0 .. HISTORY_LINES - 1 -> Lines \cup {NoLine}]
  /\ hist_count \in 0 .. HISTORY_LINES
  /\ hist_start \in 0 .. HISTORY_LINES - 1
  /\ Replay \in Seq(Lines)

(* The ring refines RecentLines: what send_history_to replays is at all    *)
(* times the last HISTORY_LINES lines in the order they were said.         *)
Recent == INSTANCE RecentLines WITH recent <- Replay
RefinesRecentLines == Recent!Spec
==============================================================================
