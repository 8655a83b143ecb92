----------------------------- MODULE RecentLines -----------------------------
(***************************************************************************)
(* What the chat history promises: the most recent HISTORY_LINES lines     *)
(* that were said, oldest first.  ChatHistory implements it with a ring.   *)
(***************************************************************************)
EXTENDS Naturals, Sequences

CONSTANTS
  Lines,            \* the lines that can be said
  HISTORY_LINES     \* how many of them are kept

VARIABLE recent     \* the lines kept, oldest first

Init == recent = <<>>

(* One more line; the oldest one goes when there is no room for it. *)
Push(l) ==
  recent' = IF Len(recent) < HISTORY_LINES THEN Append(recent, l)
                                           ELSE Append(Tail(recent), l)

Next == \E l \in Lines : Push(l)

Spec == Init /\ [][Next]_recent
==============================================================================
