----------------------------- MODULE MCChatClient -----------------------------
(***************************************************************************)
(* The instance of ChatClient that TLC explores.                           *)
(***************************************************************************)
EXTENDS ChatClient

Line(type, len) == [type |-> type, len |-> len]

(* One read of the terminal: a line of full length, two lines at once, a   *)
(* line and the end of the terminal.                                       *)
MCChunks == { <<Line("BROADCAST", CHAT_MAX_BODY)>>,
              <<Line("LIST", 0), Line("PRIVATE", 1)>>,
              <<Line("LOCAL", 0), Line("QUIT", 0)>>,
              <<Line("BROADCAST", 1), Line("QUIT", 0)>> }
==============================================================================
