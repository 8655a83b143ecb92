----------------------------- MODULE MCChatServer -----------------------------
(***************************************************************************)
(* The instances of ChatServer that TLC explores: the line set, and which  *)
(* frames the peers send in which run.                                     *)
(***************************************************************************)
EXTENDS ChatServer, TLC

MCLines == Nicks \X Texts
NickSymmetry == Permutations(Nicks)

Joins == [type : {"JOIN"}, arg : Nicks]

(* Members that come, whisper to one of them, are cut off and come back.   *)
RoomInputs == Joins \cup {Msg("PRIVATE", CHOOSE n \in Nicks : TRUE), Msg("INVALID", 0)}

(* Members that come and talk until the history ring has wrapped.          *)
TalkInputs == Joins \cup [type : {"BROADCAST"}, arg : Texts]

AllInputs == Frame
==============================================================================
