--------------------------- MODULE ChatServer_proof ---------------------------
(***************************************************************************)
(* The client table of the chat server, for any number of connections,     *)
(* slots, nicknames and frames: type correctness, one slot per open        *)
(* connection, unique nicknames, and the history's refinement of           *)
(* RecentLines inside the server.                                          *)
(***************************************************************************)
EXTENDS ChatServer, ChatHistory_proof, FiniteSetTheorems

(* Where the server handles a connection, slot i is in use; where it       *)
(* accepts, there is something to accept.                                  *)
Control ==
  /\ pc \in {"recv", "process"} => i \in used
  /\ pc = "accept" => backlog # <<>>

(* A member has a nickname.                                                *)
MembersNamed == \A s \in joined : nick[s] \in Nicks

(* A slot in use holds a connection.                                       *)
SlotsFilled == \A s \in used : fd[s] \in Conns

TypeInv == TypeOK /\ Control /\ MembersNamed /\ SlotsFilled

LEMMA SlotsFinite ==
  ASSUME NEW S \in SUBSET Slots
  PROVE  Cardinality(S) \in 0 .. MAX_CLIENTS
  <1>1. IsFiniteSet(Slots) /\ Cardinality(Slots) = MAX_CLIENTS
    BY FS_Interval, ServerAssumption DEF Slots
  <1>2. IsFiniteSet(S) /\ Cardinality(S) <= Cardinality(Slots)
    BY <1>1, FS_Subset
  <1>3. Cardinality(S) \in Nat
    BY <1>2, FS_CardinalityType
  <1>4. QED
    BY <1>1, <1>2, <1>3, ServerAssumption

(* Whatever is written to whom, Emit ends the server or goes on at `next`. *)
LEMMA EmitOK ==
  ASSUME TypeOK, NEW to, NEW out, NEW next, Emit(to, out, next)
  PROVE  /\ pc' \in {next, "dead"}
         /\ peer' \in [Conns -> PeerStates]
  <1>1. \A p \in PeerStates : AfterWrite(p) \in PeerStates
    BY DEF AfterWrite, PeerStates
  <1>2. PICK n \in 0 .. Len(to) :
          /\ pc' = IF n < Len(to) THEN "dead" ELSE next
          /\ peer' = [c \in Conns |-> IF c \in {to[k] : k \in 1 .. n}
                                        THEN AfterWrite(peer[c]) ELSE peer[c]]
    BY Zenon DEF Emit
  <1>3. QED
    BY <1>1, <1>2 DEF TypeOK

LEMMA EmitAllOK ==
  ASSUME TypeOK, NEW to, NEW m, NEW next, EmitAll(to, m, next)
  PROVE  /\ pc' \in {next, "dead"}
         /\ peer' \in [Conns -> PeerStates]
  BY EmitOK DEF EmitAll

LEMMA EmitNoneOK ==
  ASSUME TypeOK, NEW next, EmitNone(next)
  PROVE  pc' \in {next, "dead"} /\ peer' \in [Conns -> PeerStates]
  BY DEF EmitNone, wireVars, TypeOK

(* The part of the state that describes the clients.                       *)
TableTyped ==
  /\ used \subseteq Slots /\ joined \subseteq used
  /\ fd \in [Slots -> Conns \cup {NoConn}]
  /\ id \in [Slots -> Nat] /\ next_id \in Nat
  /\ nick \in [Slots -> Nicks \cup {NoNick}]
  /\ inbuf \in [Slots -> Seq(Frame)]
  /\ MembersNamed /\ SlotsFilled

LEMMA CloseSlotTyped ==
  ASSUME TypeInv, NEW s \in used, close_slot(s)
  PROVE  /\ TableTyped'
         /\ link' \in [Conns -> {"idle", "backlog", "open", "closed"}]
         /\ used' = used \ {s}
  <1>1. /\ TableTyped
        /\ link \in [Conns -> {"idle", "backlog", "open", "closed"}]
    BY DEF TypeInv, TypeOK, TableTyped
  <1>2. <<>> \in Seq(Frame)
    BY EmptySeq
  <1>3. QED
    BY <1>1, <1>2 DEF MembersNamed, SlotsFilled, TableTyped, close_slot

LEMMA RemoveTyped ==
  ASSUME TypeInv, NEW s \in used, remove_client_index(s)
  PROVE  /\ TableTyped'
         /\ link' \in [Conns -> {"idle", "backlog", "open", "closed"}]
         /\ pc' \in {"scan", "dead"}
         /\ peer' \in [Conns -> PeerStates]
  <1>1. TypeOK
    BY DEF TypeInv
  <1>2. pc' \in {"scan", "dead"} /\ peer' \in [Conns -> PeerStates]
    <2>1. CASE s \in joined
      BY <1>1, <2>1, EmitAllOK DEF remove_client_index
    <2>2. CASE s \notin joined
      BY <1>1, <2>2, EmitNoneOK DEF remove_client_index
    <2>3. QED
      BY <2>1, <2>2
  <1>3. QED
    BY <1>2, CloseSlotTyped DEF remove_client_index

(* What a frame brings.                                                    *)
LEMMA HeadTyped ==
  ASSUME TypeInv, pc = "process", inbuf[i] # <<>>
  PROVE  /\ i \in used /\ i \in Slots
         /\ Head(inbuf[i]) \in Frame
         /\ Tail(inbuf[i]) \in Seq(Frame)
         /\ [inbuf EXCEPT ![i] = Tail(@)] \in [Slots -> Seq(Frame)]
  <1>1. i \in used /\ i \in Slots /\ inbuf[i] \in Seq(Frame)
    BY DEF TypeInv, TypeOK, Control
  <1>2. Head(inbuf[i]) \in Frame /\ Tail(inbuf[i]) \in Seq(Frame)
    BY <1>1, HeadTailProperties
  <1>3. QED
    BY <1>1, <1>2 DEF TypeInv, TypeOK

LEMMA TypeInit == Init => TypeInv
  <1>1. SUFFICES ASSUME Init PROVE TypeInv
    OBVIOUS
  <1>2. \E n \in 0 .. MAX_CLIENTS : fds \in [0 .. n -> Events]
    <2>1. 0 \in 0 .. MAX_CLIENTS /\ fds \in [0 .. 0 -> Events]
      BY <1>1, ServerAssumption DEF Init, Events
    <2>2. QED
      BY <2>1
  <1>3. /\ inbuf \in [Slots -> Seq(Frame)] /\ inq \in [Conns -> Seq(Frame)]
        /\ backlog \in Seq(Conns) /\ said \in Seq(Lines)
    BY <1>1 DEF Init
  <1>4. TypeOK
    BY <1>1, <1>2, <1>3, ServerAssumption DEF Init, TypeOK, PeerStates
  <1>5. QED
    BY <1>1, <1>4 DEF Init, TypeInv, Control, MembersNamed, SlotsFilled

(* The steps of the main loop, each with what it can disturb.              *)
LEMMA TypePoll == TypeInv /\ Poll => TypeInv'
  <1>1. SUFFICES ASSUME TypeInv, Poll PROVE TypeInv'
    OBVIOUS
  <1>2. PICK n \in 0 .. MAX_CLIENTS : n = Cardinality(Polled)
    BY <1>1, SlotsFinite DEF TypeInv, TypeOK, Polled
  <1>3. \A c : Ready(c) \in Events
    BY DEF Ready, Events
  <1>4. fds' \in [0 .. n -> Events]
    BY <1>1, <1>2, <1>3 DEF Poll, Events
  <1>5. pc' \in {"accept", "scan"} /\ (pc' = "accept" => backlog # <<>>)
    BY <1>1, <1>2 DEF Poll
  <1>6. UNCHANGED <<tableVars, fi, i, netVars, wireVars, saidVars, silent>>
    BY <1>1 DEF Poll
  <1>7. QED
    BY <1>1, <1>4, <1>5, <1>6
      DEF TypeInv, TypeOK, Control, MembersNamed, SlotsFilled, tableVars, netVars, wireVars, saidVars

LEMMA TypeAccept == TypeInv /\ AcceptClient => TypeInv'
  <1>1. SUFFICES ASSUME TypeInv, AcceptClient PROVE TypeInv'
    OBVIOUS
  <1>2. /\ Head(backlog) \in Conns
        /\ Tail(backlog) \in Seq(Conns)
    <2>1. backlog \in Seq(Conns) /\ backlog # <<>>
      BY <1>1 DEF AcceptClient, TypeInv, TypeOK, Control
    <2>2. QED
      BY <2>1, HeadTailProperties
  <1>3. PICK s \in Slots \ used : add_client(Head(backlog), s)
    BY <1>1 DEF AcceptClient, First
  <1>4. TableTyped'
    <2>1. <<>> \in Seq(Frame)
      BY EmptySeq
    <2>2. QED
      BY <1>1, <1>2, <1>3, <2>1
        DEF add_client, TableTyped, TypeInv, TypeOK, MembersNamed, SlotsFilled
  <1>5. /\ link' = [link EXCEPT ![Head(backlog)] = "open"]
        /\ pc' = "scan"
        /\ backlog' = Tail(backlog)
        /\ UNCHANGED <<wireVars, scanVars, inq, sends, drops, saidVars>>
    BY <1>1 DEF AcceptClient, EmitNone
  <1>6. QED
    BY <1>1, <1>2, <1>4, <1>5
      DEF TableTyped, TypeInv, TypeOK, Control, scanVars, wireVars, saidVars

LEMMA TypeRefuse == TypeInv /\ RefuseClient => TypeInv'
  <1>1. SUFFICES ASSUME TypeInv, RefuseClient PROVE TypeInv'
    OBVIOUS
  <1>2. Tail(backlog) \in Seq(Conns)
    <2>1. backlog \in Seq(Conns) /\ backlog # <<>>
      BY <1>1 DEF RefuseClient, TypeInv, TypeOK, Control
    <2>2. QED
      BY <2>1, HeadTailProperties
  <1>3. pc' \in {"scan", "dead"} /\ peer' \in [Conns -> PeerStates]
    <2>1. CASE peer[Head(backlog)] = "rst"
      BY <1>1, <2>1 DEF RefuseClient, wireVars, TypeInv, TypeOK
    <2>2. CASE peer[Head(backlog)] # "rst"
      BY <1>1, <2>2, EmitAllOK DEF RefuseClient, TypeInv
    <2>3. QED
      BY <2>1, <2>2
  <1>4. QED
    BY <1>1, <1>2, <1>3
      DEF RefuseClient, TypeInv, TypeOK, Control, MembersNamed, SlotsFilled, tableVars, scanVars, saidVars

LEMMA TypeScanEnds == TypeInv /\ ScanEnds => TypeInv'
  <1>1. SUFFICES ASSUME TypeInv, ScanEnds PROVE TypeInv'
    OBVIOUS
  <1>2. \E n \in 0 .. MAX_CLIENTS : fds' \in [0 .. n -> Events]
    <2>1. 0 \in 0 .. MAX_CLIENTS /\ fds' \in [0 .. 0 -> Events]
      BY <1>1, ServerAssumption DEF ScanEnds, Events
    <2>2. QED
      BY <2>1
  <1>3. fi' \in 1 .. MAX_CLIENTS + 1 /\ i' \in 0 .. MAX_CLIENTS /\ pc' = "poll"
    BY <1>1, ServerAssumption DEF ScanEnds
  <1>4. QED
    BY <1>1, <1>2, <1>3
      DEF ScanEnds, TypeInv, TypeOK, Control, MembersNamed, SlotsFilled, tableVars, netVars, wireVars,
          saidVars

LEMMA TypeSkipFree == TypeInv /\ SkipFree => TypeInv'
  BY ServerAssumption
    DEF SkipFree, TypeInv, TypeOK, Control, MembersNamed, SlotsFilled, tableVars, netVars, wireVars, saidVars

(* Taking an event moves fi inside its bounds.                             *)
LEMMA TakeEventTyped ==
  ASSUME TypeInv, NEW event, TakeEvent(event)
  PROVE  /\ fi' \in 1 .. MAX_CLIENTS + 1
         /\ fds' = fds
         /\ i \in used /\ i \in Slots /\ i + 1 \in 0 .. MAX_CLIENTS
  <1>1. PICK n \in 0 .. MAX_CLIENTS : fds \in [0 .. n -> Events]
    BY DEF TypeInv, TypeOK
  <1>2. fi \in 0 .. n
    BY <1>1 DEF TakeEvent
  <1>3. QED
    BY <1>2, ServerAssumption DEF TakeEvent, TypeInv, TypeOK, Slots

LEMMA TypeScanQuiet == TypeInv /\ ScanQuiet => TypeInv'
  <1>1. SUFFICES ASSUME TypeInv, ScanQuiet PROVE TypeInv'
    OBVIOUS
  <1>2. fi' \in 1 .. MAX_CLIENTS + 1 /\ fds' = fds /\ i' \in 0 .. MAX_CLIENTS /\ pc = "scan"
    BY <1>1, TakeEventTyped DEF ScanQuiet, TakeEvent
  <1>3. QED
    BY <1>1, <1>2
      DEF ScanQuiet, TypeInv, TypeOK, Control, MembersNamed, SlotsFilled, tableVars, netVars, wireVars,
          saidVars

LEMMA TypeScanHup == TypeInv /\ ScanHup => TypeInv'
  <1>1. SUFFICES ASSUME TypeInv, ScanHup PROVE TypeInv'
    OBVIOUS
  <1>2. fi' \in 1 .. MAX_CLIENTS + 1 /\ fds' = fds /\ i' \in 0 .. MAX_CLIENTS /\ i \in used
    BY <1>1, TakeEventTyped DEF ScanHup
  <1>3. /\ TableTyped'
        /\ link' \in [Conns -> {"idle", "backlog", "open", "closed"}]
        /\ pc' \in {"scan", "dead"}
        /\ peer' \in [Conns -> PeerStates]
    BY <1>1, <1>2, RemoveTyped DEF ScanHup
  <1>4. QED
    BY <1>1, <1>2, <1>3 DEF ScanHup, TableTyped, TypeInv, TypeOK, Control, saidVars

LEMMA TypeScanIn == TypeInv /\ ScanIn => TypeInv'
  <1>1. SUFFICES ASSUME TypeInv, ScanIn PROVE TypeInv'
    OBVIOUS
  <1>2. fi' \in 1 .. MAX_CLIENTS + 1 /\ fds' = fds /\ i \in used
    BY <1>1, TakeEventTyped DEF ScanIn
  <1>3. QED
    BY <1>1, <1>2
      DEF ScanIn, TypeInv, TypeOK, Control, MembersNamed, SlotsFilled, tableVars, netVars, wireVars, saidVars

LEMMA TypeRecv == TypeInv /\ Recv => TypeInv'
  <1>1. SUFFICES ASSUME TypeInv, Recv PROVE TypeInv'
    OBVIOUS
  <1>2. i \in used /\ i \in Slots
    BY <1>1 DEF Recv, TypeInv, TypeOK, Control
  <1>3. PICK n \in 1 .. Len(inq[fd[i]]) :
          /\ inbuf' = [inbuf EXCEPT ![i] = @ \o SubSeq(inq[fd[i]], 1, n)]
          /\ inq' = [inq EXCEPT ![fd[i]] = SubSeq(@, n + 1, Len(@))]
    BY <1>1 DEF Recv
  <1>4. inbuf' \in [Slots -> Seq(Frame)] /\ inq' \in [Conns -> Seq(Frame)]
    <2>1. CASE fd[i] \in Conns
      <3>1. inq[fd[i]] \in Seq(Frame) /\ inbuf[i] \in Seq(Frame)
        BY <1>1, <1>2, <2>1 DEF TypeInv, TypeOK
      <3>2. /\ SubSeq(inq[fd[i]], 1, n) \in Seq(Frame)
            /\ SubSeq(inq[fd[i]], n + 1, Len(inq[fd[i]])) \in Seq(Frame)
        <4>1. /\ Len(inq[fd[i]]) \in Nat
              /\ \A k \in 1 .. Len(inq[fd[i]]) : inq[fd[i]][k] \in Frame
          BY <3>1, LenProperties, ElementOfSeq
        <4>2. \A k \in 1 .. n : inq[fd[i]][k] \in Frame
          BY <4>1
        <4>3. \A k \in n + 1 .. Len(inq[fd[i]]) : inq[fd[i]][k] \in Frame
          BY <4>1
        <4>4. QED
          BY <4>1, <4>2, <4>3, SubSeqProperties
      <3>3. inbuf[i] \o SubSeq(inq[fd[i]], 1, n) \in Seq(Frame)
        BY <3>1, <3>2, ConcatProperties
      <3>4. QED
        BY <1>1, <1>2, <1>3, <2>1, <3>2, <3>3 DEF TypeInv, TypeOK
    <2>2. QED
      BY <1>1, <1>2, <2>1 DEF TypeInv, SlotsFilled
  <1>5. QED
    BY <1>1, <1>2, <1>4
      DEF Recv, TypeInv, TypeOK, Control, MembersNamed, SlotsFilled, scanVars, wireVars, saidVars

LEMMA TypeRecvEnd == TypeInv /\ RecvEnd => TypeInv'
  <1>1. SUFFICES ASSUME TypeInv, RecvEnd PROVE TypeInv'
    OBVIOUS
  <1>2. i \in used /\ i' \in 0 .. MAX_CLIENTS
    BY <1>1, ServerAssumption DEF RecvEnd, TypeInv, TypeOK, Control, Slots
  <1>3. /\ TableTyped'
        /\ link' \in [Conns -> {"idle", "backlog", "open", "closed"}]
        /\ pc' \in {"scan", "dead"}
        /\ peer' \in [Conns -> PeerStates]
    BY <1>1, <1>2, RemoveTyped DEF RecvEnd
  <1>4. QED
    BY <1>1, <1>2, <1>3 DEF RecvEnd, TableTyped, TypeInv, TypeOK, Control, saidVars

(* The handlers.                                                           *)
LEMMA HandledTyped ==
  ASSUME TypeInv, pc = "process", inbuf[i] # <<>>, Handled,
         joined' \subseteq used, nick' \in [Slots -> Nicks \cup {NoNick}], MembersNamed',
         pc' \in {"process", "dead"}, peer' \in [Conns -> PeerStates], said' \in Seq(Lines)
  PROVE  TypeInv'
  <1>1. inbuf' \in [Slots -> Seq(Frame)] /\ i \in used
    BY HeadTyped DEF Handled
  <1>2. UNCHANGED <<used, fd, id, next_id, scanVars, netVars>>
    BY DEF Handled
  <1>3. QED
    BY <1>1, <1>2 DEF TypeInv, TypeOK, Control, SlotsFilled, scanVars, netVars

LEMMA TypeHandleJoin == TypeInv /\ HandleJoin => TypeInv'
  <1>1. SUFFICES ASSUME TypeInv, HandleJoin PROVE TypeInv'
    OBVIOUS
  <1> DEFINE n == Head(inbuf[i]).arg
  <1>2. /\ pc = "process" /\ inbuf[i] # <<>>
        /\ Head(inbuf[i]).type = "JOIN"
        /\ Handled /\ handle_join(i, n)
    BY <1>1 DEF HandleJoin, Frames
  <1>3. i \in used /\ i \in Slots /\ n \in Nicks \cup {BadNick}
    BY <1>1, <1>2, HeadTyped DEF Frame
  <1>4. said' \in Seq(Lines) /\ TypeOK
    BY <1>1, <1>2 DEF handle_join, saidVars, TypeInv, TypeOK
  <1>5. CASE RefuseJoin(i, n)
    <2>1. pc' \in {"process", "dead"} /\ peer' \in [Conns -> PeerStates]
      BY <1>4, <1>5, EmitAllOK DEF RefuseJoin, Reply
    <2>2. joined' = joined /\ nick' = nick
      BY <1>5 DEF RefuseJoin
    <2>3. QED
      BY <1>1, <1>2, <1>4, <2>1, <2>2, HandledTyped DEF TypeInv, TypeOK, MembersNamed
  <1>6. CASE AcceptJoin(i, n)
    <2>1. pc' \in {"process", "dead"} /\ peer' \in [Conns -> PeerStates]
      BY <1>4, <1>6, EmitOK DEF AcceptJoin
    <2>2. /\ n \in Nicks
          /\ joined' = joined \cup {i}
          /\ nick' = [nick EXCEPT ![i] = n]
      BY <1>3, <1>6 DEF AcceptJoin
    <2>3. /\ joined' \subseteq used
          /\ nick' \in [Slots -> Nicks \cup {NoNick}]
          /\ MembersNamed'
      BY <1>1, <1>3, <2>2 DEF TypeInv, TypeOK, MembersNamed
    <2>4. QED
      BY <1>1, <1>2, <1>4, <2>1, <2>3, HandledTyped
  <1>7. QED
    BY <1>2, <1>5, <1>6 DEF handle_join

LEMMA TypeHandleBroadcast == TypeInv /\ HandleBroadcast => TypeInv'
  <1>1. SUFFICES ASSUME TypeInv, HandleBroadcast PROVE TypeInv'
    OBVIOUS
  <1> DEFINE text == Head(inbuf[i]).arg
  <1>2. /\ pc = "process" /\ inbuf[i] # <<>>
        /\ Head(inbuf[i]).type = "BROADCAST"
        /\ Handled /\ handle_broadcast(i, text)
    BY <1>1 DEF HandleBroadcast, Frames
  <1>3. text \in Texts
    BY <1>1, <1>2, HeadTyped DEF Frame
  <1>4. /\ joined' = joined /\ nick' = nick
        /\ pc' \in {"process", "dead"} /\ peer' \in [Conns -> PeerStates]
        /\ said' \in Seq(Lines)
    <2>1. CASE i \in joined
      <3>1. <<nick[i], text>> \in Lines
        BY <1>1, <1>3, <2>1, ServerAssumption DEF TypeInv, MembersNamed
      <3>2. said \in Seq(Lines) /\ said' = Append(said, <<nick[i], text>>)
        BY <1>1, <1>2, <2>1 DEF handle_broadcast, TypeInv, TypeOK
      <3>3. EmitAll(FdsOf(Members), Msg("BROADCAST", <<nick[i], text>>), "process")
        BY <1>2, <2>1 DEF handle_broadcast
      <3>4. pc' \in {"process", "dead"} /\ peer' \in [Conns -> PeerStates]
        BY <1>1, <3>3, EmitAllOK DEF TypeInv
      <3>5. QED
        BY <1>2, <3>1, <3>2, <3>4, AppendProperties DEF handle_broadcast
    <2>2. CASE i \notin joined
      BY <1>1, <1>2, <2>2, EmitNoneOK DEF handle_broadcast, TypeInv, TypeOK, saidVars
    <2>3. QED
      BY <2>1, <2>2
  <1>5. QED
    BY <1>1, <1>2, <1>4, HandledTyped DEF TypeInv, TypeOK, MembersNamed, SlotsFilled

LEMMA TypeHandlePrivate == TypeInv /\ HandlePrivate => TypeInv'
  <1>1. SUFFICES ASSUME TypeInv, HandlePrivate PROVE TypeInv'
    OBVIOUS
  <1> DEFINE target == Head(inbuf[i]).arg
  <1>2. /\ pc = "process" /\ inbuf[i] # <<>>
        /\ Handled /\ handle_private(i, target) /\ TypeOK
    BY <1>1 DEF HandlePrivate, Frames, TypeInv
  <1>3. pc' \in {"process", "dead"} /\ peer' \in [Conns -> PeerStates]
    <2>1. CASE i \notin joined
      BY <1>2, <2>1, EmitNoneOK DEF handle_private
    <2>2. CASE i \in joined /\ find_by_nick(target) = {}
      BY <1>2, <2>2, EmitAllOK DEF handle_private, Reply
    <2>3. CASE i \in joined /\ find_by_nick(target) # {}
      BY <1>2, <2>3, EmitAllOK DEF handle_private
    <2>4. QED
      BY <2>1, <2>2, <2>3
  <1>4. joined' = joined /\ nick' = nick /\ said' = said
    BY <1>2 DEF handle_private, saidVars
  <1>5. QED
    BY <1>1, <1>2, <1>3, <1>4, HandledTyped DEF TypeInv, TypeOK, MembersNamed, SlotsFilled

LEMMA TypeHandleList == TypeInv /\ HandleList => TypeInv'
  <1>1. SUFFICES ASSUME TypeInv, HandleList PROVE TypeInv'
    OBVIOUS
  <1>2. /\ pc = "process" /\ inbuf[i] # <<>>
        /\ Handled /\ handle_list(i) /\ TypeOK
    BY <1>1 DEF HandleList, Frames, TypeInv
  <1>3. pc' \in {"process", "dead"} /\ peer' \in [Conns -> PeerStates]
    BY <1>2, EmitAllOK DEF handle_list, Reply
  <1>4. joined' = joined /\ nick' = nick /\ said' = said
    BY <1>2 DEF handle_list, saidVars
  <1>5. QED
    BY <1>1, <1>2, <1>3, <1>4, HandledTyped DEF TypeInv, TypeOK, MembersNamed, SlotsFilled

LEMMA TypeHandleUnknown == TypeInv /\ HandleUnknown => TypeInv'
  <1>1. SUFFICES ASSUME TypeInv, HandleUnknown PROVE TypeInv'
    OBVIOUS
  <1>2. /\ pc = "process" /\ inbuf[i] # <<>>
        /\ Handled /\ EmitNone("process") /\ TypeOK
    BY <1>1 DEF HandleUnknown, Frames, TypeInv
  <1>3. pc' \in {"process", "dead"} /\ peer' \in [Conns -> PeerStates]
    BY <1>2, EmitNoneOK
  <1>4. joined' = joined /\ nick' = nick /\ said' = said
    BY <1>1 DEF HandleUnknown, saidVars
  <1>5. QED
    BY <1>1, <1>2, <1>3, <1>4, HandledTyped DEF TypeInv, TypeOK, MembersNamed, SlotsFilled

LEMMA TypeHandleInvalid == TypeInv /\ HandleInvalid => TypeInv'
  <1>1. SUFFICES ASSUME TypeInv, HandleInvalid PROVE TypeInv'
    OBVIOUS
  <1>2. i \in used /\ i' \in 0 .. MAX_CLIENTS /\ TypeOK
    BY <1>1, ServerAssumption DEF HandleInvalid, Frames, TypeInv, TypeOK, Control, Slots
  <1>3. /\ TableTyped'
        /\ link' \in [Conns -> {"idle", "backlog", "open", "closed"}]
    BY <1>1, <1>2, CloseSlotTyped DEF HandleInvalid
  <1>4. pc' = "scan" /\ peer' = peer
    BY <1>1 DEF HandleInvalid, EmitNone, wireVars
  <1>5. QED
    BY <1>1, <1>2, <1>3, <1>4 DEF HandleInvalid, TableTyped, TypeInv, TypeOK, Control, saidVars

LEMMA TypeHandleNone == TypeInv /\ HandleNone => TypeInv'
  <1>1. SUFFICES ASSUME TypeInv, HandleNone PROVE TypeInv'
    OBVIOUS
  <1>2. i' \in 0 .. MAX_CLIENTS
    BY <1>1, ServerAssumption DEF HandleNone, TypeInv, TypeOK, Control, Slots
  <1>3. QED
    BY <1>1, <1>2
      DEF HandleNone, TypeInv, TypeOK, Control, MembersNamed, SlotsFilled, tableVars, netVars, wireVars,
          saidVars

LEMMA TypePeers == TypeInv /\ Peers => TypeInv'
  <1>1. SUFFICES ASSUME TypeInv, Peers PROVE TypeInv'
    OBVIOUS
  <1>2. PICK c \in Conns : \/ Connect(c)
                           \/ \E f \in Inputs : SendFrame(c, f)
                           \/ \E state \in {"fin", "rst"} : Drop(c, state)
                           \/ ResetArrives(c)
    BY <1>1 DEF Peers
  <1>3. CASE Connect(c)
    <2>1. Append(backlog, c) \in Seq(Conns) /\ Append(backlog, c) # <<>>
      <3>1. backlog \in Seq(Conns)
        BY <1>1 DEF TypeInv, TypeOK
      <3>2. QED
        BY <3>1, AppendProperties
    <2>2. QED
      BY <1>1, <1>3, <2>1
        DEF Connect, TypeInv, TypeOK, Control, MembersNamed, SlotsFilled, tableVars, scanVars, wireVars,
            saidVars
  <1>4. ASSUME NEW f \in Inputs, SendFrame(c, f) PROVE TypeInv'
    <2>1. Append(inq[c], f) \in Seq(Frame)
      BY <1>1, ServerAssumption, AppendProperties DEF TypeInv, TypeOK
    <2>2. inq' \in [Conns -> Seq(Frame)] /\ sends' \in 0 .. MAX_SENDS
      BY <1>1, <1>4, <2>1, ServerAssumption DEF SendFrame, TypeInv, TypeOK
    <2>3. QED
      BY <1>1, <1>4, <2>2
        DEF SendFrame, TypeInv, TypeOK, Control, MembersNamed, SlotsFilled, tableVars, scanVars, wireVars,
            saidVars
  <1>5. ASSUME NEW state \in {"fin", "rst"}, Drop(c, state) PROVE TypeInv'
    <2>1. peer' \in [Conns -> PeerStates] /\ drops' \in 0 .. MAX_DROPS
      BY <1>1, <1>5, ServerAssumption DEF Drop, TypeInv, TypeOK, PeerStates
    <2>2. QED
      BY <1>1, <1>5, <2>1
        DEF Drop, TypeInv, TypeOK, Control, MembersNamed, SlotsFilled, tableVars, scanVars, saidVars
  <1>6. CASE ResetArrives(c)
    <2>1. peer' \in [Conns -> PeerStates]
      BY <1>1, <1>6 DEF ResetArrives, TypeInv, TypeOK, PeerStates
    <2>2. QED
      BY <1>1, <1>6, <2>1
        DEF ResetArrives, TypeInv, TypeOK, Control, MembersNamed, SlotsFilled, tableVars, scanVars, netVars,
            saidVars
  <1>7. QED
    BY <1>2, <1>3, <1>4, <1>5, <1>6

LEMMA TypeStutter == TypeInv /\ UNCHANGED vars => TypeInv'
  BY DEF vars, TypeInv, TypeOK, Control, MembersNamed, SlotsFilled, tableVars, scanVars, netVars, wireVars,
         saidVars

LEMMA TypeStep == TypeInv /\ [Next]_vars => TypeInv'
  BY TypePoll, TypeAccept, TypeRefuse, TypeScanEnds, TypeSkipFree, TypeScanQuiet, TypeScanHup,
     TypeScanIn, TypeRecv, TypeRecvEnd, TypeHandleJoin, TypeHandleBroadcast, TypeHandlePrivate,
     TypeHandleList, TypeHandleUnknown, TypeHandleInvalid, TypeHandleNone, TypePeers, TypeStutter
     DEF Next, Server

LEMMA TypeAlways == Spec => []TypeInv
  BY TypeInit, TypeStep, PTL DEF Spec

(* The client table, the loop's indices and the network keep their types.  *)
THEOREM TypeCorrectServer == Spec => []TypeOK
  <1>1. TypeInv => TypeOK
    BY DEF TypeInv
  <1>2. QED
    BY <1>1, TypeAlways, PTL
------------------------------------------------------------------------------
(* Connections the kernel holds for accept are each held once, and are not *)
(* open yet: what makes the slot accept gives them the only one.           *)
Waiting ==
  /\ \A k \in 1 .. Len(backlog) : link[backlog[k]] = "backlog"
  /\ \A j, k \in 1 .. Len(backlog) : backlog[j] = backlog[k] => j = k

TableInv == OneSlotPerConnection /\ NicksUnique /\ Waiting

LEMMA TableInit == Init => TableInv
  BY DEF Init, TableInv, OneSlotPerConnection, NicksUnique, Waiting, Members

(* Steps that leave the table, the links and the backlog alone.            *)
LEMMA TableFrame ==
  ASSUME TableInv, UNCHANGED <<used, joined, fd, nick, link, backlog>>
  PROVE  TableInv'
  BY DEF TableInv, OneSlotPerConnection, NicksUnique, Waiting, Members

(* Closing a slot closes its connection and no other.                      *)
LEMMA TableClose ==
  ASSUME TypeInv, TableInv, NEW s \in used, close_slot(s), backlog' = backlog
  PROVE  TableInv'
  <1>1. /\ used \subseteq Slots /\ joined \subseteq used
        /\ fd \in [Slots -> Conns \cup {NoConn}]
        /\ nick \in [Slots -> Nicks \cup {NoNick}]
        /\ link \in [Conns -> {"idle", "backlog", "open", "closed"}]
        /\ \A t \in used : fd[t] \in Conns
    BY DEF TypeInv, TypeOK, SlotsFilled
  <1>2. /\ link' = [link EXCEPT ![fd[s]] = "closed"]
        /\ used' = used \ {s} /\ joined' = joined \ {s}
        /\ fd' = [fd EXCEPT ![s] = NoConn]
        /\ nick' = [nick EXCEPT ![s] = NoNick]
    BY DEF close_slot
  <1>3. \A t \in used' : t # s /\ fd'[t] = fd[t] /\ nick'[t] = nick[t]
    BY <1>1, <1>2
  <1>4. OneSlotPerConnection'
    BY <1>1, <1>2, <1>3 DEF TableInv, OneSlotPerConnection
  <1>5. NicksUnique'
    BY <1>1, <1>2, <1>3 DEF TableInv, NicksUnique, Members
  <1>6. Waiting'
    <2>1. link[fd[s]] = "open"
      BY <1>1 DEF TableInv, OneSlotPerConnection
    <2>2. ASSUME NEW k \in 1 .. Len(backlog) PROVE link'[backlog[k]] = "backlog"
      <3>1. backlog[k] \in Conns
        BY ElementOfSeq DEF TypeInv, TypeOK
      <3>2. link[backlog[k]] = "backlog"
        BY DEF TableInv, Waiting
      <3>3. QED
        BY <1>1, <1>2, <2>1, <3>1, <3>2
    <2>3. QED
      BY <2>2 DEF TableInv, Waiting
  <1>7. QED
    BY <1>4, <1>5, <1>6 DEF TableInv

LEMMA TableRemove ==
  ASSUME TypeInv, TableInv, NEW s \in used, remove_client_index(s), backlog' = backlog
  PROVE  TableInv'
  BY TableClose DEF remove_client_index

(* The head of the backlog leaves it: what is left still waits.            *)
LEMMA WaitingTail ==
  ASSUME TypeInv, TableInv, backlog # <<>>, backlog' = Tail(backlog), NEW state,
         link' = [link EXCEPT ![Head(backlog)] = state]
  PROVE  /\ Waiting'
         /\ Head(backlog) \in Conns /\ link[Head(backlog)] = "backlog"
  <1>1. /\ backlog \in Seq(Conns) /\ Len(backlog) \in Nat /\ Len(backlog) >= 1
        /\ link \in [Conns -> {"idle", "backlog", "open", "closed"}]
    <2>1. backlog \in Seq(Conns) /\ link \in [Conns -> {"idle", "backlog", "open", "closed"}]
      BY DEF TypeInv, TypeOK
    <2>2. QED
      BY <2>1, EmptySeq
  <1>2. /\ Head(backlog) = backlog[1]
        /\ Len(Tail(backlog)) = Len(backlog) - 1
        /\ \A k \in 1 .. Len(Tail(backlog)) : Tail(backlog)[k] = backlog[k + 1]
    BY <1>1, HeadTailProperties
  <1>3. \A k \in 1 .. Len(backlog) : backlog[k] \in Conns /\ link[backlog[k]] = "backlog"
    BY <1>1, ElementOfSeq DEF TableInv, Waiting
  <1>4. ASSUME NEW k \in 1 .. Len(Tail(backlog))
        PROVE  link'[Tail(backlog)[k]] = "backlog"
    <2>1. k + 1 \in 1 .. Len(backlog) /\ 1 \in 1 .. Len(backlog) /\ k + 1 # 1
      BY <1>1, <1>2
    <2>2. backlog[k + 1] # backlog[1]
      BY <2>1 DEF TableInv, Waiting
    <2>3. QED
      BY <1>1, <1>2, <1>3, <2>1, <2>2
  <1>5. ASSUME NEW j \in 1 .. Len(Tail(backlog)), NEW k \in 1 .. Len(Tail(backlog)),
               Tail(backlog)[j] = Tail(backlog)[k]
        PROVE  j = k
    <2>1. j + 1 \in 1 .. Len(backlog) /\ k + 1 \in 1 .. Len(backlog)
      BY <1>1, <1>2
    <2>2. j + 1 = k + 1
      BY <1>2, <1>5, <2>1 DEF TableInv, Waiting
    <2>3. QED
      BY <1>1, <1>2, <2>2
  <1>6. QED
    BY <1>1, <1>2, <1>3, <1>4, <1>5 DEF Waiting

LEMMA TableAccept == TypeInv /\ TableInv /\ AcceptClient => TableInv'
  <1>1. SUFFICES ASSUME TypeInv, TableInv, AcceptClient PROVE TableInv'
    OBVIOUS
  <1> DEFINE c == Head(backlog)
  <1>2. PICK s \in Slots \ used : add_client(c, s)
    BY <1>1 DEF AcceptClient, First
  <1>3. /\ link' = [link EXCEPT ![c] = "open"]
        /\ used' = used \cup {s} /\ joined' = joined \ {s}
        /\ fd' = [fd EXCEPT ![s] = c]
        /\ nick' = [nick EXCEPT ![s] = NoNick]
        /\ backlog # <<>> /\ backlog' = Tail(backlog)
    BY <1>1, <1>2 DEF AcceptClient, add_client, TypeInv, Control
  <1>4. Waiting' /\ c \in Conns /\ link[c] = "backlog"
    BY <1>1, <1>3, WaitingTail
  <1>5. /\ used \subseteq Slots /\ joined \subseteq used
        /\ fd \in [Slots -> Conns \cup {NoConn}]
        /\ nick \in [Slots -> Nicks \cup {NoNick}]
        /\ link \in [Conns -> {"idle", "backlog", "open", "closed"}]
    BY <1>1 DEF TypeInv, TypeOK
  <1>6. /\ fd'[s] = c
        /\ \A t \in used : t # s /\ fd'[t] = fd[t] /\ nick'[t] = nick[t] /\ fd[t] # c
    BY <1>1, <1>2, <1>3, <1>4, <1>5 DEF TableInv, OneSlotPerConnection
  <1>7. OneSlotPerConnection'
    <2>1. ASSUME NEW d \in Conns
          PROVE  link'[d] = "open" <=> \E t \in used' : fd'[t] = d
      <3>1. CASE d = c
        BY <1>3, <1>4, <1>5, <1>6, <3>1
      <3>2. CASE d # c
        BY <1>1, <1>3, <1>5, <1>6, <3>2 DEF TableInv, OneSlotPerConnection
      <3>3. QED
        BY <3>1, <3>2
    <2>2. ASSUME NEW t \in used', NEW u \in used', fd'[t] = fd'[u] PROVE t = u
      BY <1>1, <1>3, <1>6, <2>2 DEF TableInv, OneSlotPerConnection
    <2>3. QED
      BY <2>1, <2>2 DEF OneSlotPerConnection
  <1>8. NicksUnique'
    BY <1>1, <1>3, <1>5, <1>6 DEF TableInv, NicksUnique, Members
  <1>9. QED
    BY <1>4, <1>7, <1>8 DEF TableInv

LEMMA TableRefuse == TypeInv /\ TableInv /\ RefuseClient => TableInv'
  <1>1. SUFFICES ASSUME TypeInv, TableInv, RefuseClient PROVE TableInv'
    OBVIOUS
  <1>2. /\ link' = [link EXCEPT ![Head(backlog)] = "closed"]
        /\ backlog # <<>> /\ backlog' = Tail(backlog)
        /\ UNCHANGED <<used, joined, fd, nick>>
    BY <1>1 DEF RefuseClient, TypeInv, Control, tableVars
  <1>3. Waiting' /\ Head(backlog) \in Conns /\ link[Head(backlog)] = "backlog"
    BY <1>1, <1>2, WaitingTail
  <1>4. OneSlotPerConnection'
    BY <1>1, <1>2, <1>3 DEF TableInv, OneSlotPerConnection, TypeInv, TypeOK
  <1>5. NicksUnique'
    BY <1>1, <1>2 DEF TableInv, NicksUnique, Members
  <1>6. QED
    BY <1>3, <1>4, <1>5 DEF TableInv

(* A nickname is taken only when nick_taken says nobody else has it.       *)
LEMMA TableJoin == TypeInv /\ TableInv /\ HandleJoin => TableInv'
  <1>1. SUFFICES ASSUME TypeInv, TableInv, HandleJoin PROVE TableInv'
    OBVIOUS
  <1> DEFINE n == Head(inbuf[i]).arg
  <1>2. /\ handle_join(i, n)
        /\ UNCHANGED <<used, fd, link, backlog>>
        /\ i \in used
    BY <1>1 DEF HandleJoin, Frames, Handled, netVars, TypeInv, Control
  <1>3. CASE RefuseJoin(i, n)
    BY <1>1, <1>2, <1>3, TableFrame DEF RefuseJoin
  <1>4. CASE AcceptJoin(i, n)
    <2>1. /\ ~nick_taken(n, i)
          /\ joined' = joined \cup {i}
          /\ nick' = [nick EXCEPT ![i] = n]
      BY <1>4 DEF AcceptJoin
    <2>2. NicksUnique'
      BY <1>1, <1>2, <2>1
        DEF TableInv, NicksUnique, Members, nick_taken, TypeInv, TypeOK
    <2>3. OneSlotPerConnection' /\ Waiting'
      BY <1>1, <1>2 DEF TableInv, OneSlotPerConnection, Waiting
    <2>4. QED
      BY <2>2, <2>3 DEF TableInv
  <1>5. QED
    BY <1>2, <1>3, <1>4 DEF handle_join

LEMMA TableConnect ==
  ASSUME TypeInv, TableInv, NEW c \in Conns, Connect(c)
  PROVE  TableInv'
  <1>1. /\ link[c] = "idle" /\ link' = [link EXCEPT ![c] = "backlog"]
        /\ backlog' = Append(backlog, c)
        /\ UNCHANGED <<used, joined, fd, nick>>
        /\ link \in [Conns -> {"idle", "backlog", "open", "closed"}]
        /\ backlog \in Seq(Conns)
    BY DEF Connect, tableVars, TypeInv, TypeOK
  <1>2. OneSlotPerConnection' /\ NicksUnique'
    BY <1>1 DEF TableInv, OneSlotPerConnection, NicksUnique, Members
  <1>3. Waiting'
    <2>1. /\ Len(backlog) \in Nat
          /\ Len(backlog') = Len(backlog) + 1
          /\ \A k \in 1 .. Len(backlog) : backlog'[k] = backlog[k]
          /\ backlog'[Len(backlog) + 1] = c
      BY <1>1, AppendProperties, LenProperties
    <2>2. \A k \in 1 .. Len(backlog) :
            backlog[k] \in Conns /\ link[backlog[k]] = "backlog" /\ backlog[k] # c
      BY <1>1, ElementOfSeq DEF TableInv, Waiting
    <2>3. ASSUME NEW k \in 1 .. Len(backlog') PROVE link'[backlog'[k]] = "backlog"
      <3>1. CASE k = Len(backlog) + 1
        BY <1>1, <2>1, <3>1
      <3>2. CASE k \in 1 .. Len(backlog)
        BY <1>1, <2>1, <2>2, <3>2
      <3>3. QED
        BY <2>1, <3>1, <3>2
    <2>4. ASSUME NEW j \in 1 .. Len(backlog'), NEW k \in 1 .. Len(backlog'),
                 backlog'[j] = backlog'[k]
          PROVE  j = k
      <3>1. CASE j \in 1 .. Len(backlog) /\ k \in 1 .. Len(backlog)
        BY <2>1, <2>4, <3>1 DEF TableInv, Waiting
      <3>2. CASE j = Len(backlog) + 1 /\ k \in 1 .. Len(backlog)
        BY <2>1, <2>2, <2>4, <3>2
      <3>3. CASE j \in 1 .. Len(backlog) /\ k = Len(backlog) + 1
        BY <2>1, <2>2, <2>4, <3>3
      <3>4. QED
        BY <2>1, <3>1, <3>2, <3>3
    <2>5. QED
      BY <2>3, <2>4 DEF Waiting
  <1>4. QED
    BY <1>2, <1>3 DEF TableInv

LEMMA TableServer == TypeInv /\ TableInv /\ Server => TableInv'
  <1>1. SUFFICES ASSUME TypeInv, TableInv, Server PROVE TableInv'
    OBVIOUS
  <1>2. CASE Poll
    BY <1>1, <1>2, TableFrame DEF Poll, tableVars, netVars
  <1>3. CASE ScanEnds \/ SkipFree \/ ScanQuiet \/ ScanIn \/ HandleNone
    BY <1>1, <1>3, TableFrame
      DEF ScanEnds, SkipFree, ScanQuiet, ScanIn, HandleNone, tableVars, netVars
  <1>4. CASE ScanHup
    BY <1>1, <1>4, TableRemove DEF ScanHup, TakeEvent
  <1>5. CASE RecvEnd
    <2>1. i \in used
      BY <1>1, <1>5 DEF RecvEnd, TypeInv, Control
    <2>2. QED
      BY <1>1, <1>5, <2>1, TableRemove DEF RecvEnd
  <1>6. CASE HandleInvalid
    <2>1. i \in used
      BY <1>1, <1>6 DEF HandleInvalid, Frames, TypeInv, Control
    <2>2. QED
      BY <1>1, <1>6, <2>1, TableClose DEF HandleInvalid
  <1>7. CASE Recv
    BY <1>1, <1>7, TableFrame DEF Recv
  <1>8. CASE HandleBroadcast \/ HandlePrivate \/ HandleList \/ HandleUnknown
    <2>1. UNCHANGED <<used, joined, fd, nick, link, backlog>>
      BY <1>8 DEF HandleBroadcast, HandlePrivate, HandleList, HandleUnknown, handle_broadcast,
                  handle_private, handle_list, Handled, netVars
    <2>2. QED
      BY <1>1, <2>1, TableFrame
  <1>9. QED
    BY <1>1, <1>2, <1>3, <1>4, <1>5, <1>6, <1>7, <1>8, TableAccept, TableRefuse, TableJoin
      DEF Server

LEMMA TableStep == TypeInv /\ TableInv /\ [Next]_vars => TableInv'
  <1>1. SUFFICES ASSUME TypeInv, TableInv, [Next]_vars PROVE TableInv'
    OBVIOUS
  <1>2. CASE Server
    BY <1>1, <1>2, TableServer
  <1>3. CASE Peers
    <2>1. PICK c \in Conns : \/ Connect(c)
                             \/ \E f \in Inputs : SendFrame(c, f)
                             \/ \E state \in {"fin", "rst"} : Drop(c, state)
                             \/ ResetArrives(c)
      BY <1>3 DEF Peers
    <2>2. CASE Connect(c)
      BY <1>1, <2>2, TableConnect
    <2>3. ASSUME \/ \E f \in Inputs : SendFrame(c, f)
                 \/ \E state \in {"fin", "rst"} : Drop(c, state)
                 \/ ResetArrives(c)
          PROVE  UNCHANGED <<used, joined, fd, nick, link, backlog>>
      BY <2>3 DEF SendFrame, Drop, ResetArrives, tableVars, netVars
    <2>4. QED
      BY <1>1, <2>1, <2>2, <2>3, TableFrame
  <1>4. CASE UNCHANGED vars
    BY <1>1, <1>4, TableFrame DEF vars, tableVars, netVars
  <1>5. QED
    BY <1>1, <1>2, <1>3, <1>4 DEF Next

LEMMA TableAlways == Spec => []TableInv
  BY TableInit, TypeAlways, TableStep, PTL DEF Spec

(* Nicknames stay unique among the members, whatever the peers send and    *)
(* in whatever order connections come, fail and reuse slots.               *)
THEOREM NicksAreUnique == Spec => []NicksUnique
  <1>1. TableInv => NicksUnique
    BY DEF TableInv
  <1>2. QED
    BY <1>1, TableAlways, PTL

(* Open connections and slots in use correspond one to one: no descriptor  *)
(* is leaked, shared or used after it was closed.                          *)
THEOREM NoDescriptorLost == Spec => []OneSlotPerConnection
  <1>1. TableInv => OneSlotPerConnection
    BY DEF TableInv
  <1>2. QED
    BY <1>1, TableAlways, PTL
------------------------------------------------------------------------------
(* A server step pushes one line or leaves the history alone.              *)
LEMMA HistoryStep == TypeInv /\ [Next]_vars => [HistNext]_histVars
  <1>1. SUFFICES ASSUME TypeInv, [Next]_vars PROVE [HistNext]_histVars
    OBVIOUS
  <1>2. CASE HandleBroadcast
    <2>1. /\ i \in used /\ Head(inbuf[i]).arg \in Texts
          /\ handle_broadcast(i, Head(inbuf[i]).arg)
      BY <1>1, <1>2, HeadTyped DEF HandleBroadcast, Frames, Frame
    <2>2. CASE i \in joined
      <3>1. <<nick[i], Head(inbuf[i]).arg>> \in Lines
        BY <1>1, <2>1, <2>2, ServerAssumption DEF TypeInv, MembersNamed
      <3>2. QED
        BY <2>1, <2>2, <3>1 DEF handle_broadcast, HistNext
    <2>3. CASE i \notin joined
      BY <2>1, <2>3 DEF handle_broadcast, saidVars, histVars
    <2>4. QED
      BY <2>2, <2>3
  <1>3. CASE \/ Poll \/ AcceptClient \/ RefuseClient
             \/ ScanEnds \/ SkipFree \/ ScanQuiet \/ ScanHup \/ ScanIn
             \/ Recv \/ RecvEnd \/ HandleInvalid \/ HandleNone
    BY <1>3 DEF Poll, AcceptClient, RefuseClient, ScanEnds, SkipFree, ScanQuiet, ScanHup,
                ScanIn, Recv, RecvEnd, HandleInvalid, HandleNone, saidVars, histVars
  <1>4. CASE HandleJoin \/ HandlePrivate \/ HandleList \/ HandleUnknown
    BY <1>4 DEF HandleJoin, HandlePrivate, HandleList, HandleUnknown, handle_join, handle_private,
                handle_list, saidVars, histVars
  <1>5. CASE Peers
    BY <1>5 DEF Peers, Connect, SendFrame, Drop, ResetArrives, saidVars, histVars
  <1>6. CASE UNCHANGED vars
    BY <1>6 DEF vars, saidVars, histVars
  <1>7. QED
    BY <1>1, <1>2, <1>3, <1>4, <1>5, <1>6 DEF Next, Server

(* The ring inside the running server is still the list of recent lines.   *)
THEOREM ServerKeepsRecentLines == Spec => RefinesRecentLines
  <1>1. Init => HistInit
    BY DEF Init
  <1>2. Spec => HistSpec
    BY <1>1, TypeAlways, HistoryStep, PTL DEF Spec, HistSpec
  <1>3. QED
    BY <1>2, Refinement
==============================================================================
