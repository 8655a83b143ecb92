------------------------------ MODULE ChatClient ------------------------------
(***************************************************************************)
(* One chat client (LabWork_6/client.c), the TCP connection it opens, and  *)
(* the server's end of that connection (server.c).  A connection is two    *)
(* streams of units, not of frames: a frame is a header of several units   *)
(* and a body, a write puts in what fits, a recv takes out any part.       *)
(*                                                                         *)
(* A unit is <<n, k>>: the k-th unit of the n-th frame of its direction.   *)
(* What the other clients do is what they make the server write here.      *)
(***************************************************************************)
EXTENDS Integers, SequencesExt

CONSTANTS
  CHAT_HEADER_SIZE, \* units of a header
  CHAT_MAX_BODY,    \* units of the longest body
  PIPE,             \* units the kernel holds per direction
  Chunks,           \* what one read of the terminal may bring: sequences of lines
  MAX_HISTORY,      \* bound: lines in the history at the join
  MAX_OTHERS,       \* bound: frames other clients cause
  MAX_READS,        \* bound: reads of the terminal
  MAX_SPINS,        \* rounds of pull_server_after_send (128)
  MAX_STALL         \* timeouts it bears with a partial frame (40)

(* Mutated form: room for a body, and not for its header.                  *)
RecvCapBodyOnly == CHAT_MAX_BODY

RECV_CAP == CHAT_HEADER_SIZE + CHAT_MAX_BODY

(* What a line of the user turns into: a frame, nothing, or the end.       *)
Lines == [type : {"LIST", "PRIVATE", "BROADCAST", "LOCAL", "QUIT"}, len : 0 .. CHAT_MAX_BODY]

ASSUME ClientAssumption ==
  /\ CHAT_HEADER_SIZE \in Nat \ {0} /\ CHAT_MAX_BODY \in Nat \ {0}
  /\ PIPE \in Nat \ {0}
  /\ Chunks \subseteq Seq(Lines)
  /\ MAX_HISTORY \in Nat /\ MAX_OTHERS \in Nat /\ MAX_READS \in Nat
  /\ MAX_STALL \in Nat /\ MAX_SPINS \in Nat

VARIABLES
  (* the client *)
  cpc,         \* where it is
  rx,          \* rx_t: what it received and did not process yet
  got_join,
  cout,        \* the rest of the frame send_frame is writing
  typed,       \* the rest of the lines read from the terminal
  sp, stall,   \* locals of pull_server_after_send
  (* the connection *)
  c2s, s2c,    \* the units under way
  cconn, sconn,\* each end: "open", "fin" (closed) or "rst" (closed with a reset)
  (* the server's end *)
  spc,         \* what the server does for this connection
  inbuf,       \* client_t.inbuf
  joined,
  sout,        \* the rest of what the server is writing here
  sthen,       \* what it does after that
  others, reads,
  (* ghosts *)
  asked, sent, \* the frames the client and the server put in their streams
  handled,     \* the frames the server handled, by number
  printed,     \* the frames the client printed, by number
  why, gone    \* how the client and the server's end ended

clientVars == <<cpc, rx, got_join, cout, typed, sp, stall, reads, asked, printed, why>>
serverVars == <<spc, inbuf, joined, sout, sthen, others, sent, handled, gone>>
vars == <<clientVars, serverVars, c2s, s2c, cconn, sconn>>
------------------------------------------------------------------------------
(* Streams.                                                                *)

Frame(type, len) == [type |-> type, len |-> len]

UnitsOf(frames, n) == [k \in 1 .. CHAT_HEADER_SIZE + frames[n].len |-> <<n, k>>]

(* The stream of a sequence of frames, those after the first `from`.       *)
Stream(frames, from) ==
  FlattenSeq([j \in 1 .. Len(frames) - from |-> UnitsOf(frames, from + j)])

LeastOf(a, b) == IF a <= b THEN a ELSE b
From(s, k) == SubSeq(s, k, Len(s))

(* How many units a recv may bring: some of what is under way, as far as   *)
(* the buffer has room.                                                    *)
RecvSizes(stream, buffer) == 1 .. LeastOf(Len(stream), RECV_CAP - Len(buffer))

(* At offset p of buffer b there is a header; it is a header and none of   *)
(* something else; the frame it begins is complete.                        *)
HasHeader(b, p) == p + CHAT_HEADER_SIZE <= Len(b)

chat_header_valid(frames, b, p) ==
  /\ \A k \in 1 .. CHAT_HEADER_SIZE : b[p + k] = <<b[p + 1][1], k>>
  /\ frames[b[p + 1][1]].len <= CHAT_MAX_BODY

need(frames, b, p) == CHAT_HEADER_SIZE + frames[b[p + 1][1]].len

HasFrame(frames, b, p) ==
  /\ HasHeader(b, p) /\ chat_header_valid(frames, b, p)
  /\ p + need(frames, b, p) <= Len(b)

BadHeader(frames, b, p) == HasHeader(b, p) /\ ~chat_header_valid(frames, b, p)

(* Mutated form: the loop over the frames of the buffer is an if.          *)
ConsumedOne(frames, b) == IF HasFrame(frames, b, 0) THEN need(frames, b, 0) ELSE 0

(* Where the loop over the frames of a buffer stops.                       *)
Consumed(frames, b) ==
  LET after[p \in 0 .. Len(b)] ==
        IF HasFrame(frames, b, p) THEN after[p + need(frames, b, p)] ELSE p
  IN after[0]

(* The numbers of the frames that begin in a piece of the stream.          *)
NumbersIn(units) ==
  LET numbers[k \in 0 .. Len(units)] ==
        IF k = 0 THEN <<>>
        ELSE IF units[k][2] = 1 THEN Append(numbers[k - 1], units[k][1])
        ELSE numbers[k - 1]
  IN numbers[Len(units)]
------------------------------------------------------------------------------
Init ==
  (* connect_tcp has succeeded and send_frame has the JOIN to write *)
  /\ asked = <<Frame("JOIN", 1)>>
  /\ cpc = "join" /\ cout = UnitsOf(asked, 1)
  /\ rx = <<>> /\ got_join = FALSE /\ typed = <<>>
  /\ sp = 0 /\ stall = 0
  /\ c2s = <<>> /\ s2c = <<>> /\ cconn = "open" /\ sconn = "open"
  /\ spc = "backlog" /\ inbuf = <<>> /\ joined = FALSE
  /\ sout = <<>> /\ sthen = "poll"
  /\ others = 0 /\ reads = 0
  /\ sent = <<>> /\ handled = <<>> /\ printed = <<>>
  /\ why = "none" /\ gone = "none"
------------------------------------------------------------------------------
(* The client.                                                             *)

(* close(sock) with `unread` left in the kernel: a reset, if it is not     *)
(* empty.                                                                  *)
Exit(reason, unread) ==
  /\ cpc' = "exit" /\ why' = reason
  /\ cconn' = IF unread = <<>> THEN "fin" ELSE "rst"

Stay(next) == cpc' = next /\ UNCHANGED <<why, cconn>>

(* Only where the client is changes, and its end of the connection.        *)
NothingElse == UNCHANGED <<rx, got_join, cout, typed, sp, stall, reads, asked, printed,
                           c2s, s2c, sconn, serverVars>>

(* Mutated form: recv writes at the start of the buffer.                   *)
BufferOver(n) == SubSeq(s2c, 1, n)

(* The buffer after a recv of n units.                                     *)
Buffer(n) == rx \o SubSeq(s2c, 1, n)

(* send_frame: the header and the body are written by write_full, which    *)
(* puts in what fits.  A server that has closed answers the first write    *)
(* with a reset, which comes before the body is written or after it; then  *)
(* the next write fails, or kills, and the client is gone.                 *)
SendTo(next) ==
  LET fits == LeastOf(Len(cout), PIPE - Len(c2s))
  IN \/ /\ sconn = "open" /\ fits > 0
        /\ c2s' = c2s \o SubSeq(cout, 1, fits)
        /\ cout' = From(cout, fits + 1)
        /\ Stay(IF fits = Len(cout) THEN next ELSE cpc)
        /\ UNCHANGED sconn
     \/ /\ sconn = "fin"
        /\ \E n \in 1 .. Len(cout) :
             /\ n = Len(cout) \/ cout[n][2] = CHAT_HEADER_SIZE
             /\ cout' = From(cout, n + 1)
             /\ Stay(IF n = Len(cout) THEN next ELSE cpc)
        /\ sconn' = "rst" /\ UNCHANGED c2s
     \/ /\ sconn = "rst"
        /\ Exit("send", s2c)
        /\ UNCHANGED <<c2s, cout, sconn>>

SendJoin ==
  /\ cpc = "join"
  /\ SendTo("handshake")
  /\ UNCHANGED <<rx, got_join, typed, sp, stall, s2c, serverVars, reads, asked, printed>>

SendLine ==
  /\ cpc = "send"
  /\ SendTo("pull")
  /\ UNCHANGED <<rx, got_join, typed, sp, stall, s2c, serverVars, reads, asked, printed>>

(* Every type of frame has its line on the terminal.                       *)
print_incoming(numbers) == printed' = printed \o numbers

(* Mutated form: what got_join says is settled before the loop.            *)
WelcomeLate(new, k) ==
  sent[new[k]].type = "JOIN_ACK" \/ (sent[new[k]].type = "HISTORY" /\ got_join)

(* The k-th of the frames in the buffer is one the handshake goes on after.*)
Welcome(new, k) ==
  \/ sent[new[k]].type = "JOIN_ACK"
  \/ /\ sent[new[k]].type = "HISTORY"
     /\ got_join \/ \E j \in 1 .. k - 1 : sent[new[j]].type = "JOIN_ACK"

(* handshake_blocking, from one recv to the next: it gives up at the first *)
(* frame it does not expect, and is done when the acknowledgement is there *)
(* and nothing else is in the buffer.                                      *)
Handshake ==
  /\ cpc = "handshake"
  /\ \E n \in RecvSizes(s2c, rx) :
       LET b   == Buffer(n)
           cut == Consumed(sent, b)
           new == NumbersIn(SubSeq(b, 1, cut))
           bad == {k \in DOMAIN new : ~Welcome(new, k)}
       IN /\ s2c' = From(s2c, n + 1)
          /\ rx' = From(b, cut + 1)
          /\ got_join' = (got_join \/ \E k \in DOMAIN new : sent[new[k]].type = "JOIN_ACK")
          /\ IF bad # {}
               THEN LET first == CHOOSE k \in bad : \A j \in bad : k <= j
                        error == sent[new[first]].type = "ERROR"
                    IN /\ Exit(IF error THEN "refused" ELSE "unexpected", s2c')
                       /\ print_incoming(SubSeq(new, 1, IF error THEN first ELSE first - 1))
             ELSE /\ print_incoming(new)
                  /\ IF BadHeader(sent, b, cut) THEN Exit("protocol", s2c')
                     ELSE Stay(IF got_join' /\ rx' = <<>> THEN "loop" ELSE "handshake")
  /\ UNCHANGED <<cout, typed, sp, stall, c2s, sconn, serverVars, reads, asked>>

HandshakeEnd ==
  /\ cpc = "handshake" /\ s2c = <<>> /\ sconn # "open"
  /\ Exit("closed", <<>>)
  /\ NothingElse

(* recv and process_server: every complete frame is printed; after a bad   *)
(* header the buffer is emptied and the client carries on.                 *)
ReceiveAndPrint ==
  \E n \in RecvSizes(s2c, rx) :
    LET b   == Buffer(n)
        cut == Consumed(sent, b)
    IN /\ s2c' = From(s2c, n + 1)
       /\ print_incoming(NumbersIn(SubSeq(b, 1, cut)))
       /\ rx' = IF BadHeader(sent, b, cut) THEN <<>> ELSE From(b, cut + 1)

(* The main loop's poll.  A reset is looked at first; what it overtook is  *)
(* not read.  Then the socket, then the terminal, if that was ready too.   *)
LoopHup ==
  /\ cpc = "loop" /\ sconn = "rst"
  /\ Exit("hup", s2c)
  /\ NothingElse

LoopRecv ==
  /\ cpc = "loop" /\ sconn # "rst"
  /\ ReceiveAndPrint
  /\ Stay("loop") \/ (reads < MAX_READS /\ Stay("stdin"))
  /\ UNCHANGED <<got_join, cout, typed, sp, stall, c2s, sconn, serverVars, reads, asked>>

(* Mutated form: an end of file is taken for no data.                      *)
LoopEndIgnored ==
  /\ cpc = "loop" /\ sconn = "fin" /\ s2c = <<>>
  /\ Stay("loop")
  /\ NothingElse

LoopEnd ==
  /\ cpc = "loop" /\ sconn = "fin" /\ s2c = <<>>
  /\ Exit("eof", <<>>)
  /\ NothingElse

LoopStdin ==
  /\ cpc = "loop" /\ sconn = "open" /\ s2c = <<>> /\ reads < MAX_READS
  /\ Stay("stdin")
  /\ NothingElse

ReadStdin ==
  /\ cpc = "stdin"
  /\ typed' \in Chunks /\ reads' = reads + 1
  /\ Stay("lines")
  /\ UNCHANGED <<rx, got_join, cout, sp, stall, c2s, s2c, sconn, serverVars, asked, printed>>

(* handle_user_line: an end of the terminal is a QUIT, a line that is      *)
(* answered or refused on the spot is LOCAL, the others are sent.          *)
QuitLine ==
  /\ cpc = "lines" /\ typed # <<>> /\ Head(typed).type = "QUIT"
  /\ Exit("quit", s2c)
  /\ NothingElse

LocalLine ==
  /\ cpc = "lines" /\ typed # <<>> /\ Head(typed).type = "LOCAL"
  /\ typed' = Tail(typed) /\ Stay("lines")
  /\ UNCHANGED <<rx, got_join, cout, sp, stall, c2s, s2c, sconn, serverVars, reads, asked,
                 printed>>

FrameLine ==
  /\ cpc = "lines" /\ typed # <<>> /\ Head(typed).type \notin {"QUIT", "LOCAL"}
  /\ asked' = Append(asked, Head(typed))
  /\ cout' = UnitsOf(asked', Len(asked'))
  /\ typed' = Tail(typed) /\ Stay("send")
  /\ UNCHANGED <<rx, got_join, sp, stall, c2s, s2c, sconn, serverVars, reads, printed>>

LinesEnd ==
  /\ cpc = "lines" /\ typed = <<>>
  /\ Stay("loop")
  /\ NothingElse

(* pull_server_after_send, round by round; its locals are 0 outside it.    *)
incomplete_frame == rx # <<>> /\ ~BadHeader(sent, rx, 0) /\ ~HasFrame(sent, rx, 0)

(* Mutated form: one timeout more than stall is to count.                  *)
BearsOneMore == stall <= MAX_STALL

BearsStall == stall < MAX_STALL

Leave == Stay("lines") /\ sp' = 0 /\ stall' = 0

PullSpin ==
  /\ cpc = "pull" /\ sp < MAX_SPINS
  /\ ReceiveAndPrint
  /\ sp' = sp + 1 /\ stall' = 0
  /\ Stay("pull")
  /\ UNCHANGED <<got_join, cout, typed, c2s, sconn, serverVars, reads, asked>>

PullTimeout ==
  /\ cpc = "pull" /\ sp < MAX_SPINS
  /\ s2c = <<>> /\ sconn = "open"
  /\ IF incomplete_frame /\ BearsStall
       THEN Stay("pull") /\ sp' = sp + 1 /\ stall' = stall + 1
       ELSE Leave
  /\ UNCHANGED <<rx, got_join, cout, typed, c2s, s2c, sconn, serverVars, reads, asked, printed>>

(* The rounds are used up, or recv finds an end or an error.               *)
PullEnd ==
  /\ cpc = "pull"
  /\ sp = MAX_SPINS \/ (s2c = <<>> /\ sconn # "open")
  /\ Leave
  /\ UNCHANGED <<rx, got_join, cout, typed, c2s, s2c, sconn, serverVars, reads, asked, printed>>

ClientRuns ==
  \/ SendJoin \/ Handshake \/ HandshakeEnd
  \/ LoopHup \/ LoopRecv \/ LoopEnd \/ ReadStdin
  \/ QuitLine \/ LocalLine \/ FrameLine \/ LinesEnd
  \/ SendLine \/ PullSpin \/ PullTimeout \/ PullEnd
------------------------------------------------------------------------------
(* The server's end of the connection.                                     *)

(* A handler begins to write: to this client, then it goes on at `next`.   *)
Emit(frames, next) ==
  /\ sent' = sent \o frames
  /\ sout' = Stream(sent \o frames, Len(sent))
  /\ spc' = "write" /\ sthen' = next

EmitNone(next) == spc' = next /\ UNCHANGED <<sent, sout, sthen>>

(* The socket is closed: with a reset, if something in it was not read.    *)
Shut(reason) ==
  /\ gone' = reason
  /\ sconn' = IF c2s = <<>> THEN "fin" ELSE "rst"

SvAccept ==
  /\ spc = "backlog"
  /\ EmitNone("poll") \/ Emit(<<Frame("ERROR", 1)>>, "close")   \* "Server full"
  /\ UNCHANGED <<inbuf, joined, others, handled, gone, clientVars, c2s, s2c, cconn, sconn>>

(* A frame of somebody else is handled; once joined, this client hears it. *)
SvOther ==
  /\ spc = "poll" /\ joined /\ others < MAX_OTHERS
  /\ others' = others + 1
  /\ \E type \in {"NOTIFY", "BROADCAST"} : Emit(<<Frame(type, 1)>>, "poll")
  /\ UNCHANGED <<inbuf, joined, handled, gone, clientVars, c2s, s2c, cconn, sconn>>

SvRecv ==
  /\ spc = "poll" /\ cconn # "rst"
  /\ \E n \in RecvSizes(c2s, inbuf) :
       /\ inbuf' = inbuf \o SubSeq(c2s, 1, n)
       /\ c2s' = From(c2s, n + 1)
  /\ EmitNone("process")
  /\ UNCHANGED <<joined, others, handled, gone, clientVars, s2c, cconn, sconn>>

(* remove_client_index: after a reset, at once; after an end of file, when *)
(* everything was read.                                                    *)
SvRemove ==
  /\ spc = "poll"
  /\ \/ cconn = "rst" /\ Shut("hup")
     \/ cconn = "fin" /\ c2s = <<>> /\ Shut("eof")
  /\ EmitNone("gone")
  /\ UNCHANGED <<inbuf, joined, others, handled, clientVars, c2s, s2c, cconn>>

(* The answers of a handler to the client whose frame it handles.          *)
Answers(f) ==
  CASE f.type = "JOIN" ->
         {<<Frame("ERROR", 1)>>}
           \cup {<<Frame("JOIN_ACK", 1)>> \o [k \in 1 .. h |-> Frame("HISTORY", 1)] :
                   h \in 0 .. MAX_HISTORY}
    [] f.type = "LIST"      -> {<<Frame("LIST_REPLY", 1)>>}
    [] f.type = "PRIVATE"   -> {<<Frame("ERROR", 1)>>, <<Frame("PRIVATE", f.len)>>}
    [] f.type = "BROADCAST" -> {<<Frame("BROADCAST", f.len)>>}

(* memmove by the length of the first frame.                               *)
Shift == From(inbuf, need(asked, inbuf, 0) + 1)

(* process_message, one frame.  A PRIVATE whose write to the target failed *)
(* is not answered (server.c:231).                                         *)
SvHandle ==
  /\ spc = "process" /\ HasFrame(asked, inbuf, 0)
  /\ LET n == inbuf[1][1]
     IN /\ handled' = Append(handled, n)
        /\ \/ \E answer \in Answers(asked[n]) :
                /\ Emit(answer, "process")
                /\ joined' = (joined \/ answer[1].type = "JOIN_ACK")
           \/ /\ asked[n].type = "PRIVATE"
              /\ EmitNone("process") /\ UNCHANGED joined
  /\ inbuf' = Shift
  /\ UNCHANGED <<others, gone, clientVars, c2s, s2c, cconn, sconn>>

(* Mutated form: complete frames may be left in the buffer.                *)
SvProcessedOne ==
  /\ spc = "process"
  /\ EmitNone("poll")
  /\ UNCHANGED <<inbuf, joined, others, handled, gone, clientVars, c2s, s2c, cconn, sconn>>

(* The rest is not a whole frame.                                          *)
SvProcessed ==
  /\ spc = "process" /\ ~HasFrame(asked, inbuf, 0)
  /\ EmitNone("poll")
  /\ UNCHANGED <<inbuf, joined, others, handled, gone, clientVars, c2s, s2c, cconn, sconn>>

(* write_full, blocking while the stream is full.                          *)
SvWrite ==
  /\ spc = "write" /\ cconn = "open"
  /\ LET n == LeastOf(Len(sout), PIPE - Len(s2c))
     IN /\ n > 0
        /\ s2c' = s2c \o SubSeq(sout, 1, n)
        /\ sout' = From(sout, n + 1)
        /\ IF n < Len(sout) THEN UNCHANGED <<spc, gone, sconn>>
           ELSE IF sthen = "close" THEN spc' = "gone" /\ Shut("full")
           ELSE spc' = sthen /\ UNCHANGED <<gone, sconn>>
  /\ UNCHANGED <<inbuf, joined, others, sent, sthen, handled, clientVars, c2s, cconn>>

(* The client has closed (never before a refusal is written): the write is *)
(* answered with a reset, or fails, or kills the server.                   *)
SvWriteLost ==
  /\ spc = "write" /\ cconn # "open"
  /\ cconn' = "rst" /\ sout' = <<>>
  /\ \/ spc' = sthen /\ UNCHANGED <<gone, sconn>>
     \/ cconn = "rst" /\ spc' = "gone" /\ Shut("died")
  /\ UNCHANGED <<inbuf, joined, others, sent, sthen, handled, clientVars, c2s, s2c>>

ServerRuns ==
  \/ SvAccept \/ SvRecv \/ SvRemove \/ SvHandle \/ SvProcessed \/ SvWrite \/ SvWriteLost

(* The server's process ends: killed, or by a write to another client.     *)
SvDie ==
  /\ spc # "gone" /\ Shut("died")
  /\ spc' = "gone" /\ sout' = <<>>
  /\ UNCHANGED <<inbuf, joined, sthen, others, sent, handled, clientVars, c2s, s2c, cconn>>

Next == ClientRuns \/ LoopStdin \/ ServerRuns \/ SvOther \/ SvDie

(* The client is run whenever it can go on, and so is the server while it  *)
(* is in write_full to this client.  That it ever turns to this connection *)
(* is not assumed: the one process serves all clients, and may sit in recv *)
(* or write_full on another one for good.  Nothing is assumed of the user, *)
(* of the other clients and of the server's end either.                    *)
ServerWrites == SvWrite \/ SvWriteLost
Spec == Init /\ [][Next]_vars
FairSpec == Spec /\ WF_vars(ClientRuns) /\ WF_vars(ServerWrites)
------------------------------------------------------------------------------
(* Properties.                                                             *)

Units == (Nat \ {0}) \X (1 .. CHAT_HEADER_SIZE + CHAT_MAX_BODY)

TypeOK ==
  /\ cpc \in {"join", "handshake", "loop", "stdin", "lines", "send", "pull", "exit"}
  /\ spc \in {"backlog", "poll", "process", "write", "gone"}
  /\ \A s \in {rx, inbuf, c2s, s2c, cout, sout} : s \in Seq(Units)
  /\ Len(c2s) <= PIPE /\ Len(s2c) <= PIPE
  /\ got_join \in BOOLEAN /\ joined \in BOOLEAN
  /\ typed \in Seq(Lines)
  /\ sp \in 0 .. MAX_SPINS /\ stall \in 0 .. MAX_STALL
  /\ {cconn, sconn} \subseteq {"open", "fin", "rst"}
  /\ sthen \in {"poll", "process", "close"}
  /\ others \in 0 .. MAX_OTHERS /\ reads \in 0 .. MAX_READS
  /\ why \in {"none", "refused", "unexpected", "protocol", "closed", "hup", "eof", "quit", "send"}
  /\ gone \in {"none", "full", "hup", "eof", "died"}

InOrder(numbers) == \A k \in DOMAIN numbers : numbers[k] = k

(* However the streams are cut up, the client prints the frames the server *)
(* wrote, whole, once each and in order, and what it keeps is exactly the  *)
(* beginning of the next one (handshake_blocking, process_server and       *)
(* pull_server_after_send hand one buffer on to each other); and the same  *)
(* of the client's frames and the server's process_message, also when the  *)
(* client has left with frames under way.                                  *)
StreamsIntact ==
  /\ cpc # "exit" =>
       /\ InOrder(printed)
       /\ LET rest == Stream(sent, Len(printed))
              here == rx \o s2c \o sout
          IN IF spc = "gone" THEN IsPrefix(here, rest) ELSE here = rest
  /\ spc # "gone" =>
       InOrder(handled) /\ inbuf \o c2s \o cout = Stream(asked, Len(handled))

(* Neither end ever calls recv with no room in its buffer: that would      *)
(* return 0 and be taken for the end of the connection (client.c:117, 185, *)
(* 375, server.c:441; the check at server.c:452 is never needed).          *)
RoomForMore ==
  /\ cpc \in {"handshake", "loop", "pull"} => Len(rx) < RECV_CAP
  /\ spc = "poll" => Len(inbuf) < RECV_CAP

(* The handshake gives up only when the server said no, when it died, or   *)
(* when a frame somebody else caused stood behind the acknowledgement in   *)
(* the same buffer (the default branch at client.c:106).  A full server is *)
(* heard, although it closes at once and a JOIN it did not read makes that *)
(* a reset, unless the client was still writing the JOIN: the write fails, *)
(* or kills, and the refusal is not shown.  Later a write fails only when  *)
(* the server has died.                                                    *)
RefusedForCause ==
  /\ why = "unexpected" => sent[Len(printed) + 1].type \in {"NOTIFY", "BROADCAST"} /\ joined
  /\ why = "refused" => sent[Len(printed)].type = "ERROR" /\ ~joined
  /\ why = "closed" => gone = "died"
  /\ why = "send" => gone = "died" \/ (gone = "full" /\ Len(asked) = 1 /\ printed = <<>>)
  /\ why # "protocol"

(* When the server drops the client at its end of file, it has handled     *)
(* every line the client sent: only a reset makes the last words unheard   *)
(* (server.c:436 looks at POLLHUP before POLLIN).                          *)
LastWordsHeard == gone = "eof" => Len(handled) = Len(asked)

(* The client sits in write_full, and the server does not read.            *)
HeldInWrite == cpc \in {"join", "send"} /\ Len(c2s) = PIPE /\ sconn = "open"

(* Everything the server writes is printed, without a further frame or key *)
(* to push it, unless the client leaves, the server ends, or the client    *)
(* stays in write_full for ever: the server then writes to this client at  *)
(* the same time, both streams being full, or sits in a call on another    *)
(* connection that does not return (server.c:441, server.c:59).            *)
EverythingShown ==
  Len(printed) < Len(sent)
    ~> (Len(printed) = Len(sent) \/ cpc = "exit" \/ spc = "gone" \/ []HeldInWrite)

(* A client whose server is gone notices and ends, wherever it was.        *)
ServerLossNoticed == sconn # "open" ~> cpc = "exit"
==============================================================================
