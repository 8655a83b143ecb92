------------------------------ MODULE ChatServer ------------------------------
(***************************************************************************)
(* The TCP chat server (LabWork_6/server.c): one process that polls the    *)
(* listener and the sockets of its clients, accepts one connection per     *)
(* round, and handles the frames of the connections that are ready.        *)
(*                                                                         *)
(* The peers are the environment: they connect, send any well-formed or    *)
(* malformed frame, close and reset.  A connection is its own descriptor;  *)
(* a frame is read and written as a whole.                                 *)
(***************************************************************************)
EXTENDS ChatHistory, Integers, FiniteSetsExt

CONSTANTS
  Conns,            \* the connections peers open, numbered as they come
  Nicks,            \* the nicknames a join may ask for
  MAX_CLIENTS,      \* the slots of the server's client table
  MAX_SENDS,        \* bound: frames all peers send together
  MAX_DROPS,        \* bound: connections that peers close or reset
  NoConn,           \* the descriptor of a free slot (-1)
  NoNick,           \* the nickname of a slot that has not joined ("")
  BadNick,          \* a nickname or target the server rejects by its shape
  Inputs            \* the frames peers send, a subset of Frame

Slots == 0 .. MAX_CLIENTS - 1
Texts == 1 .. MAX_SENDS

Frame == [type : {"JOIN"}, arg : Nicks \cup {BadNick}]
   \cup [type : {"BROADCAST"}, arg : Texts]
   \cup [type : {"PRIVATE"}, arg : Nicks \cup {BadNick}]
   \cup [type : {"LIST"}, arg : {0}]
   \cup [type : {"UNKNOWN"}, arg : {0}]      \* a type the server does not handle
   \cup [type : {"INVALID"}, arg : {0}]      \* a header chat_header_valid refuses

ASSUME ServerAssumption ==
  /\ MAX_CLIENTS \in Nat \ {0}
  /\ MAX_SENDS \in Nat
  /\ MAX_DROPS \in Nat
  /\ NoConn \notin Conns
  /\ NoNick \notin Nicks
  /\ BadNick \notin Nicks
  /\ Lines = Nicks \X Texts
  /\ Conns \subseteq Nat
  /\ Inputs \subseteq Frame

VARIABLES
  (* the client table, static client_t clients[MAX_CLIENTS] *)
  used, joined,     \* the slots with the flag of that name set
  fd, id, nick,     \* per slot
  inbuf,            \* per slot: the frames received and not yet handled
  next_id,
  (* main's locals *)
  pc,               \* where the server is
  fds,              \* the revents of the last poll; fds[0] is the listener's
  fi, i,            \* the scan over fds and over the slots
  (* the network *)
  link,             \* per connection, the server's side of it
  peer,             \* per connection, the state of the peer's side
  backlog,          \* connections the kernel holds for accept
  inq,              \* per connection: frames sent and not yet received
  outq,             \* per connection: frames the peer was sent, all of them
  sends, drops,     \* what the peers used up of their bounds
  (* ghosts *)
  said,             \* every line ever pushed to the history
  silent            \* nicknames of members cut off without a [PART]

tableVars == <<used, joined, fd, id, nick, inbuf, next_id>>
scanVars  == <<fds, fi, i>>
netVars   == <<link, backlog, inq, sends, drops>>
wireVars  == <<peer, outq>>
saidVars  == <<history, hist_count, hist_start, said>>
vars == <<tableVars, scanVars, pc, netVars, wireVars, saidVars, silent>>

(* "fin": closed by the peer, a write still succeeds; "finw": written to   *)
(* since, a reset is on its way; "rst": reset, the error not yet reported; *)
(* "broken": the error was reported or raced with, a write raises SIGPIPE. *)
PeerStates == {"up", "fin", "finw", "rst", "broken"}
Events == {"none", "in", "hup"}

Init ==
  /\ used = {} /\ joined = {}
  /\ fd = [s \in Slots |-> NoConn]
  /\ id = [s \in Slots |-> 0]
  /\ nick = [s \in Slots |-> NoNick]
  /\ inbuf = [s \in Slots |-> <<>>]
  /\ next_id = 1
  /\ pc = "poll"
  /\ fds = [k \in 0 .. 0 |-> "none"]
  /\ fi = 1 /\ i = 0
  /\ link = [c \in Conns |-> "idle"]
  /\ peer = [c \in Conns |-> "up"]
  /\ backlog = <<>>
  /\ inq = [c \in Conns |-> <<>>]
  /\ outq = [c \in Conns |-> <<>>]
  /\ sends = 0 /\ drops = 0
  /\ HistInit
  /\ said = <<>> /\ silent = {}
------------------------------------------------------------------------------
(* Writing.                                                                *)

Msg(type, arg) == [type |-> type, arg |-> arg]

(* The k-th slot of a set in the order of the table.                       *)
Nth(S, k) == CHOOSE s \in S : Cardinality({t \in S : t < s}) = k - 1

(* The descriptors of a set of slots in that order.                        *)
FdsOf(S) == [k \in 1 .. Cardinality(S) |-> fd[Nth(S, k)]]

MayKill(c) == peer[c] \in {"fin", "finw", "broken"}

(* What a write to the peer leaves of its state.                           *)
AfterWrite(p) == CASE p = "fin" -> "finw" [] p = "rst" -> "broken" [] OTHER -> p

(* The send_frame calls of a handler: to the connections of the sequence   *)
(* `to`, in that order, the frames out[c] to c.  A peer that is up gets    *)
(* them; a write to one that is gone is lost, fails (the callers carry on) *)
(* or, SIGPIPE having its default action, kills the server before the      *)
(* rest is written.  Otherwise the server goes on at `next`.               *)
Emit(to, out, next) ==
  \E n \in 0 .. Len(to) :
    LET written == {to[k] : k \in 1 .. n}
    IN /\ \A c \in written : peer[c] # "broken"
       /\ n < Len(to) => MayKill(to[n + 1])
       /\ pc' = IF n < Len(to) THEN "dead" ELSE next
       /\ peer' = [c \in Conns |-> IF c \in written THEN AfterWrite(peer[c]) ELSE peer[c]]
       /\ outq' = [c \in Conns |-> IF c \in written /\ peer[c] = "up"
                                     THEN outq[c] \o out[c] ELSE outq[c]]

(* The same frame to everyone; no write at all.                            *)
EmitAll(to, m, next) == Emit(to, [c \in Conns |-> <<m>>], next)
EmitNone(next) == pc' = next /\ UNCHANGED wireVars
------------------------------------------------------------------------------
(* The client table.                                                       *)

(* Mutated form: the loops over the members do not look at joined.         *)
EveryoneUsed == used

Members == used \cap joined

(* The first slot of a set in the order of the table, if there is one.     *)
First(S) == {s \in S : \A t \in S : s <= t}

(* Mutated form: the search stops at the slot itself.                      *)
nick_taken_below(n, except) == \E t \in Members : t < except /\ nick[t] = n

nick_taken(n, except) == \E t \in Members \ {except} : nick[t] = n

(* Mutated form: the comparison is inverted.                               *)
find_by_other_nick(n) == First({t \in Members : nick[t] # n})

find_by_nick(n) == First({t \in Members : nick[t] = n})

add_client(c, s) ==
  /\ used' = used \cup {s}
  /\ joined' = joined \ {s}
  /\ fd' = [fd EXCEPT ![s] = c]
  /\ id' = [id EXCEPT ![s] = next_id]
  /\ nick' = [nick EXCEPT ![s] = NoNick]
  /\ inbuf' = [inbuf EXCEPT ![s] = <<>>]
  /\ next_id' = next_id + 1

(* Mutated forms: the descriptor is not closed; the flag is not cleared.   *)
close_slot_leaking(s) ==
  /\ UNCHANGED <<link, next_id>>
  /\ used' = used \ {s} /\ joined' = joined \ {s}
  /\ fd' = [fd EXCEPT ![s] = NoConn]
  /\ id' = [id EXCEPT ![s] = 0]
  /\ nick' = [nick EXCEPT ![s] = NoNick]
  /\ inbuf' = [inbuf EXCEPT ![s] = <<>>]

close_slot_still_joined(s) ==
  /\ link' = [link EXCEPT ![fd[s]] = "closed"]
  /\ used' = used \ {s}
  /\ fd' = [fd EXCEPT ![s] = NoConn]
  /\ UNCHANGED <<joined, id, nick, inbuf, next_id>>

close_slot(s) ==
  /\ link' = [link EXCEPT ![fd[s]] = "closed"]
  /\ used' = used \ {s}
  /\ joined' = joined \ {s}
  /\ fd' = [fd EXCEPT ![s] = NoConn]
  /\ id' = [id EXCEPT ![s] = 0]
  /\ nick' = [nick EXCEPT ![s] = NoNick]
  /\ inbuf' = [inbuf EXCEPT ![s] = <<>>]
  /\ UNCHANGED next_id

(* Mutated form: nobody is told.                                           *)
remove_client_index_mute(s) == EmitNone("scan") /\ close_slot(s)

(* A member's departure is announced to the others, then the slot closes.  *)
remove_client_index(s) ==
  /\ IF s \in joined
       THEN EmitAll(FdsOf(Members \ {s}), Msg("NOTIFY", <<"PART", nick[s]>>), "scan")
       ELSE EmitNone("scan")
  /\ close_slot(s)
------------------------------------------------------------------------------
(* The handlers, each for the frame at the head of slot s's buffer.        *)

Reply(s, m) == EmitAll(<<fd[s]>>, m, "process")

Ack(s, n) == Msg("JOIN_ACK", <<id[s], n>>)

(* Mutated form: the replay starts one line late.                          *)
HistoryFramesLate == [k \in 1 .. Len(Replay) - 1 |-> Msg("HISTORY", Replay[k + 1])]
HistoryFrames == [k \in 1 .. Len(Replay) |-> Msg("HISTORY", Replay[k])]

RefuseJoin(s, n) ==
  /\ s \in joined \/ n = BadNick \/ nick_taken(n, s)
  /\ Reply(s, Msg("ERROR", IF s \in joined THEN "Already joined" ELSE "Nickname"))
  /\ UNCHANGED <<joined, nick, silent>>

(* The slot is a member before the acknowledgement is written; when that   *)
(* write fails, the history and the announcement are skipped.              *)
AcceptJoin(s, n) ==
  /\ s \notin joined /\ n # BadNick /\ ~nick_taken(n, s)
  /\ nick' = [nick EXCEPT ![s] = n]
  /\ joined' = joined \cup {s}
  /\ silent' = silent \ {n}
  /\ LET c == fd[s]
         out == [x \in Conns |-> IF x = c THEN <<Ack(s, n)>> \o HistoryFrames
                                          ELSE <<Msg("NOTIFY", <<"JOIN", n>>)>>]
     IN Emit(IF peer[c] = "rst" THEN <<c>> ELSE <<c>> \o FdsOf(Members \ {s}),
             out, "process")

handle_join(s, n) ==
  /\ RefuseJoin(s, n) \/ AcceptJoin(s, n)
  /\ UNCHANGED saidVars

(* Frames of a connection that has not joined are dropped without a word.  *)
handle_broadcast(s, text) ==
  /\ IF s \in joined
       THEN LET line == <<nick[s], text>>
            IN /\ hist_push(line)
               /\ said' = Append(said, line)
               /\ EmitAll(FdsOf(Members), Msg("BROADCAST", line), "process")
       ELSE EmitNone("process") /\ UNCHANGED saidVars
  /\ UNCHANGED <<joined, nick, silent>>

(* The sender's copy is skipped when the target's write fails.             *)
handle_private(s, target) ==
  /\ IF s \notin joined THEN EmitNone("process")
     ELSE IF find_by_nick(target) = {} THEN Reply(s, Msg("ERROR", "User not found"))
     ELSE \E t \in find_by_nick(target) :
            EmitAll(IF t = s \/ peer[fd[t]] = "rst" THEN <<fd[t]>> ELSE <<fd[t], fd[s]>>,
                    Msg("PRIVATE", <<nick[s], target>>), "process")
  /\ UNCHANGED <<joined, nick, silent, saidVars>>

ListReply == Msg("LIST_REPLY", [k \in 1 .. Cardinality(Members) |->
                                  <<id[Nth(Members, k)], nick[Nth(Members, k)]>>])

handle_list(s) ==
  /\ Reply(s, ListReply)
  /\ UNCHANGED <<joined, nick, silent, saidVars>>
------------------------------------------------------------------------------
(* The main loop.                                                          *)

(* Mutated form: the loop that fills fds stops one slot early.             *)
PolledButLast == used \ {MAX_CLIENTS - 1}

(* The slots whose descriptors go into fds.                                *)
Polled == used

Ready(c) == IF peer[c] \in {"rst", "broken"} THEN "hup"
            ELSE IF inq[c] # <<>> \/ peer[c] # "up" THEN "in" ELSE "none"

(* poll waits for the listener and the slots in use; it returns when one   *)
(* of them is ready.  Slot numbers are not kept: the scan counts again.    *)
Poll ==
  /\ pc = "poll"
  /\ fds' = [k \in 0 .. Cardinality(Polled) |->
               IF k = 0 THEN (IF backlog = <<>> THEN "none" ELSE "in")
                        ELSE Ready(fd[Nth(Polled, k)])]
  /\ \E k \in DOMAIN fds' : fds'[k] # "none"
  /\ pc' = IF fds'[0] = "in" THEN "accept" ELSE "scan"
  /\ UNCHANGED <<tableVars, fi, i, netVars, wireVars, saidVars, silent>>

(* One connection per round: into the first free slot, or turned away.     *)
AcceptClient ==
  /\ pc = "accept"
  /\ \E s \in First(Slots \ used) : add_client(Head(backlog), s)
  /\ link' = [link EXCEPT ![Head(backlog)] = "open"]
  /\ EmitNone("scan")
  /\ backlog' = Tail(backlog)
  /\ UNCHANGED <<scanVars, inq, sends, drops, saidVars, silent>>

(* Header and body are two writes, and the second is made whatever became  *)
(* of the first: after the error of a reset it raises SIGPIPE.             *)
RefuseClient ==
  /\ pc = "accept"
  /\ used = Slots
  /\ IF peer[Head(backlog)] = "rst"
       THEN pc' = "dead" /\ UNCHANGED wireVars
       ELSE EmitAll(<<Head(backlog)>>, Msg("ERROR", "Server full"), "scan")
  /\ link' = [link EXCEPT ![Head(backlog)] = "closed"]
  /\ backlog' = Tail(backlog)
  /\ UNCHANGED <<tableVars, scanVars, inq, sends, drops, saidVars, silent>>

(* The scan is over when the slots or the polled entries (fi >= nfds) are; *)
(* fds, which the next round rebuilds, is forgotten.                       *)
ScanEnds ==
  /\ pc = "scan"
  /\ i = MAX_CLIENTS \/ (i \in used /\ fi \notin DOMAIN fds)
  /\ pc' = "poll" /\ i' = 0 /\ fi' = 1
  /\ fds' = [k \in 0 .. 0 |-> "none"]
  /\ UNCHANGED <<tableVars, netVars, wireVars, saidVars, silent>>

SkipFree ==
  /\ pc = "scan" /\ i < MAX_CLIENTS /\ i \notin used
  /\ i' = i + 1
  /\ UNCHANGED <<tableVars, pc, fds, fi, netVars, wireVars, saidVars, silent>>

(* The next polled entry is taken to be this slot's.                       *)
TakeEvent(event) ==
  /\ pc = "scan" /\ i \in used /\ fi \in DOMAIN fds
  /\ fds[fi] = event
  /\ fi' = fi + 1 /\ UNCHANGED fds

ScanQuiet ==
  /\ TakeEvent("none")
  /\ i' = i + 1
  /\ UNCHANGED <<tableVars, pc, netVars, wireVars, saidVars, silent>>

ScanHup ==
  /\ TakeEvent("hup")
  /\ remove_client_index(i)
  /\ i' = i + 1
  /\ UNCHANGED <<backlog, inq, sends, drops, saidVars, silent>>

ScanIn ==
  /\ TakeEvent("in")
  /\ pc' = "recv"
  /\ UNCHANGED <<tableVars, i, netVars, wireVars, saidVars, silent>>

(* The sockets block: recv waits until there is a frame or an end.         *)
Recv ==
  /\ pc = "recv"
  /\ \E n \in 1 .. Len(inq[fd[i]]) :
       /\ inbuf' = [inbuf EXCEPT ![i] = @ \o SubSeq(inq[fd[i]], 1, n)]
       /\ inq' = [inq EXCEPT ![fd[i]] = SubSeq(@, n + 1, Len(@))]
  /\ pc' = "process"
  /\ UNCHANGED <<used, joined, fd, id, nick, next_id, scanVars, link, backlog,
                 sends, drops, wireVars, saidVars, silent>>

RecvEnd ==
  /\ pc = "recv"
  /\ inq[fd[i]] = <<>> /\ peer[fd[i]] # "up"
  /\ remove_client_index(i)
  /\ i' = i + 1
  /\ UNCHANGED <<fds, fi, backlog, inq, sends, drops, saidVars, silent>>

(* process_message: every complete frame of the buffer, one per step.      *)
Frames(type) ==
  /\ pc = "process" /\ inbuf[i] # <<>>
  /\ Head(inbuf[i]).type = type

Handled ==
  /\ inbuf' = [inbuf EXCEPT ![i] = Tail(@)]
  /\ UNCHANGED <<used, fd, id, next_id, scanVars, netVars>>

HandleJoin ==
  Frames("JOIN") /\ handle_join(i, Head(inbuf[i]).arg) /\ Handled

HandleBroadcast ==
  Frames("BROADCAST") /\ handle_broadcast(i, Head(inbuf[i]).arg) /\ Handled

HandlePrivate ==
  Frames("PRIVATE") /\ handle_private(i, Head(inbuf[i]).arg) /\ Handled

HandleList ==
  Frames("LIST") /\ handle_list(i) /\ Handled

HandleUnknown ==
  /\ Frames("UNKNOWN") /\ EmitNone("process") /\ Handled
  /\ UNCHANGED <<joined, nick, silent, saidVars>>

(* An invalid header closes the slot with no [PART] to the others.         *)
HandleInvalid ==
  /\ Frames("INVALID")
  /\ silent' = IF i \in joined THEN silent \cup {nick[i]} ELSE silent
  /\ close_slot(i)
  /\ EmitNone("scan") /\ i' = i + 1
  /\ UNCHANGED <<fds, fi, backlog, inq, sends, drops, saidVars>>

HandleNone ==
  /\ pc = "process" /\ inbuf[i] = <<>>
  /\ pc' = "scan" /\ i' = i + 1
  /\ UNCHANGED <<tableVars, fds, fi, netVars, wireVars, saidVars, silent>>

Server ==
  \/ Poll \/ AcceptClient \/ RefuseClient
  \/ ScanEnds \/ SkipFree \/ ScanQuiet \/ ScanHup \/ ScanIn
  \/ Recv \/ RecvEnd
  \/ HandleJoin \/ HandleBroadcast \/ HandlePrivate \/ HandleList
  \/ HandleUnknown \/ HandleInvalid \/ HandleNone
------------------------------------------------------------------------------
(* The peers, until the server is gone.  What a peer sends is seen by poll *)
(* and by recv on its connection only, so it arrives where the server is   *)
(* about to look: an earlier arrival could not be told apart.              *)

Attached(c) == pc # "dead" /\ link[c] \in {"backlog", "open"}

Connect(c) ==
  /\ pc = "poll" /\ link[c] = "idle"
  /\ \A d \in Conns : d < c => link[d] # "idle"
  /\ link' = [link EXCEPT ![c] = "backlog"]
  /\ backlog' = Append(backlog, c)
  /\ UNCHANGED <<tableVars, pc, scanVars, inq, sends, drops, wireVars, saidVars, silent>>

(* The text of a broadcast is the number of the send: no two are alike.    *)
SendFrame(c, f) ==
  /\ pc = "poll" \/ (pc = "recv" /\ fd[i] = c)
  /\ Attached(c) /\ peer[c] = "up" /\ sends < MAX_SENDS
  /\ f.type = "BROADCAST" => f.arg = sends + 1
  /\ inq' = [inq EXCEPT ![c] = Append(@, f)]
  /\ sends' = sends + 1
  /\ UNCHANGED <<tableVars, pc, scanVars, link, backlog, drops, wireVars, saidVars, silent>>

(* A close, or a reset (a close with unread data, a killed peer's RST).    *)
Drop(c, state) ==
  /\ Attached(c) /\ peer[c] = "up" /\ drops < MAX_DROPS
  /\ peer' = [peer EXCEPT ![c] = state]
  /\ drops' = drops + 1
  /\ UNCHANGED <<tableVars, pc, scanVars, link, backlog, inq, sends, outq, saidVars, silent>>

ResetArrives(c) ==
  /\ Attached(c) /\ peer[c] = "finw"
  /\ peer' = [peer EXCEPT ![c] = "broken"]
  /\ UNCHANGED <<tableVars, pc, scanVars, netVars, outq, saidVars, silent>>

Peers == \E c \in Conns :
  \/ Connect(c)
  \/ \E f \in Inputs : SendFrame(c, f)
  \/ \E state \in {"fin", "rst"} : Drop(c, state)
  \/ ResetArrives(c)

Next == Server \/ Peers

(* The operating system runs the server whenever it can go on; it owes     *)
(* nothing on behalf of the peers.                                         *)
Spec == Init /\ [][Next]_vars
FairSpec == Spec /\ WF_vars(Server)
------------------------------------------------------------------------------
(* Properties.                                                             *)

TypeOK ==
  /\ used \subseteq Slots /\ joined \subseteq used
  /\ fd \in [Slots -> Conns \cup {NoConn}]
  /\ id \in [Slots -> Nat] /\ next_id \in Nat
  /\ nick \in [Slots -> Nicks \cup {NoNick}]
  /\ inbuf \in [Slots -> Seq(Frame)]
  /\ pc \in {"poll", "accept", "scan", "recv", "process", "dead"}
  /\ \E n \in 0 .. MAX_CLIENTS : fds \in [0 .. n -> Events]
  /\ fi \in 1 .. MAX_CLIENTS + 1 /\ i \in 0 .. MAX_CLIENTS
  /\ link \in [Conns -> {"idle", "backlog", "open", "closed"}]
  /\ peer \in [Conns -> PeerStates]
  /\ backlog \in Seq(Conns)
  /\ inq \in [Conns -> Seq(Frame)]
  /\ sends \in 0 .. MAX_SENDS /\ drops \in 0 .. MAX_DROPS
  /\ said \in Seq(Lines)

(* No two members answer to one nickname, whatever order their joins,      *)
(* departures and removals come in (nick_taken against handle_join,        *)
(* close_slot and the reuse of slots by add_client).                       *)
NicksUnique ==
  \A s, t \in Members : nick[s] = nick[t] => s = t

(* Descriptors are neither leaked nor shared nor used after close: the     *)
(* open connections are exactly the descriptors of the slots in use, one   *)
(* slot each (accept, add_client, the full-table branch, close_slot).      *)
OneSlotPerConnection ==
  /\ \A c \in Conns : link[c] = "open" <=> \E s \in used : fd[s] = c
  /\ \A s, t \in used : fd[s] = fd[t] => s = t

(* Where frames of the given types stand among all that a peer was sent.   *)
Received(c, types) == {k \in 1 .. Len(outq[c]) : outq[c][k].type \in types}

(* What a member has heard, replayed history and live broadcasts together, *)
(* is the end of what was ever said, with no gap, no repetition and no     *)
(* swap, and reaches back over the whole history ring (send_history_to     *)
(* and handle_broadcast meet exactly at the join).                         *)
TranscriptHasNoGap ==
  pc # "dead" =>
    \A s \in Members : peer[fd[s]] = "up" =>
      LET c      == fd[s]
          heard  == Received(c, {"HISTORY", "BROADCAST"})
          missed == Len(said) - Cardinality(heard)
      IN /\ missed >= 0 /\ Cardinality(heard) >= hist_count
         /\ \A k \in heard :
              outq[c][k].arg = said[missed + Cardinality({j \in heard : j <= k})]

(* Nothing of the conversation reaches a connection before it has been     *)
(* acknowledged, and none is acknowledged twice (the joined checks of      *)
(* process_message, broadcast_notify, handle_broadcast, find_by_nick).     *)
AckComesFirst ==
  \A c \in Conns :
    LET heard == Received(c, {"JOIN_ACK", "HISTORY", "BROADCAST", "NOTIFY", "PRIVATE"})
    IN \A k \in heard : outq[c][k].type = "JOIN_ACK" <=> \A j \in heard : k <= j

(* A private message only ever reaches the two it names, although slots    *)
(* and nicknames are reused (find_by_nick, handle_private).                *)
PrivateToTheTwo ==
  \A s \in Members : \A k \in Received(fd[s], {"PRIVATE"}) :
    LET arg == outq[fd[s]][k].arg IN nick[s] \in {arg[1], arg[2]}

(* The last thing a member was told of a nickname, if anything.            *)
LastNotice(c, n) ==
  LET about == {k \in Received(c, {"NOTIFY"}) : outq[c][k].arg[2] = n}
  IN IF about = {} THEN "nothing" ELSE outq[c][Max(about)].arg[1]

(* The [JOIN] and [PART] notices keep every member's picture of the room   *)
(* right: whoever was last announced is there, unless a bad header cut him *)
(* off (close_slot in process_message announces nothing), and whoever was  *)
(* last reported gone is gone, unless he is back on a connection that      *)
(* failed before his announcement (the early return of handle_join).       *)
NoticesAgree ==
  pc # "dead" =>
    \A s \in Members, n \in Nicks : peer[fd[s]] = "up" =>
      CASE LastNotice(fd[s], n) = "JOIN" ->
             n \in silent \/ \E t \in Members : nick[t] = n
        [] LastNotice(fd[s], n) = "PART" ->
             \A t \in Members : nick[t] = n => peer[fd[t]] # "up"
        [] OTHER -> TRUE

Readable(c) == inq[c] # <<>> \/ peer[c] # "up"

(* The server sits in recv on a connection poll did not report.            *)
StuckInRecv == pc = "recv" /\ ~Readable(fd[i])

(* What may keep a connection that is due from being served: it was reset; *)
(* it is turned away at a full table, or closed for an invalid header; or  *)
(* the scan stands at its slot with the poll entry of another, which       *)
(* reports a hangup, and will remove it although its peer is up (after an  *)
(* accept into a lower slot fi runs ahead of i, server.c:427-436).         *)
Reset(c) == peer[c] \in {"rst", "broken"}
TurnedAway(c) == pc = "accept" /\ used = Slots /\ Head(backlog) = c
AtInvalidHeader(c) == pc = "process" /\ fd[i] = c /\ Frames("INVALID")
TakenForAnother(c) ==
  /\ pc = "scan" /\ i \in used /\ fd[i] = c
  /\ fi \in DOMAIN fds /\ fds[fi] = "hup" /\ ~Reset(c)

Due(c) == link[c] = "backlog" \/ (link[c] = "open" /\ inq[c] # <<>>)

(* While the server lives and does not get stuck in recv, every connection *)
(* is accepted and every frame a peer sends is received, also the last     *)
(* ones before an orderly close, however busy the others keep the server   *)
(* (the poll loop of main).  The causes for which one may be lost instead  *)
(* are those above, and no other.                                          *)
EveryoneServed ==
  \A c \in Conns :
    [](pc # "dead" /\ Due(c)
         => <>(\/ pc = "dead" \/ []StuckInRecv
              \/ (link[c] # "backlog" /\ inq[c] = <<>>)
              \/ Reset(c) \/ TurnedAway(c) \/ AtInvalidHeader(c) \/ TakenForAnother(c)))

(* "If data came from an existing client, the server reads it"             *)
(* (explanation.md:229): recv is called on a connection that has data or   *)
(* has ended, so that it cannot block.                                     *)
RecvOnlyWhenReady == pc = "recv" => Readable(fd[i])

(* "drop" (the comment on a failed send_frame in handle_broadcast): a      *)
(* client that is gone costs a broadcast nothing but its copy, never the   *)
(* server.                                                                 *)
SendFailureIsDropped == [][HandleBroadcast => pc' # "dead"]_vars
==============================================================================
