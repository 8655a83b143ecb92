----------------------------- MODULE FifoIpc_proof -----------------------------
(***************************************************************************)
(* The named-pipe service, for any clients, numbers of requests, signals   *)
(* and starts of the server: type correctness, where a request can be, the *)
(* response that is the request's own, whom the server waits for, and what *)
(* the two programs leave behind.                                          *)
(***************************************************************************)
EXTENDS FifoIpc, FiniteSetTheorems, SequenceTheorems, TLAPS

ServerShape ==
  /\ spc \in ServerStates /\ running \in BOOLEAN /\ armed \in SUBSET Handlers
  /\ req \in Requests \cup {NoRequest} /\ fifo \in Requests \cup {NoRequest}
  /\ late \in Nat

FileShape ==
  /\ boot \in 0 .. MAX_BOOTS /\ path \in {0, boot}
  /\ own \in [Clients -> Nat]
  /\ opened \in [Clients -> Nat] /\ \A c \in Clients : opened[c] <= boot

QueueShape ==
  /\ buf \in Seq(Requests) /\ lost \in SUBSET Requests
  /\ resp \in [Clients -> Seq(Requests)]

ClientShape ==
  /\ cpc \in [Clients -> ClientStates]
  /\ crunning \in [Clients -> BOOLEAN] /\ carmed \in [Clients -> SUBSET Handlers]
  /\ type \in [Clients -> Types] /\ n \in [Clients -> 0 .. MAX_REQUESTS]
  /\ got \in [Clients -> Requests \cup {NoRequest}]

Idle == {"off", "argv", "prompt", "done"}
Asking == {"openserver", "waitserver", "write", "close", "openown", "waitown", "read", "cleanup"}

(* A client has a FIFO just while it makes a request; one that was told to *)
(* stop has used up a handler.                                             *)
Owned ==
  \A c \in Clients :
    /\ own[c] \in {0, n[c]}
    /\ cpc[c] \in Idle => own[c] = 0
    /\ cpc[c] \in Asking => own[c] = n[c] /\ n[c] > 0 /\ type[c] # "unset"
    /\ ~crunning[c] => carmed[c] # Handlers

(* Once stopped the server has no FIFO, and it does not start to read once *)
(* it took a request too many.                                             *)
Leaving ==
  /\ spc = "stopped" => path = 0
  /\ late > 0 => /\ late = 1 /\ ~running
                 /\ spc \in {"process", "waitclient", "respond", "loop", "shutdown",
                             "unlink", "stopped", "killed"}
  /\ HoldsRequest => req \in Requests

Core == ServerShape /\ FileShape /\ QueueShape /\ ClientShape /\ Owned /\ Leaving

(* The requests between their client and the response: in the pipe, and in *)
(* the server's hands.                                                     *)
Piped == {buf[k] : k \in 1 .. Len(buf)}
InHand == IF HoldsRequest THEN {req} ELSE {}
Flight == Piped \cup InHand

Sent == {"close", "openown", "waitown", "read", "cleanup", "done", "killed"}

(* Each is its client's latest, and the client makes no other.             *)
Flying ==
  \A r \in Flight :
    /\ r = Request(r.client) /\ cpc[r.client] \in Sent
    /\ cpc[r.client] \in {"cleanup", "done"} => ~crunning[r.client]

(* None is there twice.                                                    *)
Apart ==
  /\ \A j, k \in 1 .. Len(buf) : buf[j] = buf[k] => j = k
  /\ HoldsRequest => req \notin Piped

(* The FIFO the server opens, and where its client may be meanwhile.       *)
Meeting ==
  /\ spc \in {"waitclient", "respond"} => fifo = req
  /\ spc = "waitclient" => cpc[req.client] \in {"close", "openown", "cleanup", "done", "killed"}
  /\ spc = "respond" => cpc[req.client] \in {"read", "cleanup", "done", "killed"}
  /\ \A c \in Clients :
       cpc[c] = "read" /\ Request(c) \in Flight => spc = "respond" /\ req = Request(c)

Answered ==
  \A c \in Clients :
    /\ resp[c] # <<>> => /\ resp[c] = <<Request(c)>> /\ cpc[c] \in {"read", "cleanup"}
                         /\ Request(c) \notin Flight
    /\ got[c] # NoRequest => got[c] = Request(c)

Thrown ==
  /\ \A r \in lost : \/ r.num < n[r.client]
                     \/ /\ r.num = n[r.client]
                        /\ cpc[r.client] \notin {"openserver", "waitserver", "write"}
  /\ \A c \in Clients : Request(c) \in lost => Request(c) \notin Flight /\ resp[c] = <<>>

Somewhere ==
  \A c \in Clients :
    cpc[c] \in {"close", "openown", "waitown", "read"} /\ type[c] = "WORK" =>
      Request(c) \in Flight \/ resp[c] # <<>> \/ Request(c) \in lost

Inv == Core /\ Flying /\ Apart /\ Meeting /\ Answered /\ Thrown /\ Somewhere
------------------------------------------------------------------------------
(* What a discarded pipe held was lost.                                    *)
LEMMA DiscardShape ==
  ASSUME QueueShape, NEW held \in BOOLEAN, Discard(held)
  PROVE  buf' \in Seq(Requests) /\ lost' \in SUBSET Requests
  <1>1. \A j \in 1 .. Len(buf) : buf[j] \in Requests
    BY DEF QueueShape
  <1>2. {buf[j] : j \in 1 .. Len(buf)} \subseteq Requests
    BY <1>1
  <1>3. CASE held
    BY <1>3 DEF QueueShape, Discard
  <1>4. CASE ~held
    BY <1>2, <1>4 DEF QueueShape, Discard
  <1>5. QED
    BY <1>3, <1>4

(* The request of a client that makes one.                                 *)
LEMMA RequestTyped ==
  ASSUME Core, NEW c \in Clients, cpc[c] \in Asking
  PROVE  Request(c) \in Requests
  BY FifoAssumption DEF Core, ClientShape, Owned, Request, Requests, Types

(* The request the server holds, and its client's FIFO.                    *)
LEMMA HeldTyped ==
  ASSUME Core, HoldsRequest
  PROVE  /\ req \in Requests /\ req.client \in Clients
         /\ own[req.client] \in {0, n[req.client]} /\ n[req.client] \in 0 .. MAX_REQUESTS
         /\ own[req.client] # 0 => [req EXCEPT !.num = own[req.client]] \in Requests
  <1>1. req \in Requests /\ req.client \in Clients
    BY DEF Core, Leaving, Requests
  <1>2. own[req.client] \in {0, n[req.client]} /\ n[req.client] \in 0 .. MAX_REQUESTS
    BY <1>1 DEF Core, Owned, ClientShape
  <1>3. own[req.client] # 0 => own[req.client] \in 1 .. MAX_REQUESTS
    BY <1>2, FifoAssumption
  <1>4. QED
    BY <1>1, <1>2, <1>3 DEF Requests

LEMMA StartServerCore ==
  ASSUME Core, StartServer
  PROVE  Core'
  <1> USE FifoAssumption DEF Core, serverVars, clientVars, pipeVars, ghostVars, HoldsRequest, StartServer
  <1>1. ServerShape'
    BY DEF ServerShape, ServerStates, NoRequest
  <1>2. FileShape'
    BY DEF FileShape
  <1>3. QueueShape'
    BY DiscardShape DEF QueueShape
  <1>4. ClientShape'
    BY DEF ClientShape, ClientStates, Types, Handlers, FileShape
  <1>5. Owned'
    BY DEF Owned, Idle, Asking, FileShape, ClientShape, Types, ClientStates, Handlers
  <1>6. Leaving'
    BY DEF Leaving, ServerShape, FileShape
  <1>7. QED
    BY <1>1, <1>2, <1>3, <1>4, <1>5, <1>6

LEMMA OpenCore ==
  ASSUME Core, Open
  PROVE  Core'
  <1> USE FifoAssumption DEF Core, serverVars, clientVars, pipeVars, ghostVars, HoldsRequest, Open, OpenForReading, WakeWriters
  <1>1. ServerShape'
    BY DEF ServerShape, ServerStates, NoRequest
  <1>2. FileShape'
    BY DEF FileShape
  <1>3. QueueShape'
    BY DEF QueueShape
  <1>4. ClientShape'
    BY DEF ClientShape, ClientStates, Types, Handlers, FileShape
  <1>5. Owned'
    BY DEF Owned, Idle, Asking, FileShape, ClientShape, Types, ClientStates, Handlers
  <1>6. Leaving'
    BY DEF Leaving, ServerShape, FileShape
  <1>7. QED
    BY <1>1, <1>2, <1>3, <1>4, <1>5, <1>6

LEMMA LoopCore ==
  ASSUME Core, Loop
  PROVE  Core'
  <1> USE FifoAssumption DEF Core, serverVars, clientVars, pipeVars, ghostVars, HoldsRequest, Loop
  <1>1. ServerShape'
    BY DEF ServerShape, ServerStates, NoRequest
  <1>2. FileShape'
    BY DEF FileShape
  <1>3. QueueShape'
    BY DEF QueueShape
  <1>4. ClientShape'
    BY DEF ClientShape, ClientStates, Types, Handlers, FileShape
  <1>5. Owned'
    BY DEF Owned, Idle, Asking, FileShape, ClientShape, Types, ClientStates, Handlers
  <1>6. Leaving'
    BY DEF Leaving, ServerShape, FileShape
  <1>7. QED
    BY <1>1, <1>2, <1>3, <1>4, <1>5, <1>6

LEMMA ReadRequestCore ==
  ASSUME Core, ReadRequest
  PROVE  Core'
  <1> USE FifoAssumption DEF Core, serverVars, clientVars, pipeVars, ghostVars, HoldsRequest, ReadRequest
  <1>0. Head(buf) \in Requests /\ Tail(buf) \in Seq(Requests)
    BY DEF QueueShape
  <1>1. ServerShape'
    BY <1>0 DEF ServerShape, ServerStates
  <1>2. FileShape'
    BY DEF FileShape
  <1>3. QueueShape'
    BY <1>0 DEF QueueShape
  <1>4. ClientShape'
    BY DEF ClientShape, ClientStates, Types, Handlers, FileShape
  <1>5. Owned'
    BY DEF Owned, Idle, Asking, FileShape, ClientShape, Types, ClientStates, Handlers
  <1>6. Leaving'
    BY <1>0 DEF Leaving, ServerShape
  <1>7. QED
    BY <1>1, <1>2, <1>3, <1>4, <1>5, <1>6

LEMMA ReadEndCore ==
  ASSUME Core, ReadEnd
  PROVE  Core'
  <1> USE FifoAssumption DEF Core, serverVars, clientVars, pipeVars, ghostVars, HoldsRequest, ReadEnd
  <1>1. ServerShape'
    BY DEF ServerShape, ServerStates, NoRequest
  <1>2. FileShape'
    BY DEF FileShape
  <1>3. QueueShape'
    BY DEF QueueShape
  <1>4. ClientShape'
    BY DEF ClientShape, ClientStates, Types, Handlers, FileShape
  <1>5. Owned'
    BY DEF Owned, Idle, Asking, FileShape, ClientShape, Types, ClientStates, Handlers
  <1>6. Leaving'
    BY DEF Leaving, ServerShape, FileShape
  <1>7. QED
    BY <1>1, <1>2, <1>3, <1>4, <1>5, <1>6

LEMMA RecloseCore ==
  ASSUME Core, Reclose
  PROVE  Core'
  <1> USE FifoAssumption DEF Core, serverVars, clientVars, pipeVars, ghostVars, HoldsRequest, Reclose
  <1>1. ServerShape'
    BY DEF ServerShape, ServerStates, NoRequest
  <1>2. FileShape'
    BY DEF FileShape
  <1>3. QueueShape'
    BY DiscardShape DEF QueueShape
  <1>4. ClientShape'
    BY DEF ClientShape, ClientStates, Types, Handlers, FileShape
  <1>5. Owned'
    BY DEF Owned, Idle, Asking, FileShape, ClientShape, Types, ClientStates, Handlers
  <1>6. Leaving'
    BY DEF Leaving, ServerShape, FileShape
  <1>7. QED
    BY <1>1, <1>2, <1>3, <1>4, <1>5, <1>6

LEMMA ReopenCore ==
  ASSUME Core, Reopen
  PROVE  Core'
  <1> USE FifoAssumption DEF Core, serverVars, clientVars, pipeVars, ghostVars, HoldsRequest, Reopen, OpenForReading, WakeWriters
  <1>1. ServerShape'
    BY DEF ServerShape, ServerStates, NoRequest
  <1>2. FileShape'
    BY DEF FileShape
  <1>3. QueueShape'
    BY DEF QueueShape
  <1>4. ClientShape'
    BY DEF ClientShape, ClientStates, Types, Handlers, FileShape
  <1>5. Owned'
    BY DEF Owned, Idle, Asking, FileShape, ClientShape, Types, ClientStates, Handlers
  <1>6. Leaving'
    BY DEF Leaving, ServerShape, FileShape
  <1>7. QED
    BY <1>1, <1>2, <1>3, <1>4, <1>5, <1>6

LEMMA GiveUpReopenCore ==
  ASSUME Core, GiveUpReopen
  PROVE  Core'
  <1> USE FifoAssumption DEF Core, serverVars, clientVars, pipeVars, ghostVars, HoldsRequest, GiveUpReopen
  <1>1. ServerShape'
    BY DEF ServerShape, ServerStates, NoRequest
  <1>2. FileShape'
    BY DEF FileShape
  <1>3. QueueShape'
    BY DEF QueueShape
  <1>4. ClientShape'
    BY DEF ClientShape, ClientStates, Types, Handlers, FileShape
  <1>5. Owned'
    BY DEF Owned, Idle, Asking, FileShape, ClientShape, Types, ClientStates, Handlers
  <1>6. Leaving'
    BY DEF Leaving, ServerShape, FileShape
  <1>7. QED
    BY <1>1, <1>2, <1>3, <1>4, <1>5, <1>6

LEMMA SkipAnswerCore ==
  ASSUME Core, SkipAnswer
  PROVE  Core'
  <1> USE FifoAssumption DEF Core, serverVars, clientVars, pipeVars, ghostVars, HoldsRequest, SkipAnswer
  <1>1. ServerShape'
    BY DEF ServerShape, ServerStates, NoRequest
  <1>2. FileShape'
    BY DEF FileShape
  <1>3. QueueShape'
    BY DEF QueueShape
  <1>4. ClientShape'
    BY DEF ClientShape, ClientStates, Types, Handlers, FileShape
  <1>5. Owned'
    BY DEF Owned, Idle, Asking, FileShape, ClientShape, Types, ClientStates, Handlers
  <1>6. Leaving'
    BY DEF Leaving, ServerShape, FileShape
  <1>7. QED
    BY <1>1, <1>2, <1>3, <1>4, <1>5, <1>6

LEMMA OpenClientCore ==
  ASSUME Core, OpenClient
  PROVE  Core'
  <1> USE FifoAssumption DEF Core, serverVars, clientVars, pipeVars, ghostVars, HoldsRequest, OpenClient
  <1>0. [req EXCEPT !.num = own[req.client]] \in Requests /\ req.client \in Clients
    BY HeldTyped
  <1>1. ServerShape'
    BY <1>0 DEF ServerShape, ServerStates
  <1>2. FileShape'
    BY DEF FileShape
  <1>3. QueueShape'
    BY DEF QueueShape
  <1>4. ClientShape'
    BY <1>0 DEF ClientShape, ClientStates
  <1>5. Owned'
    BY <1>0 DEF Owned, Idle, Asking, ClientReads, ClientShape
  <1>6. Leaving'
    BY DEF Leaving, ServerShape, FileShape
  <1>7. QED
    BY <1>1, <1>2, <1>3, <1>4, <1>5, <1>6

LEMMA RespondCore ==
  ASSUME Core, Respond
  PROVE  Core'
  <1> USE FifoAssumption DEF Core, serverVars, clientVars, pipeVars, ghostVars, HoldsRequest, Respond
  <1>0. req \in Requests
    BY HeldTyped
  <1>1. ServerShape'
    BY DEF ServerShape, ServerStates, NoRequest
  <1>2. FileShape'
    BY DEF FileShape
  <1>3. QueueShape'
    <2>1. CASE fifo.client \in Clients
      <3>1. Append(resp[fifo.client], req) \in Seq(Requests)
        BY <1>0, <2>1 DEF QueueShape
      <3>2. QED
        BY <2>1, <3>1 DEF QueueShape
    <2>2. CASE fifo.client \notin Clients
      BY <2>2 DEF QueueShape
    <2>3. QED
      BY <2>1, <2>2
  <1>4. ClientShape'
    BY DEF ClientShape, ClientStates, Types, Handlers, FileShape
  <1>5. Owned'
    BY DEF Owned, Idle, Asking, FileShape, ClientShape, Types, ClientStates, Handlers
  <1>6. Leaving'
    BY DEF Leaving, ServerShape, FileShape
  <1>7. QED
    BY <1>1, <1>2, <1>3, <1>4, <1>5, <1>6

LEMMA ShutdownCore ==
  ASSUME Core, Shutdown
  PROVE  Core'
  <1> USE FifoAssumption DEF Core, serverVars, clientVars, pipeVars, ghostVars, HoldsRequest, Shutdown
  <1>1. ServerShape'
    BY DEF ServerShape, ServerStates, NoRequest
  <1>2. FileShape'
    BY DEF FileShape
  <1>3. QueueShape'
    BY DiscardShape DEF QueueShape
  <1>4. ClientShape'
    BY DEF ClientShape, ClientStates, Types, Handlers, FileShape
  <1>5. Owned'
    BY DEF Owned, Idle, Asking, FileShape, ClientShape, Types, ClientStates, Handlers
  <1>6. Leaving'
    BY DEF Leaving, ServerShape, FileShape
  <1>7. QED
    BY <1>1, <1>2, <1>3, <1>4, <1>5, <1>6

LEMMA UnlinkCore ==
  ASSUME Core, Unlink
  PROVE  Core'
  <1> USE FifoAssumption DEF Core, serverVars, clientVars, pipeVars, ghostVars, HoldsRequest, Unlink
  <1>1. ServerShape'
    BY DEF ServerShape, ServerStates, NoRequest
  <1>2. FileShape'
    BY DEF FileShape
  <1>3. QueueShape'
    BY DEF QueueShape
  <1>4. ClientShape'
    BY DEF ClientShape, ClientStates, Types, Handlers, FileShape
  <1>5. Owned'
    BY DEF Owned, Idle, Asking, FileShape, ClientShape, Types, ClientStates, Handlers
  <1>6. Leaving'
    BY DEF Leaving, ServerShape, FileShape
  <1>7. QED
    BY <1>1, <1>2, <1>3, <1>4, <1>5, <1>6

LEMMA StartClientCore ==
  ASSUME Core, NEW c \in Clients, StartClient(c)
  PROVE  Core'
  <1> USE FifoAssumption DEF Core, serverVars, clientVars, pipeVars, ghostVars, HoldsRequest, StartClient
  <1>1. ServerShape'
    BY DEF ServerShape, ServerStates, NoRequest
  <1>2. FileShape'
    BY DEF FileShape
  <1>3. QueueShape'
    BY DEF QueueShape
  <1>4. ClientShape'
    BY DEF ClientShape, ClientStates, Types, Handlers, FileShape
  <1>5. Owned'
    BY DEF Owned, Idle, Asking, FileShape, ClientShape, Types, ClientStates, Handlers
  <1>6. Leaving'
    BY DEF Leaving, ServerShape, FileShape
  <1>7. QED
    BY <1>1, <1>2, <1>3, <1>4, <1>5, <1>6

LEMMA CommandCore ==
  ASSUME Core, NEW c \in Clients, Command(c)
  PROVE  Core'
  <1> USE FifoAssumption DEF Core, serverVars, clientVars, pipeVars, ghostVars, HoldsRequest, Command
  <1>1. ServerShape'
    BY DEF ServerShape, ServerStates, NoRequest
  <1>2. FileShape'
    BY DEF FileShape, ClientShape
  <1>3. QueueShape'
    BY DEF QueueShape
  <1>4. ClientShape'
    BY DEF ClientShape, ClientStates, Types, Handlers, FileShape
  <1>5. Owned'
    BY DEF Owned, Idle, Asking, FileShape, ClientShape, Types, ClientStates, Handlers
  <1>6. Leaving'
    BY DEF Leaving, ServerShape, FileShape
  <1>7. QED
    BY <1>1, <1>2, <1>3, <1>4, <1>5, <1>6

LEMMA OtherCommandCore ==
  ASSUME Core, NEW c \in Clients, OtherCommand(c)
  PROVE  Core'
  <1> USE FifoAssumption DEF Core, serverVars, clientVars, pipeVars, ghostVars, HoldsRequest, OtherCommand, Resume
  <1>1. ServerShape'
    BY DEF ServerShape, ServerStates, NoRequest
  <1>2. FileShape'
    BY DEF FileShape
  <1>3. QueueShape'
    BY DEF QueueShape
  <1>4. ClientShape'
    BY DEF ClientShape, ClientStates, Types, Handlers, FileShape
  <1>5. Owned'
    BY DEF Owned, Idle, Asking, FileShape, ClientShape, Types, ClientStates, Handlers
  <1>6. Leaving'
    BY DEF Leaving, ServerShape, FileShape
  <1>7. QED
    BY <1>1, <1>2, <1>3, <1>4, <1>5, <1>6

LEMMA EndOfInputCore ==
  ASSUME Core, NEW c \in Clients, EndOfInput(c)
  PROVE  Core'
  <1> USE FifoAssumption DEF Core, serverVars, clientVars, pipeVars, ghostVars, HoldsRequest, EndOfInput
  <1>1. ServerShape'
    BY DEF ServerShape, ServerStates, NoRequest
  <1>2. FileShape'
    BY DEF FileShape
  <1>3. QueueShape'
    BY DEF QueueShape
  <1>4. ClientShape'
    BY DEF ClientShape, ClientStates, Types, Handlers, FileShape
  <1>5. Owned'
    BY DEF Owned, Idle, Asking, FileShape, ClientShape, Types, ClientStates, Handlers
  <1>6. Leaving'
    BY DEF Leaving, ServerShape, FileShape
  <1>7. QED
    BY <1>1, <1>2, <1>3, <1>4, <1>5, <1>6

LEMMA OpenServerCore ==
  ASSUME Core, NEW c \in Clients, OpenServer(c)
  PROVE  Core'
  <1> USE FifoAssumption DEF Core, serverVars, clientVars, pipeVars, ghostVars, HoldsRequest, OpenServer
  <1>1. ServerShape'
    BY DEF ServerShape, ServerStates, NoRequest
  <1>2. FileShape'
    BY DEF FileShape
  <1>3. QueueShape'
    BY DEF QueueShape
  <1>4. ClientShape'
    BY DEF ClientShape, ClientStates, Types, Handlers, FileShape
  <1>5. Owned'
    BY DEF Owned, Idle, Asking, FileShape, ClientShape, Types, ClientStates, Handlers
  <1>6. Leaving'
    BY DEF Leaving, ServerShape, FileShape
  <1>7. QED
    BY <1>1, <1>2, <1>3, <1>4, <1>5, <1>6

LEMMA WriteRequestCore ==
  ASSUME Core, NEW c \in Clients, WriteRequest(c)
  PROVE  Core'
  <1> USE FifoAssumption DEF Core, serverVars, clientVars, pipeVars, ghostVars, HoldsRequest, WriteRequest, Request
  <1>0. Request(c) \in Requests
    BY RequestTyped DEF Asking
  <1>1. ServerShape'
    BY DEF ServerShape, ServerStates, NoRequest
  <1>2. FileShape'
    BY DEF FileShape
  <1>3. QueueShape'
    BY <1>0 DEF QueueShape
  <1>4. ClientShape'
    BY DEF ClientShape, ClientStates, Types, Handlers, FileShape
  <1>5. Owned'
    BY DEF Owned, Idle, Asking, FileShape, ClientShape, Types, ClientStates, Handlers
  <1>6. Leaving'
    BY DEF Leaving, ServerShape, FileShape
  <1>7. QED
    BY <1>1, <1>2, <1>3, <1>4, <1>5, <1>6

LEMMA WriteKillsCore ==
  ASSUME Core, NEW c \in Clients, WriteKills(c)
  PROVE  Core'
  <1> USE FifoAssumption DEF Core, serverVars, clientVars, pipeVars, ghostVars, HoldsRequest, WriteKills, LeaveServer
  <1>1. ServerShape'
    BY DEF ServerShape, ServerStates, NoRequest
  <1>2. FileShape'
    BY DEF FileShape
  <1>3. QueueShape'
    BY DiscardShape DEF QueueShape
  <1>4. ClientShape'
    BY DEF ClientShape, ClientStates, Types, Handlers, FileShape
  <1>5. Owned'
    BY DEF Owned, Idle, Asking, FileShape, ClientShape, Types, ClientStates, Handlers
  <1>6. Leaving'
    BY DEF Leaving, ServerShape, FileShape
  <1>7. QED
    BY <1>1, <1>2, <1>3, <1>4, <1>5, <1>6

LEMMA CloseServerCore ==
  ASSUME Core, NEW c \in Clients, CloseServer(c)
  PROVE  Core'
  <1> USE FifoAssumption DEF Core, serverVars, clientVars, pipeVars, ghostVars, HoldsRequest, CloseServer, LeaveServer
  <1>1. ServerShape'
    BY DEF ServerShape, ServerStates, NoRequest
  <1>2. FileShape'
    BY DEF FileShape
  <1>3. QueueShape'
    BY DiscardShape DEF QueueShape
  <1>4. ClientShape'
    BY DEF ClientShape, ClientStates, Types, Handlers, FileShape
  <1>5. Owned'
    BY DEF Owned, Idle, Asking, FileShape, ClientShape, Types, ClientStates, Handlers
  <1>6. Leaving'
    BY DEF Leaving, ServerShape, FileShape
  <1>7. QED
    BY <1>1, <1>2, <1>3, <1>4, <1>5, <1>6

LEMMA OpenOwnCore ==
  ASSUME Core, NEW c \in Clients, OpenOwn(c)
  PROVE  Core'
  <1> USE FifoAssumption DEF Core, serverVars, clientVars, pipeVars, ghostVars, HoldsRequest, OpenOwn
  <1>1. ServerShape'
    BY DEF ServerShape, ServerStates, NoRequest
  <1>2. FileShape'
    BY DEF FileShape
  <1>3. QueueShape'
    BY DEF QueueShape
  <1>4. ClientShape'
    BY DEF ClientShape, ClientStates, Types, Handlers, FileShape
  <1>5. Owned'
    BY DEF Owned, Idle, Asking, FileShape, ClientShape, Types, ClientStates, Handlers
  <1>6. Leaving'
    BY DEF Leaving, ServerShape, ServerWrites
  <1>7. QED
    BY <1>1, <1>2, <1>3, <1>4, <1>5, <1>6

LEMMA ReadResponseCore ==
  ASSUME Core, NEW c \in Clients, ReadResponse(c)
  PROVE  Core'
  <1> USE FifoAssumption DEF Core, serverVars, clientVars, pipeVars, ghostVars, HoldsRequest, ReadResponse
  <1>0. resp[c] # <<>> => Head(resp[c]) \in Requests
    BY DEF QueueShape
  <1>1. ServerShape'
    BY DEF ServerShape, ServerStates, NoRequest
  <1>2. FileShape'
    BY DEF FileShape
  <1>3. QueueShape'
    BY DEF QueueShape
  <1>4. ClientShape'
    BY <1>0 DEF ClientShape, ClientStates
  <1>5. Owned'
    BY DEF Owned, Idle, Asking, FileShape, ClientShape, Types, ClientStates, Handlers
  <1>6. Leaving'
    BY DEF Leaving, ServerShape, FileShape
  <1>7. QED
    BY <1>1, <1>2, <1>3, <1>4, <1>5, <1>6

LEMMA CleanupCore ==
  ASSUME Core, NEW c \in Clients, Cleanup(c)
  PROVE  Core'
  <1> USE FifoAssumption DEF Core, serverVars, clientVars, pipeVars, ghostVars, HoldsRequest, Cleanup, Resume
  <1>1. ServerShape'
    BY DEF ServerShape, ServerStates, NoRequest
  <1>2. FileShape'
    BY DEF FileShape
  <1>3. QueueShape'
    BY DEF QueueShape
  <1>4. ClientShape'
    BY DEF ClientShape, ClientStates, Types, Handlers, FileShape
  <1>5. Owned'
    BY DEF Owned, Idle, Asking, FileShape, ClientShape, Types, ClientStates, Handlers
  <1>6. Leaving'
    BY DEF Leaving, ServerShape, FileShape
  <1>7. QED
    BY <1>1, <1>2, <1>3, <1>4, <1>5, <1>6

LEMMA StopServerCore ==
  ASSUME Core, NEW sig \in Signums, StopServer(sig)
  PROVE  Core'
  <1> USE FifoAssumption DEF Core, serverVars, clientVars, pipeVars, ghostVars, HoldsRequest, StopServer
  <1>0. HoldsRequest => req \in Requests
    BY HeldTyped
  <1>1. ServerShape'
    BY DEF ServerShape, ServerStates, NoRequest
  <1>2. FileShape'
    BY DEF FileShape
  <1>3. QueueShape'
    BY <1>0 DEF QueueShape
  <1>4. ClientShape'
    BY DEF ClientShape, ClientStates, Types, Handlers, FileShape
  <1>5. Owned'
    BY DEF Owned, Idle, Asking, FileShape, ClientShape, Types, ClientStates, Handlers
  <1>6. Leaving'
    BY DEF Leaving, ServerShape, FileShape
  <1>7. QED
    BY <1>1, <1>2, <1>3, <1>4, <1>5, <1>6

LEMMA KillServerCore ==
  ASSUME Core, NEW sig \in Signums, KillServer(sig)
  PROVE  Core'
  <1> USE FifoAssumption DEF Core, serverVars, clientVars, pipeVars, ghostVars, HoldsRequest, KillServer
  <1>0. HoldsRequest => req \in Requests
    BY HeldTyped
  <1>a. \A j \in 1 .. Len(buf) : buf[j] \in Requests
    BY DEF QueueShape
  <1>1. ServerShape'
    BY DEF ServerShape, ServerStates, NoRequest
  <1>2. FileShape'
    BY DEF FileShape
  <1>3. QueueShape'
    BY <1>0, <1>a DEF QueueShape
  <1>4. ClientShape'
    BY DEF ClientShape, ClientStates, Types, Handlers, FileShape
  <1>5. Owned'
    BY DEF Owned, Idle, Asking, FileShape, ClientShape, Types, ClientStates, Handlers
  <1>6. Leaving'
    BY DEF Leaving, ServerShape, FileShape
  <1>7. QED
    BY <1>1, <1>2, <1>3, <1>4, <1>5, <1>6

LEMMA StopClientCore ==
  ASSUME Core, NEW sig \in Signums, NEW c \in Clients, StopClient(c, sig)
  PROVE  Core'
  <1> USE FifoAssumption DEF Core, serverVars, clientVars, pipeVars, ghostVars, HoldsRequest, StopClient, LeaveServer, Alive
  <1>1. ServerShape'
    BY DEF ServerShape, ServerStates, NoRequest
  <1>2. FileShape'
    BY DEF FileShape
  <1>3. QueueShape'
    BY DiscardShape DEF QueueShape
  <1>4. ClientShape'
    BY DEF ClientShape, ClientStates, Types, Handlers, FileShape
  <1>5. Owned'
    BY DEF Owned, Idle, Asking, FileShape, ClientShape, Types, ClientStates, Handlers
  <1>6. Leaving'
    BY DEF Leaving, ServerShape, FileShape
  <1>7. QED
    BY <1>1, <1>2, <1>3, <1>4, <1>5, <1>6

LEMMA KillClientCore ==
  ASSUME Core, NEW sig \in Signums, NEW c \in Clients, KillClient(c, sig)
  PROVE  Core'
  <1> USE FifoAssumption DEF Core, serverVars, clientVars, pipeVars, ghostVars, HoldsRequest, KillClient, LeaveServer, Alive
  <1>1. ServerShape'
    BY DEF ServerShape, ServerStates, NoRequest
  <1>2. FileShape'
    BY DEF FileShape
  <1>3. QueueShape'
    <2>1. buf' \in Seq(Requests) /\ lost' \in SUBSET Requests
      BY DiscardShape
    <2>2. resp' \in [Clients -> Seq(Requests)]
      BY DEF QueueShape
    <2>3. QED
      BY <2>1, <2>2 DEF QueueShape
  <1>4. ClientShape'
    BY DEF ClientShape, ClientStates, Types, Handlers, FileShape
  <1>5. Owned'
    BY DEF Owned, Idle, Asking, FileShape, ClientShape, Types, ClientStates, Handlers
  <1>6. Leaving'
    BY DEF Leaving, ServerShape, FileShape
  <1>7. QED
    BY <1>1, <1>2, <1>3, <1>4, <1>5, <1>6

------------------------------------------------------------------------------
(* The requests on their way.                                              *)

LEMMA FlightTyped ==
  ASSUME Core
  PROVE  /\ \A r \in Flight : r \in Requests /\ r.client \in Clients
         /\ \A r \in lost : r \in Requests /\ r.client \in Clients
  <1>1. \A j \in 1 .. Len(buf) : buf[j] \in Requests
    BY DEF Core, QueueShape
  <1>2. HoldsRequest => req \in Requests
    BY DEF Core, Leaving
  <1>3. \A r \in Requests : r.client \in Clients
    BY DEF Requests
  <1>4. lost \subseteq Requests
    BY DEF Core, QueueShape
  <1>5. QED
    BY <1>1, <1>2, <1>3, <1>4 DEF Flight, Piped, InHand

Rest == Flying /\ Apart /\ Meeting /\ Answered /\ Thrown /\ Somewhere

(* Requests are only thrown away.                                          *)
Dropping ==
  /\ Piped' \subseteq Piped /\ InHand' \subseteq InHand
  /\ lost' = lost \cup (Flight \ Flight')

Writing == {"openserver", "waitserver", "write"}
Before == {"off", "argv", "prompt"} \cup Writing

(* What a client does while its request stays where it is.                 *)
Goes(c) ==
  /\ crunning'[c] => crunning[c]
  /\ \/ cpc'[c] = cpc[c] /\ resp'[c] = resp[c]
     \/ cpc'[c] = "killed" /\ resp'[c] = <<>>
     \/ cpc'[c] = "cleanup" /\ ~crunning'[c] /\ resp'[c] = resp[c]
     \/ cpc[c] = "close" /\ cpc'[c] = "openown" /\ resp'[c] = resp[c]
     \/ /\ cpc[c] \in Before /\ cpc'[c] \in Before \cup {"done", "cleanup"}
        /\ cpc'[c] \in Writing => cpc[c] \in Writing
        /\ resp'[c] = resp[c]

LEMMA Dropped ==
  ASSUME Inv, Core', Dropping, Apart', UNCHANGED <<n, type, got>>,
         \A c \in Clients : Goes(c),
         HoldsRequest' => UNCHANGED <<spc, req, fifo>>
  PROVE  Rest'
  <1>1. \A c \in Clients : Request(c)' = Request(c)
    BY DEF Request
  <1>2. /\ \A r \in Flight : r \in Requests /\ r.client \in Clients
        /\ \A r \in lost : r \in Requests /\ r.client \in Clients
    BY FlightTyped DEF Inv
  <1>3. \A r \in Flight' : r \in Flight /\ r.client \in Clients
    BY <1>2 DEF Dropping, Flight
  <1>4. Flying'
    <2> SUFFICES ASSUME NEW r \in Flight'
                 PROVE  /\ r = Request(r.client)' /\ cpc'[r.client] \in Sent
                        /\ cpc'[r.client] \in {"cleanup", "done"} => ~crunning'[r.client]
      BY DEF Flying
    <2>1. /\ r = Request(r.client) /\ cpc[r.client] \in Sent
          /\ cpc[r.client] \in {"cleanup", "done"} => ~crunning[r.client]
      BY <1>3 DEF Inv, Flying
    <2>2. Goes(r.client) /\ r.client \in Clients
      BY <1>3
    <2>3. r = Request(r.client)'
      BY <1>1, <2>1, <2>2
    <2>4. QED
      BY <2>1, <2>2, <2>3 DEF Goes, Sent, Before, Writing
  <1>5. Meeting'
    <2>1. HoldsRequest' => req \in Flight /\ req.client \in Clients /\ Goes(req.client)
      BY <1>2 DEF Flight, InHand, HoldsRequest
    <2>2. HoldsRequest' => cpc[req.client] \in Sent
      BY <2>1 DEF Inv, Flying
    <2>3. HoldsRequest' =>
            /\ spc' \in {"waitclient", "respond"} => fifo' = req'
            /\ spc' = "waitclient" => cpc'[req'.client] \in {"close", "openown", "cleanup", "done", "killed"}
            /\ spc' = "respond" => cpc'[req'.client] \in {"read", "cleanup", "done", "killed"}
      BY <2>1, <2>2 DEF Inv, Meeting, Goes, Sent, Before, Writing
    <2>4. ASSUME NEW c \in Clients, cpc'[c] = "read", Request(c)' \in Flight'
          PROVE  spc' = "respond" /\ req' = Request(c)'
      <3>1. cpc[c] = "read"
        BY <2>4 DEF Goes, Before, Writing
      <3>2. Request(c) \in Flight
        BY <1>1, <1>3, <2>4
      <3>3. spc = "respond" /\ req = Request(c)
        BY <3>1, <3>2 DEF Inv, Meeting
      <3>4. HoldsRequest'
        <4>1. req \notin Piped
          BY <3>3 DEF Inv, Apart, HoldsRequest
        <4>2. QED
          BY <1>1, <2>4, <3>3, <4>1 DEF Flight, InHand, Dropping
      <3>5. QED
        BY <1>1, <3>3, <3>4
    <2>5. QED
      BY <2>3, <2>4 DEF Meeting, HoldsRequest
  <1>6. Answered'
    BY <1>1, <1>3 DEF Inv, Answered, Goes, Before, Writing
  <1>7. Thrown'
    <2>1. ASSUME NEW r \in lost'
          PROVE  \/ r.num < n'[r.client]
                 \/ r.num = n'[r.client] /\ cpc'[r.client] \notin Writing
      BY <1>2, <2>1 DEF Inv, Thrown, Flying, Request, Dropping, Goes, Sent, Before, Writing
    <2>2. ASSUME NEW c \in Clients, Request(c)' \in lost'
          PROVE  Request(c)' \notin Flight' /\ resp'[c] = <<>>
      <3>1. Request(c) \in lost \/ (Request(c) \in Flight /\ Request(c) \notin Flight')
        BY <1>1, <2>2 DEF Dropping
      <3>2. Request(c) \notin Flight' /\ resp[c] = <<>>
        BY <1>3, <3>1 DEF Inv, Thrown, Answered
      <3>3. QED
        BY <1>1, <3>2 DEF Goes
    <2>3. QED
      BY <2>1, <2>2 DEF Thrown, Writing
  <1>8. Somewhere'
    <2> SUFFICES ASSUME NEW c \in Clients, type'[c] = "WORK",
                        cpc'[c] \in {"close", "openown", "waitown", "read"}
                 PROVE  Request(c)' \in Flight' \/ resp'[c] # <<>> \/ Request(c)' \in lost'
      BY DEF Somewhere
    <2>1. cpc[c] \in {"close", "openown", "waitown", "read"} /\ resp'[c] = resp[c]
      BY DEF Goes, Before, Writing
    <2>2. QED
      BY <1>1, <2>1 DEF Inv, Somewhere, Dropping, Flight
  <1>9. QED
    BY <1>4, <1>5, <1>6, <1>7, <1>8 DEF Rest

(* A pipe that is kept or discarded.                                       *)
LEMMA Discarded ==
  ASSUME Inv, NEW held \in BOOLEAN, Discard(held), InHand' = InHand
  PROVE  Dropping /\ Apart'
  <1>1. CASE held
    <2>1. Piped' = Piped /\ lost' = lost
      BY <1>1 DEF Discard, Piped
    <2>2. QED
      BY <1>1, <2>1 DEF Inv, Apart, Dropping, Flight, InHand, Discard
  <1>2. CASE ~held
    <2>1. Piped' = {} /\ lost' = lost \cup Piped
      BY <1>2 DEF Discard, Piped
    <2>2. Piped \cap InHand = {}
      BY DEF Inv, Apart, InHand
    <2>3. Len(buf') = 0
      BY <1>2 DEF Discard
    <2>4. QED
      BY <2>1, <2>2, <2>3 DEF Apart, Dropping, Flight, InHand
  <1>3. QED
    BY <1>1, <1>2

------------------------------------------------------------------------------
(* The steps that move no request but to throw it away.                    *)

LEMMA StaysPut ==
  ASSUME Inv, UNCHANGED <<buf, lost>>, InHand' = InHand
  PROVE  Dropping /\ Apart'
  BY Discarded DEF Discard

LEMMA QuietServer ==
  ASSUME Inv,
         \/ Open \/ Loop \/ ReadEnd \/ Reopen \/ GiveUpReopen \/ Unlink
  PROVE  Inv'
  <1> USE DEF serverVars, clientVars, pipeVars, ghostVars
  <1>1. Core'
    BY OpenCore, LoopCore, ReadEndCore, ReopenCore, GiveUpReopenCore, UnlinkCore DEF Inv
  <1>2. UNCHANGED <<buf, lost, n, type, got, resp, crunning>>
    BY DEF Open, Loop, ReadEnd, Reopen, GiveUpReopen, Unlink, OpenForReading
  <1>3. ~HoldsRequest /\ ~HoldsRequest'
    BY DEF Open, Loop, ReadEnd, Reopen, GiveUpReopen, Unlink, OpenForReading, HoldsRequest
  <1>4. cpc' = cpc \/ WakeWriters
    BY DEF Open, Loop, ReadEnd, Reopen, GiveUpReopen, Unlink, OpenForReading
  <1>5. \A c \in Clients : Goes(c)
    BY <1>2, <1>4 DEF Goes, WakeWriters, Before, Writing
  <1>6. Dropping /\ Apart'
    BY <1>2, <1>3, StaysPut DEF InHand
  <1>7. QED
    BY <1>1, <1>2, <1>3, <1>5, <1>6, Dropped DEF Inv, Rest

LEMMA DiscardingServer ==
  ASSUME Inv, StartServer \/ Reclose \/ Shutdown
  PROVE  Inv'
  <1> USE DEF serverVars, clientVars, pipeVars, ghostVars
  <1>1. Core'
    BY StartServerCore, RecloseCore, ShutdownCore DEF Inv
  <1>2. UNCHANGED <<n, type, got, resp, crunning, cpc>>
    BY DEF StartServer, Reclose, Shutdown
  <1>3. ~HoldsRequest /\ ~HoldsRequest'
    BY DEF StartServer, Reclose, Shutdown, HoldsRequest
  <1>4. Discard(FALSE) \/ Discard(Writers # {})
    BY DEF StartServer, Reclose, Shutdown
  <1>5. \A c \in Clients : Goes(c)
    BY <1>2 DEF Goes
  <1>6. Dropping /\ Apart'
    BY <1>3, <1>4, Discarded DEF InHand
  <1>7. QED
    BY <1>1, <1>2, <1>3, <1>5, <1>6, Dropped DEF Inv, Rest

LEMMA QuietClient ==
  ASSUME Inv, NEW c \in Clients,
         StartClient(c) \/ OtherCommand(c) \/ EndOfInput(c) \/ OpenServer(c)
  PROVE  Inv'
  <1> USE DEF serverVars, clientVars, pipeVars, ghostVars
  <1>1. Core'
    BY StartClientCore, OtherCommandCore, EndOfInputCore, OpenServerCore DEF Inv
  <1>2. UNCHANGED <<buf, lost, n, type, got, resp, crunning, req, fifo>>
    BY DEF StartClient, OtherCommand, EndOfInput, OpenServer
  <1>3. spc' = spc \/ (~HoldsRequest /\ ~HoldsRequest')
    BY DEF StartClient, OtherCommand, EndOfInput, OpenServer, HoldsRequest
  <1>4. InHand' = InHand /\ (HoldsRequest' => UNCHANGED spc)
    BY <1>2, <1>3 DEF InHand, HoldsRequest
  <1>5. \A d \in Clients : cpc'[d] = IF d = c THEN cpc'[c] ELSE cpc[d]
    BY DEF StartClient, OtherCommand, EndOfInput, OpenServer, Inv, Core, ClientShape
  <1>6. /\ cpc[c] \in Before /\ cpc'[c] \in Before \cup {"done", "cleanup"}
        /\ cpc'[c] \in Writing => cpc[c] \in Writing
    BY DEF StartClient, OtherCommand, EndOfInput, OpenServer, Resume, Before, Writing,
           Inv, Core, ClientShape
  <1>7. \A d \in Clients : Goes(d)
    BY <1>2, <1>5, <1>6 DEF Goes
  <1>8. Dropping /\ Apart'
    BY <1>2, <1>4, StaysPut
  <1>9. QED
    BY <1>1, <1>2, <1>4, <1>7, <1>8, Dropped DEF Inv, Rest

LEMMA LeavingClient ==
  ASSUME Inv, NEW c \in Clients, WriteKills(c) \/ CloseServer(c)
  PROVE  Inv'
  <1> USE DEF serverVars, clientVars, pipeVars, ghostVars
  <1>1. Core'
    BY WriteKillsCore, CloseServerCore DEF Inv
  <1>2. UNCHANGED <<n, type, got, resp, crunning, spc, req, fifo>>
    BY DEF WriteKills, CloseServer
  <1>3. InHand' = InHand
    BY <1>2 DEF InHand, HoldsRequest
  <1>4. LeaveServer(c)
    BY DEF WriteKills, CloseServer
  <1>5. \A d \in Clients : cpc'[d] = IF d = c THEN cpc'[c] ELSE cpc[d]
    BY DEF WriteKills, CloseServer, Inv, Core, ClientShape
  <1>6. \/ cpc'[c] = "killed" /\ resp[c] = <<>>
        \/ cpc[c] = "close" /\ cpc'[c] = "openown"
    BY DEF WriteKills, CloseServer, Inv, Core, ClientShape, Answered
  <1>7. \A d \in Clients : Goes(d)
    BY <1>2, <1>5, <1>6 DEF Goes
  <1>8. Dropping /\ Apart'
    BY <1>3, <1>4, Discarded DEF LeaveServer
  <1>9. QED
    BY <1>1, <1>2, <1>7, <1>8, Dropped DEF Inv, Rest

LEMMA SignalledClient ==
  ASSUME Inv, NEW sig \in Signums, NEW c \in Clients,
         StopClient(c, sig) \/ KillClient(c, sig)
  PROVE  Inv'
  <1> USE DEF serverVars, clientVars, pipeVars, ghostVars
  <1>1. Core'
    BY StopClientCore, KillClientCore DEF Inv
  <1>2. UNCHANGED <<n, type, got, spc, req, fifo>>
    BY DEF StopClient, KillClient
  <1>3. InHand' = InHand
    BY <1>2 DEF InHand, HoldsRequest
  <1>4. Discard(TRUE) \/ LeaveServer(c)
    BY DEF StopClient, KillClient, Discard
  <1>5. \A d \in Clients : d # c => UNCHANGED <<cpc[d], resp[d], crunning[d]>>
    BY DEF StopClient, KillClient, Inv, Core, ClientShape, QueueShape
  <1>6. Goes(c)
    BY DEF StopClient, KillClient, Inv, Core, ClientShape, QueueShape, Goes, Before, Writing
  <1>7. \A d \in Clients : Goes(d)
    BY <1>5, <1>6 DEF Goes
  <1>8. Dropping /\ Apart'
    BY <1>3, <1>4, Discarded DEF LeaveServer
  <1>9. QED
    BY <1>1, <1>2, <1>7, <1>8, Dropped DEF Inv, Rest

LEMMA SignalledServer ==
  ASSUME Inv, NEW sig \in Signums, StopServer(sig) \/ KillServer(sig)
  PROVE  Inv'
  <1> USE DEF serverVars, clientVars, pipeVars, ghostVars
  <1>1. Core'
    BY StopServerCore, KillServerCore DEF Inv
  <1>2. UNCHANGED <<n, type, got, req, cpc, resp, crunning>>
    BY DEF StopServer, KillServer
  <1>3. \A d \in Clients : Goes(d)
    BY <1>2 DEF Goes
  <1>4. HoldsRequest' => UNCHANGED <<spc, req, fifo>>
    BY DEF StopServer, KillServer, HoldsRequest
  <1>5. Piped \cap InHand = {}
    BY DEF Inv, Apart, InHand
  <1>6. Dropping /\ Apart'
    <2>1. CASE spc' = spc
      <3>1. UNCHANGED <<buf, lost>>
        BY <2>1 DEF StopServer, KillServer
      <3>2. InHand' = InHand
        BY <1>2, <2>1 DEF InHand, HoldsRequest
      <3>3. QED
        BY <3>1, <3>2, StaysPut
    <2>2. CASE StopServer(sig) /\ spc' # spc
      <3>1. ~HoldsRequest' /\ UNCHANGED buf /\ lost' = lost \cup InHand
        BY <2>2 DEF StopServer, HoldsRequest, InHand
      <3>2. Piped' = Piped /\ InHand' = {}
        BY <3>1 DEF Piped, InHand
      <3>3. Apart'
        BY <3>1, <3>2 DEF Inv, Apart
      <3>4. Dropping
        BY <1>5, <3>1, <3>2 DEF Dropping, Flight
      <3>5. QED
        BY <3>3, <3>4
    <2>3. CASE KillServer(sig)
      <3>1. ~HoldsRequest' /\ InHand' = {}
        BY <2>3 DEF KillServer, HoldsRequest, InHand
      <3>2. \/ UNCHANGED buf /\ lost' = lost \cup InHand
            \/ buf' = <<>> /\ lost' = lost \cup InHand \cup Piped
        BY <2>3 DEF KillServer, InHand, Piped
      <3>3. CASE UNCHANGED buf /\ lost' = lost \cup InHand
        <4>1. Piped' = Piped
          BY <3>3 DEF Piped
        <4>2. Apart'
          BY <3>1, <3>3, <4>1 DEF Inv, Apart
        <4>3. Dropping
          BY <1>5, <3>1, <3>3, <4>1 DEF Dropping, Flight
        <4>4. QED
          BY <4>2, <4>3
      <3>4. CASE buf' = <<>> /\ lost' = lost \cup InHand \cup Piped
        <4>1. Piped' = {} /\ Len(buf') = 0
          BY <3>4 DEF Piped
        <4>2. Apart'
          BY <3>1, <3>4, <4>1 DEF Apart
        <4>3. Dropping
          BY <1>5, <3>1, <3>4, <4>1 DEF Dropping, Flight
        <4>4. QED
          BY <4>2, <4>3
      <3>5. QED
        BY <3>2, <3>3, <3>4
    <2>4. QED
      BY <2>1, <2>2, <2>3
  <1>7. QED
    BY <1>1, <1>2, <1>3, <1>4, <1>6, Dropped DEF Inv, Rest

------------------------------------------------------------------------------
(* The way of a request: made, written, taken, answered, read.             *)

LEMMA MakesRequest ==
  ASSUME Inv, NEW c \in Clients, Command(c)
  PROVE  Inv'
  <1> USE DEF serverVars, clientVars, pipeVars, ghostVars
  <1>1. Core'
    BY CommandCore DEF Inv
  <1>2. /\ \A r \in Flight : r \in Requests /\ r.client \in Clients
        /\ \A r \in lost : r \in Requests /\ r.client \in Clients
    BY FlightTyped DEF Inv
  <1>3. /\ UNCHANGED <<spc, req, fifo, buf, resp, lost, crunning>>
        /\ cpc[c] \in {"prompt", "argv"} /\ cpc'[c] = "openserver" /\ got'[c] = NoRequest
        /\ n[c] \in Nat /\ n'[c] = n[c] + 1
        /\ \A d \in Clients : d # c => UNCHANGED <<cpc[d], n[d], type[d], got[d]>>
    BY DEF Command, Inv, Core, ClientShape
  <1>4. /\ Flight' = Flight /\ Piped' = Piped /\ (HoldsRequest' <=> HoldsRequest)
        /\ \A d \in Clients : d # c => Request(d)' = Request(d)
    BY <1>3 DEF Flight, Piped, InHand, HoldsRequest, Request
  <1>5. \A r \in Flight : r.client # c
    BY <1>3 DEF Inv, Flying, Sent
  <1>6. Flying'
    BY <1>2, <1>3, <1>4, <1>5 DEF Inv, Flying
  <1>7. Apart'
    BY <1>3, <1>4 DEF Inv, Apart
  <1>8. Meeting'
    <2>1. HoldsRequest => req \in Flight
      BY DEF Flight, InHand
    <2>2. QED
      BY <1>2, <1>3, <1>4, <1>5, <2>1 DEF Inv, Meeting, HoldsRequest
  <1>9. resp[c] = <<>>
    BY <1>3 DEF Inv, Answered
  <1>10. Answered'
    BY <1>3, <1>4, <1>9 DEF Inv, Answered
  <1>11. Thrown'
    <2>1. \A r \in lost : r.client = c => r.num <= n[c] /\ r.num \in Nat
      BY <1>2, <1>3 DEF Inv, Thrown, Requests
    <2>2. Request(c)' \notin lost
      BY <1>3, <2>1 DEF Request
    <2>3. QED
      BY <1>2, <1>3, <1>4, <2>1, <2>2 DEF Inv, Thrown
  <1>12. Somewhere'
    BY <1>3, <1>4 DEF Inv, Somewhere
  <1>13. QED
    BY <1>1, <1>6, <1>7, <1>8, <1>10, <1>11, <1>12 DEF Inv

LEMMA WritesRequest ==
  ASSUME Inv, NEW c \in Clients, WriteRequest(c)
  PROVE  Inv'
  <1> USE DEF serverVars, clientVars, pipeVars, ghostVars
  <1>1. Core'
    BY WriteRequestCore DEF Inv
  <1>2. /\ \A r \in Flight : r \in Requests /\ r.client \in Clients
        /\ \A r \in lost : r \in Requests /\ r.client \in Clients
    BY FlightTyped DEF Inv
  <1>3. /\ UNCHANGED <<spc, req, fifo, resp, lost, crunning, n, type, got>>
        /\ cpc[c] = "write" /\ cpc'[c] = "close"
        /\ \A d \in Clients : d # c => UNCHANGED cpc[d]
    BY DEF WriteRequest, Inv, Core, ClientShape
  <1>4. /\ \A d \in Clients : Request(d)' = Request(d)
        /\ Request(c).client = c /\ Request(c).num = n[c]
        /\ HoldsRequest' <=> HoldsRequest
    BY <1>3 DEF Request, HoldsRequest
  <1>5. /\ buf' = Append(buf, Request(c)) /\ Len(buf) \in Nat /\ Len(buf') = Len(buf) + 1
        /\ \A j \in 1 .. Len(buf) : buf'[j] = buf[j]
        /\ buf'[Len(buf) + 1] = Request(c)
    BY RequestTyped DEF WriteRequest, Inv, Core, QueueShape, Asking
  <1>6. \A j \in 1 .. Len(buf') : j \in 1 .. Len(buf) \/ j = Len(buf')
    BY <1>5
  <1>7. Piped' = Piped \cup {Request(c)}
    BY <1>5, <1>6 DEF Piped
  <1>8. Flight' = Flight \cup {Request(c)}
    BY <1>3, <1>4, <1>7 DEF Flight, InHand
  <1>9. \A r \in Flight : r.client # c
    BY <1>3 DEF Inv, Flying, Sent
  <1>10. Flying'
    BY <1>2, <1>3, <1>4, <1>8, <1>9 DEF Inv, Flying, Sent
  <1>11. Apart'
    <2>1. Request(c) \notin Flight
      BY <1>4, <1>9
    <2>2. \A j \in 1 .. Len(buf) : buf[j] # Request(c)
      BY <2>1 DEF Flight, Piped
    <2>3. ASSUME NEW i \in 1 .. Len(buf'), NEW j \in 1 .. Len(buf'), buf'[i] = buf'[j]
          PROVE  i = j
      BY <1>5, <1>6, <2>2, <2>3 DEF Inv, Apart
    <2>4. HoldsRequest => req # Request(c)
      BY <2>1 DEF Flight, InHand
    <2>5. QED
      BY <1>3, <1>4, <1>7, <2>3, <2>4 DEF Inv, Apart
  <1>12. Meeting'
    <2>1. HoldsRequest => req \in Flight
      BY DEF Flight, InHand
    <2>2. \A d \in Clients : cpc'[d] = "read" => d # c /\ cpc[d] = "read"
      BY <1>3
    <2>3. \A d \in Clients : d # c => Request(d) # Request(c)
      BY DEF Request
    <2>4. QED
      BY <1>2, <1>3, <1>4, <1>8, <1>9, <2>1, <2>2, <2>3 DEF Inv, Meeting, HoldsRequest
  <1>13. resp[c] = <<>>
    BY <1>3 DEF Inv, Answered
  <1>14. Answered'
    <2>1. \A d \in Clients : d # c => Request(d) # Request(c)
      BY DEF Request
    <2>2. QED
      BY <1>3, <1>4, <1>8, <1>13, <2>1 DEF Inv, Answered
  <1>15. Thrown'
    <2>1. Request(c) \notin lost
      BY <1>2, <1>3, <1>4 DEF Inv, Thrown, Core, ClientShape
    <2>2. QED
      BY <1>2, <1>3, <1>4, <1>8, <2>1 DEF Inv, Thrown
  <1>16. Somewhere'
    BY <1>3, <1>4, <1>8 DEF Inv, Somewhere
  <1>17. QED
    BY <1>1, <1>10, <1>11, <1>12, <1>14, <1>15, <1>16 DEF Inv

LEMMA TakesRequest ==
  ASSUME Inv, ReadRequest
  PROVE  Inv'
  <1> USE DEF serverVars, clientVars, pipeVars, ghostVars
  <1>1. Core'
    BY ReadRequestCore DEF Inv
  <1>2. /\ UNCHANGED <<fifo, cpc, resp, lost, crunning, n, type, got>>
        /\ spc = "read" /\ spc' = "process" /\ ~HoldsRequest /\ HoldsRequest'
    BY DEF ReadRequest, HoldsRequest
  <1>3. /\ req' = buf[1] /\ Len(buf) \in Nat \ {0} /\ Len(buf') = Len(buf) - 1
        /\ \A j \in 1 .. Len(buf') : buf'[j] = buf[j + 1]
    BY DEF ReadRequest, Inv, Core, QueueShape
  <1>4. /\ \A j \in 1 .. Len(buf') : j + 1 \in 1 .. Len(buf) /\ j + 1 # 1
        /\ \A j \in 1 .. Len(buf) : j = 1 \/ (j - 1 \in 1 .. Len(buf') /\ (j - 1) + 1 = j)
        /\ 1 \in 1 .. Len(buf)
    BY <1>3
  <1>5. Flight' = Flight
    <2>1. ASSUME NEW j \in 1 .. Len(buf')
          PROVE  buf'[j] \in Piped
      <3>1. buf'[j] = buf[j + 1] /\ j + 1 \in 1 .. Len(buf)
        BY <1>3, <1>4
      <3>2. QED
        BY <3>1 DEF Piped
    <2>2. ASSUME NEW j \in 1 .. Len(buf), j # 1
          PROVE  buf[j] \in Piped'
      <3>1. j - 1 \in 1 .. Len(buf') /\ (j - 1) + 1 = j
        BY <1>4, <2>2
      <3>2. buf'[j - 1] = buf[j]
        BY <1>3, <3>1
      <3>3. QED
        BY <3>1, <3>2 DEF Piped
    <2>3. req' \in Piped
      BY <1>3, <1>4 DEF Piped
    <2>4. Piped = Piped' \cup {req'}
      BY <1>3, <2>1, <2>2, <2>3 DEF Piped
    <2>5. QED
      BY <1>2, <2>4 DEF Flight, InHand
  <1>6. \A d \in Clients : Request(d)' = Request(d)
    BY <1>2 DEF Request
  <1>7. /\ \A r \in Flight : r \in Requests /\ r.client \in Clients
        /\ \A r \in lost : r \in Requests /\ r.client \in Clients
    BY FlightTyped DEF Inv
  <1>8. Flying'
    BY <1>2, <1>5, <1>6, <1>7 DEF Inv, Flying
  <1>9. Apart'
    <2>1. ASSUME NEW i \in 1 .. Len(buf'), NEW j \in 1 .. Len(buf'), buf'[i] = buf'[j]
          PROVE  i = j
      <3>1. i + 1 = j + 1
        BY <1>3, <1>4, <2>1 DEF Inv, Apart
      <3>2. QED
        BY <1>3, <3>1
    <2>2. \A j \in 1 .. Len(buf') : buf'[j] # req'
      BY <1>3, <1>4 DEF Inv, Apart
    <2>3. QED
      BY <2>1, <2>2 DEF Apart, Piped
  <1>10. Meeting'
    BY <1>2, <1>5, <1>6 DEF Inv, Meeting
  <1>11. Answered' /\ Thrown' /\ Somewhere'
    BY <1>2, <1>5, <1>6, <1>7 DEF Inv, Answered, Thrown, Somewhere
  <1>12. QED
    BY <1>1, <1>8, <1>9, <1>10, <1>11 DEF Inv

LEMMA LetsGo ==
  ASSUME Inv, SkipAnswer \/ Respond
  PROVE  Inv'
  <1> USE DEF serverVars, clientVars, pipeVars, ghostVars
  <1>1. Core'
    BY SkipAnswerCore, RespondCore DEF Inv
  <1>2. /\ UNCHANGED <<req, buf, cpc, own, lost, crunning, n, type, got>>
        /\ HoldsRequest /\ ~HoldsRequest' /\ spc' = "loop"
    BY DEF SkipAnswer, Respond, HoldsRequest
  <1>3. req \notin Piped /\ Piped' = Piped
    BY <1>2 DEF Inv, Apart, Piped
  <1>4. Flight' = Flight \ {req} /\ req \in Flight
    BY <1>2, <1>3 DEF Flight, InHand
  <1>5. \A d \in Clients : Request(d)' = Request(d)
    BY <1>2 DEF Request
  <1>6. /\ \A r \in Flight : r \in Requests /\ r.client \in Clients
        /\ \A r \in lost : r \in Requests /\ r.client \in Clients
    BY FlightTyped DEF Inv
  <1>7. req = Request(req.client) /\ req.client \in Clients
    BY <1>4, <1>6 DEF Inv, Flying
  <1>8. Flying' /\ Apart'
    BY <1>2, <1>3, <1>4, <1>5, <1>6 DEF Inv, Flying, Apart
  <1>9. Meeting'
    BY <1>2, <1>4, <1>5 DEF Inv, Meeting
  <1>10. \A d \in Clients : Request(d) = req => d = req.client
    BY DEF Request
  <1>11. CASE SkipAnswer
    <2>1. UNCHANGED resp
      BY <1>11 DEF SkipAnswer
    <2>2. Answered' /\ Thrown'
      BY <1>2, <1>4, <1>5, <1>6, <2>1 DEF Inv, Answered, Thrown
    <2>3. Somewhere'
      <3> SUFFICES ASSUME NEW d \in Clients, type[d] = "WORK",
                          cpc[d] \in {"close", "openown", "waitown", "read"}
                   PROVE  Request(d) \in Flight' \/ resp[d] # <<>> \/ Request(d) \in lost
        BY <1>2, <1>5, <2>1 DEF Somewhere
      <3>1. own[d] # 0
        BY DEF Inv, Core, Owned, Asking, ClientShape
      <3>2. Request(d) # req
        BY <1>10, <1>11, <3>1 DEF SkipAnswer, NoAnswer, Request
      <3>3. QED
        BY <1>4, <3>2 DEF Inv, Somewhere
    <2>4. QED
      BY <1>1, <1>8, <1>9, <2>2, <2>3 DEF Inv
  <1>12. CASE Respond
    <2>1. fifo = req /\ spc = "respond"
      BY <1>12 DEF Respond, Inv, Meeting
    <2>2. fifo.client = req.client /\ fifo.num = n[req.client]
      BY <1>7, <2>1 DEF Request
    <2>3. resp' = IF cpc[req.client] = "read"
                    THEN [resp EXCEPT ![req.client] = Append(@, req)] ELSE resp
      BY <1>12, <2>2 DEF Respond
    <2>4. resp[req.client] = <<>> /\ req \notin lost
      BY <1>4, <1>7 DEF Inv, Answered, Thrown
    <2>5. \A d \in Clients : resp'[d] = IF d = req.client /\ cpc[d] = "read"
                                          THEN <<req>> ELSE resp[d]
      BY <2>3, <2>4 DEF Inv, Core, QueueShape
    <2>6. Answered'
      BY <1>2, <1>4, <1>5, <1>7, <2>5 DEF Inv, Answered
    <2>7. Thrown'
      BY <1>2, <1>4, <1>5, <1>6, <1>7, <2>4, <2>5 DEF Inv, Thrown
    <2>8. Somewhere'
      <3> SUFFICES ASSUME NEW d \in Clients, type[d] = "WORK",
                          cpc[d] \in {"close", "openown", "waitown", "read"}
                   PROVE  Request(d) \in Flight' \/ resp'[d] # <<>> \/ Request(d) \in lost
        BY <1>2, <1>5 DEF Somewhere
      <3>1. CASE Request(d) = req
        <4>1. d = req.client
          BY <1>10, <3>1
        <4>2. cpc[d] = "read"
          BY <2>1, <4>1 DEF Inv, Meeting
        <4>3. resp'[d] = <<req>>
          BY <2>5, <4>1, <4>2
        <4>4. QED
          BY <4>3
      <3>2. CASE Request(d) # req
        <4>1. Request(d) \in Flight \/ resp[d] # <<>> \/ Request(d) \in lost
          BY DEF Inv, Somewhere
        <4>2. resp[d] # <<>> => resp'[d] # <<>>
          BY <2>4, <2>5
        <4>3. QED
          BY <1>4, <3>2, <4>1, <4>2
      <3>3. QED
        BY <3>1, <3>2
    <2>9. QED
      BY <1>1, <1>8, <1>9, <2>6, <2>7, <2>8 DEF Inv
  <1>13. QED
    BY <1>11, <1>12

LEMMA OpensToAnswer ==
  ASSUME Inv, OpenClient
  PROVE  Inv'
  <1> USE DEF serverVars, clientVars, pipeVars, ghostVars
  <1>1. Core'
    BY OpenClientCore DEF Inv
  <1>2. /\ UNCHANGED <<req, buf, resp, own, lost, crunning, n, type, got>>
        /\ HoldsRequest /\ HoldsRequest' /\ spc = "process" /\ spc' \in {"respond", "waitclient"}
    BY DEF OpenClient, HoldsRequest
  <1>3. Flight' = Flight /\ Piped' = Piped /\ req \in Flight
    BY <1>2 DEF Flight, Piped, InHand
  <1>4. \A d \in Clients : Request(d)' = Request(d)
    BY <1>2 DEF Request
  <1>5. /\ \A r \in Flight : r \in Requests /\ r.client \in Clients
        /\ \A r \in lost : r \in Requests /\ r.client \in Clients
    BY FlightTyped DEF Inv
  <1>6. req = Request(req.client) /\ req.client \in Clients /\ cpc[req.client] \in Sent
    BY <1>3, <1>5 DEF Inv, Flying
  <1>7. own[req.client] = n[req.client] /\ cpc[req.client] # "done"
    BY <1>6 DEF OpenClient, Inv, Core, Owned, Idle
  <1>8. fifo' = req
    <2>1. req.num = own[req.client]
      BY <1>6, <1>7 DEF Request
    <2>2. req \in Requests
      BY <1>3, <1>5
    <2>3. [req EXCEPT !.num = own[req.client]] = req
      BY <2>1, <2>2 DEF Requests
    <2>4. QED
      BY <2>3 DEF OpenClient
  <1>9. ClientReads(req) <=> cpc[req.client] \in {"waitown", "read"}
    BY <1>7 DEF ClientReads
  <1>10. \/ /\ cpc[req.client] \in {"waitown", "read"} /\ spc' = "respond"
            /\ cpc'[req.client] = "read" /\ \A d \in Clients : d # req.client => cpc'[d] = cpc[d]
         \/ /\ cpc[req.client] \notin {"waitown", "read"} /\ spc' = "waitclient" /\ cpc' = cpc
    BY <1>6, <1>9 DEF OpenClient, Inv, Core, ClientShape
  <1>11. Flying'
    BY <1>2, <1>3, <1>4, <1>5, <1>10 DEF Inv, Flying, Sent
  <1>12. Apart'
    BY <1>2, <1>3 DEF Inv, Apart
  <1>13. \A d \in Clients : Request(d) \in Flight => resp[d] = <<>>
    BY DEF Inv, Answered
  <1>14. Meeting'
    <2>1. /\ spc' = "waitclient" =>
               cpc'[req'.client] \in {"close", "openown", "cleanup", "done", "killed"}
          /\ spc' = "respond" => cpc'[req'.client] \in {"read", "cleanup", "done", "killed"}
      BY <1>2, <1>6, <1>10 DEF Sent
    <2>2. ASSUME NEW d \in Clients, cpc'[d] = "read", Request(d)' \in Flight'
          PROVE  spc' = "respond" /\ req' = Request(d)'
      <3>1. cpc[d] # "read"
        BY <1>2, <1>3, <1>4, <2>2 DEF Inv, Meeting
      <3>2. QED
        BY <1>2, <1>4, <1>6, <1>10, <2>2, <3>1
    <2>3. QED
      BY <1>2, <1>8, <2>1, <2>2 DEF Meeting
  <1>15. Answered'
    <2>1. resp[req.client] = <<>>
      BY <1>3, <1>6, <1>13
    <2>2. QED
      BY <1>2, <1>3, <1>4, <1>10, <2>1 DEF Inv, Answered
  <1>16. Thrown'
    BY <1>2, <1>3, <1>4, <1>5, <1>10 DEF Inv, Thrown
  <1>17. Somewhere'
    BY <1>2, <1>3, <1>4, <1>10 DEF Inv, Somewhere
  <1>18. QED
    BY <1>1, <1>11, <1>12, <1>14, <1>15, <1>16, <1>17 DEF Inv

LEMMA OpensForAnswer ==
  ASSUME Inv, NEW c \in Clients, OpenOwn(c)
  PROVE  Inv'
  <1> USE DEF serverVars, clientVars, pipeVars, ghostVars
  <1>1. Core'
    BY OpenOwnCore DEF Inv
  <1>2. /\ UNCHANGED <<req, fifo, buf, resp, own, lost, crunning, n, type, got>>
        /\ cpc[c] = "openown" /\ \A d \in Clients : d # c => cpc'[d] = cpc[d]
        /\ \/ ServerWrites(c) /\ cpc'[c] = "read" /\ spc' = "respond"
           \/ ~ServerWrites(c) /\ cpc'[c] = "waitown" /\ spc' = spc
    BY DEF OpenOwn, Inv, Core, ClientShape
  <1>3. HoldsRequest' <=> HoldsRequest
    BY <1>2 DEF HoldsRequest, ServerWrites
  <1>4. Flight' = Flight /\ Piped' = Piped
    BY <1>2, <1>3 DEF Flight, Piped, InHand
  <1>5. \A d \in Clients : Request(d)' = Request(d)
    BY <1>2 DEF Request
  <1>6. /\ \A r \in Flight : r \in Requests /\ r.client \in Clients
        /\ \A r \in lost : r \in Requests /\ r.client \in Clients
    BY FlightTyped DEF Inv
  <1>7. HoldsRequest => req \in Flight
    BY DEF Flight, InHand
  <1>8. Flying' /\ Apart'
    <2>1. Flying'
      BY <1>2, <1>4, <1>5, <1>6 DEF Inv, Flying, Sent
    <2>2. Apart'
      BY <1>2, <1>3, <1>4 DEF Inv, Apart
    <2>3. QED
      BY <2>1, <2>2
  <1>9. ServerWrites(c) <=> HoldsRequest /\ req = Request(c) /\ spc # "process"
    <2>1. spc \in {"waitclient", "respond"} => fifo = req /\ HoldsRequest
      BY DEF Inv, Meeting, HoldsRequest
    <2>2. HoldsRequest => req = Request(req.client)
      BY <1>7 DEF Inv, Flying
    <2>3. \A d : Request(d).client = d /\ Request(d).num = n[d]
      BY DEF Request
    <2>4. QED
      BY <2>1, <2>2, <2>3 DEF ServerWrites, HoldsRequest
  <1>10. spc = "respond" => req # Request(c)
    BY <1>2 DEF Inv, Meeting, Request
  <1>11. Meeting'
    <2>1. CASE ServerWrites(c)
      <3>1. /\ req = Request(c) /\ HoldsRequest /\ spc = "waitclient" /\ fifo = req
            /\ spc' = "respond" /\ cpc'[c] = "read"
        BY <1>2, <1>9, <1>10, <2>1 DEF HoldsRequest, Inv, Meeting
      <3>2. req.client = c
        BY <3>1 DEF Request
      <3>3. \A d \in Clients : d # c => ~(cpc'[d] = "read" /\ Request(d)' \in Flight')
        BY <1>2, <1>4, <1>5, <3>1 DEF Inv, Meeting
      <3>4. QED
        BY <1>2, <1>5, <3>1, <3>2, <3>3 DEF Meeting
    <2>2. CASE ~ServerWrites(c)
      <3>1. spc' = spc /\ cpc'[c] = "waitown"
        BY <1>2, <2>2
      <3>2. spc \in {"waitclient", "respond"} => req # Request(c) /\ req = Request(req.client)
        BY <1>7, <1>9, <2>2 DEF HoldsRequest, Inv, Flying
      <3>3. spc \in {"waitclient", "respond"} => req.client \in Clients /\ req.client # c
        BY <1>6, <1>7, <3>2 DEF HoldsRequest
      <3>4. QED
        BY <1>2, <1>4, <1>5, <3>1, <3>3 DEF Inv, Meeting
    <2>3. QED
      BY <2>1, <2>2
  <1>12. Answered'
    BY <1>2, <1>4, <1>5 DEF Inv, Answered
  <1>13. Thrown'
    BY <1>2, <1>4, <1>5, <1>6 DEF Inv, Thrown
  <1>14. Somewhere'
    BY <1>2, <1>4, <1>5 DEF Inv, Somewhere
  <1>15. QED
    BY <1>1, <1>8, <1>11, <1>12, <1>13, <1>14 DEF Inv

LEMMA EndsRequest ==
  ASSUME Inv, NEW c \in Clients, ReadResponse(c) \/ Cleanup(c)
  PROVE  Inv'
  <1> USE DEF serverVars, clientVars, pipeVars, ghostVars
  <1>1. Core'
    BY ReadResponseCore, CleanupCore DEF Inv
  <1>2. /\ UNCHANGED <<spc, req, fifo, buf, lost, crunning, n, type>>
        /\ \A d \in Clients : d # c => UNCHANGED <<cpc[d], resp[d], got[d]>>
    BY DEF ReadResponse, Cleanup, Inv, Core, ClientShape, QueueShape
  <1>3. /\ Flight' = Flight /\ Piped' = Piped /\ (HoldsRequest' <=> HoldsRequest)
        /\ \A d \in Clients : Request(d)' = Request(d)
    BY <1>2 DEF Flight, Piped, InHand, HoldsRequest, Request
  <1>4. /\ \A r \in Flight : r \in Requests /\ r.client \in Clients
        /\ \A r \in lost : r \in Requests /\ r.client \in Clients
    BY FlightTyped DEF Inv
  <1>5. HoldsRequest => req \in Flight /\ req.client \in Clients /\ req = Request(req.client)
    BY <1>4 DEF Flight, InHand, Inv, Flying
  <1>6. Apart'
    BY <1>2, <1>3 DEF Inv, Apart
  <1>7. CASE ReadResponse(c)
    <2>1. /\ cpc[c] = "read" /\ cpc'[c] = "cleanup" /\ UNCHANGED resp
          /\ resp[c] # <<>> \/ ~ServerWrites(c)
          /\ got'[c] = IF resp[c] # <<>> THEN Head(resp[c]) ELSE NoRequest
      BY <1>7 DEF ReadResponse, Inv, Core, ClientShape
    <2>2. Request(c) \notin Flight
      <3>1. CASE resp[c] # <<>>
        BY <3>1 DEF Inv, Answered
      <3>2. CASE ~ServerWrites(c)
        BY <2>1, <3>2 DEF Inv, Meeting, ServerWrites, Request
      <3>3. QED
        BY <2>1, <3>1, <3>2
    <2>3. \A r \in Flight : r.client # c
      BY <2>2 DEF Inv, Flying
    <2>4. Flying'
      BY <1>2, <1>3, <1>4, <2>3 DEF Inv, Flying
    <2>5. Meeting'
      BY <1>2, <1>3, <1>5, <2>1, <2>3 DEF Inv, Meeting, HoldsRequest
    <2>6. Answered'
      BY <1>2, <1>3, <2>1 DEF Inv, Answered
    <2>7. Thrown'
      BY <1>2, <1>3, <1>4, <2>1 DEF Inv, Thrown
    <2>8. Somewhere'
      BY <1>2, <1>3, <2>1 DEF Inv, Somewhere
    <2>9. QED
      BY <1>1, <1>6, <2>4, <2>5, <2>6, <2>7, <2>8 DEF Inv
  <1>8. CASE Cleanup(c)
    <2>1. /\ cpc[c] = "cleanup" /\ cpc'[c] = Resume(c) /\ resp'[c] = <<>> /\ UNCHANGED got
      BY <1>8 DEF Cleanup, Inv, Core, ClientShape, QueueShape
    <2>2. cpc'[c] = "done" \/ (cpc'[c] = "prompt" /\ crunning[c])
      BY <2>1 DEF Resume
    <2>3. Flying'
      BY <1>2, <1>3, <1>4, <2>1, <2>2 DEF Inv, Flying, Sent
    <2>4. Meeting'
      <3>1. HoldsRequest /\ req.client = c => cpc'[c] = "done"
        BY <1>5, <2>1, <2>2 DEF Inv, Flying
      <3>2. QED
        BY <1>2, <1>3, <1>5, <2>1, <2>2, <3>1 DEF Inv, Meeting, HoldsRequest
    <2>5. Answered'
      BY <1>2, <1>3, <2>1 DEF Inv, Answered
    <2>6. Thrown'
      BY <1>2, <1>3, <1>4, <2>1, <2>2 DEF Inv, Thrown
    <2>7. Somewhere'
      BY <1>2, <1>3, <2>1, <2>2 DEF Inv, Somewhere
    <2>8. QED
      BY <1>1, <1>6, <2>3, <2>4, <2>5, <2>6, <2>7 DEF Inv
  <1>9. QED
    BY <1>7, <1>8

------------------------------------------------------------------------------
LEMMA InvInit == Init => Inv
  <1> SUFFICES ASSUME Init PROVE Inv
    OBVIOUS
  <1> USE FifoAssumption DEF Init
  <1>1. ~HoldsRequest /\ Flight = {} /\ Piped = {}
    BY DEF HoldsRequest, Flight, Piped, InHand
  <1>2. ServerShape /\ FileShape /\ QueueShape
    <2>1. ServerShape
      BY DEF ServerShape, ServerStates, Handlers
    <2>2. FileShape
      BY DEF FileShape
    <2>3. QueueShape
      BY DEF QueueShape
    <2>4. QED
      BY <2>1, <2>2, <2>3
  <1>3. ClientShape
    BY DEF ClientShape, ClientStates, Types, Handlers
  <1>4. Owned /\ Leaving
    BY <1>1 DEF Owned, Leaving, Asking
  <1>5. Flying /\ Apart /\ Meeting /\ Answered /\ Thrown /\ Somewhere
    BY <1>1 DEF Flying, Apart, Meeting, Answered, Thrown, Somewhere
  <1>6. QED
    BY <1>2, <1>3, <1>4, <1>5 DEF Inv, Core

LEMMA InvStutter ==
  ASSUME Inv, UNCHANGED vars
  PROVE  Inv'
  <1> USE DEF vars, serverVars, clientVars, pipeVars, ghostVars
  <1>1. Core'
    BY DEF Inv, Core, ServerShape, FileShape, QueueShape, ClientShape, Owned, Leaving, HoldsRequest
  <1>2. InHand' = InHand /\ \A c \in Clients : Goes(c)
    BY DEF InHand, HoldsRequest, Goes
  <1>3. QED
    BY <1>1, <1>2, StaysPut, Dropped DEF Inv, Rest

(* The inductive invariant: where each request is, where its client and    *)
(* the server are meanwhile.                                               *)
THEOREM InvHolds == Spec => []Inv
  <1>1. Inv /\ [Next]_vars => Inv'
    <2> SUFFICES ASSUME Inv, [Next]_vars PROVE Inv'
      OBVIOUS
    <2>1. CASE StartServer \/ Server
      BY <2>1, QuietServer, DiscardingServer, TakesRequest, LetsGo, OpensToAnswer DEF Server
    <2>2. CASE \E c \in Clients : Client(c)
      BY <2>2, QuietClient, LeavingClient, MakesRequest, WritesRequest, OpensForAnswer, EndsRequest
         DEF Client, SendRequest
    <2>3. CASE Signal
      BY <2>3, SignalledServer, SignalledClient DEF Signal
    <2>4. CASE UNCHANGED vars
      BY <2>4, InvStutter
    <2>5. QED
      BY <2>1, <2>2, <2>3, <2>4 DEF Next
  <1>2. QED
    BY InvInit, <1>1, PTL DEF Spec

(* Type correctness; a response FIFO never holds two responses.            *)
THEOREM TypeCorrect == Spec => []TypeOK
  <1>1. Inv => TypeOK
    <2> SUFFICES ASSUME Inv PROVE TypeOK
      OBVIOUS
    <2>1. ASSUME NEW c \in Clients
          PROVE  Len(resp[c]) <= 1
      <3>1. resp[c] = <<>> \/ resp[c] = <<Request(c)>>
        BY DEF Inv, Answered
      <3>2. Len(<<>>) = 0 /\ Len(<<Request(c)>>) = 1
        OBVIOUS
      <3>3. Len(resp[c]) \in {0, 1}
        BY <3>1, <3>2, Zenon
      <3>4. \A x \in {0, 1} : x <= 1
        OBVIOUS
      <3>5. QED
        BY <3>3, <3>4, Zenon
    <2>2. ASSUME NEW c \in Clients
          PROVE  /\ cpc[c] \in ClientStates /\ type[c] \in Types
                 /\ own[c] \in {0, n[c]} /\ n[c] \in 0 .. MAX_REQUESTS
      BY DEF Inv, Core, ClientShape, Owned
    <2>3. ASSUME NEW c \in Clients
          PROVE  opened[c] \in 0 .. boot
      BY FifoAssumption DEF Inv, Core, FileShape
    <2>4. QED
      BY <2>1, <2>2, <2>3 DEF TypeOK, Inv, Core, ServerShape, FileShape, QueueShape
  <1>2. QED
    BY <1>1, InvHolds, PTL

(* Told to stop, the server takes at most one more request.                *)
THEOREM StopsReading == Spec => []OneMoreRequestAtMost
  <1>1. Inv => OneMoreRequestAtMost
    BY DEF Inv, Core, ServerShape, Leaving, OneMoreRequestAtMost
  <1>2. QED
    BY <1>1, InvHolds, PTL

(* Whoever exits through main or its error paths leaves no FIFO behind.    *)
THEOREM NothingLeft == Spec => []NoFifoLeftBehind
  <1>1. Inv => NoFifoLeftBehind
    BY DEF Inv, Core, Leaving, Owned, Idle, NoFifoLeftBehind
  <1>2. QED
    BY <1>1, InvHolds, PTL

(* What a client takes for the response answers the request it sent last.  *)
THEOREM AnswersMatch == Spec => []AnswerIsToTheRequest
  <1>1. Inv => AnswerIsToTheRequest
    BY DEF Inv, Answered, AnswerIsToTheRequest
  <1>2. QED
    BY <1>1, InvHolds, PTL

(* The server waits in open(client_fifo) only for a client on its way      *)
(* there, or for one that a signal took off that way.                      *)
THEOREM WaitsForTheLiving == Spec => []WaitsOnlyForTheInterrupted
  <1>1. Inv => WaitsOnlyForTheInterrupted
    <2> SUFFICES ASSUME Inv, spc = "waitclient"
                 PROVE  \/ Interrupted(fifo.client)
                        \/ /\ cpc[fifo.client] \in {"close", "openown"}
                           /\ n[fifo.client] = fifo.num
      BY DEF WaitsOnlyForTheInterrupted
    <2>1. fifo = req /\ req \in Flight
      BY DEF Inv, Meeting, Flight, InHand, HoldsRequest
    <2>2. /\ req.client \in Clients /\ req = Request(req.client)
          /\ cpc[req.client] \in {"cleanup", "done"} => ~crunning[req.client]
      BY <2>1, FlightTyped DEF Inv, Flying
    <2>3. cpc[req.client] \in {"close", "openown", "cleanup", "done", "killed"}
      BY DEF Inv, Meeting
    <2>4. ~crunning[req.client] => carmed[req.client] # Handlers
      BY <2>2 DEF Inv, Core, Owned
    <2>5. n[req.client] = req.num
      BY <2>2 DEF Request
    <2>6. QED
      BY <2>1, <2>2, <2>3, <2>4, <2>5 DEF Interrupted
  <1>2. QED
    BY <1>1, InvHolds, PTL

(* A request in the pipe is there once.                                    *)
LEMMA PipedOnce ==
  ASSUME Inv, NEW r
  PROVE  Cardinality({j \in 1 .. Len(buf) : buf[j] = r}) = IF r \in Piped THEN 1 ELSE 0
  <1>1. CASE r \in Piped
    <2>1. PICK i \in 1 .. Len(buf) : buf[i] = r
      BY <1>1 DEF Piped
    <2>2. {j \in 1 .. Len(buf) : buf[j] = r} = {i}
      BY <2>1 DEF Inv, Apart
    <2>3. QED
      BY <1>1, <2>2, FS_Singleton
  <1>2. CASE r \notin Piped
    <2>1. {j \in 1 .. Len(buf) : buf[j] = r} = {}
      BY <1>2 DEF Piped
    <2>2. QED
      BY <1>2, <2>1, FS_EmptySet
  <1>3. QED
    BY <1>1, <1>2

(* Until its client is done with it, a request that was sent is in exactly *)
(* one place: the pipe, the server's hands, the response or the loss.      *)
THEOREM NoRequestVanishes == Spec => []RequestIsSomewhere
  <1>1. Inv => RequestIsSomewhere
    <2> SUFFICES ASSUME Inv, NEW c \in Clients, Awaiting(c), type[c] = "WORK"
                 PROVE  LET r == Request(c)
                            places == <<Cardinality({k \in 1 .. Len(buf) : buf[k] = r}),
                                        IF HoldsRequest /\ req = r THEN 1 ELSE 0,
                                        Len(resp[c]),
                                        IF r \in lost THEN 1 ELSE 0>>
                        IN places[1] + places[2] + places[3] + places[4] = 1
      BY DEF RequestIsSomewhere
    <2> DEFINE r == Request(c)
    <2>1. Cardinality({k \in 1 .. Len(buf) : buf[k] = r}) = IF r \in Piped THEN 1 ELSE 0
      BY PipedOnce
    <2>2. Len(resp[c]) = IF resp[c] # <<>> THEN 1 ELSE 0
      <3>1. resp[c] = <<>> \/ resp[c] = <<Request(c)>>
        BY DEF Inv, Answered
      <3>2. Len(<<>>) = 0 /\ Len(<<Request(c)>>) = 1 /\ <<Request(c)>> # <<>>
        OBVIOUS
      <3>3. QED
        BY <3>1, <3>2
    <2>3. r \in Flight <=> r \in Piped \/ (HoldsRequest /\ req = r)
      BY DEF Flight, InHand
    <2>4. ~(r \in Piped /\ HoldsRequest /\ req = r)
      BY DEF Inv, Apart
    <2>5. r \in Flight \/ resp[c] # <<>> \/ r \in lost
      BY DEF Inv, Somewhere, Awaiting
    <2>6. /\ resp[c] # <<>> => r \notin Flight
          /\ r \in lost => r \notin Flight /\ resp[c] = <<>>
      BY DEF Inv, Answered, Thrown
    <2> HIDE DEF r
    <2>7. QED
      BY <2>1, <2>2, <2>3, <2>4, <2>5, <2>6 DEF r
  <1>2. QED
    BY <1>1, InvHolds, PTL

==============================================================================
