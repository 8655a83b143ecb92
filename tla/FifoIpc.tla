-------------------------------- MODULE FifoIpc --------------------------------
(***************************************************************************)
(* Request and response over named pipes (LabWork_4/server.c, client.c):   *)
(* clients write requests to the server's FIFO, each client reads its      *)
(* response from a FIFO of its own, made anew for every request.           *)
(*                                                                         *)
(* A blocking open, read or write is one step when it need not wait, and a *)
(* state of its own when it must.  The kernel counts an opener from the    *)
(* moment it waits, wakes it as soon as a partner opens, and throws the    *)
(* pipe's content away when the last holder closes.  The handlers are      *)
(* installed by signal() under _POSIX_C_SOURCE: they work once, and they   *)
(* interrupt a system call that waits.                                     *)
(***************************************************************************)
EXTENDS Naturals, Sequences, FiniteSets

CONSTANTS
  Clients,          \* client processes
  Single,           \* those started with a command: single_command_mode
  Commands,         \* what is typed: a subset of {"WORK", "QUIT", "OTHER"}
  Signums,          \* the signals sent: a subset of {"INT", "TERM", "KILL"}
  MAX_REQUESTS,     \* bound: requests of one client
  MAX_SIGNALS,      \* bound: signals sent, to all processes together
  MAX_BOOTS         \* bound: times the server is started

ASSUME FifoAssumption ==
  /\ Single \subseteq Clients
  /\ Commands \subseteq {"WORK", "QUIT", "OTHER"}
  /\ Signums \subseteq {"INT", "TERM", "KILL"}
  /\ {MAX_REQUESTS, MAX_SIGNALS, MAX_BOOTS} \subseteq Nat

Handlers == {"INT", "TERM"}      \* the signals main installs handle_signal for

VARIABLES
  (* the server process *)
  spc, running, armed,      \* where it is; the flag; handlers still installed
  req,                      \* main's request_t req
  fifo,                     \* process_request's open FIFO: the request that made it
  (* the file system and the pipes *)
  boot,                     \* the server FIFO's inode: the number of the start
  path,                     \* the inode SERVER_FIFO names, 0 if none
  buf,                      \* the requests in the server FIFO
  own,                      \* per client, the inode its FIFO path names, 0 if none
  resp,                     \* per client, the responses in that FIFO
  (* the client processes *)
  cpc, crunning, carmed,
  type,                     \* interactive_mode's type, "unset" until first written
  n,                        \* requests made so far; the current one is <<c, n[c]>>
  opened,                   \* the server FIFO inode it opened
  got,                      \* the response it read last
  (* bounds and ghosts *)
  signals,
  lost,                     \* requests thrown away with the content of the pipe
  late,                     \* requests taken after the server was told to stop
  missed                    \* a stop came just before a call that then waited

serverVars == <<spc, running, armed, req, fifo>>
clientVars == <<cpc, crunning, carmed, type, n, opened, got>>
pipeVars   == <<boot, path, buf, own, resp>>
ghostVars  == <<signals, lost, late, missed>>
vars == <<serverVars, clientVars, pipeVars, ghostVars>>

NoRequest == [client |-> "none", num |-> 0, type |-> "unset"]
Request(c) == [client |-> c, num |-> n[c], type |-> type[c]]

Init ==
  /\ spc = "off" /\ running = FALSE /\ armed = {} /\ req = NoRequest /\ fifo = NoRequest
  /\ boot = 0 /\ path = 0 /\ buf = <<>>
  /\ own = [c \in Clients |-> 0] /\ resp = [c \in Clients |-> <<>>]
  /\ cpc = [c \in Clients |-> "off"]
  /\ crunning = [c \in Clients |-> TRUE]
  /\ carmed = [c \in Clients |-> Handlers]
  /\ type = [c \in Clients |-> "unset"]
  /\ n = [c \in Clients |-> 0]
  /\ opened = [c \in Clients |-> 0]
  /\ got = [c \in Clients |-> NoRequest]
  /\ signals = 0 /\ lost = {} /\ late = 0 /\ missed = FALSE
------------------------------------------------------------------------------
(* Who holds which pipe.                                                   *)

(* The server has the FIFO open, or is counted while it waits to open it.  *)
Reading == spc \in {"waitopen", "loop", "read", "reclose", "waitreopen",
                    "process", "waitclient", "respond", "shutdown"}

Writers == {c \in Clients : opened[c] = boot /\ cpc[c] \in {"waitserver", "write", "close"}}

(* Closing by the last holder discards what the pipe holds.                *)
Discard(held) ==
  IF held THEN UNCHANGED <<buf, lost>>
          ELSE /\ buf' = <<>>
               /\ lost' = lost \cup {buf[k] : k \in 1 .. Len(buf)}

(* A client waits in open(SERVER_FIFO) no longer once there is a reader.   *)
WakeWriters == cpc' = [c \in Clients |-> IF c \in Writers /\ cpc[c] = "waitserver"
                                           THEN "write" ELSE cpc[c]]

ClientReads(r) == /\ cpc[r.client] \in {"waitown", "read"}
                  /\ n[r.client] = own[r.client]
ServerWrites(c) == /\ spc \in {"waitclient", "respond"}
                   /\ fifo.client = c /\ fifo.num = n[c]
------------------------------------------------------------------------------
(* The server.                                                             *)

(* Mutated form: the old FIFO is kept where there is one.                  *)
StartServerKeepsOld ==
  /\ spc \in {"off", "stopped", "killed"} /\ boot < MAX_BOOTS
  /\ boot' = boot + 1 /\ path' = IF path = 0 THEN boot + 1 ELSE path
  /\ spc' = "open" /\ running' = TRUE /\ armed' = Handlers
  /\ late' = 0 /\ missed' = FALSE
  /\ UNCHANGED <<req, fifo, buf, own, resp, clientVars, signals, lost>>

(* unlink and mkfifo: a new inode under the old name.                      *)
StartServer ==
  /\ spc \in {"off", "stopped", "killed"} /\ boot < MAX_BOOTS
  /\ boot' = boot + 1 /\ path' = boot + 1
  /\ spc' = "open" /\ running' = TRUE /\ armed' = Handlers
  /\ req' = NoRequest /\ fifo' = NoRequest
  /\ Discard(FALSE)
  /\ late' = 0 /\ missed' = FALSE
  /\ UNCHANGED <<own, resp, clientVars, signals>>

(* open(SERVER_FIFO, O_RDONLY), waiting in `wait` until there is a writer. *)
OpenForReading(wait) ==
  /\ spc' = IF Writers = {} THEN wait ELSE "loop"
  /\ WakeWriters
  /\ UNCHANGED <<running, armed, req, fifo, crunning, carmed, type, n, opened, got,
                 pipeVars, ghostVars>>

Open == spc = "open" /\ OpenForReading("waitopen")

(* Mutated form: while (1).                                                *)
LoopForever ==
  /\ spc = "loop" /\ spc' = "read"
  /\ UNCHANGED <<running, armed, req, fifo, clientVars, pipeVars, ghostVars>>

Loop ==
  /\ spc = "loop"
  /\ spc' = IF running THEN "read" ELSE "shutdown"
  /\ UNCHANGED <<running, armed, req, fifo, clientVars, pipeVars, ghostVars>>

ReadRequest ==
  /\ spc = "read" /\ buf # <<>>
  /\ req' = Head(buf) /\ buf' = Tail(buf)
  /\ spc' = "process"
  /\ late' = IF running THEN late ELSE late + 1
  /\ UNCHANGED <<running, armed, fifo, boot, path, own, resp, clientVars, signals, lost, missed>>

(* Mutated form: no continue after the end of file; req is handled again.  *)
ReadEndFallsThrough ==
  /\ spc = "read" /\ buf = <<>> /\ Writers = {} /\ req # NoRequest
  /\ spc' = "process"
  /\ UNCHANGED <<running, armed, req, fifo, clientVars, pipeVars, ghostVars>>

(* read returns 0: all writers have closed.                                *)
ReadEnd ==
  /\ spc = "read" /\ buf = <<>> /\ Writers = {}
  /\ spc' = "reclose"
  /\ UNCHANGED <<running, armed, req, fifo, clientVars, pipeVars, ghostVars>>

(* Whoever opened and wrote since read returned 0 loses the request if he  *)
(* has closed by now.                                                      *)
Reclose ==
  /\ spc = "reclose"
  /\ Discard(Writers # {})
  /\ spc' = "recheck"
  /\ UNCHANGED <<running, armed, req, fifo, boot, path, own, resp, clientVars, signals, late, missed>>

(* Mutated form: running is not looked at before the open.                 *)
ReopenAlways == spc = "recheck" /\ OpenForReading("waitreopen")

Reopen == spc = "recheck" /\ running /\ OpenForReading("waitreopen")

(* The descriptor is closed already: the second close has no effect.       *)
GiveUpReopen ==
  /\ spc = "recheck" /\ ~running
  /\ spc' = "unlink"
  /\ UNCHANGED <<running, armed, req, fifo, clientVars, pipeVars, ghostVars>>

(* REQ_QUIT gets no response, nor does a client whose FIFO is gone.        *)
NoAnswer(r) == r.type = "QUIT"

SkipAnswer ==
  /\ spc = "process"
  /\ NoAnswer(req) \/ own[req.client] = 0
  /\ spc' = "loop"
  /\ UNCHANGED <<running, armed, req, fifo, clientVars, pipeVars, ghostVars>>

(* Mutated form: the open does not wait (O_NONBLOCK), and fails.           *)
OpenClientNonblock ==
  /\ spc = "process"
  /\ ~NoAnswer(req) /\ own[req.client] # 0
  /\ IF ClientReads(req)
       THEN /\ spc' = "respond" /\ cpc' = [cpc EXCEPT ![req.client] = "read"]
            /\ fifo' = [req EXCEPT !.num = own[req.client]]
       ELSE spc' = "loop" /\ UNCHANGED <<cpc, fifo>>
  /\ UNCHANGED <<running, armed, req, crunning, carmed, type, n, opened, got, pipeVars,
                 ghostVars>>

(* open(client_fifo, O_WRONLY): at once if the client reads or waits to.   *)
OpenClient ==
  /\ spc = "process"
  /\ ~NoAnswer(req) /\ own[req.client] # 0
  /\ fifo' = [req EXCEPT !.num = own[req.client]]
  /\ IF ClientReads(req)
       THEN spc' = "respond" /\ cpc' = [cpc EXCEPT ![req.client] = "read"]
       ELSE spc' = "waitclient" /\ UNCHANGED cpc
  /\ UNCHANGED <<running, armed, req, crunning, carmed, type, n, opened, got, pipeVars,
                 ghostVars>>

(* write and close; SIGPIPE is ignored, a write to nobody just fails.      *)
Respond ==
  /\ spc = "respond"
  /\ resp' = IF cpc[fifo.client] = "read" /\ n[fifo.client] = fifo.num
               THEN [resp EXCEPT ![fifo.client] = Append(@, req)] ELSE resp
  /\ spc' = "loop" /\ fifo' = NoRequest
  /\ UNCHANGED <<running, armed, req, boot, path, buf, own, clientVars, ghostVars>>

Shutdown ==
  /\ spc = "shutdown"
  /\ Discard(Writers # {})
  /\ spc' = "unlink"
  /\ UNCHANGED <<running, armed, req, fifo, boot, path, own, resp, clientVars, signals, late, missed>>

Unlink ==
  /\ spc = "unlink"
  /\ path' = 0 /\ spc' = "stopped"
  /\ UNCHANGED <<running, armed, req, fifo, boot, buf, own, resp, clientVars, ghostVars>>

Server == \/ Open \/ Loop \/ ReadRequest \/ ReadEnd \/ Reclose \/ Reopen \/ GiveUpReopen
          \/ SkipAnswer \/ OpenClient \/ Respond \/ Shutdown \/ Unlink
------------------------------------------------------------------------------
(* The client.                                                             *)

(* Back to the loop of interactive_mode, or out of the program.            *)
Resume(c) == IF c \notin Single /\ crunning[c] THEN "prompt" ELSE "done"

(* main looks for the server's FIFO first.                                 *)
StartClient(c) ==
  /\ cpc[c] = "off"
  /\ cpc' = [cpc EXCEPT ![c] = IF path = 0 THEN "done"
                               ELSE IF c \in Single THEN "argv" ELSE "prompt"]
  /\ UNCHANGED <<serverVars, pipeVars, crunning, carmed, type, n, opened, got, ghostVars>>

(* parse_command finds a request; send_request starts with a new FIFO.     *)
Command(c) ==
  /\ cpc[c] \in {"prompt", "argv"} /\ n[c] < MAX_REQUESTS
  /\ \E k \in Commands \ {"OTHER"} : type' = [type EXCEPT ![c] = k]
  /\ n' = [n EXCEPT ![c] = @ + 1]
  /\ own' = [own EXCEPT ![c] = n[c] + 1]
  /\ got' = [got EXCEPT ![c] = NoRequest]
  /\ cpc' = [cpc EXCEPT ![c] = "openserver"]
  /\ UNCHANGED <<serverVars, boot, path, buf, resp, crunning, carmed, opened, ghostVars>>

(* parse_command fails (help, an unknown word): interactive_mode decides   *)
(* by what type held before, which at first is nothing in particular.      *)
OtherCommand(c) ==
  /\ "OTHER" \in Commands
  /\ \/ cpc[c] = "prompt" /\ type[c] # "QUIT" /\ cpc' = [cpc EXCEPT ![c] = Resume(c)]
     \/ /\ cpc[c] = "argv" \/ (cpc[c] = "prompt" /\ type[c] \in {"QUIT", "unset"})
        /\ cpc' = [cpc EXCEPT ![c] = "done"]
  /\ UNCHANGED <<serverVars, pipeVars, crunning, carmed, type, n, opened, got, ghostVars>>

EndOfInput(c) ==
  /\ cpc[c] = "prompt"
  /\ cpc' = [cpc EXCEPT ![c] = "done"]
  /\ UNCHANGED <<serverVars, pipeVars, crunning, carmed, type, n, opened, got, ghostVars>>

(* Mutated form: the error path of the open does not unlink.               *)
OpenServerLeaving(c) ==
  /\ cpc[c] = "openserver"
  /\ IF path = 0
       THEN /\ cpc' = [cpc EXCEPT ![c] = Resume(c)]
            /\ UNCHANGED <<spc, opened>>
       ELSE /\ opened' = [opened EXCEPT ![c] = path]
            /\ cpc' = [cpc EXCEPT ![c] = IF Reading THEN "write" ELSE "waitserver"]
            /\ spc' = IF spc \in {"waitopen", "waitreopen"} THEN "loop" ELSE spc
  /\ UNCHANGED <<running, armed, req, fifo, pipeVars, crunning, carmed, type, n, got,
                 ghostVars>>

(* open(SERVER_FIFO, O_WRONLY): fails without the file, waits without a    *)
(* reader, and lets a server that waits for a writer go on.                *)
OpenServer(c) ==
  /\ cpc[c] = "openserver"
  /\ IF path = 0
       THEN /\ cpc' = [cpc EXCEPT ![c] = "cleanup"]
            /\ UNCHANGED <<spc, opened>>
       ELSE /\ opened' = [opened EXCEPT ![c] = path]
            /\ cpc' = [cpc EXCEPT ![c] = IF Reading THEN "write" ELSE "waitserver"]
            /\ spc' = IF spc \in {"waitopen", "waitreopen"} THEN "loop" ELSE spc
  /\ UNCHANGED <<running, armed, req, fifo, pipeVars, crunning, carmed, type, n, got,
                 ghostVars>>

HasReader(c) == opened[c] = boot /\ Reading

WriteRequest(c) ==
  /\ cpc[c] = "write" /\ HasReader(c)
  /\ buf' = Append(buf, Request(c))
  /\ cpc' = [cpc EXCEPT ![c] = "close"]
  /\ UNCHANGED <<serverVars, boot, path, own, resp, crunning, carmed, type, n, opened, got,
                 ghostVars>>

(* The client lets go of the server's FIFO, in an orderly way or not.      *)
LeaveServer(c) == Discard(c \notin Writers \/ Reading \/ Writers # {c})

(* SIGPIPE: the reader has gone since; the client's own FIFO stays behind. *)
WriteKills(c) ==
  /\ cpc[c] = "write" /\ ~HasReader(c)
  /\ LeaveServer(c)
  /\ cpc' = [cpc EXCEPT ![c] = "killed"]
  /\ UNCHANGED <<serverVars, boot, path, own, resp, crunning, carmed, type, n, opened, got,
                 signals, late, missed>>

CloseServer(c) ==
  /\ cpc[c] = "close"
  /\ LeaveServer(c)
  /\ cpc' = [cpc EXCEPT ![c] = "openown"]
  /\ UNCHANGED <<serverVars, boot, path, own, resp, crunning, carmed, type, n, opened, got,
                 signals, late, missed>>

(* open(client_fifo, O_RDONLY), waiting until the server opens it too.     *)
OpenOwn(c) ==
  /\ cpc[c] = "openown"
  /\ cpc' = [cpc EXCEPT ![c] = IF ServerWrites(c) THEN "read" ELSE "waitown"]
  /\ spc' = IF ServerWrites(c) THEN "respond" ELSE spc
  /\ UNCHANGED <<running, armed, req, fifo, pipeVars, crunning, carmed, type, n, opened, got,
                 ghostVars>>

(* A response, or the end of a FIFO whose writer is gone.                  *)
ReadResponse(c) ==
  /\ cpc[c] = "read"
  /\ resp[c] # <<>> \/ ~ServerWrites(c)
  /\ got' = [got EXCEPT ![c] = IF resp[c] # <<>> THEN Head(resp[c]) ELSE NoRequest]
  /\ cpc' = [cpc EXCEPT ![c] = "cleanup"]
  /\ UNCHANGED <<serverVars, pipeVars, crunning, carmed, type, n, opened, ghostVars>>

(* close and unlink, after a response and on every error path.             *)
Cleanup(c) ==
  /\ cpc[c] = "cleanup"
  /\ own' = [own EXCEPT ![c] = 0]
  /\ resp' = [resp EXCEPT ![c] = <<>>]
  /\ cpc' = [cpc EXCEPT ![c] = Resume(c)]
  /\ UNCHANGED <<serverVars, boot, path, buf, crunning, carmed, type, n, opened, got, ghostVars>>

(* send_request, from the open of the server's FIFO on.                    *)
SendRequest(c) == \/ OpenServer(c) \/ WriteRequest(c) \/ WriteKills(c) \/ CloseServer(c)
                  \/ OpenOwn(c) \/ ReadResponse(c) \/ Cleanup(c)

Client(c) == \/ StartClient(c) \/ Command(c) \/ OtherCommand(c) \/ EndOfInput(c)
             \/ SendRequest(c)
------------------------------------------------------------------------------
(* Signals.  A handled one makes a call that waits fail with EINTR, unless *)
(* it arrives just before the call: then the call waits all the same.      *)

HoldsRequest == spc \in {"process", "waitclient", "respond"}

StopServer(sig) ==
  /\ spc \notin {"off", "stopped", "killed"} /\ sig \in armed
  /\ running' = FALSE /\ armed' = armed \ {sig}
  /\ \/ /\ missed' = (missed \/ spc \in {"open", "waitopen", "waitreopen", "waitclient"})
        /\ UNCHANGED <<spc, fifo, lost>>
     \/ /\ \/ spc = "waitopen" /\ spc' = "unlink"
           \/ spc = "waitreopen" /\ spc' = "recheck"
           \/ spc = "read" /\ buf = <<>> /\ Writers # {} /\ spc' = "loop"
           \/ spc = "waitclient" /\ spc' = "loop"
        /\ fifo' = NoRequest
        /\ lost' = IF spc = "waitclient" THEN lost \cup {req} ELSE lost
        /\ UNCHANGED missed
  /\ UNCHANGED <<req, late, pipeVars, clientVars>>

(* The file stays; what is in the pipe stays while a writer holds it.      *)
KillServer(sig) ==
  /\ spc \notin {"off", "stopped", "killed"} /\ sig \notin armed
  /\ spc' = "killed" /\ fifo' = NoRequest
  /\ buf' = IF Writers = {} THEN <<>> ELSE buf
  /\ lost' = lost \cup (IF HoldsRequest THEN {req} ELSE {})
                  \cup (IF Writers = {} THEN {buf[k] : k \in 1 .. Len(buf)} ELSE {})
  /\ UNCHANGED <<running, armed, req, late, missed, boot, path, own, resp, clientVars>>

Alive(c) == cpc[c] \notin {"off", "done", "killed"}

StopClient(c, sig) ==
  /\ Alive(c) /\ sig \in carmed[c]
  /\ crunning' = [crunning EXCEPT ![c] = FALSE]
  /\ carmed' = [carmed EXCEPT ![c] = @ \ {sig}]
  /\ \/ UNCHANGED <<cpc, buf, lost>>
     \/ /\ cpc[c] \in {"waitserver", "waitown"}
           \/ (cpc[c] = "read" /\ resp[c] = <<>> /\ ServerWrites(c))
        /\ LeaveServer(c)
        /\ cpc' = [cpc EXCEPT ![c] = "cleanup"]
     \/ cpc[c] = "prompt" /\ cpc' = [cpc EXCEPT ![c] = "done"] /\ UNCHANGED <<buf, lost>>
  /\ UNCHANGED <<serverVars, boot, path, own, resp, type, n, opened, got, late, missed>>

KillClient(c, sig) ==
  /\ Alive(c) /\ sig \notin carmed[c]
  /\ LeaveServer(c)
  /\ cpc' = [cpc EXCEPT ![c] = "killed"]
  /\ resp' = [resp EXCEPT ![c] = <<>>]
  /\ UNCHANGED <<serverVars, boot, path, own, crunning, carmed, type, n, opened, got, late,
                 missed>>

Signal ==
  /\ signals < MAX_SIGNALS /\ signals' = signals + 1
  /\ \E sig \in Signums :
       \/ StopServer(sig) \/ KillServer(sig)
       \/ \E c \in Clients : StopClient(c, sig) \/ KillClient(c, sig)

Next == StartServer \/ Server \/ (\E c \in Clients : Client(c)) \/ Signal

(* The processes run once they can; nobody owes a start, an input or a     *)
(* signal.                                                                 *)
Spec == Init /\ [][Next]_vars
FairSpec == Spec /\ WF_vars(Server) /\ \A c \in Clients : WF_vars(SendRequest(c))
------------------------------------------------------------------------------
(* Properties.                                                             *)

ServerStates == {"off", "open", "waitopen", "loop", "read", "reclose", "recheck", "waitreopen",
                 "process", "waitclient", "respond", "shutdown", "unlink", "stopped", "killed"}
ClientStates == {"off", "argv", "prompt", "openserver", "waitserver", "write", "close",
                 "openown", "waitown", "read", "cleanup", "done", "killed"}
Types == {"unset", "WORK", "QUIT"}
Requests == [client : Clients, num : 1 .. MAX_REQUESTS, type : {"WORK", "QUIT"}]

TypeOK ==
  /\ spc \in ServerStates /\ running \in BOOLEAN /\ armed \subseteq Handlers
  /\ req \in Requests \cup {NoRequest} /\ fifo \in Requests \cup {NoRequest}
  /\ boot \in 0 .. MAX_BOOTS /\ path \in {0, boot}
  /\ buf \in Seq(Requests)
  /\ \A c \in Clients :
       /\ cpc[c] \in ClientStates /\ type[c] \in Types
       /\ own[c] \in {0, n[c]} /\ n[c] \in 0 .. MAX_REQUESTS
       /\ Len(resp[c]) <= 1 /\ opened[c] \in 0 .. boot
  /\ lost \subseteq Requests

(* A client has written its request and waits for the response.            *)
Awaiting(c) == cpc[c] \in {"openown", "waitown", "read"}

(* A request that was sent is in exactly one place until its client is     *)
(* done with it: in the pipe once, in the server's hands, answered, or     *)
(* thrown away.  QUIT, which the server takes and forgets, aside.          *)
RequestIsSomewhere ==
  \A c \in Clients : Awaiting(c) /\ type[c] = "WORK" =>
    LET r == Request(c)
        places == <<Cardinality({k \in 1 .. Len(buf) : buf[k] = r}),
                    IF HoldsRequest /\ req = r THEN 1 ELSE 0,
                    Len(resp[c]),
                    IF r \in lost THEN 1 ELSE 0>>
    IN places[1] + places[2] + places[3] + places[4] = 1

(* The response a client takes for its own is the one to the request it    *)
(* sent last, whatever was interrupted, killed and started again between.  *)
AnswerIsToTheRequest ==
  \A c \in Clients : got[c] # NoRequest => got[c] = Request(c)

Interrupted(c) == carmed[c] # Handlers \/ cpc[c] = "killed"

(* The server, which serves nobody while it waits in open(client_fifo),    *)
(* waits there only for a client that is on its way to open the FIFO, or   *)
(* that a signal took off that way.                                        *)
WaitsOnlyForTheInterrupted ==
  spc = "waitclient" =>
    \/ Interrupted(fifo.client)
    \/ cpc[fifo.client] \in {"close", "openown"} /\ n[fifo.client] = fifo.num

(* Whoever exits through main or its error paths leaves no FIFO behind.    *)
NoFifoLeftBehind ==
  /\ spc = "stopped" => path = 0
  /\ \A c \in Clients : cpc[c] = "done" => own[c] = 0

(* Told to stop, the server takes at most one more request (running is     *)
(* tested between any two reads).                                          *)
OneMoreRequestAtMost == late <= 1

(* The server hangs on a client that will not come.                        *)
Stuck == spc = "waitclient" /\ Interrupted(fifo.client)

(* A client that has sent a request gets on, however the steps, the        *)
(* closing of the pipe and the restarts fall: it is answered, or its       *)
(* request was thrown away, or the server ended, or it is held up by an    *)
(* interrupted client.                                                     *)
AnsweredUnlessLost ==
  \A c \in Clients :
    [](Awaiting(c) /\ type[c] = "WORK" =>
         <>(~Awaiting(c) \/ Request(c) \in lost \/ spc \in {"stopped", "killed"} \/ Stuck))

(* A stop that reaches the server anywhere but just before a call that     *)
(* waits for a client ends it.                                             *)
StopsWhenTold ==
  [](spc # "off" /\ ~running => <>(missed \/ spc \in {"stopped", "killed"} \/ Stuck))

(* "quit - exit the client" (LabWork_4/README.md:48): a client told to     *)
(* quit ends.                                                              *)
QuitExits ==
  \A c \in Clients :
    [](cpc[c] = "openserver" /\ type[c] = "QUIT" => <>(cpc[c] = "done"))

(* "The server correctly handles the situation when all clients close the  *)
(* connection (restart of the FIFO)" (LabWork_4/README.md:118): as long as *)
(* nobody is interrupted no request is thrown away.                        *)
ReopenLosesNothing == signals = 0 => lost = {}
==============================================================================
