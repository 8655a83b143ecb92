# A TLA+ verification project for OSISP2

The repository is a set of small system programs (`SENIOR/LabWork_1..6`,
`VLADOS/Lab_3..6`).  This directory holds specifications of the ones with
behaviour worth checking: the TCP chat with its client, the request/response
service over named pipes, the stress test, the manager with its workers, and
recovery.  The modules are checked with TLC and, where marked, proved
with TLAPS.

## 1. Inventory

| Component | State | Operations | Interacts with | What is hard |
|---|---|---|---|---|
| chat server, `LabWork_6/server.c`, `io.c`, `chat_proto.h` | `clients[64]` (fd, used, joined, id, nick, inbuf), `next_id`, the history ring (`history`, `hist_count`, `hist_start`), the pollfd array and two cursors `fi`, `i` of `main` | `poll`, `accept`/`add_client`, the scan, `recv`, `process_message` with `handle_join/broadcast/private/list`, `send_frame`, `broadcast_notify`, `send_history_to`, `close_slot`, `remove_client_index` | peers over TCP, one frame = header + body | connections that come, fail and reuse slots in any order; failing writes inside a handler; the pairing of poll entries and slots; the ring at its limit |
| chat client, `LabWork_6/client.c` | receive buffer `rx`, line buffer | `handshake_blocking`, `process_server`, `pull_server_after_send`, `handle_user_line` | chat server, terminal | frames cut up by TCP; what may arrive during the handshake; timeouts |
| FIFO server, `LabWork_4/server.c` | `running`, `server_fd`, the request in hand, the FIFO file | `open`, `read`, reopen after end of file, `process_request`, shutdown, signal handler | FIFO clients through the kernel's pipes, signals | blocking opens; the reopen window; signals between a test and a call; kill and restart |
| FIFO client, `LabWork_4/client.c` | `running`, `type`, its own FIFO file | `interactive_mode`, `single_command_mode`, `parse_command`, `send_request`, signal handler | FIFO server, signals | the same, from the other end |
| stress test, `LabWork_5/stress_test.c` | `g_running`, `g_pause`, `g_stats`, per-step `threads[]` and `stats[]` | load loops, `run_load_step`, `main`, `handle_signal` | threads, signals | joins that are skipped, a stack array used after return, a pause that is switched on any thread |
| monitor, `LabWork_5/monitor.c` | previous CPU reading | sampling loop | /proc | none (sequential) |
| myps, `LabWork_3` | none | reads and prints /proc | /proc | a process that vanishes between two reads |
| `LabWork_1/scr.sh`, `LabWork_2/csv2sql.sh` | none | text processing | files | none |
| autocensor, `VLADOS/Lab_3` | dictionary | `load_dict`, `censor_text` | stdin | termination and overlap of replacements |
| recovery, `VLADOS/Lab_4` | `counter`, the stdio buffer of the log | main loop, `log_status`, `handle_recovery` (fork, exit) | signals, its own successors | signals nested in handlers and exits, copied buffers |
| manager and workers, `VLADOS/Lab_5` | `workers[]`, `keep_running` | restart loop, worker loop | threads | tryjoin/join/restart races, shutdown |
| port scanner, `VLADOS/Lab_6` | `batch[]`, `write_fds` | batch of connects, `select`, close | sockets | a failing `socket` leaves a hole in `batch` |

What makes each correct, in one line.  *Chat server*: members have distinct
nicknames, descriptors and slots correspond, everyone hears one gapless
conversation, private messages stay private, notices agree with the room,
nobody starves.  *Chat client*: a stream is cut into the frames that were
written, a good join is not refused.  *FIFO pair*: a request is in one place
until it is answered, the answer is the one to the request, nobody waits for
one who will not come, clean exits leave no files, a stop stops.  *Stress
test*: results are read after the threads that write them.  *Manager*: every
thread handle is joined exactly once.  *Recovery*: one successor.  *Scanner*:
every socket opened is examined and closed.  *Censor*: terminates, agrees with
a word-wise definition.

The hazards this list is made for are in `PROJECT.json`, each at its line, with
the property that covers it or the reason why none does yet.

## 2. Modules

| Module | Models | Composes |
|---|---|---|
| `RecentLines` | abstract: the last HISTORY_LINES lines said | |
| `ChatHistory` | the ring: `hist_push`, `send_history_to` | implements `RecentLines` |
| `ChatServer` | `server.c` and its peers | extends `ChatHistory` |
| `MCChatServer` | the instances TLC explores | extends `ChatServer` |
| `ChatHistory_proof`, `ChatServer_proof`, `ChatRoom_proof`, `ChatClient_proof`, `FifoIpc_proof`, `StressTest_proof`, `Manager_proof`, `Recovery_proof` | theorems | extend the modules they are about |
| `ChatClient` | `client.c`, one connection as two byte streams, the server's end of it | |
| `MCChatClient` | what is typed in the instance TLC explores | extends `ChatClient` |
| `FifoIpc` | `LabWork_4/server.c` and `client.c`, the pipes, signals | |
| `StressTest` | `LabWork_5/stress_test.c`: main, the threads of all steps, signals | |
| `Manager` | `VLADOS/Lab_5/main.c` and `worker.c` | |
| `Recovery` | `VLADOS/Lab_4/recovery.c`: the processes of a chain of recoveries, signals | |

Definitions named *Mutated form* are variants of the definition that follows
them with a plausible bug.  Nothing else uses them: each is put in place of its
original to see that a property notices.

### ChatServer

One variable per field of `client_t` (functions over slots; `used` and `joined`
as sets), the kernel's and the peers' state per connection, and `main`'s
control: `pc` is "poll", "accept", "scan", "recv" or "process" (or "dead").
Each step of `main` is an action: `Poll`, `AcceptClient`/`RefuseClient`, the
branches of the scan (`ScanEnds`, `SkipFree`, `ScanQuiet`, `ScanHup`, `ScanIn`),
`Recv`/`RecvEnd`, and one `Handle...` per frame type, which is one iteration of
`process_message`.  The cursor `fi` is kept as the code keeps it, so the drift
between poll entries and slots is in the model.

Abstractions:
* A frame is read and written as a whole; bodies are a nickname, a target or the
  number of the send.  `BadNick` stands for every nickname or target refused by
  its shape.  `RECV_CAP` and partial frames are `ChatClient`'s subject; texts cut
  to CHAT_MAX_BODY and a long LIST_REPLY are not modelled.
* The writes of one handler form one step (`Emit`).  This hides nothing of the
  table, which only the server changes; a peer's close or reset in the middle of
  the writes has the same effect as one before the handler or as one of the
  outcomes of `Emit`: a write to a peer that is gone is lost, fails, or raises
  SIGPIPE, which kills the server before the rest of the frames is written.
  The two writes of a frame matter where both are made whatever becomes of the
  first: the refusal at a full table (`RefuseClient`) then kills the server when
  the connection was already reset.
* Frames of peers arrive when the server is at `poll`, or at `recv` on that
  connection, since nothing else looks at them.  Closes and resets (`Drop`) may
  come at any time.  A peer that has sent a FIN is a peer that has closed; a
  half-closed peer that goes on reading is not modelled.
* `poll` interrupted by a signal and errors of `poll` and `accept` are left out;
  the sockets' finite buffers are in `ChatClient`.  `next_id` does not wrap.
* A descriptor is named by its connection, so that reuse of descriptor numbers
  by the kernel shows as reuse of slots only.

### FifoIpc

The server's and each client's position (`spc`, `cpc`), with one state for each
blocking call that waits ("waitopen", "waitreopen", "read", "waitclient";
"waitserver", "waitown", "read", "prompt").  FIFOs are inodes: `boot` numbers
the server's, `path` says which one the name denotes (0: none), `own` the
client's.  A client's `opened` may thus be an inode nobody serves any more.  The
kernel's rules are the operators `Reading`, `Writers`, `Discard`, `WakeWriters`,
`ClientReads`, `ServerWrites`: an opener counts as a holder while it waits, both
ends go on when they meet, the content is discarded at the last close, writing
without a reader raises SIGPIPE (ignored by the server, fatal to the client).

Signals follow the build: `signal()` under `_POSIX_C_SOURCE` gives one-shot
handlers without restart.  So a first INT sets `running = 0` and interrupts a
waiting call, *or* comes just before the call, which then waits all the same;
a second INT kills.  KILL stands for any unhandled signal.

Abstractions: the five text operations are one kind of request, "WORK" (their
result depends on the request only), `QUIT` is its own kind and everything
`parse_command` rejects is "OTHER"; requests are below PIPE_BUF, so reads and
writes are whole (the incomplete-read branch is unreachable); failures of
`mkfifo`, a full pipe, and other openers of the files are left out.  `type` of
`interactive_mode` is uninitialised at first: `OtherCommand` then may exit or go
on, either way.

### ChatClient

The unit of a stream is `<<n, k>>`, the k-th piece of the n-th frame of its
direction, so that a piece that is lost, repeated or out of place is seen.
`write_full` puts in what fits (`SendTo`, `SvWrite`), `recv` takes any part of
what is there (`RecvSizes`), also half a header.  The client is where `cpc` says:
"join", "handshake", "loop" (`poll` in `main`), "stdin", "lines" (the loop over
what was read), "send", "pull".  `Handshake`, `LoopRecv` and `PullSpin` are one
`recv` each, with all the frames that are then complete; `sp` and `stall` are
kept as in `pull_server_after_send`.

The server's end is `server.c` as one connection sees it: `SvRecv`, one
`SvHandle` per frame, `SvWrite` blocking on a full stream, `SvRemove`.  What
other clients do appears as the frames the server writes here on their behalf
(`SvOther`) and as the end of the server (`SvDie`).

Abstractions:
* The kernel: data that arrived is received before the error of a reset;
  POLLHUP is seen after a reset only, since no end shuts down one direction; a
  socket closed with unread data resets the connection; the first write after a
  close is answered with a reset, the second fails or kills.  Header and body are
  two writes, so that the reset may come between them (`SendTo`).
* The terminal yields whole lines, and its end is a "QUIT" line.  A line is the
  frame it becomes, "LOCAL" (answered or refused on the spot) or "QUIT".
* Waiting for 50 to 500 ms is a timeout that comes when the stream is empty; one
  that comes although data is on its way is the same as a slow peer.

### StressTest

`mpc` follows `main` through `run_load_step` ("create", "join", "joining",
"collect", "copy") and back ("delay").  Each thread of each step is at the test
of its loop, in the body, about to write its results, or done.  `is_active` is
the field of `stats[]`; the array is at the same place of the stack in every
call, so that a thread left over would write into a later step's entries:
`frame` says whose call is live.  Handlers run on any thread; `toggling` holds
what each running SIGUSR1 handler has read of `g_pause`.

Abstractions: the three loads have one control and are one; the computation,
times and the readings of `/proc` are left out; the mutex guards accesses that
only `main` makes, and is left out.

### Manager

`mpc` is the manager's place within its loop; each slot's threads are numbered,
`thread[s]` is the handle in `workers[s].thread`, and `tpc` says where each
thread is, from "test" to "exiting" (after `is_active = false`), "ended" and
"joined".  A slot in `lost` is one whose `pthread_create` at line 58 failed: its
handle is one already joined.  POSIX leaves undefined what a join does with it;
in the model `pthread_tryjoin_np` may answer either way, and `pthread_join`
returns.  Locked prints belong to the step they stand in.

### Recovery

Processes are numbered as they are forked; each has its place in the loop, its
`counter`, what is in the buffer of `f`, the stack of handlers it is in and its
pending signals.  A call of `handle_recovery` is before its `fork`, on its way to
`exit`, or about to return; a signal other than those being handled may come at
each of these places.  A child gets all of it but the pending signals.
Abstractions: stdout is a terminal, so nothing of it is left to be written
twice; `sleep` may end at any time.

## 3. Runs

| Run | Question | Bounds |
|---|---|---|
| `chat_room` | table, notices, privacy, acknowledgements | 3 connections, 2 slots, 2 nicknames, 3 frames, 2 drops |
| `chat_talk` | history and live broadcasts | 2 connections, ring of 2, 5 frames, 1 drop, symmetry of nicknames |
| `chat_service` | does everybody get served (liveness, all frame types) | 3 connections, 2 slots, 2 frames, 1 drop |
| `chat_poll` (refuted) | is `recv` called only on ready connections | as `chat_service` |
| `chat_sigpipe` (refuted) | is a failed broadcast copy just dropped | as `chat_service` |
| `fifo` | all safety and liveness of the FIFO pair | 2 clients (one interactive, one single command), 2 requests each, 2 signals, 2 starts |
| `fifo_quit` (refuted) | does `quit` end the client | 1 request each, no signals |
| `fifo_reopen` (refuted) | does the reopening lose nothing | 1 request each, no signals |
| `chat_client` | framing, handshake, progress and loss of the server | header 2, bodies up to 4, streams of 4 units, 1 history line, 2 frames of others, 1 read of up to 2 lines, 3 rounds and 1 timeout in place of 128 and 40 |
| `stress` | stop, pause, lost switches, failing creates, statistics, the end | steps of 1, 2, 3 threads, arrays of 3, 2 iterations, counters mod 4, 2 SIGUSR1 |
| `manager` | joins and restarts | 2 workers, 3 rounds |
| `recovery` | successors and log | 3 signals, 2 forks, 2 numbers |

Why the bounds suffice for what they are for.  Two slots and three connections
fill the table, turn somebody away and reuse a slot under a different member
while the scan runs.  Three frames are two joins and a whisper or a bad
frame, or a join, a bad frame or a drop, and a return under the same nickname;
two drops let a write fail and another connection vanish in the same round.  A
ring of two with up to four lines (one of the five frames is a join) overwrites both slots.  Two signals stop and then
kill the server, or stop it and interrupt a client, or interrupt a client twice;
two starts put requests, waiting openers and answers of two server lives side by
side.  All of `MAX_SENDS`, `MAX_DROPS`, `MAX_REQUESTS`, `MAX_SIGNALS` and
`MAX_BOOTS` are guards of environment actions only; none limits the programs.
In `chat_client` the longest frame (six units) does not fit into a stream of
four, so that writes block, both streams fill up, and a frame needs two `recv`s
at least; the chunks have a line of full length, two lines at once and lines
before the end.  The rounds of a pull run out, and its patience with half a
frame ends, within the bounds.  In `stress` the fourth step is the one that has
more threads than the arrays, and the records of the three before it (six) are
more than the arrays hold; two signals overlap.  Three rounds let a slot fail,
be restarted or lost, and fail again before the end.  Two signals nest in
`recovery`, and the third comes while the first two are handled, or at the
successor.  `MAX_HISTORY`, `MAX_OTHERS`, `MAX_READS`, `MAX_TOGGLES`,
`MAX_SIGNALS`, `MAX_FORKS` and `MAX_COUNT` bound the environment or cut a
behaviour short; `MAX_SPINS`, `MAX_STALL`, `MAX_THREADS` and `ROUNDS` are limits
of the code, scaled down.

Deadlock is not checked: a server without clients waits in `poll` or `open`, and
a killed or stopped program stays so.

What the properties say is written above each of them.  Some deserve a remark:
* `NoticesAgree` has two exceptions, which are how the code behaves: an invalid
  header cuts a member off without [PART] (`process_message` calls `close_slot`,
  not `remove_client_index`), and a member whose acknowledgement could not be
  written is one although nobody was told.
* `EveryoneServed` excepts a server that died of SIGPIPE or is stuck in `recv`
  (both are runs of their own), and a connection for four named causes: it was
  reset, turned away at a full table, closed for an invalid header, or
  `TakenForAnother`.  The last is the drift of `fi` and `i` again: after an accept
  into a lower slot the scan reads the hangup of another client as that of a
  healthy one and removes it with its frames unread.  The property fails without
  this exception, and no connection is lost in any further way.
* `AnsweredUnlessLost`, `StopsWhenTold` and `WaitsOnlyForTheInterrupted` describe
  together when the FIFO service gets stuck: only after a signal took a client
  off its way to its own FIFO (the server then waits in `open(client_fifo)` for
  good), when a stop fell between the test of `running` and a waiting open, or
  when the server ended.  Without signals only the reopen window remains, and
  the client that asked to quit.
* `EverythingShown` has an exception that is a real one: a client held in
  `write_full` for ever (`HeldInWrite`) reads nothing.  The server then writes at
  it in turn, both socket buffers being full, or is itself held by another
  client, in `recv` (`server.c:441`, run `chat_poll`) or in a write to one that
  does not read; it serves nobody any more.
* `RefusedForCause` says when a join fails that was accepted: a notice or a line
  of somebody else stood behind JOIN_ACK in the same `recv`
  (`client.c:106`).  Nothing in the repository promises otherwise.  It also says
  that the refusal of a full server is heard, but for one case, which the run
  reaches: the server closes while the client is still writing its JOIN, the
  header draws the reset, and the write of the body fails or kills.
* `LastWordsHeard` is about an orderly close.  After a reset the server drops
  what it did not read (`server.c:436`), and a client that leaves with answers
  unread causes a reset.
* `FrameOutlived` and `RecordsAreFinal` are conditional on `g_running`: after a
  stop `run_load_step` does return under its threads, which write to the dead
  frame until the process ends (`explanation.md:169` speaks of joins for all).
* `EndsUnlessPaused` must except a pause: nobody need end one, and when two
  handlers overlap `g_pause = !g_pause` loses a switch (see 4), so that an even
  number of signals does not rule one out.
* `FailureNoticed` reaches the restart of the slot; the `pthread_create` there may
  fail in turn, and the slot then stays dead (`main.c:58` does not look).
* `JoinedOnce` excepts the slots whose restart failed, and `StopsWhenTold` the stop
  that falls between a test of `running` and a waiting call (`missed`), which
  `OneMoreRequestAtMost` bounds instead.
* `EachNumberLogged` tolerates a line that is there again, once per fork between
  `fprintf` and `fclose`, and later than lines of the successor; it does not ask
  for one.

Fairness.  `WF_vars(Server)` in `ChatServer` and `FifoIpc`, `WF_vars(SendRequest(c))`
per FIFO client: a process that can go on is run by the scheduler.  Nothing is
assumed of peers, users, signals and starts.  The server is one sequential
process with at most one enabled step (up to the outcome of writes), so weak
fairness of the disjunction is what the scheduler gives.  The same holds of
`ClientRuns` in `ChatClient`.  Of the server's end there only `ServerWrites` is
fair: while the server is in `write_full` to this client it goes on when there is
room.  That it ever comes back to this connection is not assumed, since the one
process serves all clients and may be in `recv` or `write_full` on another one for
good; nor are typing, other clients and the server's death.  Fair are `Main`, each
`Load(t)` and `PauseWrite` in `StressTest` (signals are not, and a pause may last),
and `ManagerStep` and each `Worker(t)` in `Manager`, where nothing forces a worker
to fail or to succeed.

## 4. Divergences found

* `chat_poll`: after an accept into a slot below a used one `fi` and `i` drift;
  `recv` blocks the whole server on a client that sent nothing
  (`explanation.md:229` promises reads of clients with data only).  A removal
  does not make them drift: `fi` has already counted its entry.  The same drift
  removes a healthy client for the hangup of another (`TakenForAnother`, above).
* `chat_sigpipe`: `/* drop */` (`server.c:191`) is not reached, the server dies.
* `fifo_quit`: `quit` hangs (`LabWork_4/README.md:48`).
* `fifo_reopen`: a request is lost between end of file and close
  (`LabWork_4/README.md:118`).
* Without a run of its own: `LabWork_5/README.md:92` promises that SIGUSR1 pauses
  and resumes.  Two handlers that overlap on different threads both read
  `g_pause` before either writes it (`stress_test.c:25`, `PauseSignal` and
  `PauseWrite`), and one switch is lost: the test stays paused, or runs on.  The
  run `stress` contains these behaviours, and its properties hold in spite of
  them; that a switch is lost is read off line 25 and needs no search.

## 5. Proofs

For all values of the constants that satisfy the assumptions (`HistoryAssumption`,
`ServerAssumption`, `ClientAssumption`, `FifoAssumption`, `StressAssumption`,
`ManagerAssumption`, `RecoveryAssumption`; they say that bounds are numbers, sizes
positive, what is typed sequences of lines, and sets of connections, clients and
frames finite where that is counted):

| Theorem | Statement |
|---|---|
| `ChatHistory_proof!TypeCorrect` | `HistSpec => []HistTypeOK` |
| `ChatHistory_proof!Refinement` | `HistSpec => RefinesRecentLines` |
| `ChatServer_proof!TypeCorrectServer` | `Spec => []TypeOK` |
| `ChatServer_proof!NicksAreUnique` | `Spec => []NicksUnique` |
| `ChatServer_proof!NoDescriptorLost` | `Spec => []OneSlotPerConnection` |
| `ChatServer_proof!ServerKeepsRecentLines` | `Spec => RefinesRecentLines` |
| `ChatRoom_proof!AcksComeFirst` | `Spec => []AckComesFirst` |
| `ChatRoom_proof!PrivateStaysPrivate` | `Spec => []PrivateToTheTwo` |
| `ChatRoom_proof!NoticesAreRight` | `Spec => []NoticesAgree` |
| `ChatRoom_proof!TranscriptIsWhole` | `Spec => []TranscriptHasNoGap` |
| `ChatClient_proof!TypeCorrect` | `Spec => []TypeOK` |
| `ChatClient_proof!StreamsAreIntact` | `Spec => []StreamsIntact` |
| `ChatClient_proof!AlwaysRoom` | `Spec => []RoomForMore` |
| `ChatClient_proof!RefusedWithCause` | `Spec => []RefusedForCause` |
| `ChatClient_proof!LastWordsAreHeard` | `Spec => []LastWordsHeard` |
| `Manager_proof!TypeCorrect` | `Spec => []TypeOK` |
| `Manager_proof!OneThreadAtATime` | `Spec => []OneThreadPerSlot` |
| `Manager_proof!JoinedOnlyOnce` | `Spec => []JoinedOnce` |
| `Manager_proof!JoinsOnlyTheDying` | `Spec => []WaitsForTheDying` |
| `StressTest_proof!TypeCorrect` | `Spec => []TypeOK` |
| `StressTest_proof!NoFrameOutlived` | `Spec => []FrameOutlived` |
| `StressTest_proof!PausesAreHarmless` | `Spec => []PauseEatsNoWork` |
| `StressTest_proof!RecordedInTheEnd` | `Spec => []RecordsAreFinal` |
| `FifoIpc_proof!TypeCorrect` | `Spec => []TypeOK` |
| `FifoIpc_proof!StopsReading` | `Spec => []OneMoreRequestAtMost` |
| `FifoIpc_proof!NothingLeft` | `Spec => []NoFifoLeftBehind` |
| `FifoIpc_proof!AnswersMatch` | `Spec => []AnswerIsToTheRequest` |
| `FifoIpc_proof!WaitsForTheLiving` | `Spec => []WaitsOnlyForTheInterrupted` |
| `FifoIpc_proof!NoRequestVanishes` | `Spec => []RequestIsSomewhere` |
| `Recovery_proof!TypeCorrect` | `Spec => []TypeOK` |
| `Recovery_proof!SuccessorUnique` | `Spec => []OneSuccessor` |
| `Recovery_proof!LogComplete` | `Spec => []EachNumberLogged` |

*The ring.*  The invariant of the ring is its type, that `hist_start` is 0 until
the ring is full, and that exactly the slots of the last `hist_count` lines are
written.  The refinement step needs that distinct offsets below HISTORY_LINES
give distinct slots (`SlotsDistinct`), which is arithmetic on `%`: `ModSmall`
and `ModTurn` describe `%` on the two turns an index can be in.  Then a push
below the limit appends to `Replay`, and one at the limit drops its head.

*The server.*  `TypeOK` is not inductive.  `TypeInv` adds `Control` (what `pc`
implies for the cursors, the buffer and the backlog), `MembersNamed` (members
have a real nickname) and `SlotsFilled` (a slot in use holds a connection).
`TableInv` adds to the two safety properties `Waiting`: what stands in the
backlog is known as waiting and stands there once, which is what makes an
accepted connection differ from all others in the table.  Each action has a
lemma of its own; steps that leave the table alone share `TableFrame`.  The
refinement of the history inside the server is not proved again:
`Spec => HistSpec` step by step, and `Refinement` does the rest.

*The room.*  The four theorems about what members hear share one analysis of the
steps.  `NthIs` and `FdsAre` say that a loop over the table visits each slot of a
set once, in ascending order, and `EmitIs` what a handler's writes then come to:
those recipients that were up have the frame at the end of their queues, or only
some of them and the server died (`Writes`, `Delivers`).  `StepIs` reduces every action
to one of six kinds: a step *Aside* moves no frame of the talk, a *Whisper* or a
*Speech* keeps the table, a *Farewell* or a *CutOff* takes one member out, with a
notice or without, and a *Welcome* lets one in.  Each invariant is then kept six
times instead of once per action.  `RoomInv` says that strangers (connections
nobody has acknowledged) have heard nothing of the talk, so that an acknowledgement
comes first, and that a member still up has heard something, so that nothing else
does; a slot or a nickname that is used again starts as a stranger's.  `AgreeInv` is `NoticesAgree` by itself:
the work is that the *last* notice about a name, a maximum over positions, is the
one just appended or the one before (`LargestIs`, from the well-foundedness of `<`).
`GapInv` adds that the ring holds the end of `said`: a new member starts with that
end, and every line said later goes to all members and to `said` at once.

*The client.*  `StreamsIntact` compares what is buffered, under way and unwritten
with a flattened list of frames, which no step can be reasoned about directly.  So
the invariant describes the same stream locally: in a `Run` each unit is followed
by the next of its frame or the first of the next frame (`After`); `Rest` adds
where it begins, `Whole` that it ends with the last frame.  Two pieces that are
`Whole` and begin alike are the same sequence (`Agree`, `NoLonger`, `Same`), one that
is only `Rest` is a prefix of it (`BeginsIt`), and the flattened list is `Whole`
(`StreamIs`): this turns the invariant back into the property at the end, and
only there.  A `recv` or a write moves units between neighbouring sequences and leaves
their concatenation alone (`TakeIn`, `PassOn`); a new frame is put behind a
`Whole` (`Extended`).  In the same terms `HeaderIs` says that a header which stands at
a frame's boundary is valid, and that less than a whole frame is less than
RECV_CAP; `BufferRead`, used by all three of the client's receiving loops, that the
loop over a buffer stops at a boundary, with no bad header there, and has
read the frames up to it, in order.  What `Consumed`, `NumbersIn` and `FlattenSeq`
compute is defined by recursion; the proofs take the least offset at which a
claim fails (`Minimum`, `UpTo`) in place of an induction.

`Inv` then has six parts.  `ToClient` and `ToServer` are the two streams: whole
while the writer lives, cut off otherwise, and with no whole frame left in a
buffer that is about to receive, which is what gives it room.  `Ends` ties who has
closed to where the two programs are.  `Opening` is the handshake: until the JOIN was
handled the server has said nothing but that it is full, and what an admitted
client may hear is the acknowledgement, then history, notices and broadcasts; a
server that was full is met by a client that has printed nothing or has left.
`Parting` is what a client that left knows: why it was refused or forsaken, and
which of its writes may have failed.  The
last words follow from `ToServer`: at an end of file everything is in the server's
buffer, and as that holds no whole frame, and the stream is whole, it is empty.

*The manager.*  One invariant, `Inv`, serves all four theorems; none of the
properties is inductive, since each depends on what the manager did in earlier
rounds.  `Counting` bounds the number of threads a slot has had by the manager's
place in its loops (without it `thread` could leave its type, and a handle could
be joined that was never created).  `Numbered` says that all threads of a slot
but the last are joined.  `Collected` says when the last one is: just when the
slot is `Gone`, that is lost, between its join and its restart, or behind the
cursor of the final joins.  `Flags` ties `is_active` to the thread: where it is
clear the slot's thread is on its way out, which is why the join of `main.c:47`
does not wait for a healthy worker.  `OnlyTheLast` follows (a thread that
runs is its slot's last, and the slot is not gone), and with it one lemma, `MoveKeeps`,
serves all steps of the workers.

*The stress test.*  `Inv` ties main's place to the threads: `Created` says which
were not created yet, `Ended` which have ended because main waited for them,
`Flags` that a clear flag in the live frame is that of a thread that is done, and
`Counters` that a thread's counter is its work, which is where the wrap of `i--`
and `i++` is undone (`ModMinusOne`, `ModSelf`).  All of it is conditional on
`g_running` just where the code's joins are; what stands without a condition is
that a *later* step finds only threads that are done.  `Records` and `Totals`
count: the false records are no more than the threads that were done when they
were copied, and the total is `ITERATIONS` for each thread counted.  The sum of
work is stated as the number of pairs (thread, iteration), so that the
cardinality theorems suffice and no fold has to be taken apart.

*The FIFO pair.*  `Core` is the shape and two facts of control: a client has a
FIFO just while it makes a request (`Owned`), and a server that took a request
too many is on its way out (`Leaving`).  The rest is about where requests are.
A request in `Flight` is in the pipe or in the server's hands, is there once
(`Apart`), and is its client's latest, whose client is in a place where it makes
no other (`Flying`): this is what makes the response the request's own.
`Meeting` says where the two are while the server opens the client's FIFO, and
`Answered`, `Thrown` and `Somewhere` exclude that a request is in two places, or
in none.  Most steps move no request; they share one lemma, `Dropped`, which also
lets a request be thrown away.  Each step on the request's way has its own:
`MakesRequest`, `WritesRequest`, `TakesRequest`, `LetsGo`, `OpensToAnswer`,
`OpensForAnswer`, `EndsRequest`.

*Recovery.*  Two handlers can be in `exit` or before `fork` at once, one inside the
other; `Nested` bounds the stack by one call per signal, and `One` says that a
process goes on exactly if it is alive and none of its calls is to exit.
`Buffered` says the buffer holds the number only between `fprintf` and `fclose`.
`Counted` then counts lines, in the log and in buffers together: a number is
written once and once more per copy, or not at all, and not at all as long as the
process that goes on is ahead of it.  A fork adds one buffer and one to `copies`;
an exit moves a line from a buffer to the log (`FlushMoves`) and no sum changes.

Each of these invariants was model-checked on its module's run before it was
proved.

Only model-checked:
* liveness (`EveryoneServed`, `AnsweredUnlessLost`, `StopsWhenTold`,
  `EverythingShown`, `ServerLossNoticed`, `StopEndsTheTest`, `EndsUnlessPaused`, `FailureNoticed`,
  `Halts`), since the prover has no rules for fairness.  Every invariant and every
  action property of the passing runs is also stated by a theorem above.

## 6. Plan

1. Done: history, chat server, FIFO pair, chat client, stress test, manager,
   recovery, the proofs above.
2. `ChatServer` with the streams of `ChatClient` for two connections at once, to
   see a slow client hold up another.

## 7. Not modelled, and why

`monitor.c`, `myps`, `scr.sh` and `csv2sql.sh` are sequential programs that read
and print; what can go wrong in them is parsing and formatting, which tests
reach better.  Log files, help texts, argument parsing and the set-up of sockets
are left out of the modelled programs for the same reason.

The censor (`VLADOS/Lab_3`) and the port scanner (`VLADOS/Lab_6`) are sequential
too, and have one hazard each, which reading them settles: an empty dictionary
word matches everywhere (`censor.c:48`), and a failing `socket` leaves a hole in
`batch` (`main.c:31`) that the later loops run over.
