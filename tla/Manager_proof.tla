----------------------------- MODULE Manager_proof -----------------------------
(***************************************************************************)
(* The manager and its workers, for any number of slots and rounds: type   *)
(* correctness, one thread per slot, every handle joined once, and joins   *)
(* of failed threads only.                                                 *)
(***************************************************************************)
EXTENDS Manager, FiniteSetTheorems, TLAPS

InRound == mpc \in {"tryjoin", "inspect", "join", "restart", "recreate"}

(* How many threads a slot has had, from where the manager is.             *)
Count(s) ==
  CASE mpc = "create" -> {IF s < i THEN 1 ELSE 0}
    [] mpc = "failed" -> {0, 1}
    [] mpc = "sleep"  -> 1 .. iterations + 1
    [] InRound        -> 1 .. iterations + (IF s < i THEN 2 ELSE 1)
    [] OTHER          -> 1 .. ROUNDS + 1

Counting ==
  /\ mpc = "create" => iterations = 0 /\ lost = {}
  /\ mpc = "sleep" => i = 0
  /\ InRound => iterations < ROUNDS
  /\ \A s \in Slots : thread[s] \in Count(s)

(* All threads of a slot before the last are joined, none exists after it. *)
Numbered ==
  \A s \in Slots : \A n \in 1 .. ROUNDS + 1 :
    /\ n < thread[s] => tpc[<<s, n>>] = "joined"
    /\ n = thread[s] => tpc[<<s, n>>] # "none"
    /\ n > thread[s] => tpc[<<s, n>>] = "none"

(* The slots whose last thread is joined.                                  *)
Gone(s) ==
  \/ s \in lost
  \/ mpc \in {"restart", "recreate"} /\ s = i
  \/ mpc = "shutdown" /\ s < i
  \/ mpc = "halted"

Collected ==
  \A s \in Slots : thread[s] # 0 => (tpc[<<s, thread[s]>>] = "joined" <=> Gone(s))

(* What is_active says.                                                    *)
Flags ==
  /\ \A s \in Slots :
       thread[s] # 0 /\ ~is_active[s]
         => tpc[<<s, thread[s]>>] \in {"exiting", "ended", "joined"}
  /\ \A s \in lost : is_active[s]
  /\ mpc = "join" => ~is_active[i]
  /\ mpc = "recreate" => is_active[i]

Inv == TypeOK /\ Counting /\ Numbered /\ Collected /\ Flags
------------------------------------------------------------------------------
LEMMA InitInv == Init => Inv
  BY ManagerAssumption
     DEF Init, Inv, TypeOK, Counting, Count, InRound, Numbered, Collected, Flags, Slots, Threads

(* What pthread_create and pthread_join do to each thread.                 *)
LEMMA StartedThreads ==
  ASSUME TypeOK, Started, thread[i] \in 0 .. ROUNDS
  PROVE  /\ thread' \in [Slots -> 0 .. ROUNDS + 1]
         /\ \A s \in Slots : thread'[s] = IF s = i THEN thread[i] + 1 ELSE thread[s]
         /\ tpc' \in [Threads -> {"none", "test", "work", "failing", "exiting", "ended", "joined"}]
         /\ \A s \in Slots, n \in 1 .. ROUNDS + 1 :
              tpc'[<<s, n>>] = IF s = i /\ n = thread[i] + 1 THEN "test" ELSE tpc[<<s, n>>]
         /\ \A s \in Slots : thread'[s] # 0 =>
              tpc'[<<s, thread'[s]>>] = IF s = i THEN "test" ELSE tpc[<<s, thread[s]>>]
  <1> USE ManagerAssumption DEF Slots
  <1>1. /\ thread' \in [Slots -> 0 .. ROUNDS + 1]
        /\ \A s \in Slots : thread'[s] = IF s = i THEN thread[i] + 1 ELSE thread[s]
    BY DEF TypeOK, Started
  <1>2. tpc' \in [Threads -> {"none", "test", "work", "failing", "exiting", "ended", "joined"}]
    BY DEF TypeOK, Started
  <1>3. \A s \in Slots, n \in 1 .. ROUNDS + 1 :
          tpc'[<<s, n>>] = IF s = i /\ n = thread[i] + 1 THEN "test" ELSE tpc[<<s, n>>]
    BY DEF TypeOK, Started, Threads
  <1>4. ASSUME NEW s \in Slots, thread'[s] # 0
        PROVE  tpc'[<<s, thread'[s]>>] = IF s = i THEN "test" ELSE tpc[<<s, thread[s]>>]
    <2>1. thread'[s] \in 1 .. ROUNDS + 1
      BY <1>1, <1>4
    <2>2. QED
      BY <1>1, <1>3, <1>4, <2>1
  <1>5. QED
    BY <1>1, <1>2, <1>3, <1>4

LEMMA JoinedThreads ==
  ASSUME TypeOK, JoinThread, thread[i] \in 1 .. ROUNDS + 1
  PROVE  /\ tpc[<<i, thread[i]>>] = "ended"
         /\ tpc' \in [Threads -> {"none", "test", "work", "failing", "exiting", "ended", "joined"}]
         /\ \A s \in Slots, n \in 1 .. ROUNDS + 1 :
              tpc'[<<s, n>>] = IF s = i /\ n = thread[i] THEN "joined" ELSE tpc[<<s, n>>]
         /\ \A s \in Slots : thread[s] # 0 =>
              tpc'[<<s, thread[s]>>] = IF s = i THEN "joined" ELSE tpc[<<s, thread[s]>>]
  BY ManagerAssumption DEF TypeOK, JoinThread, Handle, Threads, Slots

LEMMA CreateKeeps ==
  ASSUME Inv, Create
  PROVE  Inv'
  <1> USE ManagerAssumption DEF Slots
  <1>1. /\ TypeOK /\ Started /\ thread[i] = 0 /\ thread[i] \in 0 .. ROUNDS
        /\ mpc = "create" /\ iterations = 0 /\ lost = {}
    BY DEF Inv, TypeOK, Counting, Count, InRound, Create
  <1>2. /\ thread' \in [Slots -> 0 .. ROUNDS + 1]
        /\ \A s \in Slots : thread'[s] = IF s = i THEN thread[i] + 1 ELSE thread[s]
        /\ tpc' \in [Threads -> {"none", "test", "work", "failing", "exiting", "ended", "joined"}]
        /\ \A s \in Slots, n \in 1 .. ROUNDS + 1 :
             tpc'[<<s, n>>] = IF s = i /\ n = thread[i] + 1 THEN "test" ELSE tpc[<<s, n>>]
        /\ \A s \in Slots : thread'[s] # 0 =>
             tpc'[<<s, thread'[s]>>] = IF s = i THEN "test" ELSE tpc[<<s, thread[s]>>]
    BY <1>1, StartedThreads
  <1>3. /\ mpc' \in {"create", "sleep"} /\ i' \in Slots
        /\ mpc' = "create" => i' = i + 1
        /\ mpc' = "sleep" => i' = 0 /\ i = NUM_WORKERS - 1
        /\ is_active' = [is_active EXCEPT ![i] = TRUE]
        /\ UNCHANGED <<keep_running, lost, iterations>>
    BY <1>1 DEF Create, NextSlot, TypeOK
  <1>4. TypeOK'
    BY <1>1, <1>2, <1>3 DEF TypeOK
  <1>5. Counting'
    BY SMTT(30), <1>1, <1>2, <1>3 DEF Inv, TypeOK, Counting, Count, InRound
  <1>6. Numbered'
    <2> SUFFICES ASSUME NEW s \in Slots, NEW n \in 1 .. ROUNDS + 1
                 PROVE  /\ n < thread'[s] => tpc'[<<s, n>>] = "joined"
                        /\ n = thread'[s] => tpc'[<<s, n>>] # "none"
                        /\ n > thread'[s] => tpc'[<<s, n>>] = "none"
      BY DEF Numbered
    <2> QED
      BY <1>1, <1>2 DEF Inv, TypeOK, Numbered
  <1>7. Collected'
    <2> SUFFICES ASSUME NEW s \in Slots, thread'[s] # 0
                 PROVE  tpc'[<<s, thread'[s]>>] # "joined" /\ ~Gone(s)'
      BY DEF Collected
    <2>1. ~Gone(s) /\ ~Gone(s)'
      BY <1>1, <1>3 DEF Gone
    <2>2. QED
      BY <1>2, <2>1 DEF Inv, Collected
  <1>8. Flags'
    BY <1>1, <1>2, <1>3 DEF Inv, TypeOK, Counting, Count, Flags
  <1>9. QED
    BY <1>4, <1>5, <1>6, <1>7, <1>8 DEF Inv

LEMMA CreateFailsKeeps ==
  ASSUME Inv, CreateFails
  PROVE  Inv'
  <1> USE ManagerAssumption DEF Slots, Handle, Goto
  <1>1. TypeOK'
    BY DEF Inv, TypeOK, Counting, Count, InRound, CreateFails
  <1>2. Counting'
    BY DEF Inv, TypeOK, Counting, Count, InRound, CreateFails
  <1>3. Numbered'
    BY DEF Inv, TypeOK, Counting, Count, InRound, Numbered, CreateFails
  <1>4. Collected'
    BY DEF Inv, TypeOK, Counting, Count, InRound, Numbered, Collected, Gone, CreateFails
  <1>5. Flags'
    BY DEF Inv, TypeOK, Counting, Count, InRound, Numbered, Collected, Gone, Flags, CreateFails
  <1>6. QED
    BY <1>1, <1>2, <1>3, <1>4, <1>5 DEF Inv

LEMMA NextRoundKeeps ==
  ASSUME Inv, NextRound
  PROVE  Inv'
  <1> USE ManagerAssumption DEF Slots, Handle, Goto
  <1>1. TypeOK'
    BY DEF Inv, TypeOK, Counting, Count, InRound, NextRound
  <1>2. Counting'
    BY DEF Inv, TypeOK, Counting, Count, InRound, NextRound
  <1>3. Numbered'
    BY DEF Inv, TypeOK, Counting, Count, InRound, Numbered, NextRound
  <1>4. Collected'
    BY DEF Inv, TypeOK, Counting, Count, InRound, Numbered, Collected, Gone, NextRound
  <1>5. Flags'
    BY DEF Inv, TypeOK, Counting, Count, InRound, Numbered, Collected, Gone, Flags, NextRound
  <1>6. QED
    BY <1>1, <1>2, <1>3, <1>4, <1>5 DEF Inv

LEMMA TryJoinKeeps ==
  ASSUME Inv, TryJoin
  PROVE  Inv'
  <1> USE ManagerAssumption DEF Slots
  <1>1. thread[i] \in 1 .. ROUNDS + 1 /\ mpc = "tryjoin" /\ TypeOK /\ i \in Slots
    BY DEF Inv, TypeOK, Counting, Count, InRound, TryJoin, Goto
  <1>2. UNCHANGED <<keep_running, is_active, thread, lost, i, iterations>>
    BY DEF TryJoin, Goto
  <1>3. CASE JoinThread /\ mpc' = "restart"
    <2>1. /\ tpc[<<i, thread[i]>>] = "ended"
          /\ tpc' \in [Threads -> {"none", "test", "work", "failing", "exiting", "ended", "joined"}]
          /\ \A s \in Slots, n \in 1 .. ROUNDS + 1 :
               tpc'[<<s, n>>] = IF s = i /\ n = thread[i] THEN "joined" ELSE tpc[<<s, n>>]
          /\ \A s \in Slots : thread[s] # 0 =>
               tpc'[<<s, thread[s]>>] = IF s = i THEN "joined" ELSE tpc[<<s, thread[s]>>]
      BY <1>1, <1>3, JoinedThreads
    <2>2. TypeOK'
      BY <1>1, <1>2, <1>3, <2>1 DEF TypeOK
    <2>3. Counting'
      BY <1>1, <1>2, <1>3 DEF Inv, Counting, Count, InRound
    <2>4. Numbered'
      <3> SUFFICES ASSUME NEW s \in Slots, NEW n \in 1 .. ROUNDS + 1
                   PROVE  /\ n < thread'[s] => tpc'[<<s, n>>] = "joined"
                          /\ n = thread'[s] => tpc'[<<s, n>>] # "none"
                          /\ n > thread'[s] => tpc'[<<s, n>>] = "none"
        BY DEF Numbered
      <3> QED
        BY <1>1, <1>2, <2>1 DEF Inv, TypeOK, Numbered
    <2>5. Collected'
      BY <1>1, <1>2, <1>3, <2>1 DEF Inv, TypeOK, Counting, Count, InRound, Collected, Gone
    <2>6. Flags'
      BY <1>1, <1>2, <1>3, <2>1 DEF Inv, TypeOK, Counting, Count, InRound, Flags
    <2>7. QED
      BY <2>2, <2>3, <2>4, <2>5, <2>6 DEF Inv
  <1>4. CASE UNCHANGED tpc /\ (mpc' = "inspect" \/ (mpc' = "restart" /\ i \in lost))
    <2>1. TypeOK' /\ Counting'
      BY <1>1, <1>2, <1>4 DEF Inv, TypeOK, Counting, Count, InRound
    <2>2. Numbered' /\ Flags'
      BY <1>1, <1>2, <1>4 DEF Inv, Numbered, Flags
    <2>3. Collected'
      BY <1>1, <1>2, <1>4 DEF Inv, Collected, Gone
    <2>4. QED
      BY <2>1, <2>2, <2>3 DEF Inv
  <1>5. QED
    BY <1>3, <1>4 DEF TryJoin, Goto

LEMMA StillActiveKeeps ==
  ASSUME Inv, StillActive
  PROVE  Inv'
  <1> USE ManagerAssumption DEF Slots, Handle, Goto
  <1>1. TypeOK'
    BY SMTT(30) DEF Inv, TypeOK, Counting, Count, InRound, StillActive, NextExamined
  <1>2. Counting'
    BY DEF Inv, TypeOK, Counting, Count, InRound, StillActive, NextExamined
  <1>3. Numbered'
    BY DEF Inv, TypeOK, Counting, Count, InRound, Numbered, StillActive, NextExamined
  <1>4. Collected'
    BY DEF Inv, TypeOK, Counting, Count, InRound, Numbered, Collected, Gone, StillActive, NextExamined
  <1>5. Flags'
    BY DEF Inv, TypeOK, Counting, Count, InRound, Numbered, Collected, Gone, Flags, StillActive, NextExamined
  <1>6. QED
    BY <1>1, <1>2, <1>3, <1>4, <1>5 DEF Inv

LEMMA NoLongerActiveKeeps ==
  ASSUME Inv, NoLongerActive
  PROVE  Inv'
  <1> USE ManagerAssumption DEF Slots, Handle, Goto
  <1>1. TypeOK'
    BY DEF Inv, TypeOK, Counting, Count, InRound, NoLongerActive, AfterFailure
  <1>2. Counting'
    BY DEF Inv, TypeOK, Counting, Count, InRound, NoLongerActive, AfterFailure
  <1>3. Numbered'
    BY DEF Inv, TypeOK, Counting, Count, InRound, Numbered, NoLongerActive, AfterFailure
  <1>4. Collected'
    BY DEF Inv, TypeOK, Counting, Count, InRound, Numbered, Collected, Gone, NoLongerActive, AfterFailure
  <1>5. Flags'
    BY DEF Inv, TypeOK, Counting, Count, InRound, Numbered, Collected, Gone, Flags, NoLongerActive, AfterFailure
  <1>6. QED
    BY <1>1, <1>2, <1>3, <1>4, <1>5 DEF Inv

LEMMA JoinKeeps ==
  ASSUME Inv, Join
  PROVE  Inv'
  <1> USE ManagerAssumption DEF Slots, Handle, Goto
  <1>1. TypeOK'
    BY DEF Inv, TypeOK, Counting, Count, InRound, Join, JoinThread, AfterJoin, Threads
  <1>2. Counting'
    BY DEF Inv, TypeOK, Counting, Count, InRound, Join, JoinThread, AfterJoin, Threads
  <1>3. Numbered'
    BY DEF Inv, TypeOK, Counting, Count, InRound, Numbered, Join, JoinThread, AfterJoin, Threads
  <1>4. Collected'
    BY DEF Inv, TypeOK, Counting, Count, InRound, Numbered, Collected, Gone, Join, JoinThread, AfterJoin, Threads
  <1>5. Flags'
    BY DEF Inv, TypeOK, Counting, Count, InRound, Numbered, Collected, Gone, Flags, Join, JoinThread, AfterJoin, Threads
  <1>6. QED
    BY <1>1, <1>2, <1>3, <1>4, <1>5 DEF Inv

LEMMA RestartKeeps ==
  ASSUME Inv, Restart
  PROVE  Inv'
  <1> USE ManagerAssumption DEF Slots, Handle, Goto
  <1>1. TypeOK'
    BY DEF Inv, TypeOK, Counting, Count, InRound, Restart, Remarked
  <1>2. Counting'
    BY DEF Inv, TypeOK, Counting, Count, InRound, Restart, Remarked
  <1>3. Numbered'
    BY DEF Inv, TypeOK, Counting, Count, InRound, Numbered, Restart, Remarked
  <1>4. Collected'
    BY DEF Inv, TypeOK, Counting, Count, InRound, Numbered, Collected, Gone, Restart, Remarked
  <1>5. Flags'
    BY DEF Inv, TypeOK, Counting, Count, InRound, Numbered, Collected, Gone, Flags, Restart, Remarked
  <1>6. QED
    BY <1>1, <1>2, <1>3, <1>4, <1>5 DEF Inv

LEMMA RecreateKeeps ==
  ASSUME Inv, Recreate
  PROVE  Inv'
  <1> USE ManagerAssumption DEF Slots
  <1>1. /\ thread[i] \in 1 .. iterations + 1 /\ iterations \in 0 .. ROUNDS - 1
        /\ mpc = "recreate" /\ i \in Slots /\ TypeOK
    BY DEF Inv, TypeOK, Counting, Count, InRound, Recreate
  <1>2. /\ UNCHANGED <<keep_running, is_active>>
        /\ mpc' \in {"tryjoin", "sleep"} /\ i' \in Slots /\ iterations' \in 0 .. ROUNDS
        /\ mpc' = "tryjoin" => i' = i + 1 /\ iterations' = iterations
        /\ mpc' = "sleep" => i' = 0 /\ iterations' = iterations + 1 /\ i = NUM_WORKERS - 1
    BY <1>1 DEF Recreate, NextExamined
  <1>3. CASE Started /\ lost' = lost \ {i}
    <2>1. /\ thread' \in [Slots -> 0 .. ROUNDS + 1]
          /\ \A s \in Slots : thread'[s] = IF s = i THEN thread[i] + 1 ELSE thread[s]
          /\ tpc' \in [Threads -> {"none", "test", "work", "failing", "exiting", "ended", "joined"}]
          /\ \A s \in Slots, n \in 1 .. ROUNDS + 1 :
               tpc'[<<s, n>>] = IF s = i /\ n = thread[i] + 1 THEN "test" ELSE tpc[<<s, n>>]
          /\ \A s \in Slots : thread'[s] # 0 =>
               tpc'[<<s, thread'[s]>>] = IF s = i THEN "test" ELSE tpc[<<s, thread[s]>>]
      BY <1>1, <1>3, StartedThreads
    <2>2. TypeOK'
      BY <1>1, <1>2, <1>3, <2>1 DEF TypeOK
    <2>3. Counting'
      <3>1. \A s \in Slots : thread[s] \in 1 .. iterations + (IF s < i THEN 2 ELSE 1)
        BY <1>1 DEF Inv, Counting, Count, InRound
      <3>2. ASSUME NEW s \in Slots PROVE thread'[s] \in Count(s)'
        <4>1. thread'[s] \in 1 .. iterations + (IF s <= i THEN 2 ELSE 1)
          <5>1. CASE s = i
            <6>1. thread'[s] = thread[i] + 1
              BY <2>1, <5>1
            <6>2. QED
              BY <1>1, <5>1, <6>1
          <5>2. CASE s # i
            <6>1. thread'[s] = thread[s] /\ s \in Int /\ i \in Int /\ (s <= i <=> s < i)
              BY <1>1, <2>1, <5>2
            <6>2. QED
              BY <3>1, <6>1
          <5>3. QED
            BY <5>1, <5>2
        <4>2. CASE mpc' = "tryjoin"
          BY <1>1, <1>2, <4>1, <4>2 DEF Count, InRound
        <4>3. CASE mpc' = "sleep"
          BY <1>1, <1>2, <4>1, <4>3 DEF Count
        <4>4. QED
          BY <1>2, <4>2, <4>3
      <3>3. QED
        BY <1>1, <1>2, <3>2 DEF Counting, InRound
    <2>4. Numbered'
      <3> SUFFICES ASSUME NEW s \in Slots, NEW n \in 1 .. ROUNDS + 1
                   PROVE  /\ n < thread'[s] => tpc'[<<s, n>>] = "joined"
                          /\ n = thread'[s] => tpc'[<<s, n>>] # "none"
                          /\ n > thread'[s] => tpc'[<<s, n>>] = "none"
        BY DEF Numbered
      <3>1. tpc[<<i, thread[i]>>] = "joined"
        BY <1>1 DEF Inv, Collected, Gone
      <3>2. /\ n < thread[s] => tpc[<<s, n>>] = "joined"
            /\ n = thread[s] => tpc[<<s, n>>] # "none"
            /\ n > thread[s] => tpc[<<s, n>>] = "none"
            /\ thread[s] \in 0 .. ROUNDS + 1 /\ n \in Int
        BY <1>1 DEF Inv, TypeOK, Numbered
      <3>3. CASE s = i
        <4>1. thread'[s] = thread[s] + 1
          BY <2>1, <3>3
        <4>2. tpc'[<<s, n>>] = IF n = thread[s] + 1 THEN "test" ELSE tpc[<<s, n>>]
          BY <2>1, <3>3
        <4>3. n = thread[s] => tpc[<<s, n>>] = "joined"
          BY <3>1, <3>3
        <4>4. QED
          BY <3>2, <4>1, <4>2, <4>3
      <3>4. CASE s # i
        <4>1. thread'[s] = thread[s] /\ tpc'[<<s, n>>] = tpc[<<s, n>>]
          BY <2>1, <3>4
        <4>2. QED
          BY <3>2, <4>1
      <3>5. QED
        BY <3>3, <3>4
    <2>5. Collected'
      BY SMTT(30), <1>1, <1>2, <1>3, <2>1 DEF Inv, TypeOK, Counting, Count, InRound, Collected, Gone
    <2>6. Flags'
      BY <1>1, <1>2, <1>3, <2>1 DEF Inv, TypeOK, Counting, Count, InRound, Flags
    <2>7. QED
      BY <2>2, <2>3, <2>4, <2>5, <2>6 DEF Inv
  <1>4. CASE lost' = lost \cup {i} /\ UNCHANGED <<thread, tpc>>
    <2>1. TypeOK'
      BY <1>1, <1>2, <1>4 DEF TypeOK
    <2>2. Counting'
      BY SMTT(30), <1>1, <1>2, <1>4 DEF Inv, TypeOK, Counting, Count, InRound
    <2>3. Numbered' /\ Flags'
      BY <1>1, <1>2, <1>4 DEF Inv, TypeOK, Numbered, Flags
    <2>4. Collected'
      BY <1>1, <1>2, <1>4 DEF Inv, TypeOK, Collected, Gone
    <2>5. QED
      BY <2>1, <2>2, <2>3, <2>4 DEF Inv
  <1>5. QED
    BY <1>3, <1>4 DEF Recreate

LEMMA ShutdownKeeps ==
  ASSUME Inv, Shutdown
  PROVE  Inv'
  <1> USE ManagerAssumption DEF Slots, Handle, Goto
  <1>1. TypeOK'
    BY DEF Inv, TypeOK, Counting, Count, InRound, Shutdown, Stop
  <1>2. Counting'
    BY DEF Inv, TypeOK, Counting, Count, InRound, Shutdown, Stop
  <1>3. Numbered'
    BY DEF Inv, TypeOK, Counting, Count, InRound, Numbered, Shutdown, Stop
  <1>4. Collected'
    BY DEF Inv, TypeOK, Counting, Count, InRound, Numbered, Collected, Gone, Shutdown, Stop
  <1>5. Flags'
    BY DEF Inv, TypeOK, Counting, Count, InRound, Numbered, Collected, Gone, Flags, Shutdown, Stop
  <1>6. QED
    BY <1>1, <1>2, <1>3, <1>4, <1>5 DEF Inv

LEMMA LastJoinKeeps ==
  ASSUME Inv, LastJoin
  PROVE  Inv'
  <1> USE ManagerAssumption DEF Slots
  <1>1. thread[i] \in 1 .. ROUNDS + 1 /\ mpc = "shutdown" /\ i \in Slots /\ TypeOK
    BY DEF Inv, TypeOK, Counting, Count, InRound, LastJoin
  <1>2. /\ mpc' \in {"shutdown", "halted"} /\ i' \in Slots
        /\ mpc' = "shutdown" => i' = i + 1
        /\ mpc' = "halted" => i = NUM_WORKERS - 1
        /\ UNCHANGED <<keep_running, is_active, thread, lost, iterations>>
    BY <1>1 DEF LastJoin, NextSlot
  <1>3. TypeOK' /\ Counting'
    BY <1>1, <1>2, JoinedThreads DEF Inv, TypeOK, Counting, Count, InRound, LastJoin
  <1>4. CASE i \in lost /\ UNCHANGED tpc
    BY <1>1, <1>2, <1>3, <1>4 DEF Inv, TypeOK, Numbered, Collected, Gone, Flags
  <1>5. CASE JoinThread
    <2>1. /\ tpc[<<i, thread[i]>>] = "ended"
          /\ tpc' \in [Threads -> {"none", "test", "work", "failing", "exiting", "ended", "joined"}]
          /\ \A s \in Slots, n \in 1 .. ROUNDS + 1 :
               tpc'[<<s, n>>] = IF s = i /\ n = thread[i] THEN "joined" ELSE tpc[<<s, n>>]
          /\ \A s \in Slots : thread[s] # 0 =>
               tpc'[<<s, thread[s]>>] = IF s = i THEN "joined" ELSE tpc[<<s, thread[s]>>]
      BY <1>1, <1>5, JoinedThreads
    <2>2. Numbered'
      <3> SUFFICES ASSUME NEW s \in Slots, NEW n \in 1 .. ROUNDS + 1
                   PROVE  /\ n < thread'[s] => tpc'[<<s, n>>] = "joined"
                          /\ n = thread'[s] => tpc'[<<s, n>>] # "none"
                          /\ n > thread'[s] => tpc'[<<s, n>>] = "none"
        BY DEF Numbered
      <3> QED
        BY <1>1, <1>2, <2>1 DEF Inv, TypeOK, Numbered
    <2>3. Collected'
      BY SMTT(30), <1>1, <1>2, <2>1 DEF Inv, TypeOK, Counting, Count, InRound, Collected, Gone
    <2>4. Flags'
      BY <1>1, <1>2, <2>1 DEF Inv, TypeOK, Counting, Count, InRound, Flags
    <2>5. QED
      BY <1>3, <2>2, <2>3, <2>4 DEF Inv
  <1>6. QED
    BY <1>4, <1>5 DEF LastJoin

(* A thread that runs is the last of its slot, and not joined.             *)
LEMMA OnlyTheLast ==
  ASSUME Inv, NEW t \in Threads, tpc[t] \notin {"none", "joined"}
  PROVE  /\ t[1] \in Slots /\ thread[t[1]] \in 1 .. ROUNDS + 1
         /\ t[2] = thread[t[1]] /\ t = <<t[1], thread[t[1]]>>
         /\ ~Gone(t[1])
  <1>1. t[1] \in Slots /\ t[2] \in 1 .. ROUNDS + 1 /\ t = <<t[1], t[2]>>
    BY DEF Threads
  <1>2. thread[t[1]] \in 0 .. ROUNDS + 1
    BY <1>1 DEF Inv, TypeOK
  <1>3. t[2] = thread[t[1]]
    BY <1>1, <1>2, ManagerAssumption DEF Inv, Numbered
  <1>4. QED
    BY <1>1, <1>2, <1>3, ManagerAssumption DEF Inv, Collected

(* A thread's step keeps the invariant: the flag is cleared when the       *)
(* thread goes to its exit, and by no other step.                          *)
LEMMA MoveKeeps ==
  ASSUME Inv, NEW t \in Threads, NEW from, NEW to, Move(t, from, to), Others,
         from \in {"test", "work", "failing", "exiting"},
         to \in {"test", "work", "failing", "exiting", "ended"},
         from = "exiting" => to = "ended",
         \/ UNCHANGED is_active
         \/ from = "failing" /\ to = "exiting"
               /\ is_active' = [is_active EXCEPT ![t[1]] = FALSE]
  PROVE  Inv'
  <1> USE ManagerAssumption DEF Slots, Others
  <1>1. TypeOK /\ tpc[t] = from /\ tpc[t] \notin {"none", "joined"}
    BY DEF Inv, Move
  <1>2. /\ t[1] \in Slots /\ thread[t[1]] \in 1 .. ROUNDS + 1
        /\ t[2] = thread[t[1]] /\ ~Gone(t[1]) /\ t = <<t[1], thread[t[1]]>>
    BY <1>1, OnlyTheLast
  <1>3. /\ \A s \in Slots, n \in 1 .. ROUNDS + 1 :
             tpc'[<<s, n>>] = IF s = t[1] /\ n = thread[s] THEN to ELSE tpc[<<s, n>>]
        /\ \A s \in Slots : thread[s] # 0 =>
             tpc'[<<s, thread[s]>>] = IF s = t[1] THEN to ELSE tpc[<<s, thread[s]>>]
    BY SMTT(30), <1>1, <1>2 DEF TypeOK, Move, Threads
  <1>4. TypeOK'
    BY <1>1, <1>2 DEF TypeOK, Move
  <1>5. Counting'
    BY DEF Inv, Counting, Count, InRound
  <1>6. Numbered'
    <2> SUFFICES ASSUME NEW s \in Slots, NEW n \in 1 .. ROUNDS + 1
                 PROVE  /\ n < thread'[s] => tpc'[<<s, n>>] = "joined"
                        /\ n = thread'[s] => tpc'[<<s, n>>] # "none"
                        /\ n > thread'[s] => tpc'[<<s, n>>] = "none"
      BY DEF Numbered
    <2> QED
      BY <1>1, <1>2, <1>3 DEF Inv, TypeOK, Numbered
  <1>7. Collected'
    BY <1>1, <1>2, <1>3 DEF Inv, TypeOK, Collected, Gone
  <1>8. Flags'
    <2>1. ASSUME NEW s \in Slots, thread[s] # 0, ~is_active'[s]
          PROVE  tpc'[<<s, thread[s]>>] \in {"exiting", "ended", "joined"}
      <3>1. CASE s = t[1]
        <4>1. tpc'[<<s, thread[s]>>] = to /\ tpc[<<s, thread[s]>>] = from
          BY <1>1, <1>2, <1>3, <2>1, <3>1
        <4>2. CASE UNCHANGED is_active
          <5>1. ~is_active[s]
            BY <2>1, <4>2
          <5>2. from = "exiting"
            BY <2>1, <4>1, <5>1 DEF Inv, Flags
          <5>3. QED
            BY <4>1, <5>2
        <4>3. CASE to = "exiting"
          BY <4>1, <4>3
        <4>4. QED
          BY <4>2, <4>3
      <3>2. CASE s # t[1]
        <4>1. is_active'[s] = is_active[s]
          BY <1>1, <1>2, <3>2 DEF TypeOK
        <4>2. tpc'[<<s, thread[s]>>] = tpc[<<s, thread[s]>>]
          BY <1>3, <2>1, <3>2
        <4>3. QED
          BY <2>1, <4>1, <4>2 DEF Inv, Flags
      <3>3. QED
        BY <3>1, <3>2
    <2>2. \A s \in lost : is_active'[s]
      BY <1>1, <1>2 DEF Inv, TypeOK, Flags, Gone
    <2>3. (mpc = "join" => ~is_active'[i]) /\ (mpc = "recreate" => is_active'[i])
      BY <1>1, <1>2 DEF Inv, TypeOK, Flags, Gone
    <2>4. QED
      BY <2>1, <2>2, <2>3 DEF Flags
  <1>9. QED
    BY <1>4, <1>5, <1>6, <1>7, <1>8 DEF Inv

LEMMA WorkerKeeps ==
  ASSUME Inv, NEW t \in Threads, Worker(t)
  PROVE  Inv'
  <1>1. CASE WorkerTest(t)
    <2>1. PICK to \in {"work", "ended"} : Move(t, "test", to)
      BY <1>1 DEF WorkerTest
    <2>2. QED
      BY <1>1, <2>1, MoveKeeps DEF WorkerTest
  <1>2. CASE WorkerWorks(t)
    BY <1>2, MoveKeeps DEF WorkerWorks
  <1>3. CASE WorkerFails(t)
    BY <1>3, MoveKeeps DEF WorkerFails
  <1>4. CASE WorkerExits(t)
    BY <1>4, MoveKeeps DEF WorkerExits
  <1>5. QED
    BY <1>1, <1>2, <1>3, <1>4 DEF Worker
------------------------------------------------------------------------------
LEMMA StutterKeeps ==
  ASSUME Inv, UNCHANGED vars
  PROVE  Inv'
  BY DEF vars, Inv, TypeOK, Counting, Count, InRound, Numbered, Collected, Gone, Flags, Slots, Threads

(* The invariant holds in every reachable state: the program starts in it, *)
(* and every step of main.c and worker.c keeps it.                         *)
THEOREM InvHolds == Spec => []Inv
  <1>1. Init => Inv
    BY InitInv
  <1>2. Inv /\ [Next]_vars => Inv'
    <2>1. ASSUME Inv, ManagerStep PROVE Inv'
      BY <2>1, CreateKeeps, CreateFailsKeeps, NextRoundKeeps, TryJoinKeeps, StillActiveKeeps,
         NoLongerActiveKeeps, JoinKeeps, RestartKeeps, RecreateKeeps, ShutdownKeeps, LastJoinKeeps
         DEF ManagerStep
    <2>2. QED
      BY <2>1, WorkerKeeps, StutterKeeps DEF Next
  <1>3. QED
    BY <1>1, <1>2, PTL DEF Spec

(* Type correctness, for any number of workers and rounds.                 *)
THEOREM TypeCorrect == Spec => []TypeOK
  <1>1. Inv => TypeOK
    BY DEF Inv
  <1>2. QED
    BY <1>1, InvHolds, PTL

(* No two threads of a slot run at once: main.c creates one only after the *)
(* one before it was joined.                                               *)
THEOREM OneThreadAtATime == Spec => []OneThreadPerSlot
  <1>1. Inv => OneThreadPerSlot
    <2> SUFFICES ASSUME Inv, NEW s \in Slots
                 PROVE  Cardinality({t \in Threads : t[1] = s /\ Live(t)}) <= 1
      BY DEF OneThreadPerSlot
    <2> DEFINE L == {t \in Threads : t[1] = s /\ Live(t)}
    <2>1. L \subseteq {<<s, thread[s]>>}
      BY OnlyTheLast DEF Live
    <2>2. /\ IsFiniteSet({<<s, thread[s]>>}) /\ Cardinality({<<s, thread[s]>>}) = 1
      BY FS_Singleton
    <2>3. Cardinality(L) <= 1
      BY <2>1, <2>2, FS_Subset
    <2>4. QED
      BY <2>3
  <1>2. QED
    BY <1>1, InvHolds, PTL

(* Every thread is joined once, and all are when the system is halted.     *)
THEOREM JoinedOnlyOnce == Spec => []JoinedOnce
  <1>1. Inv => JoinedOnce
    <2> SUFFICES ASSUME Inv PROVE JoinedOnce
      OBVIOUS
    <2> USE ManagerAssumption DEF Slots
    <2>1. ASSUME mpc \in {"tryjoin", "join", "shutdown"}, i \notin lost
          PROVE  tpc[Handle] \notin {"none", "joined"}
      <3>1. i \in Slots /\ thread[i] \in 1 .. ROUNDS + 1 /\ ~Gone(i)
        BY <2>1 DEF Inv, TypeOK, Counting, Count, InRound, Gone
      <3>2. QED
        BY <3>1 DEF Inv, Numbered, Collected, Handle
    <2>2. ASSUME mpc = "halted", NEW t \in Threads
          PROVE  tpc[t] \in {"none", "joined"}
      BY <2>2, OnlyTheLast DEF Gone
    <2>3. QED
      BY <2>1, <2>2 DEF JoinedOnce
  <1>2. QED
    BY <1>1, InvHolds, PTL

(* The manager joins no thread that has not failed.                        *)
THEOREM JoinsOnlyTheDying == Spec => []WaitsForTheDying
  <1>1. Inv => WaitsForTheDying
    <2> SUFFICES ASSUME Inv, mpc = "join" PROVE tpc[Handle] \in {"exiting", "ended"}
      BY DEF WaitsForTheDying
    <2>1. /\ i \in Slots /\ thread[i] \in 1 .. ROUNDS + 1
          /\ ~is_active[i] /\ ~Gone(i)
      BY ManagerAssumption DEF Inv, TypeOK, Counting, Count, InRound, Flags, Gone
    <2>2. QED
      BY <2>1, ManagerAssumption DEF Inv, Collected, Flags, Handle
  <1>2. QED
    BY <1>1, InvHolds, PTL
==============================================================================
