---------------------------- MODULE Recovery_proof ----------------------------
(***************************************************************************)
(* The recovery handler, for any numbers counted to, forks and signals:    *)
(* type correctness, one successor, and the lines of the log.              *)
(***************************************************************************)
EXTENDS Recovery, FiniteSetTheorems, SequenceTheorems, TLAPS

Places == {"count", "fopen", "fprintf", "fclose"}
Calls == [sig : Signals, at : {"fork", "exit", "return"}]

Shape ==
  /\ pids \in Pids /\ alive \in SUBSET (1 .. pids)
  /\ pc \in [Pids -> Places]
  /\ counter \in [Pids -> 0 .. MAX_COUNT] /\ f \in [Pids -> 0 .. MAX_COUNT]
  /\ handlers \in [Pids -> Seq(Calls)]
  /\ pending \in [Pids -> SUBSET Signals] /\ signals \in 0 .. MAX_SIGNALS
  /\ log \in Seq(Numbers) /\ unlogged \in SUBSET Numbers
  /\ copies \in [Numbers -> Nat] /\ \A n \in Numbers : copies[n] < pids
  /\ lost \in BOOLEAN

(* A process is in one call of the handler at most for each signal.        *)
Nested ==
  \A p \in Pids : \A j, k \in 1 .. Len(handlers[p]) :
    handlers[p][j].sig = handlers[p][k].sig => j = k

(* One process goes on, or none.                                           *)
One ==
  /\ lost => \A p \in Pids : ~GoesOn(p)
  /\ ~lost => \E p \in Pids : GoesOn(p) /\ \A q \in Pids : GoesOn(q) => q = p

(* The buffer of f holds the number just between fprintf and fclose.       *)
Buffered ==
  \A p \in alive :
    /\ f[p] = IF pc[p] = "fclose" THEN counter[p] ELSE 0
    /\ pc[p] # "count" => counter[p] > 0

LogOf(n) == {k \in 1 .. Len(log) : log[k] = n}
HeldOf(n) == {p \in alive : f[p] = n}
Written(n) == Cardinality(LogOf(n)) + Cardinality(HeldOf(n))

(* The process that goes on has not written n yet; it is past n.           *)
Ahead(p, n) == n > counter[p] \/ (n = counter[p] /\ pc[p] \in {"fopen", "fprintf"})
Past(p, n) == n < counter[p] \/ (n = counter[p] /\ pc[p] = "count")

Counted ==
  \A n \in Numbers :
    /\ Written(n) = 1 + copies[n] \/ (Written(n) = 0 /\ copies[n] = 0)
    /\ \A p \in Pids : GoesOn(p) /\ Ahead(p, n) => Written(n) = 0
    /\ \A p \in Pids : GoesOn(p) /\ Past(p, n) /\ n \notin unlogged => LogOf(n) # {}

Core == Shape /\ Nested /\ One /\ Buffered
Inv == Core /\ Counted
------------------------------------------------------------------------------
(* The calls of the handler: entered, moved on, left.                      *)

Exits(h) == \E k \in DOMAIN h : h[k].at = "exit"
Apart(h) == \A j, k \in 1 .. Len(h) : h[j].sig = h[k].sig => j = k

LEMMA AdvancedIs ==
  ASSUME NEW h \in Seq(Calls), h # <<>>, NEW to \in {"fork", "exit", "return"}
  PROVE  LET a == [h EXCEPT ![Len(h)].at = to]
         IN /\ a \in Seq(Calls) /\ (Apart(h) => Apart(a))
            /\ to = "exit" => Exits(a)
            /\ Last(h).at # "exit" /\ to # "exit" => (Exits(a) <=> Exits(h))
  <1> DEFINE e == [h[Len(h)] EXCEPT !.at = to]
             a == [h EXCEPT ![Len(h)] = e]
  <1>1. Len(h) \in 1 .. Len(h) /\ h[Len(h)] \in Calls
    OBVIOUS
  <1>2. e \in Calls /\ e.at = to /\ e.sig = h[Len(h)].sig
    BY <1>1 DEF Calls
  <1>3. /\ a \in Seq(Calls) /\ Len(a) = Len(h)
        /\ \A j \in 1 .. Len(h) : a[j] = IF j = Len(h) THEN e ELSE h[j]
    BY <1>1, <1>2, ExceptSeq
  <1>4. [h EXCEPT ![Len(h)].at = to] = a
    OBVIOUS
  <1> HIDE DEF e, a
  <1>5. DOMAIN a = 1 .. Len(h) /\ DOMAIN h = 1 .. Len(h)
    BY <1>3
  <1>6. Apart(h) => Apart(a)
    BY <1>1, <1>2, <1>3 DEF Apart
  <1>7. to = "exit" => Exits(a)
    BY <1>1, <1>2, <1>3, <1>5 DEF Exits
  <1>8. Last(h).at # "exit" /\ to # "exit" => (Exits(a) <=> Exits(h))
    BY <1>1, <1>2, <1>3, <1>5 DEF Exits, Last
  <1>9. QED
    BY <1>3, <1>4, <1>6, <1>7, <1>8

LEMMA ReturnIs ==
  ASSUME NEW h \in Seq(Calls), h # <<>>
  PROVE  /\ Front(h) \in Seq(Calls) /\ (Apart(h) => Apart(Front(h)))
         /\ Last(h).at # "exit" => (Exits(Front(h)) <=> Exits(h))
  <1>1. /\ Front(h) \in Seq(Calls) /\ Len(h) \in Nat \ {0} /\ Len(Front(h)) = Len(h) - 1
        /\ \A j \in 1 .. Len(h) - 1 : Front(h)[j] = h[j]
    <2>1. Len(h) \in Nat \ {0} /\ \A j \in 1 .. Len(h) : h[j] \in Calls
      OBVIOUS
    <2> DEFINE m == Len(h) - 1
    <2>2. m \in Nat /\ m \in Int /\ 1 \in Int /\ \A j \in 1 .. m : h[j] \in Calls
      BY <2>1
    <2> HIDE DEF m
    <2>3. /\ SubSeq(h, 1, m) \in Seq(Calls)
          /\ Len(SubSeq(h, 1, m)) = IF 1 <= m THEN m - 1 + 1 ELSE 0
          /\ \A j \in 1 .. m - 1 + 1 : SubSeq(h, 1, m)[j] = h[1 + j - 1]
      BY <2>2, SubSeqProperties
    <2>4. /\ Len(SubSeq(h, 1, m)) = m
          /\ \A j \in 1 .. m : SubSeq(h, 1, m)[j] = h[j]
      <3>1. \A j \in 1 .. m : j \in 1 .. m - 1 + 1 /\ 1 + j - 1 = j
        BY <2>2
      <3>2. (IF 1 <= m THEN m - 1 + 1 ELSE 0) = m
        BY <2>2
      <3>3. QED
        BY <2>3, <3>1, <3>2
    <2>5. QED
      BY <2>1, <2>3, <2>4 DEF Front, m
  <1>2. DOMAIN Front(h) = 1 .. Len(h) - 1 /\ DOMAIN h = 1 .. Len(h)
    BY <1>1
  <1>3. Apart(h) => Apart(Front(h))
    BY <1>1 DEF Apart
  <1>4. Last(h).at # "exit" => (Exits(Front(h)) <=> Exits(h))
    BY <1>1, <1>2 DEF Exits, Last
  <1>5. QED
    BY <1>1, <1>3, <1>4

LEMMA CallIs ==
  ASSUME NEW h \in Seq(Calls), NEW sig \in Signals, sig \notin {h[k].sig : k \in DOMAIN h}
  PROVE  LET a == Append(h, [sig |-> sig, at |-> "fork"])
         IN /\ a \in Seq(Calls) /\ (Apart(h) => Apart(a))
            /\ Exits(a) <=> Exits(h)
  <1> DEFINE e == [sig |-> sig, at |-> "fork"]
             a == Append(h, e)
  <1>1. e \in Calls /\ e.at = "fork" /\ e.sig = sig
    BY DEF Calls
  <1> HIDE DEF e
  <1>2. /\ a \in Seq(Calls) /\ Len(a) = Len(h) + 1 /\ Len(h) \in Nat
        /\ \A j \in 1 .. Len(h) : a[j] = h[j]
        /\ a[Len(h) + 1] = e
    BY <1>1, AppendProperties
  <1> HIDE DEF a
  <1>3. DOMAIN a = 1 .. Len(h) + 1 /\ DOMAIN h = 1 .. Len(h)
    BY <1>2
  <1>4. \A j \in 1 .. Len(h) : h[j].sig # sig
    BY <1>3
  <1>5. Apart(h) => Apart(a)
    BY <1>1, <1>2, <1>4 DEF Apart
  <1>6. Exits(a) <=> Exits(h)
    BY <1>1, <1>2, <1>3 DEF Exits
  <1>7. QED
    BY <1>2, <1>5, <1>6 DEF a, e
------------------------------------------------------------------------------
(* The steps of the process itself.                                        *)

LEMMA LoopCore ==
  ASSUME Core, NEW p \in Pids, Count(p) \/ Open(p) \/ Write(p) \/ Close(p)
  PROVE  Core'
  <1> USE RecoveryAssumption DEF Core, procVars, signalVars, At, Go
  <1>1. UNCHANGED <<handlers, alive, lost, pids, pending, signals, copies>>
    BY DEF Count, Open, Write, Close
  <1>2. /\ p \in alive /\ counter[p] \in 0 .. MAX_COUNT /\ f[p] \in 0 .. MAX_COUNT
        /\ f[p] = IF pc[p] = "fclose" THEN counter[p] ELSE 0
        /\ pc[p] # "count" => counter[p] \in Numbers
    <2>1. p \in alive
      BY DEF Count, Open, Write, Close
    <2>2. counter[p] \in 0 .. MAX_COUNT /\ f[p] \in 0 .. MAX_COUNT
      BY DEF Shape
    <2>3. QED
      BY <2>1, <2>2 DEF Buffered, Numbers
  <1>3. /\ pc' \in [Pids -> Places] /\ counter' \in [Pids -> 0 .. MAX_COUNT]
        /\ f' \in [Pids -> 0 .. MAX_COUNT]
    <2>1. CASE Count(p)
      BY SMTT(30), <1>2, <2>1 DEF Count, Shape, Places
    <2>2. CASE Open(p)
      BY <2>2 DEF Open, Shape, Places
    <2>3. CASE Write(p)
      BY <1>2, <2>3 DEF Write, Shape, Places
    <2>4. CASE Close(p)
      BY <2>4 DEF Close, Flush, Shape, Places
    <2>5. QED
      BY <2>1, <2>2, <2>3, <2>4
  <1>4. log' \in Seq(Numbers) /\ unlogged' \in SUBSET Numbers
    <2>1. unlogged' \in SUBSET Numbers
      BY <1>2 DEF Count, Open, Write, Close, Shape
    <2>2. CASE Close(p)
      <3>1. f[p] \in Numbers \/ f[p] = 0
        BY <1>2, <2>2 DEF Close
      <3>2. log' \in Seq(Numbers)
        BY <2>2, <3>1 DEF Close, Flush, Shape
      <3>3. QED
        BY <2>1, <3>2
    <2>3. CASE ~Close(p)
      BY <2>1, <2>3 DEF Count, Open, Write, Shape
    <2>4. QED
      BY <2>2, <2>3
  <1>5. Shape'
    BY <1>1, <1>3, <1>4 DEF Shape
  <1>6. Nested' /\ One'
    BY <1>1 DEF Nested, One, GoesOn
  <1>7. Buffered'
    <2>1. \A q \in alive : q # p => UNCHANGED <<f[q], pc[q], counter[q]>>
      <3>1. pc' = [pc EXCEPT ![p] = pc'[p]]
        BY DEF Count, Open, Write, Close, Shape
      <3>2. counter' = [counter EXCEPT ![p] = counter'[p]]
        BY DEF Count, Open, Write, Close, Shape
      <3>3. f' = [f EXCEPT ![p] = f'[p]]
        BY DEF Count, Open, Write, Close, Flush, Shape
      <3>4. alive \subseteq Pids
        BY DEF Shape, Pids
      <3>5. QED
        BY <3>1, <3>2, <3>3, <3>4 DEF Shape
    <2>2. /\ f'[p] = IF pc'[p] = "fclose" THEN counter'[p] ELSE 0
          /\ pc'[p] # "count" => counter'[p] > 0
      <3>1. CASE Count(p)
        BY <1>2, <3>1 DEF Count, Shape
      <3>2. CASE Open(p)
        BY <1>2, <3>2 DEF Open, Shape, Numbers
      <3>3. CASE Write(p)
        BY <1>2, <3>3 DEF Write, Shape, Numbers
      <3>4. CASE Close(p)
        BY <1>2, <3>4 DEF Close, Flush, Shape
      <3>5. QED
        BY <3>1, <3>2, <3>3, <3>4
    <2>3. QED
      BY <1>1, <2>1, <2>2 DEF Buffered
  <1>8. QED
    BY <1>5, <1>6, <1>7

LEMMA ForkCore ==
  ASSUME Core, NEW p \in Pids, Fork(p)
  PROVE  Core'
  <1> USE RecoveryAssumption DEF Core, mainVars, signalVars
  <1> DEFINE child == pids + 1
  <1>1. /\ p \in alive /\ handlers[p] # <<>> /\ Last(handlers[p]).at = "fork"
        /\ pids' = child /\ alive' = alive \cup {child} /\ pids <= MAX_FORKS
        /\ UNCHANGED <<unlogged, log, lost, pending, signals>>
    BY DEF Fork, In
  <1>2. pids \in Nat /\ child \in Pids /\ child # p /\ child \notin alive
    BY <1>1 DEF Shape, Pids
  <1>3. /\ pc' = [pc EXCEPT ![child] = pc[p]] /\ counter' = [counter EXCEPT ![child] = counter[p]]
        /\ f' = [f EXCEPT ![child] = f[p]]
    BY DEF Fork, Resumes
  <1>4. handlers' = [handlers EXCEPT ![p] = Advanced(p, "exit"), ![child] = Advanced(p, "return")]
    BY DEF Fork
  <1>5. \A n \in Numbers : copies'[n] = IF n = f[p] THEN copies[n] + 1 ELSE copies[n]
    BY DEF Fork
  <1>6. copies' \in [Numbers -> Nat]
    BY DEF Fork, Shape
  <1>7. /\ Advanced(p, "exit") \in Seq(Calls) /\ Advanced(p, "return") \in Seq(Calls)
        /\ Apart(handlers[p]) => Apart(Advanced(p, "exit")) /\ Apart(Advanced(p, "return"))
        /\ Exits(Advanced(p, "exit"))
        /\ Exits(Advanced(p, "return")) <=> Exits(handlers[p])
    BY <1>1, AdvancedIs DEF Advanced, Shape
  <1>8. \A q \in Pids : handlers'[q] = IF q = child THEN Advanced(p, "return")
                                       ELSE IF q = p THEN Advanced(p, "exit") ELSE handlers[q]
    BY <1>2, <1>4 DEF Shape
  <1>9. Shape'
    <2>1. handlers' \in [Pids -> Seq(Calls)]
      BY <1>2, <1>4, <1>7 DEF Shape
    <2>2. /\ pids' \in Pids /\ alive' \in SUBSET (1 .. pids')
          /\ \A n \in Numbers : copies'[n] < pids'
      <3>1. pids' \in Pids /\ alive' \in SUBSET (1 .. pids')
        BY <1>1, <1>2 DEF Shape
      <3>2. \A n \in Numbers : copies[n] \in Nat /\ copies[n] < pids
        BY DEF Shape
      <3>3. \A n \in Numbers : copies'[n] < pids'
        BY <1>1, <1>2, <1>5, <3>2
      <3>4. QED
        BY <3>1, <3>3
    <2>3. /\ pc' \in [Pids -> Places] /\ counter' \in [Pids -> 0 .. MAX_COUNT]
          /\ f' \in [Pids -> 0 .. MAX_COUNT]
      BY <1>2, <1>3 DEF Shape
    <2>4. QED
      BY <1>1, <1>6, <2>1, <2>2, <2>3 DEF Shape
  <1>10. Nested'
    <2>1. \A q \in Pids : Apart(handlers[q])
      BY DEF Nested, Apart
    <2>2. \A q \in Pids : Apart(handlers'[q])
      BY <1>7, <1>8, <2>1
    <2>3. QED
      BY <2>2 DEF Nested, Apart
  <1>11. One'
    <2>1. \A q \in Pids : GoesOn(q)' <=> (q = child /\ GoesOn(p)) \/ (q # p /\ q # child /\ GoesOn(q))
      <3>1. \A q \in Pids : (GoesOn(q) <=> q \in alive /\ ~Exits(handlers[q]))
        BY DEF GoesOn, Exits
      <3>2. \A q \in Pids : (GoesOn(q)' <=> q \in alive' /\ ~Exits(handlers'[q]))
        BY DEF GoesOn, Exits
      <3>3. QED
        BY <1>1, <1>2, <1>7, <1>8, <3>1, <3>2
    <2>2. ~GoesOn(child)
      BY <1>2 DEF GoesOn
    <2>3. CASE lost
      BY <1>1, <2>1, <2>3 DEF One
    <2>4. CASE ~lost
      <3>1. PICK r \in Pids : GoesOn(r) /\ \A q \in Pids : GoesOn(q) => q = r
        BY <2>4 DEF One
      <3>2. CASE r = p
        BY <1>1, <1>2, <2>1, <2>4, <3>1, <3>2 DEF One
      <3>3. CASE r # p
        BY <1>1, <1>2, <2>1, <2>2, <2>4, <3>1, <3>3 DEF One
      <3>4. QED
        BY <3>2, <3>3
    <2>5. QED
      BY <2>3, <2>4 DEF Shape
  <1>12. Buffered'
    <2>1. alive \subseteq Pids
      BY DEF Shape, Pids
    <2>2. /\ pc'[child] = pc[p] /\ counter'[child] = counter[p] /\ f'[child] = f[p]
          /\ \A q \in alive : UNCHANGED <<pc[q], counter[q], f[q]>>
      BY <1>2, <1>3, <2>1 DEF Shape
    <2>3. QED
      BY <1>1, <2>2 DEF Buffered
  <1>13. QED
    BY <1>9, <1>10, <1>11, <1>12

(* A step that moves on in a call of one process, and nothing else.        *)
LEMMA CallCore ==
  ASSUME Core, NEW p \in Pids, NEW h \in Seq(Calls),
         Apart(handlers[p]) => Apart(h), handlers' = [handlers EXCEPT ![p] = h],
         pending' \in [Pids -> SUBSET Signals], signals' \in 0 .. MAX_SIGNALS,
         UNCHANGED <<mainVars, f, log, pids, alive, copies>>, lost' \in BOOLEAN,
         IF lost' = lost THEN Exits(h) <=> Exits(handlers[p])
                         ELSE lost' /\ GoesOn(p) /\ Exits(h)
  PROVE  Core'
  <1> USE RecoveryAssumption DEF Core, mainVars
  <1>1. Shape'
    BY DEF Shape
  <1>2. \A q \in Pids : handlers'[q] = IF q = p THEN h ELSE handlers[q]
    BY DEF Shape
  <1>3. Nested'
    <2>1. \A q \in Pids : Apart(handlers[q])
      BY DEF Nested, Apart
    <2>2. \A q \in Pids : Apart(handlers'[q])
      BY <1>2, <2>1
    <2>3. QED
      BY <2>2 DEF Nested, Apart
  <1>4. One'
    <2>1. \A q \in Pids : (GoesOn(q) <=> q \in alive /\ ~Exits(handlers[q]))
      BY DEF GoesOn, Exits
    <2>2. \A q \in Pids : (GoesOn(q)' <=> q \in alive /\ ~Exits(handlers'[q]))
      BY DEF GoesOn, Exits
    <2>3. CASE lost' = lost
      <3>1. \A q \in Pids : GoesOn(q)' <=> GoesOn(q)
        BY <1>2, <2>1, <2>2, <2>3
      <3>2. QED
        BY <2>3, <3>1 DEF One
    <2>4. CASE lost' # lost
      <3>1. lost' /\ ~lost /\ GoesOn(p) /\ Exits(h)
        BY <2>4 DEF Shape
      <3>2. \A q \in Pids : ~GoesOn(q)'
        BY <1>2, <2>1, <2>2, <3>1 DEF One
      <3>3. QED
        BY <3>1, <3>2 DEF One
    <2>5. QED
      BY <2>3, <2>4
  <1>5. Buffered'
    BY DEF Buffered
  <1>6. QED
    BY <1>1, <1>3, <1>4, <1>5

LEMMA ForkFailsCore ==
  ASSUME Core, NEW p \in Pids, ForkFails(p)
  PROVE  Core'
  <1>1. /\ p \in alive /\ handlers[p] # <<>> /\ handlers[p] \in Seq(Calls)
        /\ handlers' = [handlers EXCEPT ![p] = Advanced(p, "exit")]
        /\ lost' = (lost \/ GoesOn(p))
    BY DEF ForkFails, In, Core, Shape
  <1>2. /\ Advanced(p, "exit") \in Seq(Calls) /\ Exits(Advanced(p, "exit"))
        /\ Apart(handlers[p]) => Apart(Advanced(p, "exit"))
    BY <1>1, AdvancedIs DEF Advanced
  <1>3. GoesOn(p) <=> ~Exits(handlers[p])
    BY <1>1 DEF GoesOn, Exits
  <1>4. lost => ~GoesOn(p)
    BY DEF Core, One
  <1>5. lost \in BOOLEAN /\ lost' \in BOOLEAN
    BY <1>1 DEF Core, Shape, GoesOn
  <1>6. IF lost' = lost THEN Exits(Advanced(p, "exit")) <=> Exits(handlers[p])
                        ELSE lost' /\ GoesOn(p) /\ Exits(Advanced(p, "exit"))
    BY <1>1, <1>2, <1>3, <1>4, <1>5
  <1>7. /\ UNCHANGED <<mainVars, f, log, pids, alive, copies>>
        /\ pending' \in [Pids -> SUBSET Signals] /\ signals' \in 0 .. MAX_SIGNALS
    BY DEF ForkFails, signalVars, Core, Shape
  <1>8. QED
    BY <1>1, <1>2, <1>5, <1>6, <1>7, CallCore

LEMMA ReturnCore ==
  ASSUME Core, NEW p \in Pids, Return(p)
  PROVE  Core'
  <1>1. /\ handlers[p] # <<>> /\ handlers[p] \in Seq(Calls) /\ Last(handlers[p]).at = "return"
        /\ handlers' = [handlers EXCEPT ![p] = Front(handlers[p])]
    BY DEF Return, Returns, In, Core, Shape
  <1>2. /\ Front(handlers[p]) \in Seq(Calls)
        /\ Apart(handlers[p]) => Apart(Front(handlers[p]))
        /\ Exits(Front(handlers[p])) <=> Exits(handlers[p])
    BY <1>1, ReturnIs
  <1>3. /\ UNCHANGED <<mainVars, f, log, pids, alive, copies>> /\ lost' = lost /\ lost' \in BOOLEAN
        /\ pending' \in [Pids -> SUBSET Signals] /\ signals' \in 0 .. MAX_SIGNALS
    BY DEF Return, signalVars, Core, Shape
  <1>4. QED
    BY <1>1, <1>2, <1>3, CallCore

LEMMA DeliverCore ==
  ASSUME Core, NEW p \in alive, NEW sig \in Signals, Deliver(p, sig)
  PROVE  Core' /\ p \in Pids
  <1>1. p \in Pids
    BY RecoveryAssumption DEF Core, Shape, Pids
  <1> DEFINE h == Append(handlers[p], [sig |-> sig, at |-> "fork"])
  <1>2. /\ handlers[p] \in Seq(Calls) /\ sig \notin {handlers[p][k].sig : k \in DOMAIN handlers[p]}
        /\ handlers' = [handlers EXCEPT ![p] = h]
    BY <1>1 DEF Deliver, Blocked, Core, Shape
  <1>3. h \in Seq(Calls) /\ (Apart(handlers[p]) => Apart(h)) /\ (Exits(h) <=> Exits(handlers[p]))
    BY <1>2, CallIs
  <1> HIDE DEF h
  <1>4. /\ UNCHANGED <<mainVars, f, log, pids, alive, copies>> /\ lost' = lost /\ lost' \in BOOLEAN
        /\ pending' \in [Pids -> SUBSET Signals] /\ signals' \in 0 .. MAX_SIGNALS
    BY <1>1 DEF Deliver, Core, Shape
  <1>5. QED
    BY <1>1, <1>2, <1>3, <1>4, CallCore

LEMMA ExitCore ==
  ASSUME Core, NEW p \in Pids, Exit(p)
  PROVE  Core' /\ ~GoesOn(p)
  <1> USE RecoveryAssumption DEF Core, mainVars, signalVars
  <1>1. /\ p \in alive /\ handlers[p] # <<>> /\ handlers[p] \in Seq(Calls)
        /\ Last(handlers[p]).at = "exit"
        /\ Flush(p) /\ alive' = alive \ {p}
        /\ UNCHANGED <<mainVars, pids, handlers, copies, lost, pending, signals>>
    BY DEF Exit, In, Shape
  <1>2. ~GoesOn(p)
    <2>1. Len(handlers[p]) \in DOMAIN handlers[p]
      BY <1>1
    <2>2. QED
      BY <1>1, <2>1 DEF GoesOn, Last
  <1>3. Shape'
    <2>1. f[p] = 0 \/ f[p] \in Numbers
      BY DEF Shape, Numbers
    <2>2. log' \in Seq(Numbers) /\ f' \in [Pids -> 0 .. MAX_COUNT]
      BY <1>1, <2>1 DEF Flush, Shape
    <2>3. QED
      BY <1>1, <2>2 DEF Shape
  <1>4. Nested' /\ Buffered'
    <2>1. \A q \in alive' : q \in alive /\ UNCHANGED <<pc[q], counter[q], f[q]>>
      BY <1>1 DEF Flush, Shape
    <2>2. Buffered'
      BY <2>1 DEF Buffered
    <2>3. Nested'
      BY <1>1 DEF Nested
    <2>4. QED
      BY <2>2, <2>3
  <1>5. One'
    <2>1. \A q \in Pids : GoesOn(q)' <=> GoesOn(q)
      BY <1>1, <1>2 DEF GoesOn
    <2>2. QED
      BY <1>1, <2>1 DEF One
  <1>6. QED
    BY <1>2, <1>3, <1>4, <1>5

LEMMA SendCore ==
  ASSUME Core, NEW to, NEW sig \in Signals, Send(to, sig)
  PROVE  Core'
  <1> USE RecoveryAssumption DEF Core, mainVars, procVars, Send
  <1>1. Shape'
    BY DEF Shape
  <1>2. Nested' /\ One' /\ Buffered'
    BY DEF Nested, One, Buffered, GoesOn
  <1>3. QED
    BY <1>1, <1>2
------------------------------------------------------------------------------
(* The lines of the log.                                                   *)

LEMMA CopiesFinite ==
  ASSUME Shape, NEW n
  PROVE  /\ IsFiniteSet(LogOf(n)) /\ Cardinality(LogOf(n)) \in Nat
         /\ IsFiniteSet(HeldOf(n)) /\ Cardinality(HeldOf(n)) \in Nat
  <1>1. Len(log) \in Int /\ pids \in Int
    BY RecoveryAssumption DEF Shape, Pids
  <1>2. IsFiniteSet(1 .. Len(log)) /\ IsFiniteSet(1 .. pids)
    BY <1>1, FS_Interval
  <1>3. LogOf(n) \in SUBSET (1 .. Len(log)) /\ HeldOf(n) \in SUBSET (1 .. pids)
    BY DEF Shape, LogOf, HeldOf
  <1>4. IsFiniteSet(LogOf(n)) /\ IsFiniteSet(HeldOf(n))
    BY <1>2, <1>3, FS_Subset
  <1>5. QED
    BY <1>4, FS_CardinalityType

(* A line written out was in the buffer.                                   *)
LEMMA FlushMoves ==
  ASSUME Core, NEW p \in alive, Flush(p), alive' = alive \/ alive' = alive \ {p},
         NEW n \in Numbers
  PROVE  /\ Written(n)' = Written(n)
         /\ LogOf(n) \subseteq LogOf(n)'
         /\ f[p] = n => LogOf(n)' # {}
  <1>1. /\ p \in Pids /\ f \in [Pids -> 0 .. MAX_COUNT] /\ n # 0 /\ alive \subseteq Pids
        /\ log \in Seq(Numbers) /\ Len(log) \in Nat
    BY RecoveryAssumption DEF Core, Shape, Pids, Numbers
  <1>2. /\ IsFiniteSet(LogOf(n)) /\ Cardinality(LogOf(n)) \in Nat
        /\ IsFiniteSet(HeldOf(n)) /\ Cardinality(HeldOf(n)) \in Nat
    BY CopiesFinite DEF Core
  <1>3. \A q \in Pids : f'[q] = IF q = p THEN 0 ELSE f[q]
    BY <1>1 DEF Flush
  <1>4. HeldOf(n)' = HeldOf(n) \ {p} /\ (p \in HeldOf(n) <=> f[p] = n)
    BY <1>1, <1>3 DEF HeldOf
  <1>5. CASE f[p] = n
    <2>1. log' = Append(log, n)
      BY <1>1, <1>5 DEF Flush
    <2>2. /\ Len(log') = Len(log) + 1 /\ log'[Len(log) + 1] = n
          /\ \A j \in 1 .. Len(log) : log'[j] = log[j]
      BY <1>1, <2>1
    <2>3. LogOf(n)' = LogOf(n) \cup {Len(log) + 1}
      BY <1>1, <2>2 DEF LogOf
    <2>4. Len(log) + 1 \notin LogOf(n)
      BY <1>1 DEF LogOf
    <2>5. Cardinality(LogOf(n)') = Cardinality(LogOf(n)) + 1
      BY <1>2, <2>3, <2>4, FS_AddElement
    <2>6. Cardinality(HeldOf(n)') = Cardinality(HeldOf(n)) - 1
      BY <1>2, <1>4, <1>5, FS_RemoveElement
    <2>7. QED
      BY <1>2, <2>3, <2>5, <2>6 DEF Written
  <1>6. CASE f[p] # n
    <2>1. HeldOf(n)' = HeldOf(n)
      BY <1>4, <1>6
    <2>2. LogOf(n)' = LogOf(n)
      <3>1. CASE f[p] = 0
        BY <3>1 DEF Flush, LogOf
      <3>2. CASE f[p] # 0
        <4>1. log' = Append(log, f[p]) /\ f[p] \in Numbers
          BY <1>1, <3>2 DEF Flush, Numbers
        <4>2. /\ Len(log') = Len(log) + 1 /\ log'[Len(log) + 1] # n
              /\ \A j \in 1 .. Len(log) : log'[j] = log[j]
          BY <1>1, <1>6, <4>1
        <4>3. QED
          BY <1>1, <4>2 DEF LogOf
      <3>3. QED
        BY <3>1, <3>2
    <2>3. QED
      BY <1>6, <2>1, <2>2 DEF Written
  <1>7. QED
    BY <1>5, <1>6

(* A step that writes no number into a buffer.                             *)
LEMMA CountedSteady ==
  ASSUME Inv, copies' = copies, unlogged \subseteq unlogged',
         \A n \in Numbers : Written(n)' = Written(n) /\ LogOf(n) \subseteq LogOf(n)',
         \A q \in Pids : GoesOn(q)' => GoesOn(q),
         \A q \in Pids, n \in Numbers :
           GoesOn(q)' => /\ Ahead(q, n)' => Ahead(q, n)
                         /\ Past(q, n)' => Past(q, n) \/ n \in unlogged' \/ LogOf(n)' # {}
  PROVE  Counted'
  <1> SUFFICES ASSUME NEW n \in Numbers
               PROVE  /\ Written(n)' = 1 + copies'[n] \/ (Written(n)' = 0 /\ copies'[n] = 0)
                      /\ \A q \in Pids : GoesOn(q)' /\ Ahead(q, n)' => Written(n)' = 0
                      /\ \A q \in Pids : GoesOn(q)' /\ Past(q, n)' /\ n \notin unlogged'
                                           => LogOf(n)' # {}
    BY DEF Counted
  <1>1. /\ Written(n) = 1 + copies[n] \/ (Written(n) = 0 /\ copies[n] = 0)
        /\ \A q \in Pids : GoesOn(q) /\ Ahead(q, n) => Written(n) = 0
        /\ \A q \in Pids : GoesOn(q) /\ Past(q, n) /\ n \notin unlogged => LogOf(n) # {}
    BY DEF Inv, Counted
  <1>2. Written(n)' = Written(n) /\ LogOf(n) \subseteq LogOf(n)'
    OBVIOUS
  <1>3. QED
    BY <1>1, <1>2

(* A step that only enters, moves on or leaves a call.                     *)
LEMMA CountedQuiet ==
  ASSUME Inv, UNCHANGED <<pc, counter, unlogged, f, log, copies, alive>>,
         \A q \in Pids : GoesOn(q)' => GoesOn(q)
  PROVE  Counted'
  <1>1. \A n \in Numbers : Written(n)' = Written(n) /\ LogOf(n)' = LogOf(n)
    BY DEF Written, LogOf, HeldOf
  <1>2. \A q \in Pids, n \in Numbers : /\ Ahead(q, n)' => Ahead(q, n)
                                       /\ Past(q, n)' => Past(q, n)
    BY DEF Ahead, Past
  <1>3. QED
    BY <1>1, <1>2, CountedSteady

LEMMA AtGoesOn ==
  ASSUME Core, NEW p \in Pids, NEW l, At(p, l)
  PROVE  GoesOn(p) /\ \A q \in Pids : GoesOn(q) => q = p
  <1>1. GoesOn(p)
    BY DEF At, GoesOn
  <1>2. QED
    BY <1>1 DEF Core, One, Shape

LEMMA LoopCounted ==
  ASSUME Inv, NEW p \in Pids, Count(p) \/ Open(p) \/ Close(p)
  PROVE  Counted'
  <1> USE RecoveryAssumption DEF procVars, signalVars, Go
  <1>1. /\ GoesOn(p) /\ p \in alive /\ \A q \in Pids : GoesOn(q) => q = p
    BY AtGoesOn DEF Count, Open, Close, Inv, At
  <1>2. UNCHANGED <<handlers, alive, copies>> /\ \A q \in Pids : GoesOn(q)' => GoesOn(q)
    BY DEF Count, Open, Close, GoesOn
  <1>3. /\ counter[p] \in 0 .. MAX_COUNT /\ counter \in [Pids -> 0 .. MAX_COUNT]
        /\ pc \in [Pids -> Places]
    BY DEF Inv, Core, Shape
  <1>4. CASE Count(p) \/ Open(p)
    <2>1. \A n \in Numbers : Written(n)' = Written(n) /\ LogOf(n)' = LogOf(n)
      BY <1>2, <1>4 DEF Count, Open, Written, LogOf, HeldOf
    <2>2. unlogged \subseteq unlogged'
      BY <1>4 DEF Count, Open
    <2>3. ASSUME NEW n \in Numbers
          PROVE  /\ Ahead(p, n)' => Ahead(p, n)
                 /\ Past(p, n)' => Past(p, n) \/ n \in unlogged'
      <3>1. CASE Count(p)
        BY <1>3, <3>1 DEF Count, At, Ahead, Past, Numbers
      <3>2. CASE Open(p)
        BY <1>3, <3>2 DEF Open, At, Ahead, Past, Numbers
      <3>3. QED
        BY <1>4, <3>1, <3>2
    <2>4. QED
      BY <1>1, <1>2, <2>1, <2>2, <2>3, CountedSteady
  <1>5. CASE Close(p)
    <2>1. Flush(p) /\ f[p] = counter[p] /\ unlogged' = unlogged /\ counter' = counter
      BY <1>1, <1>5 DEF Close, At, Inv, Core, Buffered
    <2>2. \A n \in Numbers : /\ Written(n)' = Written(n) /\ LogOf(n) \subseteq LogOf(n)'
                             /\ counter[p] = n => LogOf(n)' # {}
      BY <1>1, <1>2, <2>1, FlushMoves DEF Inv
    <2>3. ASSUME NEW n \in Numbers
          PROVE  /\ Ahead(p, n)' => Ahead(p, n)
                 /\ Past(p, n)' => Past(p, n) \/ counter[p] = n
      BY <1>3, <1>5, <2>1 DEF Close, At, Ahead, Past, Numbers
    <2>4. QED
      BY <1>1, <1>2, <2>1, <2>2, <2>3, CountedSteady
  <1>6. QED
    BY <1>4, <1>5

LEMMA WriteCounted ==
  ASSUME Inv, NEW p \in Pids, Write(p)
  PROVE  Counted'
  <1> USE RecoveryAssumption DEF procVars, signalVars, Go
  <1>1. /\ GoesOn(p) /\ p \in alive /\ \A q \in Pids : GoesOn(q) => q = p
    BY AtGoesOn DEF Write, Inv, At
  <1>2. /\ UNCHANGED <<handlers, alive, copies, counter, unlogged, log>>
        /\ \A q \in Pids : GoesOn(q)' => GoesOn(q)
    BY DEF Write, GoesOn
  <1>3. /\ counter[p] \in Numbers /\ pc[p] = "fprintf" /\ pc'[p] = "fclose"
        /\ f[p] = 0 /\ \A q \in alive : f'[q] = IF q = p THEN counter[p] ELSE f[q]
    <2>1. pc[p] = "fprintf" /\ pc' = [pc EXCEPT ![p] = "fclose"] /\ f' = [f EXCEPT ![p] = counter[p]]
      BY DEF Write, At
    <2>2. /\ counter[p] \in 0 .. MAX_COUNT /\ alive \subseteq Pids
          /\ pc \in [Pids -> Places] /\ f \in [Pids -> 0 .. MAX_COUNT]
      BY DEF Inv, Core, Shape, Pids
    <2>3. f[p] = 0 /\ counter[p] > 0
      BY <1>1, <2>1 DEF Inv, Core, Buffered
    <2>4. QED
      BY <2>1, <2>2, <2>3 DEF Numbers
  <1>4. \A n \in Numbers : /\ LogOf(n)' = LogOf(n)
                           /\ HeldOf(n)' = IF n = counter[p] THEN HeldOf(n) \cup {p} ELSE HeldOf(n)
                           /\ p \notin HeldOf(n)
    BY <1>1, <1>2, <1>3 DEF LogOf, HeldOf, Numbers
  <1>5. \A n \in Numbers : n # counter[p] => Written(n)' = Written(n)
    BY <1>4 DEF Written
  <1>6. Written(counter[p]) = 0 /\ copies[counter[p]] = 0
    <2>1. Ahead(p, counter[p])
      BY <1>3 DEF Ahead
    <2>2. Written(counter[p]) = 0 /\ copies[counter[p]] \in Nat
      BY <1>1, <1>3, <2>1 DEF Inv, Counted, Core, Shape
    <2>3. QED
      BY <1>3, <2>2 DEF Inv, Counted
  <1>7. Written(counter[p])' = 1
    <2> DEFINE n == counter[p]
    <2>1. /\ IsFiniteSet(LogOf(n)) /\ Cardinality(LogOf(n)) \in Nat
          /\ IsFiniteSet(HeldOf(n)) /\ Cardinality(HeldOf(n)) \in Nat
      BY CopiesFinite DEF Inv, Core
    <2>2. Cardinality(HeldOf(n) \cup {p}) = Cardinality(HeldOf(n)) + 1
      BY <1>3, <1>4, <2>1, FS_AddElement
    <2>3. Cardinality(LogOf(n)) + Cardinality(HeldOf(n)) = 0
      BY <1>6 DEF Written
    <2>4. Written(n)' = Cardinality(LogOf(n)) + Cardinality(HeldOf(n) \cup {p})
      BY <1>2, <1>3, <1>4 DEF Written, LogOf, HeldOf
    <2>5. QED
      BY <1>2, <2>1, <2>2, <2>3, <2>4
  <1>8. ASSUME NEW n \in Numbers
        PROVE  (Ahead(p, n)' => Ahead(p, n) /\ n # counter[p]) /\ (Past(p, n)' => Past(p, n))
    BY <1>2, <1>3 DEF Ahead, Past, Numbers
  <1>9. QED
    <2> SUFFICES ASSUME NEW n \in Numbers
                 PROVE  /\ Written(n)' = 1 + copies'[n] \/ (Written(n)' = 0 /\ copies'[n] = 0)
                        /\ \A q \in Pids : GoesOn(q)' /\ Ahead(q, n)' => Written(n)' = 0
                        /\ \A q \in Pids : GoesOn(q)' /\ Past(q, n)' /\ n \notin unlogged'
                                             => LogOf(n)' # {}
      BY DEF Counted
    <2>1. /\ Written(n) = 1 + copies[n] \/ (Written(n) = 0 /\ copies[n] = 0)
          /\ Ahead(p, n) => Written(n) = 0
          /\ Past(p, n) /\ n \notin unlogged => LogOf(n) # {}
      BY <1>1 DEF Inv, Counted
    <2>2. CASE n = counter[p]
      BY <1>1, <1>2, <1>4, <1>6, <1>7, <1>8, <2>1, <2>2
    <2>3. CASE n # counter[p]
      BY <1>1, <1>2, <1>4, <1>5, <1>8, <2>1, <2>3
    <2>4. QED
      BY <2>2, <2>3

LEMMA ForkCounted ==
  ASSUME Inv, NEW p \in Pids, Fork(p)
  PROVE  Counted'
  <1> USE RecoveryAssumption DEF mainVars, signalVars
  <1> DEFINE child == pids + 1
  <1>1. /\ p \in alive /\ handlers[p] # <<>> /\ Last(handlers[p]).at = "fork"
        /\ alive' = alive \cup {child} /\ pids <= MAX_FORKS
        /\ UNCHANGED <<unlogged, log>>
    BY DEF Fork, In
  <1>2. pids \in Nat /\ child \in Pids /\ child # p /\ child \notin alive /\ alive \subseteq Pids
    BY <1>1 DEF Inv, Core, Shape, Pids
  <1>3. /\ pc' = [pc EXCEPT ![child] = pc[p]] /\ counter' = [counter EXCEPT ![child] = counter[p]]
        /\ f' = [f EXCEPT ![child] = f[p]]
        /\ handlers' = [handlers EXCEPT ![p] = Advanced(p, "exit"), ![child] = Advanced(p, "return")]
    BY DEF Fork, Resumes
  <1>4. /\ pc'[child] = pc[p] /\ counter'[child] = counter[p] /\ f'[child] = f[p]
        /\ \A q \in Pids : q # child => UNCHANGED <<pc[q], counter[q], f[q]>>
    BY <1>2, <1>3 DEF Inv, Core, Shape
  <1>5. \A q \in Pids : GoesOn(q)' => (q = child /\ GoesOn(p)) \/ (q # child /\ GoesOn(q))
    <2>1. /\ Advanced(p, "exit") \in Seq(Calls) /\ Exits(Advanced(p, "exit"))
          /\ Exits(Advanced(p, "return")) <=> Exits(handlers[p])
      BY <1>1, AdvancedIs DEF Advanced, Inv, Core, Shape
    <2>2. \A q \in Pids : handlers'[q] = IF q = child THEN Advanced(p, "return")
                                         ELSE IF q = p THEN Advanced(p, "exit") ELSE handlers[q]
      BY <1>2, <1>3 DEF Inv, Core, Shape
    <2>3. \A q \in Pids : (GoesOn(q) <=> q \in alive /\ ~Exits(handlers[q]))
      BY DEF GoesOn, Exits
    <2>4. \A q \in Pids : (GoesOn(q)' <=> q \in alive' /\ ~Exits(handlers'[q]))
      BY DEF GoesOn, Exits
    <2>5. QED
      BY <1>1, <1>2, <2>1, <2>2, <2>3, <2>4
  <1>6. ASSUME NEW n \in Numbers
        PROVE  /\ LogOf(n)' = LogOf(n)
               /\ HeldOf(n)' = IF f[p] = n THEN HeldOf(n) \cup {child} ELSE HeldOf(n)
               /\ child \notin HeldOf(n) /\ (f[p] = n => p \in HeldOf(n))
               /\ copies'[n] = IF f[p] = n THEN copies[n] + 1 ELSE copies[n]
    <2>1. LogOf(n)' = LogOf(n)
      BY <1>1 DEF LogOf
    <2>2. /\ HeldOf(n)' = IF f[p] = n THEN HeldOf(n) \cup {child} ELSE HeldOf(n)
          /\ child \notin HeldOf(n) /\ (f[p] = n => p \in HeldOf(n))
      BY <1>1, <1>2, <1>4 DEF HeldOf
    <2>3. copies'[n] = IF f[p] = n THEN copies[n] + 1 ELSE copies[n]
      BY DEF Fork
    <2>4. QED
      BY <2>1, <2>2, <2>3
  <1>7. ASSUME NEW n \in Numbers
        PROVE  /\ Written(n) \in Nat
               /\ Written(n)' = IF f[p] = n THEN Written(n) + 1 ELSE Written(n)
               /\ f[p] = n => Written(n) > 0
    <2>1. /\ IsFiniteSet(LogOf(n)) /\ Cardinality(LogOf(n)) \in Nat
          /\ IsFiniteSet(HeldOf(n)) /\ Cardinality(HeldOf(n)) \in Nat
      BY CopiesFinite DEF Inv, Core
    <2>2. Cardinality(HeldOf(n)') = IF f[p] = n THEN Cardinality(HeldOf(n)) + 1
                                                ELSE Cardinality(HeldOf(n))
      BY <1>6, <2>1, FS_AddElement
    <2>3. f[p] = n => Cardinality(HeldOf(n)) # 0
      BY <1>6, <2>1, FS_EmptySet
    <2>4. QED
      BY <1>6, <2>1, <2>2, <2>3 DEF Written
  <1>8. \A q \in Pids, n \in Numbers :
          /\ Ahead(q, n)' => IF q = child THEN Ahead(p, n) ELSE Ahead(q, n)
          /\ Past(q, n)' => IF q = child THEN Past(p, n) ELSE Past(q, n)
    BY <1>4 DEF Ahead, Past
  <1>9. QED
    <2> SUFFICES ASSUME NEW n \in Numbers
                 PROVE  /\ Written(n)' = 1 + copies'[n] \/ (Written(n)' = 0 /\ copies'[n] = 0)
                        /\ \A q \in Pids : GoesOn(q)' /\ Ahead(q, n)' => Written(n)' = 0
                        /\ \A q \in Pids : GoesOn(q)' /\ Past(q, n)' /\ n \notin unlogged'
                                             => LogOf(n)' # {}
      BY DEF Counted
    <2>1. /\ Written(n) = 1 + copies[n] \/ (Written(n) = 0 /\ copies[n] = 0)
          /\ \A q \in Pids : GoesOn(q) /\ Ahead(q, n) => Written(n) = 0
          /\ \A q \in Pids : GoesOn(q) /\ Past(q, n) /\ n \notin unlogged => LogOf(n) # {}
      BY DEF Inv, Counted
    <2>2. copies[n] \in Nat
      BY DEF Inv, Core, Shape
    <2>3. Written(n)' = 1 + copies'[n] \/ (Written(n)' = 0 /\ copies'[n] = 0)
      BY <1>6, <1>7, <2>1, <2>2
    <2>4. ASSUME NEW q \in Pids, GoesOn(q)', Ahead(q, n)'
          PROVE  Written(n)' = 0
      <3>1. Written(n) = 0
        BY <1>5, <1>8, <2>1, <2>4
      <3>2. QED
        BY <1>7, <3>1
    <2>5. ASSUME NEW q \in Pids, GoesOn(q)', Past(q, n)', n \notin unlogged'
          PROVE  LogOf(n)' # {}
      BY <1>1, <1>5, <1>6, <1>8, <2>1, <2>5
    <2>6. QED
      BY <2>3, <2>4, <2>5

LEMMA ExitCounted ==
  ASSUME Inv, NEW p \in Pids, Exit(p)
  PROVE  Counted'
  <1>1. /\ p \in alive /\ Flush(p) /\ alive' = alive \ {p}
        /\ UNCHANGED <<pc, counter, unlogged, handlers, copies>>
    BY DEF Exit, In, mainVars
  <1>2. \A n \in Numbers : Written(n)' = Written(n) /\ LogOf(n) \subseteq LogOf(n)'
    BY <1>1, FlushMoves DEF Inv
  <1>3. \A q \in Pids : GoesOn(q)' => GoesOn(q)
    BY <1>1 DEF GoesOn
  <1>4. \A q \in Pids, n \in Numbers : /\ Ahead(q, n)' => Ahead(q, n)
                                       /\ Past(q, n)' => Past(q, n)
    BY <1>1 DEF Ahead, Past
  <1>5. QED
    BY <1>1, <1>2, <1>3, <1>4, CountedSteady
------------------------------------------------------------------------------
LEMMA InvInit == Init => Inv
  <1> SUFFICES ASSUME Init PROVE Inv
    OBVIOUS
  <1> USE RecoveryAssumption DEF Init
  <1>1. pids \in Pids /\ 1 \in Pids /\ alive \subseteq 1 .. pids
    BY DEF Pids
  <1>2. Shape
    <2>1. /\ pc \in [Pids -> Places] /\ counter \in [Pids -> 0 .. MAX_COUNT]
          /\ f \in [Pids -> 0 .. MAX_COUNT] /\ handlers \in [Pids -> Seq(Calls)]
          /\ pending \in [Pids -> SUBSET Signals] /\ signals \in 0 .. MAX_SIGNALS
      BY DEF Places
    <2>2. copies \in [Numbers -> Nat] /\ \A n \in Numbers : copies[n] < pids
      OBVIOUS
    <2>3. log \in Seq(Numbers) /\ unlogged \in SUBSET Numbers
      OBVIOUS
    <2>4. lost \in BOOLEAN
      BY Zenon
    <2>5. alive \in SUBSET (1 .. pids)
      OBVIOUS
    <2>6. QED
      BY <1>1, <2>1, <2>2, <2>3, <2>4, <2>5 DEF Shape
  <1>3. Nested /\ Buffered
    BY <1>1 DEF Nested, Buffered
  <1>4. One
    BY <1>1 DEF One, GoesOn
  <1>5. Counted
    <2> SUFFICES ASSUME NEW n \in Numbers
                 PROVE  /\ Written(n) = 0 /\ copies[n] = 0
                        /\ \A p \in Pids : GoesOn(p) /\ Past(p, n) => LogOf(n) # {}
      BY DEF Counted
    <2>1. LogOf(n) = {} /\ HeldOf(n) = {}
      BY <1>1 DEF LogOf, HeldOf, Numbers
    <2>2. Written(n) = 0 /\ copies[n] = 0
      BY <2>1, FS_EmptySet DEF Written
    <2>3. \A p \in Pids : ~Past(p, n)
      BY DEF Past, Numbers
    <2>4. QED
      BY <2>2, <2>3
  <1>6. QED
    BY <1>2, <1>3, <1>4, <1>5 DEF Inv, Core

(* The inductive invariant: one successor, what it is past is in the log,  *)
(* and what it has not written is nowhere.                                 *)
THEOREM InvHolds == Spec => []Inv
  <1>1. Inv /\ [Next]_vars => Inv'
    <2> SUFFICES ASSUME Inv, [Next]_vars PROVE Inv'
      OBVIOUS
    <2>1. ASSUME NEW p \in Pids, Process(p)
          PROVE  Inv'
      <3>1. CASE Count(p) \/ Open(p) \/ Close(p)
        BY <3>1, LoopCore, LoopCounted DEF Inv
      <3>2. CASE Write(p)
        BY <3>2, LoopCore, WriteCounted DEF Inv
      <3>3. CASE Fork(p)
        BY <3>3, ForkCore, ForkCounted DEF Inv
      <3>4. CASE ForkFails(p)
        <4>1. Core'
          BY <3>4, ForkFailsCore DEF Inv
        <4>2. /\ p \in alive /\ handlers[p] # <<>> /\ handlers[p] \in Seq(Calls)
              /\ handlers' = [handlers EXCEPT ![p] = Advanced(p, "exit")]
              /\ handlers \in [Pids -> Seq(Calls)]
              /\ UNCHANGED <<pc, counter, unlogged, f, log, copies, alive>>
          BY <3>4 DEF ForkFails, In, mainVars, Inv, Core, Shape
        <4>3. Exits(Advanced(p, "exit"))
          BY <4>2, AdvancedIs DEF Advanced
        <4>4. \A q \in Pids : GoesOn(q)' => GoesOn(q)
          BY <4>2, <4>3 DEF GoesOn, Exits
        <4>5. QED
          BY <4>1, <4>2, <4>4, CountedQuiet DEF Inv
      <3>5. CASE Exit(p)
        BY <3>5, ExitCore, ExitCounted DEF Inv
      <3>6. CASE Return(p)
        <4>1. Core'
          BY <3>6, ReturnCore DEF Inv
        <4>2. /\ handlers[p] # <<>> /\ handlers[p] \in Seq(Calls) /\ Last(handlers[p]).at = "return"
              /\ handlers' = [handlers EXCEPT ![p] = Front(handlers[p])]
              /\ handlers \in [Pids -> Seq(Calls)]
              /\ UNCHANGED <<pc, counter, unlogged, f, log, copies, alive>>
          BY <3>6 DEF Return, Returns, In, mainVars, Inv, Core, Shape
        <4>3. Exits(Front(handlers[p])) <=> Exits(handlers[p])
          BY <4>2, ReturnIs
        <4>4. \A q \in Pids : GoesOn(q)' => GoesOn(q)
          BY <4>2, <4>3 DEF GoesOn, Exits
        <4>5. QED
          BY <4>1, <4>2, <4>4, CountedQuiet DEF Inv
      <3>7. QED
        BY <2>1, <3>1, <3>2, <3>3, <3>4, <3>5, <3>6 DEF Process
    <2>2. ASSUME NEW to, NEW sig \in Signals, Send(to, sig)
          PROVE  Inv'
      <3>1. UNCHANGED <<pc, counter, unlogged, f, log, copies, alive, handlers>>
        BY <2>2 DEF Send, mainVars, procVars
      <3>2. \A q \in Pids : GoesOn(q)' => GoesOn(q)
        BY <3>1 DEF GoesOn
      <3>3. QED
        BY <2>2, <3>1, <3>2, SendCore, CountedQuiet DEF Inv
    <2>3. ASSUME NEW p \in alive, NEW sig \in Signals, Deliver(p, sig)
          PROVE  Inv'
      <3>1. Core' /\ p \in Pids
        BY <2>3, DeliverCore DEF Inv
      <3> DEFINE h == Append(handlers[p], [sig |-> sig, at |-> "fork"])
      <3>2. /\ handlers[p] \in Seq(Calls) /\ handlers' = [handlers EXCEPT ![p] = h]
            /\ sig \notin {handlers[p][k].sig : k \in DOMAIN handlers[p]}
            /\ handlers \in [Pids -> Seq(Calls)]
            /\ UNCHANGED <<pc, counter, unlogged, f, log, copies, alive>>
        BY <2>3, <3>1 DEF Deliver, Blocked, mainVars, Inv, Core, Shape
      <3>3. Exits(h) <=> Exits(handlers[p])
        BY <3>2, CallIs
      <3> HIDE DEF h
      <3>4. \A q \in Pids : GoesOn(q)' => GoesOn(q)
        BY <3>1, <3>2, <3>3 DEF GoesOn, Exits
      <3>5. QED
        BY <3>1, <3>2, <3>4, CountedQuiet DEF Inv
    <2>4. CASE UNCHANGED vars
      <3>1. UNCHANGED <<pids, alive, pc, counter, f, handlers, pending, log, signals, unlogged,
                        copies, lost>>
        BY <2>4 DEF vars, mainVars, procVars, signalVars
      <3>2. \A q \in Pids : GoesOn(q)' <=> GoesOn(q)
        BY <3>1 DEF GoesOn
      <3>3. Core'
        BY <3>1, <3>2 DEF Inv, Core, Shape, Nested, One, Buffered
      <3>4. QED
        BY <3>1, <3>2, <3>3, CountedQuiet DEF Inv
    <2>5. "SIGINT" \in Signals
      BY DEF Signals
    <2>6. QED
      BY <2>1, <2>2, <2>3, <2>4, <2>5 DEF Next
  <1>2. QED
    BY InvInit, <1>1, PTL DEF Spec

LEMMA TwoSignals == Cardinality(Signals) = 2
  <1>1. Signals = {"SIGTERM"} \cup {"SIGINT"} /\ "SIGINT" \notin {"SIGTERM"}
    BY DEF Signals
  <1>2. IsFiniteSet({"SIGTERM"}) /\ Cardinality({"SIGTERM"}) = 1
    BY FS_Singleton
  <1>3. QED
    BY <1>1, <1>2, FS_AddElement

(* Type correctness; a process is in two calls of handle_recovery at most. *)
THEOREM TypeCorrect == Spec => []TypeOK
  <1>1. Inv => TypeOK
    <2> SUFFICES ASSUME Inv PROVE TypeOK
      OBVIOUS
    <2>1. ASSUME NEW p \in Pids
          PROVE  handlers[p] \in Seq(Calls) /\ Len(handlers[p]) <= 2
      <3>1. handlers[p] \in Seq(Calls) /\ Len(handlers[p]) \in Nat
        BY DEF Inv, Core, Shape
      <3>2. \A j \in 1 .. Len(handlers[p]) : handlers[p][j].sig \in {"SIGTERM", "SIGINT"}
        <4>1. \A j \in 1 .. Len(handlers[p]) : handlers[p][j] \in Calls
          BY <3>1
        <4>2. \A c \in Calls : c.sig \in {"SIGTERM", "SIGINT"}
          BY DEF Calls, Signals
        <4>3. QED
          BY <4>1, <4>2
      <3>3. \A j, k \in 1 .. Len(handlers[p]) : handlers[p][j].sig = handlers[p][k].sig => j = k
        BY DEF Inv, Core, Nested
      <3>4. ASSUME Len(handlers[p]) > 2
            PROVE  FALSE
        <4>1. {1, 2, 3} \subseteq 1 .. Len(handlers[p])
          BY <3>1, <3>4
        <4>2. QED
          BY <3>2, <3>3, <4>1
      <3>5. QED
        BY <3>1, <3>4
    <2>2. copies \in [Numbers -> 0 .. MAX_FORKS]
      <3>1. \A n \in Numbers : copies[n] \in Nat /\ copies[n] < pids
        BY DEF Inv, Core, Shape
      <3>2. pids \in Nat /\ pids <= MAX_FORKS + 1 /\ MAX_FORKS \in Nat
        BY RecoveryAssumption DEF Inv, Core, Shape, Pids
      <3>3. \A n \in Numbers : copies[n] \in 0 .. MAX_FORKS
        BY <3>1, <3>2
      <3>4. QED
        BY <3>3 DEF Inv, Core, Shape
    <2>3. QED
      BY <2>1, <2>2, TwoSignals DEF TypeOK, Inv, Core, Shape, Places, Calls
  <1>2. QED
    BY <1>1, InvHolds, PTL

(* However signals fall into each other's handlers, one process goes on,   *)
(* unless the fork that was to make it failed.                             *)
THEOREM SuccessorUnique == Spec => []OneSuccessor
  <1>1. Inv => OneSuccessor
    <2> SUFFICES ASSUME Inv PROVE OneSuccessor
      OBVIOUS
    <2>1. CASE lost
      <3>1. {p \in Pids : GoesOn(p)} = {}
        BY <2>1 DEF Inv, Core, One
      <3>2. QED
        BY <2>1, <3>1, FS_EmptySet DEF OneSuccessor
    <2>2. CASE ~lost
      <3>1. PICK r \in Pids : GoesOn(r) /\ \A q \in Pids : GoesOn(q) => q = r
        BY <2>2 DEF Inv, Core, One
      <3>2. {p \in Pids : GoesOn(p)} = {r}
        BY <3>1
      <3>3. QED
        BY <2>2, <3>2, FS_Singleton DEF OneSuccessor
    <2>3. QED
      BY <2>1, <2>2
  <1>2. QED
    BY <1>1, InvHolds, PTL

(* Every number the successor is past is in the log, and no number is      *)
(* there more often than it was in a buffer when a fork copied it, and     *)
(* once more.                                                              *)
THEOREM LogComplete == Spec => []EachNumberLogged
  <1>1. Inv => EachNumberLogged
    <2> SUFFICES ASSUME Inv, NEW n \in Numbers
                 PROVE  LET lines == Cardinality({k \in DOMAIN log : log[k] = n})
                        IN /\ lines <= 1 + copies[n]
                           /\ (\E p \in Pids : GoesOn(p) /\ n <= Finished(p)) /\ n \notin unlogged
                                => lines > 0
      BY DEF EachNumberLogged
    <2>1. {k \in DOMAIN log : log[k] = n} = LogOf(n)
      BY DEF LogOf, Inv, Core, Shape
    <2>2. /\ IsFiniteSet(LogOf(n)) /\ Cardinality(LogOf(n)) \in Nat
          /\ Cardinality(HeldOf(n)) \in Nat
      BY CopiesFinite DEF Inv, Core
    <2>3. Cardinality(LogOf(n)) <= 1 + copies[n]
      <3>1. Written(n) \in {0, 1 + copies[n]}
        BY DEF Inv, Counted
      <3>2. copies[n] \in Nat
        BY RecoveryAssumption DEF Inv, Core, Shape
      <3>3. QED
        BY <2>2, <3>1, <3>2 DEF Written
    <2>4. ASSUME NEW p \in Pids, GoesOn(p), n <= Finished(p), n \notin unlogged
          PROVE  Cardinality(LogOf(n)) > 0
      <3>1. Past(p, n)
        BY <2>4, RecoveryAssumption DEF Past, Finished, Numbers, Inv, Core, Shape
      <3>2. LogOf(n) # {}
        BY <2>4, <3>1 DEF Inv, Counted
      <3>3. Cardinality(LogOf(n)) # 0
        BY <2>2, <3>2, FS_EmptySet
      <3>4. QED
        BY <2>2, <3>3
    <2>5. QED
      BY <2>1, <2>3, <2>4
  <1>2. QED
    BY <1>1, InvHolds, PTL
==============================================================================
