--------------------------- MODULE ChatHistory_proof ---------------------------
(***************************************************************************)
(* The history ring is, for every size and every set of lines, the list of *)
(* the most recent lines: type correctness and the refinement of           *)
(* RecentLines.                                                            *)
(***************************************************************************)
EXTENDS ChatHistory, SequenceTheorems, TLAPS

(* An index below the size of the ring is its own slot.                    *)
LEMMA ModSmall == ASSUME NEW n \in Nat \ {0}, NEW x \in 0 .. n - 1
                  PROVE  x % n = x
  OBVIOUS

(* An index less than one turn beyond the ring wraps by one subtraction.   *)
LEMMA ModTurn == ASSUME NEW n \in Nat \ {0}, NEW x \in n .. 2 * n - 1
                 PROVE  x % n = x - n
  OBVIOUS

(* The slot at distance k from start, and its value without the modulo.    *)
SlotFrom(start, k) == (start + k) % HISTORY_LINES

LEMMA SlotCases ==
  ASSUME NEW start \in 0 .. HISTORY_LINES - 1, NEW k \in 0 .. HISTORY_LINES
  PROVE  SlotFrom(start, k) =
           IF start + k < HISTORY_LINES THEN start + k
                                        ELSE start + k - HISTORY_LINES
  <1>1. HISTORY_LINES \in Nat \ {0}
    BY HistoryAssumption
  <1>2. CASE start + k < HISTORY_LINES
    BY <1>1, <1>2, ModSmall DEF SlotFrom
  <1>3. CASE ~(start + k < HISTORY_LINES)
    <2>1. start + k \in HISTORY_LINES .. 2 * HISTORY_LINES - 1
      BY <1>1, <1>3
    <2>2. QED
      BY <1>1, <1>3, <2>1, ModTurn DEF SlotFrom
  <1>4. QED
    BY <1>2, <1>3

(* The counters and the slots keep their types; with the lines written so  *)
(* far in their slots this is the inductive invariant.                     *)
RingOK ==
  /\ history \in [0 .. HISTORY_LINES - 1 -> Lines \cup {NoLine}]
  /\ hist_count \in 0 .. HISTORY_LINES
  /\ hist_start \in 0 .. HISTORY_LINES - 1

(* Two different positions of the window are two different slots.          *)
LEMMA SlotsDistinct ==
  ASSUME RingOK, NEW j \in 0 .. HISTORY_LINES - 1, NEW k \in 0 .. HISTORY_LINES - 1
  PROVE  /\ SlotAt(j) \in 0 .. HISTORY_LINES - 1
         /\ SlotAt(j) = SlotAt(k) => j = k
  <1>1. SlotAt(j) = SlotFrom(hist_start, j) /\ SlotAt(k) = SlotFrom(hist_start, k)
    BY DEF SlotAt, SlotFrom
  <1>2. ASSUME NEW m \in 0 .. HISTORY_LINES - 1
        PROVE  SlotFrom(hist_start, m) =
                 IF hist_start + m < HISTORY_LINES THEN hist_start + m
                                                   ELSE hist_start + m - HISTORY_LINES
    <2>1. m \in 0 .. HISTORY_LINES /\ hist_start \in 0 .. HISTORY_LINES - 1
      BY HistoryAssumption DEF RingOK
    <2>2. QED
      BY <2>1, SlotCases
  <1>3. QED
    <2>1. HISTORY_LINES \in Nat /\ hist_start \in 0 .. HISTORY_LINES - 1
      BY HistoryAssumption DEF RingOK
    <2>2. QED
      BY <1>1, <1>2, <2>1

(* A push keeps the types, and the replay becomes what RecentLines says.   *)
LEMMA PushStep ==
  ASSUME RingOK, NEW l \in Lines, hist_push(l)
  PROVE  RingOK' /\ Recent!Push(l)
  <1>0. /\ HISTORY_LINES \in Nat \ {0}
        /\ hist_count \in Nat
        /\ Len(Replay) = hist_count
    BY HistoryAssumption DEF RingOK, Replay
  <1>1. CASE hist_count < HISTORY_LINES
    <2>1. /\ hist_count' = hist_count + 1
          /\ hist_start' = hist_start
          /\ history' = [history EXCEPT ![SlotAt(hist_count)] = l]
      BY <1>1 DEF hist_push
    <2>2. SlotAt(hist_count) \in 0 .. HISTORY_LINES - 1
      BY <1>0, <1>1, SlotsDistinct DEF RingOK
    <2>3. RingOK'
      BY <1>0, <1>1, <2>1, <2>2 DEF RingOK
    <2>4. Replay' = Append(Replay, l)
      <3>1. ASSUME NEW k \in 1 .. hist_count
            PROVE  history'[(hist_start' + (k - 1)) % HISTORY_LINES] = Replay[k]
        <4>1. SlotAt(k - 1) # SlotAt(hist_count)
          BY <1>0, <1>1, SlotsDistinct DEF RingOK
        <4>2. SlotAt(k - 1) \in 0 .. HISTORY_LINES - 1
          BY <1>0, <1>1, SlotsDistinct DEF RingOK
        <4>3. QED
          BY <2>1, <4>1, <4>2 DEF Replay, SlotAt, RingOK
      <3>2. history'[(hist_start' + hist_count) % HISTORY_LINES] = l
        BY <2>1, <2>2 DEF SlotAt, RingOK
      <3>3. Replay' = [k \in 1 .. hist_count + 1 |->
                         history'[(hist_start' + (k - 1)) % HISTORY_LINES]]
        BY <2>1 DEF Replay, SlotAt
      <3>4. Append(Replay, l) = [k \in 1 .. hist_count + 1 |->
                                   IF k = hist_count + 1 THEN l ELSE Replay[k]]
        BY <1>0 DEF Replay
      <3>5. ASSUME NEW k \in 1 .. hist_count + 1
            PROVE  history'[(hist_start' + (k - 1)) % HISTORY_LINES] =
                     IF k = hist_count + 1 THEN l ELSE Replay[k]
        <4>1. CASE k = hist_count + 1
          BY <1>0, <3>2, <4>1
        <4>2. CASE k # hist_count + 1
          BY <1>0, <3>1, <4>2
        <4>3. QED
          BY <4>1, <4>2
      <3>6. QED
        BY <3>3, <3>4, <3>5
    <2>5. QED
      BY <1>0, <1>1, <2>3, <2>4 DEF Recent!Push
  <1>2. CASE hist_count = HISTORY_LINES
    <2>1. /\ hist_count' = HISTORY_LINES
          /\ hist_start' = (hist_start + 1) % HISTORY_LINES
          /\ history' = [history EXCEPT ![SlotAt(hist_count)] = l]
      BY <1>0, <1>2 DEF hist_push, Advance
    <2>2. hist_start' = IF hist_start + 1 < HISTORY_LINES THEN hist_start + 1 ELSE 0
      <3>1. hist_start' = SlotFrom(hist_start, 1)
        BY <2>1 DEF SlotFrom
      <3>2. QED
        BY <1>0, <3>1, SlotCases DEF RingOK
    <2>3. SlotAt(hist_count) = hist_start
      <3>1. SlotAt(hist_count) = SlotFrom(hist_start, HISTORY_LINES)
        BY <1>2 DEF SlotAt, SlotFrom
      <3>2. QED
        BY <1>0, <3>1, SlotCases DEF RingOK
    <2>4. RingOK'
      BY <1>0, <2>1, <2>2, <2>3 DEF RingOK
    <2>5. ASSUME NEW k \in 1 .. hist_count
          PROVE  history'[(hist_start' + (k - 1)) % HISTORY_LINES] =
                   IF k = hist_count THEN l ELSE Replay[k + 1]
      <3>1. CASE k = hist_count
        <4>1. (hist_start' + (k - 1)) % HISTORY_LINES = hist_start
          <5>1. SlotFrom(hist_start', HISTORY_LINES - 1) = hist_start
            BY <1>0, <2>2, <2>4, SlotCases DEF RingOK
          <5>2. QED
            BY <1>2, <3>1, <5>1 DEF SlotFrom
        <4>2. QED
          BY <2>1, <2>3, <3>1, <4>1 DEF RingOK
      <3>2. CASE k # hist_count
        <4>1. k \in 1 .. HISTORY_LINES - 1
          BY <1>0, <1>2, <3>2
        <4>2. (hist_start' + (k - 1)) % HISTORY_LINES = SlotAt(k)
          <5>1. SlotFrom(hist_start', k - 1) = SlotFrom(hist_start, k)
            BY <1>0, <2>2, <2>4, <4>1, SlotCases DEF RingOK
          <5>2. QED
            BY <5>1 DEF SlotFrom, SlotAt
        <4>3. SlotAt(k) # hist_start /\ SlotAt(k) \in 0 .. HISTORY_LINES - 1
          <5>1. SlotAt(k) = SlotFrom(hist_start, k)
            BY DEF SlotAt, SlotFrom
          <5>2. SlotFrom(hist_start, k) =
                  IF hist_start + k < HISTORY_LINES THEN hist_start + k
                                                    ELSE hist_start + k - HISTORY_LINES
            BY <1>0, <4>1, SlotCases DEF RingOK
          <5>3. QED
            BY <1>0, <4>1, <5>1, <5>2 DEF RingOK
        <4>4. Replay[k + 1] = history[SlotAt(k)]
          BY <1>0, <1>2, <4>1 DEF Replay
        <4>5. QED
          BY <2>1, <2>3, <3>2, <4>2, <4>3, <4>4 DEF RingOK
      <3>3. QED
        BY <3>1, <3>2
    <2>6. Append(Tail(Replay), l) =
            [k \in 1 .. hist_count |-> IF k = hist_count THEN l ELSE Replay[k + 1]]
      <3>1. Replay \in Seq(Lines \cup {NoLine})
        BY <1>0, <1>2, SlotsDistinct DEF Replay, RingOK
      <3>2. /\ Tail(Replay) \in Seq(Lines \cup {NoLine})
            /\ Len(Tail(Replay)) = hist_count - 1
            /\ \A k \in 1 .. hist_count - 1 : Tail(Replay)[k] = Replay[k + 1]
        <4>1. Replay # <<>>
          BY <1>0, <1>2
        <4>2. QED
          BY <1>0, <1>2, <3>1, <4>1, HeadTailProperties
      <3>3. Append(Tail(Replay), l) =
              [k \in 1 .. hist_count |->
                 IF k = hist_count THEN l ELSE Tail(Replay)[k]]
        <4>1. l \in Lines \cup {NoLine}
          OBVIOUS
        <4>2. /\ Len(Append(Tail(Replay), l)) = hist_count
              /\ Append(Tail(Replay), l) \in Seq(Lines \cup {NoLine})
              /\ \A k \in 1 .. hist_count - 1 :
                   Append(Tail(Replay), l)[k] = Tail(Replay)[k]
              /\ Append(Tail(Replay), l)[hist_count] = l
          BY <1>0, <1>2, <3>2, <4>1, AppendProperties
        <4>3. Append(Tail(Replay), l) \in [1 .. hist_count -> Lines \cup {NoLine}]
          BY <4>2, LenProperties
        <4>4. \A k \in 1 .. hist_count :
                Append(Tail(Replay), l)[k] = IF k = hist_count THEN l ELSE Tail(Replay)[k]
          BY <1>0, <1>2, <4>2
        <4>5. QED
          BY <4>3, <4>4
      <3>4. QED
        BY <1>0, <1>2, <3>2, <3>3
    <2>7. Replay' = Append(Tail(Replay), l)
      <3>1. Replay' = [k \in 1 .. hist_count |->
                         history'[(hist_start' + (k - 1)) % HISTORY_LINES]]
        BY <1>2, <2>1 DEF Replay, SlotAt
      <3>2. QED
        BY <2>5, <2>6, <3>1
    <2>8. QED
      BY <1>0, <1>2, <2>4, <2>7 DEF Recent!Push
  <1>3. QED
    BY <1>0, <1>1, <1>2 DEF RingOK

LEMMA RingInvariant == HistSpec => []RingOK
  <1>1. HistInit => RingOK
    BY HistoryAssumption DEF HistInit, RingOK
  <1>2. RingOK /\ [HistNext]_histVars => RingOK'
    <2>1. ASSUME RingOK, UNCHANGED histVars PROVE RingOK'
      BY <2>1 DEF histVars, RingOK
    <2>2. QED
      BY <2>1, PushStep DEF HistNext
  <1>3. QED
    BY <1>1, <1>2, PTL DEF HistSpec

(* The counters stay in range and every replayed slot was written, for any *)
(* ring size: HistTypeOK, whose last part is inductive thanks to PushStep.  *)
THEOREM TypeCorrect == HistSpec => []HistTypeOK
  <1>1. HistInit => HistTypeOK
    <2>1. ASSUME HistInit PROVE Replay = <<>>
      BY <2>1 DEF HistInit, Replay
    <2>2. QED
      BY <2>1, HistoryAssumption DEF HistInit, HistTypeOK
  <1>2. HistTypeOK /\ [HistNext]_histVars => HistTypeOK'
    <2>1. ASSUME HistTypeOK, UNCHANGED histVars PROVE HistTypeOK'
      <3>1. Replay' = Replay
        BY <2>1 DEF histVars, Replay, SlotAt
      <3>2. QED
        BY <2>1, <3>1 DEF histVars, HistTypeOK
    <2>2. ASSUME HistTypeOK, NEW l \in Lines, hist_push(l) PROVE HistTypeOK'
      <3>1. RingOK
        BY <2>2 DEF HistTypeOK, RingOK
      <3>2. RingOK' /\ Recent!Push(l)
        BY <2>2, <3>1, PushStep
      <3>3. Replay' \in Seq(Lines)
        <4>1. CASE Len(Replay) < HISTORY_LINES
          BY <2>2, <3>2, <4>1, AppendProperties DEF HistTypeOK, Recent!Push
        <4>2. CASE ~(Len(Replay) < HISTORY_LINES)
          <5>1. Replay # <<>>
            BY <4>2, HistoryAssumption
          <5>2. Tail(Replay) \in Seq(Lines)
            BY <2>2, <5>1, HeadTailProperties DEF HistTypeOK
          <5>3. QED
            BY <2>2, <3>2, <4>2, <5>2, AppendProperties DEF Recent!Push
        <4>3. QED
          BY <4>1, <4>2
      <3>4. QED
        BY <3>2, <3>3 DEF RingOK, HistTypeOK
    <2>3. QED
      BY <2>1, <2>2 DEF HistNext
  <1>3. QED
    BY <1>1, <1>2, PTL DEF HistSpec

(* The ring implements the list of recent lines (RefinesRecentLines).      *)
THEOREM Refinement == HistSpec => RefinesRecentLines
  <1>1. HistInit => Recent!Init
    BY HistoryAssumption DEF HistInit, Recent!Init, Replay
  <1>2. RingOK /\ [HistNext]_histVars => [Recent!Next]_Replay
    <2>1. ASSUME UNCHANGED histVars PROVE UNCHANGED Replay
      BY <2>1 DEF histVars, Replay, SlotAt
    <2>2. ASSUME RingOK, NEW l \in Lines, hist_push(l) PROVE Recent!Next
      BY <2>2, PushStep DEF Recent!Next
    <2>3. QED
      BY <2>1, <2>2 DEF HistNext
  <1>3. QED
    BY <1>1, <1>2, RingInvariant, PTL DEF HistSpec, RefinesRecentLines, Recent!Spec
==============================================================================
