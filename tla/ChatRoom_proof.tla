---------------------------- MODULE ChatRoom_proof ----------------------------
(***************************************************************************)
(* What the members of the chat hear, for any number of connections,       *)
(* slots, nicknames, lines and frames: acknowledgements come first,        *)
(* private messages reach the two they name, notices agree with the room,  *)
(* and the conversation has no gap.                                        *)
(***************************************************************************)
EXTENDS ChatServer_proof, FunctionTheorems

(* A sequence, whatever its elements.                                      *)
IsSeq(q) == Len(q) \in Nat /\ q = [k \in 1 .. Len(q) |-> q[k]]

(* Where the frames of some types stand in a sequence of frames.           *)
Says(q, types) == {k \in 1 .. Len(q) : q[k].type \in types}

Talk == {"JOIN_ACK", "HISTORY", "BROADCAST", "NOTIFY", "PRIVATE"}
Heard(c) == Says(outq[c], Talk)

LEMMA IsSeqOf ==
  ASSUME NEW q, IsSeq(q), NEW S, \A k \in 1 .. Len(q) : q[k] \in S
  PROVE  q \in Seq(S)
  <1> DEFINE n == Len(q)
  <1>1. n \in Nat /\ q = [k \in 1 .. n |-> q[k]] /\ \A k \in 1 .. n : q[k] \in S
    BY DEF IsSeq
  <1> HIDE DEF n
  <1>2. [k \in 1 .. n |-> q[k]] \in Seq(S)
    BY <1>1
  <1>3. QED
    BY <1>1, <1>2

LEMMA SeqIs ==
  ASSUME NEW S, NEW q \in Seq(S)
  PROVE  IsSeq(q)
  <1>1. Len(q) \in Nat /\ DOMAIN q = 1 .. Len(q) /\ q \in [1 .. Len(q) -> S]
    BY LenProperties
  <1>2. q = [k \in 1 .. Len(q) |-> q[k]]
    BY <1>1
  <1>3. QED
    BY <1>1, <1>2 DEF IsSeq

LEMMA OneIs ==
  ASSUME NEW m
  PROVE  IsSeq(<<m>>) /\ Len(<<m>>) = 1 /\ <<m>>[1] = m
  <1>1. <<m>> \in Seq({m}) /\ Len(<<m>>) = 1 /\ <<m>>[1] = m
    OBVIOUS
  <1>2. QED
    BY <1>1, SeqIs

LEMMA Appended ==
  ASSUME NEW q, NEW f, IsSeq(q), IsSeq(f)
  PROVE  /\ IsSeq(q \o f)
         /\ Len(q \o f) = Len(q) + Len(f)
         /\ \A k \in 1 .. Len(q) : (q \o f)[k] = q[k]
         /\ \A k \in 1 .. Len(f) : (q \o f)[Len(q) + k] = f[k]
  <1> DEFINE S == {q[k] : k \in 1 .. Len(q)} \cup {f[k] : k \in 1 .. Len(f)}
  <1>1. q \in Seq(S) /\ f \in Seq(S)
    <2>1. \A k \in 1 .. Len(q) : q[k] \in S
      OBVIOUS
    <2>2. \A k \in 1 .. Len(f) : f[k] \in S
      OBVIOUS
    <2> HIDE DEF S
    <2>3. QED
      BY <2>1, <2>2, IsSeqOf
  <1> HIDE DEF S
  <1>2. /\ q \o f \in Seq(S)
        /\ Len(q \o f) = Len(q) + Len(f)
        /\ \A k \in 1 .. Len(q) + Len(f) :
             (q \o f)[k] = IF k <= Len(q) THEN q[k] ELSE f[k - Len(q)]
    BY <1>1, ConcatProperties
  <1>3. IsSeq(q \o f)
    BY <1>2, SeqIs
  <1>4. Len(q) \in Nat /\ Len(f) \in Nat
    BY DEF IsSeq
  <1>5. ASSUME NEW k \in 1 .. Len(q) PROVE (q \o f)[k] = q[k]
    BY <1>2, <1>4
  <1>6. ASSUME NEW k \in 1 .. Len(f) PROVE (q \o f)[Len(q) + k] = f[k]
    <2>1. Len(q) + k \in 1 .. Len(q) + Len(f) /\ ~(Len(q) + k <= Len(q)) /\ Len(q) + k - Len(q) = k
      BY <1>4
    <2>2. QED
      BY <1>2, <2>1
  <1>7. QED
    BY <1>2, <1>3, <1>5, <1>6

(* One frame more.                                                         *)
LEMMA SaysMore ==
  ASSUME NEW q, IsSeq(q), NEW m, NEW types
  PROVE  /\ IsSeq(q \o <<m>>) /\ Len(q \o <<m>>) = Len(q) + 1
         /\ \A k \in 1 .. Len(q) : (q \o <<m>>)[k] = q[k]
         /\ (q \o <<m>>)[Len(q) + 1] = m
         /\ m.type \in types => Says(q \o <<m>>, types) = Says(q, types) \cup {Len(q) + 1}
         /\ m.type \notin types => Says(q \o <<m>>, types) = Says(q, types)
  <1> DEFINE r == q \o <<m>>
  <1>1. /\ IsSeq(r) /\ Len(r) = Len(q) + 1 /\ Len(q) \in Nat
        /\ \A k \in 1 .. Len(q) : r[k] = q[k]
        /\ r[Len(q) + 1] = m
    <2>1. IsSeq(<<m>>) /\ Len(<<m>>) = 1 /\ <<m>>[1] = m /\ 1 \in 1 .. 1
      BY OneIs
    <2>2. Len(q) \in Nat
      BY DEF IsSeq
    <2>3. QED
      BY <2>1, <2>2, Appended
  <1> HIDE DEF r
  <1>2. 1 .. Len(r) = (1 .. Len(q)) \cup {Len(q) + 1}
    BY <1>1
  <1>3. m.type \in types => Says(r, types) = Says(q, types) \cup {Len(q) + 1}
    BY <1>1, <1>2 DEF Says
  <1>4. m.type \notin types => Says(r, types) = Says(q, types)
    BY <1>1, <1>2 DEF Says
  <1>5. QED
    BY <1>1, <1>3, <1>4 DEF r
------------------------------------------------------------------------------
(* The order of the table: each place in it is taken by one slot.          *)
Below(S, s) == {t \in S : t < s}

LEMMA NthIs ==
  ASSUME NEW S \in SUBSET Slots
  PROVE  /\ IsFiniteSet(S) /\ Cardinality(S) \in Nat
         /\ \A k \in 1 .. Cardinality(S) : Nth(S, k) \in S /\ Cardinality(Below(S, Nth(S, k))) = k - 1
         /\ \A s \in S : \E k \in 1 .. Cardinality(S) : Nth(S, k) = s
  <1>1. S \subseteq Int /\ IsFiniteSet(S) /\ Cardinality(S) \in Nat
    <2>1. IsFiniteSet(Slots) /\ Slots \subseteq Int
      BY FS_Interval, ServerAssumption DEF Slots
    <2>2. QED
      BY <2>1, FS_Subset, FS_CardinalityType
  <1> DEFINE n == Cardinality(S)
             rank == [s \in S |-> Cardinality(Below(S, s)) + 1]
  <1>2. ASSUME NEW s \in S
        PROVE  IsFiniteSet(Below(S, s)) /\ Cardinality(Below(S, s)) \in 0 .. n - 1
    <2>1. Below(S, s) \in SUBSET S /\ s \notin Below(S, s) /\ s \in Int
      BY <1>1 DEF Below
    <2>2. /\ IsFiniteSet(Below(S, s)) /\ Cardinality(Below(S, s)) <= n
          /\ n = Cardinality(Below(S, s)) => S = Below(S, s)
          /\ Cardinality(Below(S, s)) \in Nat
      BY <1>1, <2>1, FS_Subset, FS_CardinalityType
    <2>3. QED
      BY <1>1, <2>1, <2>2
  <1>3. ASSUME NEW s \in S, NEW t \in S, s < t
        PROVE  Cardinality(Below(S, s)) < Cardinality(Below(S, t))
    <2>0. s \in Int /\ t \in Int /\ \A u \in S : u \in Int /\ (u < s => u < t)
      BY <1>1, <1>3
    <2>1. Below(S, s) \in SUBSET Below(S, t) /\ s \in Below(S, t) /\ s \notin Below(S, s)
      <3>1. Below(S, s) \subseteq Below(S, t)
        BY <2>0 DEF Below
      <3>2. s \in Below(S, t) /\ s \notin Below(S, s)
        BY <1>3, <2>0 DEF Below
      <3>3. QED
        BY <3>1, <3>2
    <2>2. /\ Cardinality(Below(S, s)) <= Cardinality(Below(S, t))
          /\ Cardinality(Below(S, t)) = Cardinality(Below(S, s)) => Below(S, t) = Below(S, s)
      BY <1>2, <2>1, FS_Subset
    <2>3. QED
      BY <1>2, <2>1, <2>2
  <1>4. ASSUME NEW s \in S, NEW t \in S, Cardinality(Below(S, s)) = Cardinality(Below(S, t))
        PROVE  s = t
    <2>1. s \in Int /\ t \in Int /\ (s < t \/ t < s \/ s = t)
      BY <1>1
    <2>2. QED
      BY <1>2, <1>3, <1>4, <2>1
  <1>5. rank \in Injection(S, 1 .. n)
    <2>1. rank \in [S -> 1 .. n]
      BY <1>1, <1>2
    <2>2. \A s, t \in S : rank[s] = rank[t] => s = t
      BY <1>2, <1>4
    <2> HIDE DEF rank
    <2>3. QED
      BY <2>1, <2>2, Fun_IsInj
  <1>6. rank \in Surjection(S, 1 .. n)
    <2>1. IsFiniteSet(1 .. n) /\ Cardinality(1 .. n) = n
      BY <1>1, FS_Interval
    <2> HIDE DEF rank, n
    <2>2. Cardinality(S) = Cardinality(1 .. n) <=> rank \in Surjection(S, 1 .. n)
      BY <1>5, <2>1, FS_Injection
    <2>3. QED
      BY <2>1, <2>2 DEF n
  <1>7. \A k \in 1 .. n : \E s \in S : rank[s] = k
    <2> HIDE DEF rank, n
    <2>1. QED
      BY <1>6, Fun_SurjectionProperties
  <1>8. ASSUME NEW k \in 1 .. n
        PROVE  Nth(S, k) \in S /\ Cardinality(Below(S, Nth(S, k))) = k - 1
    <2>1. PICK s \in S : rank[s] = k
      BY <1>7
    <2>2. Cardinality(Below(S, s)) = k - 1
      BY <1>2, <2>1
    <2>3. QED
      BY <2>2 DEF Nth, Below
  <1>9. ASSUME NEW s \in S
        PROVE  \E k \in 1 .. n : Nth(S, k) = s
    <2>1. rank[s] \in 1 .. n /\ rank[s] - 1 = Cardinality(Below(S, s))
      BY <1>1, <1>2
    <2>2. Nth(S, rank[s]) \in S /\ Cardinality(Below(S, Nth(S, rank[s]))) = rank[s] - 1
      BY <1>8, <2>1
    <2>3. QED
      BY <1>4, <2>1, <2>2
  <1>10. QED
    BY <1>1, <1>8, <1>9

LEMMA FdsAre ==
  ASSUME NEW S \in SUBSET Slots
  PROVE  /\ IsSeq(FdsOf(S))
         /\ {FdsOf(S)[k] : k \in 1 .. Len(FdsOf(S))} = {fd[s] : s \in S}
  <1> DEFINE n == Cardinality(S)
  <1>1. /\ n \in Nat
        /\ \A k \in 1 .. n : Nth(S, k) \in S
        /\ \A s \in S : \E k \in 1 .. n : Nth(S, k) = s
    BY NthIs
  <1>2. FdsOf(S) = [k \in 1 .. n |-> fd[Nth(S, k)]]
    BY DEF FdsOf
  <1> HIDE DEF n
  <1>3. FdsOf(S) \in Seq({fd[s] : s \in S})
    <2>1. \A k \in 1 .. n : fd[Nth(S, k)] \in {fd[s] : s \in S}
      BY <1>1
    <2>2. QED
      BY <1>1, <1>2, <2>1
  <1>4. Len(FdsOf(S)) = n
    BY <1>1, <1>2, <1>3, LenProperties
  <1>5. \A s \in S : \E k \in 1 .. n : FdsOf(S)[k] = fd[s]
    BY <1>1, <1>2
  <1>6. \A k \in 1 .. n : FdsOf(S)[k] \in {fd[s] : s \in S}
    BY <1>1, <1>2
  <1>7. QED
    BY <1>3, <1>4, <1>5, <1>6, SeqIs
------------------------------------------------------------------------------
(* What a write does to the peers: those in R get what is theirs, all of   *)
(* them if the server lives on; a peer that is up stays so.                *)
Wire == \A c \in Conns : IsSeq(outq[c])

Writes(R, out) ==
  \E W \in SUBSET R :
    /\ pc' # "dead" => W = R
    /\ \A c \in Conns :
         /\ peer'[c] = "up" => peer[c] = "up"
         /\ outq'[c] = IF c \in W /\ peer[c] = "up" THEN outq[c] \o out[c] ELSE outq[c]

Delivers(R, m) == Writes(R, [c \in Conns |-> <<m>>])

LEMMA EmitIs ==
  ASSUME TypeOK, NEW to, IsSeq(to), NEW out, NEW next, Emit(to, out, next)
  PROVE  /\ Writes({to[k] : k \in 1 .. Len(to)}, out)
         /\ Len(to) > 0 /\ to[1] \in Conns /\ peer[to[1]] = "up"
              => outq'[to[1]] = outq[to[1]] \o out[to[1]]
         /\ pc' = "dead" \/ pc' = next
  <1> DEFINE R == {to[k] : k \in 1 .. Len(to)}
             W(n) == {to[k] : k \in 1 .. n}
  <1>1. PICK n \in 0 .. Len(to) :
          /\ n < Len(to) => MayKill(to[n + 1])
          /\ pc' = IF n < Len(to) THEN "dead" ELSE next
          /\ peer' = [c \in Conns |-> IF c \in W(n) THEN AfterWrite(peer[c]) ELSE peer[c]]
          /\ outq' = [c \in Conns |-> IF c \in W(n) /\ peer[c] = "up"
                                        THEN outq[c] \o out[c] ELSE outq[c]]
    BY Zenon DEF Emit
  <1>2. Len(to) \in Nat /\ n \in Nat /\ n <= Len(to)
    BY DEF IsSeq
  <1>3. W(n) \in SUBSET R
    BY <1>2
  <1>4. pc' # "dead" => W(n) = R
    BY <1>1, <1>2
  <1>5. ASSUME NEW c \in Conns
        PROVE  peer'[c] = "up" => peer[c] = "up"
    <2>1. peer[c] \in PeerStates
      BY DEF TypeOK
    <2>2. peer'[c] = IF c \in W(n) THEN AfterWrite(peer[c]) ELSE peer[c]
      BY <1>1
    <2>3. AfterWrite(peer[c]) = "up" <=> peer[c] = "up"
      BY <2>1 DEF AfterWrite, PeerStates
    <2> HIDE DEF W
    <2>4. QED
      BY <2>2, <2>3
  <1>6. ASSUME NEW c \in Conns
        PROVE  outq'[c] = IF c \in W(n) /\ peer[c] = "up" THEN outq[c] \o out[c] ELSE outq[c]
    <2> HIDE DEF W
    <2>1. QED
      BY <1>1
  <1>7. Writes(R, out)
    <2> HIDE DEF W, R
    <2>1. QED
      BY <1>3, <1>4, <1>5, <1>6 DEF Writes
  <1>8. ASSUME Len(to) > 0, to[1] \in Conns, peer[to[1]] = "up"
        PROVE  outq'[to[1]] = outq[to[1]] \o out[to[1]]
    <2>1. n # 0
      BY <1>1, <1>2, <1>8 DEF MayKill
    <2>2. to[1] \in W(n)
      BY <1>2, <2>1
    <2> HIDE DEF W
    <2>3. QED
      BY <1>6, <1>8, <2>2
  <1>9. QED
    BY <1>1, <1>7, <1>8

LEMMA EmitAllIs ==
  ASSUME TypeOK, NEW to, IsSeq(to), NEW m, NEW next, EmitAll(to, m, next)
  PROVE  Delivers({to[k] : k \in 1 .. Len(to)}, m) /\ (pc' = "dead" \/ pc' = next)
  <1>1. Emit(to, [c \in Conns |-> <<m>>], next)
    BY DEF EmitAll
  <1>2. QED
    BY <1>1, EmitIs DEF Delivers

LEMMA EmitMembersIs ==
  ASSUME TypeInv, NEW S \in SUBSET Slots, NEW m, NEW next, EmitAll(FdsOf(S), m, next)
  PROVE  Delivers({fd[s] : s \in S}, m)
  BY FdsAre, EmitAllIs DEF TypeInv

LEMMA ReplyIs ==
  ASSUME TypeInv, NEW c, NEW m, NEW next, EmitAll(<<c>>, m, next)
  PROVE  Delivers({c}, m)
  <1>1. IsSeq(<<c>>) /\ {<<c>>[k] : k \in 1 .. Len(<<c>>)} = {c}
    BY OneIs
  <1>2. QED
    BY <1>1, EmitAllIs DEF TypeInv

LEMMA EmitTwoIs ==
  ASSUME TypeInv, NEW c, NEW d, NEW m, NEW next, EmitAll(<<c, d>>, m, next)
  PROVE  Delivers({c, d}, m)
  <1>1. <<c, d>> \in Seq({c, d}) /\ Len(<<c, d>>) = 2 /\ <<c, d>>[1] = c /\ <<c, d>>[2] = d
    OBVIOUS
  <1>2. IsSeq(<<c, d>>)
    BY <1>1, SeqIs
  <1>3. {<<c, d>>[k] : k \in 1 .. Len(<<c, d>>)} = {c, d}
    BY <1>1
  <1>4. QED
    BY <1>2, <1>3, EmitAllIs DEF TypeInv

LEMMA EmitNoneIs ==
  ASSUME outq' = outq, \A c \in Conns : peer'[c] = "up" => peer[c] = "up", NEW m
  PROVE  Delivers({}, m)
  <1> DEFINE out == [c \in Conns |-> <<m>>]
  <1> HIDE DEF out
  <1>1. {} \in SUBSET {} /\ (pc' # "dead" => {} = {})
    OBVIOUS
  <1>2. \A c \in Conns :
          /\ peer'[c] = "up" => peer[c] = "up"
          /\ outq'[c] = IF c \in {} /\ peer[c] = "up" THEN outq[c] \o out[c] ELSE outq[c]
    OBVIOUS
  <1>3. Writes({}, out)
    BY <1>1, <1>2 DEF Writes
  <1>4. QED
    BY <1>3 DEF Delivers, out

(* What each peer finds in its stream then.                                *)
LEMMA DeliversTo ==
  ASSUME Wire, NEW R, NEW m, Delivers(R, m), NEW c \in Conns
  PROVE  /\ peer'[c] = "up" => peer[c] = "up"
         /\ outq'[c] = outq[c] \/ (c \in R /\ peer[c] = "up" /\ outq'[c] = outq[c] \o <<m>>)
         /\ pc' # "dead" /\ c \in R /\ peer[c] = "up" => outq'[c] = outq[c] \o <<m>>
         /\ IsSeq(outq'[c])
  <1>1. PICK W \in SUBSET R :
          /\ pc' # "dead" => W = R
          /\ peer'[c] = "up" => peer[c] = "up"
          /\ outq'[c] = IF c \in W /\ peer[c] = "up"
                          THEN outq[c] \o [d \in Conns |-> <<m>>][c] ELSE outq[c]
    BY DEF Delivers, Writes
  <1>2. [d \in Conns |-> <<m>>][c] = <<m>>
    OBVIOUS
  <1>3. IsSeq(outq[c]) /\ IsSeq(outq[c] \o <<m>>)
    BY SaysMore DEF Wire
  <1>4. QED
    BY <1>1, <1>2, <1>3
------------------------------------------------------------------------------
(* Acknowledgements and private messages.  A connection that is no         *)
(* member's has heard nothing of the talk; a member's has, as long as it   *)
(* is up.                                                                  *)
Stranger(c) == link[c] \in {"idle", "backlog"} \/ \E s \in used \ joined : fd[s] = c

AckFirst(q) ==
  \A k \in Says(q, Talk) : q[k].type = "JOIN_ACK" <=> \A j \in Says(q, Talk) : k <= j

Whispers(q, n) == \A k \in Says(q, {"PRIVATE"}) : n \in {q[k].arg[1], q[k].arg[2]}

RoomInv ==
  /\ Wire
  /\ \A c \in Conns : Stranger(c) => Heard(c) = {}
  /\ \A s \in joined : peer[fd[s]] = "up" => Heard(fd[s]) # {}
  /\ \A c \in Conns : AckFirst(outq[c])
  /\ \A s \in joined : Whispers(outq[fd[s]], nick[s])

LEMMA HearsOther ==
  ASSUME NEW q, IsSeq(q), NEW m, m.type \notin Talk
  PROVE  /\ Says(q \o <<m>>, Talk) = Says(q, Talk)
         /\ AckFirst(q) => AckFirst(q \o <<m>>)
         /\ \A n : Whispers(q, n) => Whispers(q \o <<m>>, n)
  <1> DEFINE r == q \o <<m>>
  <1>0. m.type \notin {"PRIVATE"}
    BY DEF Talk
  <1>1. /\ Says(r, Talk) = Says(q, Talk) /\ Says(r, {"PRIVATE"}) = Says(q, {"PRIVATE"})
        /\ \A k \in 1 .. Len(q) : r[k] = q[k]
    <2>1. ASSUME NEW types, m.type \notin types PROVE Says(r, types) = Says(q, types)
      BY <2>1, SaysMore
    <2>2. \A k \in 1 .. Len(q) : r[k] = q[k]
      BY SaysMore
    <2> HIDE DEF r
    <2>3. Says(r, Talk) = Says(q, Talk)
      BY <2>1
    <2>4. Says(r, {"PRIVATE"}) = Says(q, {"PRIVATE"})
      BY <1>0, <2>1
    <2>5. QED
      BY <2>2, <2>3, <2>4
  <1> HIDE DEF r
  <1>2. AckFirst(q) => AckFirst(r)
    BY <1>1 DEF AckFirst, Says
  <1>3. \A n : Whispers(q, n) => Whispers(r, n)
    BY <1>1 DEF Whispers, Says
  <1>4. QED
    BY <1>1, <1>2, <1>3 DEF r

LEMMA HearsTalk ==
  ASSUME NEW q, IsSeq(q), NEW m, m.type \in Talk, m.type # "JOIN_ACK",
         AckFirst(q), Says(q, Talk) # {}
  PROVE  /\ Says(q \o <<m>>, Talk) # {}
         /\ AckFirst(q \o <<m>>)
         /\ \A n : /\ Whispers(q, n)
                   /\ m.type = "PRIVATE" => n \in {m.arg[1], m.arg[2]}
                   => Whispers(q \o <<m>>, n)
  <1> DEFINE r == q \o <<m>>
  <1>1. /\ Says(r, Talk) = Says(q, Talk) \cup {Len(q) + 1}
        /\ \A k \in 1 .. Len(q) : r[k] = q[k]
        /\ r[Len(q) + 1] = m
        /\ Len(q) \in Nat
    BY SaysMore DEF IsSeq
  <1>2. /\ m.type \in {"PRIVATE"} => Says(r, {"PRIVATE"}) = Says(q, {"PRIVATE"}) \cup {Len(q) + 1}
        /\ m.type \notin {"PRIVATE"} => Says(r, {"PRIVATE"}) = Says(q, {"PRIVATE"})
    BY SaysMore
  <1> HIDE DEF r
  <1>3. \A k \in Says(q, Talk) : k \in 1 .. Len(q) /\ k < Len(q) + 1
    BY <1>1 DEF Says
  <1>4. AckFirst(r)
    <2>1. ASSUME NEW k \in Says(q, Talk)
          PROVE  r[k].type = "JOIN_ACK" <=> \A j \in Says(r, Talk) : k <= j
      <3>1. r[k] = q[k] /\ k < Len(q) + 1 /\ k \in Int
        BY <1>1, <1>3
      <3>2. q[k].type = "JOIN_ACK" <=> \A j \in Says(q, Talk) : k <= j
        BY DEF AckFirst
      <3>3. QED
        BY <1>1, <3>1, <3>2
    <2>2. r[Len(q) + 1].type # "JOIN_ACK"
      BY <1>1
    <2>3. ~ \A j \in Says(r, Talk) : Len(q) + 1 <= j
      <3>1. PICK j \in Says(q, Talk) : TRUE
        OBVIOUS
      <3>2. j \in Says(r, Talk) /\ ~(Len(q) + 1 <= j)
        BY <1>1, <1>3
      <3>3. QED
        BY <3>2
    <2>4. QED
      BY <1>1, <2>1, <2>2, <2>3 DEF AckFirst
  <1>5. ASSUME NEW n, Whispers(q, n), m.type = "PRIVATE" => n \in {m.arg[1], m.arg[2]}
        PROVE  Whispers(r, n)
    BY <1>1, <1>2, <1>5 DEF Whispers, Says
  <1>6. QED
    BY <1>1, <1>4, <1>5 DEF r

(* Steps that deliver one message m at most, to members if it belongs to   *)
(* the talk, and that make nobody a member and no member a stranger.       *)
LEMMA RoomKeeps ==
  ASSUME TypeInv, TableInv, RoomInv, NEW R, NEW m, Delivers(R, m),
         m.type # "JOIN_ACK",
         m.type \in Talk => \A c \in R : \E s \in joined : fd[s] = c,
         m.type = "PRIVATE" =>
           \A s \in joined : fd[s] \in R => nick[s] \in {m.arg[1], m.arg[2]},
         \A c \in Conns : Stranger(c)' => Stranger(c),
         \A s \in joined' : s \in joined /\ fd'[s] = fd[s] /\ nick'[s] = nick[s]
  PROVE  RoomInv'
  <1> DEFINE r(c) == outq[c] \o <<m>>
  <1>1. \A s \in joined : s \in used /\ fd[s] \in Conns
    BY DEF TypeInv, TypeOK, SlotsFilled
  <1>2. ASSUME NEW c \in Conns
        PROVE  /\ peer'[c] = "up" => peer[c] = "up"
               /\ outq'[c] = outq[c] \/ (c \in R /\ peer[c] = "up" /\ outq'[c] = r(c))
               /\ IsSeq(outq[c]) /\ IsSeq(outq'[c])
    BY DeliversTo DEF RoomInv, Wire
  <1>3. ASSUME NEW c \in Conns, m.type \in Talk, c \in R
        PROVE  ~Stranger(c) /\ (peer[c] = "up" => Heard(c) # {})
    <2>1. PICK s \in joined : fd[s] = c
      BY <1>3
    <2>2. link[c] = "open" /\ \A t \in used : fd[t] = c => t = s
      BY <1>1, <2>1 DEF TableInv, OneSlotPerConnection
    <2>3. ~Stranger(c)
      BY <2>2 DEF Stranger
    <2>4. QED
      BY <2>1, <2>3 DEF RoomInv
  <1> HIDE DEF r
  <1>4. ASSUME NEW c \in Conns
        PROVE  /\ Stranger(c) => Heard(c)' = {}
               /\ Heard(c) # {} => Heard(c)' # {}
               /\ AckFirst(outq'[c])
    <2>1. CASE outq'[c] = outq[c]
      BY <2>1 DEF RoomInv, Heard
    <2>2. CASE c \in R /\ peer[c] = "up" /\ outq'[c] = r(c)
      <3>1. CASE m.type \notin Talk
        <4>1. /\ Says(outq[c] \o <<m>>, Talk) = Says(outq[c], Talk)
              /\ AckFirst(outq[c] \o <<m>>)
          BY <1>2, <3>1, HearsOther DEF RoomInv
        <4>2. QED
          BY <2>2, <4>1 DEF RoomInv, Heard, r
      <3>2. CASE m.type \in Talk
        <4>1. Says(outq[c], Talk) # {} /\ ~Stranger(c) /\ AckFirst(outq[c])
          BY <1>3, <2>2, <3>2 DEF RoomInv, Heard
        <4>2. Says(outq[c] \o <<m>>, Talk) # {} /\ AckFirst(outq[c] \o <<m>>)
          BY <1>2, <3>2, <4>1, HearsTalk
        <4>3. QED
          BY <2>2, <4>1, <4>2 DEF Heard, r
      <3>3. QED
        BY <3>1, <3>2
    <2>3. QED
      BY <1>2, <2>1, <2>2
  <1>5. ASSUME NEW s \in joined
        PROVE  Whispers(outq'[fd[s]], nick[s])
    <2> DEFINE c == fd[s]
    <2>1. c \in Conns /\ Whispers(outq[c], nick[s])
      BY <1>1 DEF RoomInv
    <2>2. CASE outq'[c] = outq[c]
      BY <2>1, <2>2
    <2>3. CASE c \in R /\ peer[c] = "up" /\ outq'[c] = r(c)
      <3>1. CASE m.type \notin Talk
        BY <1>2, <2>1, <2>3, <3>1, HearsOther DEF r
      <3>2. CASE m.type \in Talk
        <4>1. IsSeq(outq[c]) /\ AckFirst(outq[c]) /\ Says(outq[c], Talk) # {}
          BY <1>2, <2>1, <2>3 DEF RoomInv, Heard
        <4>2. m.type = "PRIVATE" => nick[s] \in {m.arg[1], m.arg[2]}
          BY <2>3
        <4>3. Whispers(outq[c] \o <<m>>, nick[s])
          BY <2>1, <3>2, <4>1, <4>2, HearsTalk
        <4>4. QED
          BY <2>3, <4>3 DEF r
      <3>3. QED
        BY <3>1, <3>2
    <2>4. QED
      BY <1>2, <2>1, <2>2, <2>3
  <1>6. Wire'
    BY <1>2 DEF Wire
  <1>7. \A c \in Conns : Stranger(c)' => Heard(c)' = {}
    BY <1>4
  <1>8. \A s \in joined' : peer'[fd'[s]] = "up" => Heard(fd[s])' # {} /\ fd'[s] = fd[s]
    BY <1>1, <1>2, <1>4 DEF RoomInv
  <1>9. \A s \in joined' : Whispers(outq'[fd'[s]], nick'[s])
    BY <1>5
  <1>10. QED
    BY <1>4, <1>6, <1>7, <1>8, <1>9 DEF RoomInv, Heard
------------------------------------------------------------------------------
(* A member joins: his own stream gets the acknowledgement and the lines   *)
(* of the history, the others' one notice.                                 *)
LEMMA WelcomeIs ==
  ASSUME NEW q, IsSeq(q), NEW a, NEW h, IsSeq(h)
  PROVE  /\ IsSeq(q \o (<<a>> \o h))
         /\ Len(q \o (<<a>> \o h)) = Len(q) + 1 + Len(h)
         /\ \A k \in 1 .. Len(q) : (q \o (<<a>> \o h))[k] = q[k]
         /\ (q \o (<<a>> \o h))[Len(q) + 1] = a
         /\ \A k \in 1 .. Len(h) : (q \o (<<a>> \o h))[Len(q) + 1 + k] = h[k]
  <1> DEFINE g == <<a>> \o h
  <1>1. Len(q) \in Nat /\ Len(h) \in Nat
    BY DEF IsSeq
  <1>2. IsSeq(<<a>>) /\ Len(<<a>>) = 1 /\ <<a>>[1] = a /\ 1 \in 1 .. 1
    BY OneIs
  <1>3. /\ IsSeq(g) /\ Len(g) = 1 + Len(h) /\ g[1] = a
        /\ \A k \in 1 .. Len(h) : g[1 + k] = h[k]
    BY <1>2, Appended
  <1> HIDE DEF g
  <1>4. /\ IsSeq(q \o g) /\ Len(q \o g) = Len(q) + Len(g)
        /\ \A k \in 1 .. Len(q) : (q \o g)[k] = q[k]
        /\ \A k \in 1 .. Len(g) : (q \o g)[Len(q) + k] = g[k]
    BY SMTT(30), <1>3, Appended
  <1>5. (q \o g)[Len(q) + 1] = a
    BY <1>1, <1>3, <1>4
  <1>6. ASSUME NEW k \in 1 .. Len(h) PROVE (q \o g)[Len(q) + 1 + k] = h[k]
    <2>1. 1 + k \in 1 .. Len(g) /\ Len(q) + 1 + k = Len(q) + (1 + k)
      BY <1>1, <1>3
    <2>2. QED
      BY <1>3, <1>4, <2>1
  <1>7. Len(q \o g) = Len(q) + 1 + Len(h)
    BY <1>1, <1>3, <1>4
  <1>8. QED
    BY <1>4, <1>5, <1>6, <1>7 DEF g

LEMMA HearsWelcome ==
  ASSUME NEW q, IsSeq(q), Says(q, Talk) = {},
         NEW a, a.type = "JOIN_ACK", NEW h, IsSeq(h), \A k \in 1 .. Len(h) : h[k].type = "HISTORY"
  PROVE  /\ Says(q \o (<<a>> \o h), Talk) # {}
         /\ AckFirst(q \o (<<a>> \o h))
         /\ \A n : Whispers(q \o (<<a>> \o h), n)
         /\ Says(q \o (<<a>> \o h), {"NOTIFY"}) = {}
  <1> DEFINE r == q \o (<<a>> \o h)
  <1>1. /\ Len(r) = Len(q) + 1 + Len(h) /\ Len(q) \in Nat /\ Len(h) \in Nat
        /\ \A k \in 1 .. Len(q) : r[k] = q[k]
        /\ r[Len(q) + 1] = a
        /\ \A k \in 1 .. Len(h) : r[Len(q) + 1 + k] = h[k]
    BY WelcomeIs DEF IsSeq
  <1> HIDE DEF r
  <1>2. \A k \in 1 .. Len(q) : q[k].type \notin Talk
    BY DEF Says
  <1>3. ASSUME NEW k \in 1 .. Len(r), k > Len(q) + 1
        PROVE  r[k].type = "HISTORY"
    <2>1. k - Len(q) - 1 \in 1 .. Len(h) /\ Len(q) + 1 + (k - Len(q) - 1) = k
      BY <1>1, <1>3
    <2>2. QED
      BY ZenonT(30), <1>1, <2>1
  <1>4. Len(q) + 1 \in Says(r, Talk)
    BY <1>1 DEF Says, Talk
  <1>5. ASSUME NEW k \in Says(r, Talk)
        PROVE  k \in Int /\ (k = Len(q) + 1 \/ (k > Len(q) + 1 /\ r[k].type = "HISTORY"))
    <2>1. k \in 1 .. Len(r) /\ r[k].type \in Talk
      BY DEF Says
    <2>2. k \notin 1 .. Len(q)
      BY <1>1, <1>2, <2>1
    <2>3. QED
      BY <1>1, <1>3, <2>1, <2>2
  <1>6. AckFirst(r)
    <2>1. ASSUME NEW k \in Says(r, Talk)
          PROVE  r[k].type = "JOIN_ACK" <=> \A j \in Says(r, Talk) : k <= j
      <3>1. CASE k = Len(q) + 1
        <4>1. r[k].type = "JOIN_ACK"
          BY <1>1, <3>1
        <4>2. \A j \in Says(r, Talk) : k <= j
          BY <1>1, <1>5, <3>1
        <4>3. QED
          BY <4>1, <4>2
      <3>2. CASE k > Len(q) + 1 /\ r[k].type = "HISTORY"
        <4>1. ~(k <= Len(q) + 1)
          BY <1>1, <1>5, <3>2
        <4>2. QED
          BY <1>4, <3>2, <4>1
      <3>3. QED
        BY <1>5, <3>1, <3>2
    <2>2. QED
      BY <2>1 DEF AckFirst
  <1>7. ASSUME NEW n PROVE Whispers(r, n)
    <2>1. ASSUME NEW k \in Says(r, {"PRIVATE"}) PROVE FALSE
      <3>1. k \in Says(r, Talk) /\ r[k].type = "PRIVATE"
        BY DEF Says, Talk
      <3>2. QED
        BY <1>1, <1>5, <3>1
    <2>2. QED
      BY <2>1 DEF Whispers
  <1>8. Says(r, {"NOTIFY"}) = {}
    <2>1. ASSUME NEW k \in Says(r, {"NOTIFY"}) PROVE FALSE
      <3>1. k \in Says(r, Talk) /\ r[k].type = "NOTIFY"
        BY DEF Says, Talk
      <3>2. QED
        BY <1>1, <1>5, <3>1
    <2>2. QED
      BY <2>1
  <1>9. QED
    BY <1>4, <1>6, <1>7, <1>8 DEF r

LEMMA JoinWrites ==
  ASSUME TypeInv, TableInv, RingOK, i \in used, NEW n, AcceptJoin(i, n)
  PROVE  LET c == fd[i]
             h == HistoryFrames
             note == Msg("NOTIFY", <<"JOIN", n>>)
         IN /\ c \in Conns /\ i \notin joined
            /\ \A s \in joined : fd[s] \in Conns /\ fd[s] # c
            /\ IsSeq(h) /\ Len(h) = hist_count
            /\ \A k \in 1 .. Len(h) : h[k] = Msg("HISTORY", Replay[k])
            /\ \A d \in Conns : peer'[d] = "up" => peer[d] = "up"
            /\ outq'[c] = outq[c] \/ outq'[c] = outq[c] \o (<<Ack(i, n)>> \o h)
            /\ peer[c] = "up" => outq'[c] = outq[c] \o (<<Ack(i, n)>> \o h)
            /\ \A d \in Conns \ {c} :
                 \/ outq'[d] = outq[d]
                 \/ /\ \E s \in joined : fd[s] = d
                    /\ peer[d] = "up" /\ outq'[d] = outq[d] \o <<note>>
            /\ pc' # "dead" /\ peer[c] # "rst" =>
                 \A s \in joined : peer[fd[s]] = "up" => outq'[fd[s]] = outq[fd[s]] \o <<note>>
  <1> DEFINE c == fd[i]
             h == HistoryFrames
             note == Msg("NOTIFY", <<"JOIN", n>>)
             others == FdsOf(Members \ {i})
             to == IF peer[c] = "rst" THEN <<c>> ELSE <<c>> \o others
             out == [x \in Conns |-> IF x = c THEN <<Ack(i, n)>> \o h ELSE <<note>>]
             R == {to[k] : k \in 1 .. Len(to)}
  <1>1. /\ i \notin joined /\ joined \subseteq used /\ used \subseteq Slots
        /\ Emit(to, out, "process") /\ TypeOK
    BY DEF AcceptJoin, TypeInv, TypeOK
  <1>2. c \in Conns /\ \A s \in joined : fd[s] \in Conns /\ fd[s] # c
    BY <1>1 DEF TypeInv, SlotsFilled, TableInv, OneSlotPerConnection
  <1>3. Members \ {i} = joined
    BY <1>1 DEF Members
  <1>4. IsSeq(h) /\ Len(h) = hist_count /\ \A k \in 1 .. Len(h) : h[k] = Msg("HISTORY", Replay[k])
    <2>1. hist_count \in Nat /\ Len(Replay) = hist_count
      BY HistoryAssumption DEF RingOK, Replay
    <2>2. h = [k \in 1 .. hist_count |-> Msg("HISTORY", Replay[k])]
      BY <2>1 DEF HistoryFrames
    <2>3. h \in Seq({Msg("HISTORY", Replay[k]) : k \in 1 .. hist_count})
      BY <2>1, <2>2
    <2> HIDE DEF h
    <2>4. Len(h) = hist_count
      BY <2>1, <2>2, <2>3, LenProperties
    <2>5. QED
      BY <2>2, <2>3, <2>4, SeqIs
  <1>5. /\ IsSeq(to) /\ Len(to) > 0 /\ to[1] = c
        /\ R \subseteq {c} \cup {fd[s] : s \in joined}
        /\ peer[c] # "rst" => R = {c} \cup {fd[s] : s \in joined}
    <2>1. IsSeq(<<c>>) /\ Len(<<c>>) = 1 /\ <<c>>[1] = c
      BY OneIs
    <2>2. CASE peer[c] = "rst"
      BY <2>1, <2>2
    <2>3. CASE peer[c] # "rst"
      <3>1. /\ IsSeq(others) /\ Len(others) \in Nat
            /\ {others[k] : k \in 1 .. Len(others)} = {fd[s] : s \in joined}
        BY <1>1, <1>3, FdsAre DEF IsSeq
      <3>2. to = <<c>> \o others
        BY <2>3
      <3> HIDE DEF others, to
      <3>3. /\ IsSeq(to) /\ Len(to) = 1 + Len(others) /\ to[1] = c
            /\ \A k \in 1 .. Len(others) : to[1 + k] = others[k]
        BY <2>1, <3>1, <3>2, Appended
      <3>4. \A k \in 1 .. Len(to) : k = 1 \/ (k - 1 \in 1 .. Len(others) /\ to[k] = others[k - 1])
        BY <3>1, <3>3
      <3>5. \A k \in 1 .. Len(to) : to[k] \in {c} \cup {fd[s] : s \in joined}
        BY <3>1, <3>3, <3>4
      <3>6. 1 \in 1 .. Len(to) /\ \A k \in 1 .. Len(others) : 1 + k \in 1 .. Len(to)
        BY <3>1, <3>3
      <3>7. \A d \in {c} \cup {fd[s] : s \in joined} : \E k \in 1 .. Len(to) : to[k] = d
        BY <3>1, <3>3, <3>6
      <3>8. R = {c} \cup {fd[s] : s \in joined}
        BY <3>5, <3>7
      <3> HIDE DEF R, c
      <3>9. Len(to) > 0
        BY <3>1, <3>3
      <3>10. QED
        BY <3>3, <3>8, <3>9
    <2>4. QED
      BY <2>2, <2>3
  <1> HIDE DEF h, note, others, to, R
  <1>6. out[c] = <<Ack(i, n)>> \o h /\ \A d \in Conns \ {c} : out[d] = <<note>>
    BY <1>2
  <1> HIDE DEF out
  <1>7. /\ Writes(R, out)
        /\ peer[c] = "up" => outq'[c] = outq[c] \o out[c]
    BY <1>1, <1>2, <1>5, EmitIs DEF R
  <1>8. PICK W \in SUBSET R :
          /\ pc' # "dead" => W = R
          /\ \A d \in Conns :
               /\ peer'[d] = "up" => peer[d] = "up"
               /\ outq'[d] = IF d \in W /\ peer[d] = "up" THEN outq[d] \o out[d] ELSE outq[d]
    BY <1>7 DEF Writes
  <1>9. ASSUME NEW d \in Conns \ {c}
        PROVE  \/ outq'[d] = outq[d]
               \/ /\ \E s \in joined : fd[s] = d
                  /\ peer[d] = "up" /\ outq'[d] = outq[d] \o <<note>>
    <2>1. CASE d \in W /\ peer[d] = "up"
      <3>1. outq'[d] = outq[d] \o <<note>>
        BY <1>6, <1>8, <2>1
      <3>2. d \in R /\ d # c
        BY <2>1
      <3>3. \E s \in joined : fd[s] = d
        BY <1>5, <3>2
      <3>4. QED
        BY <2>1, <3>1, <3>3
    <2>2. QED
      BY <1>8, <2>1
  <1>10. ASSUME pc' # "dead", peer[c] # "rst", NEW s \in joined, peer[fd[s]] = "up"
         PROVE  outq'[fd[s]] = outq[fd[s]] \o <<note>>
    <2>1. fd[s] \in W /\ fd[s] \in Conns \ {c}
      BY <1>2, <1>5, <1>8, <1>10
    <2>2. QED
      BY <1>6, <1>8, <1>10, <2>1
  <1>11. outq'[c] = outq[c] \/ outq'[c] = outq[c] \o (<<Ack(i, n)>> \o h)
    BY <1>2, <1>6, <1>8
  <1>12. \A d \in Conns : peer'[d] = "up" => peer[d] = "up"
    BY <1>8
  <1>13. peer[c] = "up" => outq'[c] = outq[c] \o (<<Ack(i, n)>> \o h)
    BY <1>6, <1>7
  <1>14. QED
    BY <1>1, <1>2, <1>4, <1>9, <1>10, <1>11, <1>12, <1>13 DEF h, note

LEMMA RoomJoins ==
  ASSUME TypeInv, TableInv, RingOK, RoomInv, i \in used, UNCHANGED <<used, fd, link>>,
         NEW n, AcceptJoin(i, n)
  PROVE  RoomInv'
  <1> DEFINE c == fd[i]
             h == HistoryFrames
             a == Ack(i, n)
             note == Msg("NOTIFY", <<"JOIN", n>>)
  <1>1. /\ c \in Conns /\ i \notin joined
        /\ \A s \in joined : fd[s] \in Conns /\ fd[s] # c
        /\ IsSeq(h) /\ \A k \in 1 .. Len(h) : h[k] = Msg("HISTORY", Replay[k])
        /\ \A d \in Conns : peer'[d] = "up" => peer[d] = "up"
        /\ outq'[c] = outq[c] \/ outq'[c] = outq[c] \o (<<a>> \o h)
        /\ peer[c] = "up" => outq'[c] = outq[c] \o (<<a>> \o h)
        /\ \A d \in Conns \ {c} :
             \/ outq'[d] = outq[d]
             \/ /\ \E s \in joined : fd[s] = d
                /\ peer[d] = "up" /\ outq'[d] = outq[d] \o <<note>>
    BY JoinWrites
  <1>2. /\ a.type = "JOIN_ACK" /\ note.type = "NOTIFY"
        /\ \A k \in 1 .. Len(h) : h[k].type = "HISTORY"
    <2>1. a.type = "JOIN_ACK" /\ note.type = "NOTIFY"
      BY DEF Ack, Msg
    <2> HIDE DEF h, a, note
    <2>2. ASSUME NEW k \in 1 .. Len(h) PROVE h[k].type = "HISTORY"
      <3>1. h[k] = Msg("HISTORY", Replay[k])
        BY <1>1
      <3>2. QED
        BY <3>1 DEF Msg
    <2>3. QED
      BY <2>1, <2>2
  <1> HIDE DEF h, a, note
  <1>3. /\ joined' = joined \cup {i} /\ nick' = [nick EXCEPT ![i] = n]
        /\ i \in Slots /\ joined \subseteq Slots /\ nick \in [Slots -> Nicks \cup {NoNick}]
    BY DEF AcceptJoin, TypeInv, TypeOK
  <1>4. Stranger(c) /\ Says(outq[c], Talk) = {} /\ IsSeq(outq[c])
    <2>1. Stranger(c)
      BY <1>1 DEF Stranger
    <2>2. QED
      BY <1>1, <2>1 DEF RoomInv, Heard, Wire
  <1>5. /\ IsSeq(outq'[c]) /\ AckFirst(outq'[c])
        /\ peer[c] = "up" => Says(outq'[c], Talk) # {}
        /\ \A m : Whispers(outq'[c], m)
    <2>1. /\ IsSeq(outq[c] \o (<<a>> \o h))
          /\ Says(outq[c] \o (<<a>> \o h), Talk) # {}
          /\ AckFirst(outq[c] \o (<<a>> \o h))
          /\ \A m : Whispers(outq[c] \o (<<a>> \o h), m)
      <3>1. IsSeq(outq[c] \o (<<a>> \o h))
        BY <1>1, <1>4, WelcomeIs
      <3> HIDE DEF c
      <3>2. QED
        BY <1>1, <1>2, <1>4, <3>1, HearsWelcome
    <2>2. AckFirst(outq[c]) /\ \A m : Whispers(outq[c], m)
      <3>1. Says(outq[c], {"PRIVATE"}) = {}
        BY <1>4 DEF Says, Talk
      <3>2. QED
        BY <1>1, <3>1 DEF RoomInv, Whispers
    <2>3. QED
      BY <1>1, <1>4, <2>1, <2>2
  <1>6. ASSUME NEW d \in Conns, d # c
        PROVE  /\ IsSeq(outq'[d]) /\ AckFirst(outq'[d])
               /\ Stranger(d) => Says(outq'[d], Talk) = {}
               /\ Says(outq[d], Talk) # {} => Says(outq'[d], Talk) # {}
               /\ \A m : Says(outq[d], Talk) # {} /\ Whispers(outq[d], m) => Whispers(outq'[d], m)
    <2>1. IsSeq(outq[d]) /\ AckFirst(outq[d]) /\ (Stranger(d) => Says(outq[d], Talk) = {})
      BY DEF RoomInv, Wire, Heard
    <2>2. CASE outq'[d] = outq[d]
      BY <2>1, <2>2
    <2>3. CASE /\ \E s \in joined : fd[s] = d
               /\ peer[d] = "up" /\ outq'[d] = outq[d] \o <<note>>
      <3>1. PICK s \in joined : fd[s] = d
        BY <2>3
      <3>2. Says(outq[d], Talk) # {} /\ ~Stranger(d)
        <4>1. ~Stranger(d)
          BY <3>1 DEF Stranger, TableInv, OneSlotPerConnection, TypeInv, TypeOK
        <4>2. Says(outq[fd[s]], Talk) # {}
          BY <2>3, <3>1 DEF RoomInv, Heard
        <4>3. QED
          BY <3>1, <4>1, <4>2
      <3>3. note.type \in Talk /\ note.type # "JOIN_ACK" /\ note.type # "PRIVATE"
        BY <1>2 DEF Talk
      <3>4. IsSeq(outq'[d])
        BY <2>1, <2>3, SaysMore
      <3>5. /\ Says(outq[d] \o <<note>>, Talk) # {} /\ AckFirst(outq[d] \o <<note>>)
            /\ \A m : Whispers(outq[d], m) => Whispers(outq[d] \o <<note>>, m)
        BY <2>1, <3>2, <3>3, HearsTalk
      <3>6. QED
        BY <2>3, <3>2, <3>4, <3>5
    <2>4. QED
      BY <1>1, <1>6, <2>2, <2>3
  <1>7. Wire'
    BY <1>5, <1>6 DEF Wire
  <1>8. ASSUME NEW d \in Conns, Stranger(d)'
        PROVE  Says(outq'[d], Talk) = {}
    <2>1. link[d] \in {"idle", "backlog"} \/ \E s \in used \ joined' : fd[s] = d
      BY <1>8 DEF Stranger
    <2>2. Stranger(d)
      BY <1>3, <2>1 DEF Stranger
    <2>3. d # c
      <3>1. link[c] = "open" /\ \A s \in used : fd[s] = c => s = i
        BY <1>1 DEF TableInv, OneSlotPerConnection
      <3> HIDE DEF c
      <3>2. QED
        BY <1>3, <2>1, <3>1
    <2>4. QED
      BY <1>6, <2>2, <2>3
  <1>9. ASSUME NEW s \in joined'
        PROVE  /\ peer'[fd[s]] = "up" => Says(outq'[fd[s]], Talk) # {}
               /\ Whispers(outq'[fd[s]], nick'[s])
    <2>1. CASE s = i
      BY <1>1, <1>5, <2>1
    <2>2. CASE s # i
      <3>1. /\ s \in joined /\ fd[s] \in Conns /\ fd[s] # c
            /\ nick'[s] = nick[s] /\ Whispers(outq[fd[s]], nick[s])
        BY <1>1, <1>3, <2>2 DEF RoomInv
      <3>2. peer'[fd[s]] = "up" => Says(outq'[fd[s]], Talk) # {}
        BY <1>1, <1>6, <3>1 DEF RoomInv, Heard
      <3>3. Whispers(outq'[fd[s]], nick[s])
        BY <1>1, <1>6, <3>1 DEF RoomInv, Heard
      <3>4. QED
        BY <3>1, <3>2, <3>3
    <2>3. QED
      BY <2>1, <2>2
  <1>10. \A d \in Conns : AckFirst(outq'[d])
    BY <1>5, <1>6
  <1>11. QED
    BY <1>7, <1>8, <1>9, <1>10 DEF RoomInv, Heard
------------------------------------------------------------------------------
(* What the steps of the system are to the room.                           *)
StrangersStay == \A c \in Conns : Stranger(c)' => Stranger(c)

Stays ==
  /\ StrangersStay /\ joined' = joined /\ silent' = silent
  /\ \A s \in joined : fd'[s] = fd[s] /\ nick'[s] = nick[s]

Loses(x) ==
  /\ StrangersStay /\ x \in joined /\ joined' = joined \ {x}
  /\ \A s \in joined' : fd'[s] = fd[s] /\ nick'[s] = nick[s]

(* Nothing, or a frame that is none of the talk.                           *)
Aside == \E R, m :
  m.type \notin Talk /\ Delivers(R, m) /\ Stays /\ UNCHANGED saidVars

Whisper == \E R, m :
  /\ m.type = "PRIVATE" /\ Delivers(R, m)
  /\ \A c \in R : \E s \in joined : fd[s] = c
  /\ \A s \in joined : fd[s] \in R => nick[s] \in {m.arg[1], m.arg[2]}
  /\ Stays /\ UNCHANGED saidVars

Speech == \E line \in Lines :
  /\ Delivers({fd[s] : s \in joined}, Msg("BROADCAST", line))
  /\ hist_push(line) /\ said' = Append(said, line) /\ Stays

(* A member leaves, with the notice to the others or without one.          *)
Farewell == \E x :
  /\ Loses(x) /\ silent' = silent
  /\ Delivers({fd[s] : s \in joined \ {x}}, Msg("NOTIFY", <<"PART", nick[x]>>))
  /\ UNCHANGED saidVars

CutOff == \E x :
  Loses(x) /\ silent' = silent \cup {nick[x]} /\ UNCHANGED <<peer, outq, saidVars>>

Welcome == \E n \in Nicks :
  i \in used /\ AcceptJoin(i, n) /\ UNCHANGED <<used, fd, link, saidVars>>

(* Steps that write nothing.                                               *)
LEMMA AsideQuiet ==
  ASSUME UNCHANGED <<outq, saidVars>>, Stays, \A c \in Conns : peer'[c] = "up" => peer[c] = "up"
  PROVE  Aside
  <1> DEFINE m == Msg("ERROR", 0)
  <1>1. m.type \notin Talk
    BY DEF Msg, Talk
  <1> HIDE DEF m
  <1>2. Delivers({}, m)
    BY EmitNoneIs
  <1>3. QED
    BY <1>1, <1>2 DEF Aside

LEMMA StaysSame ==
  ASSUME UNCHANGED <<used, joined, fd, nick, link, silent>>
  PROVE  Stays
  BY DEF Stays, StrangersStay, Stranger

LEMMA AsideStill ==
  ASSUME UNCHANGED <<used, joined, fd, nick, link, silent, peer, outq, saidVars>>
  PROVE  Aside
  BY AsideQuiet, StaysSame

LEMMA AsideReply ==
  ASSUME TypeInv, UNCHANGED <<used, joined, fd, nick, link, silent, saidVars>>,
         NEW s, NEW m, Reply(s, m), m.type \in {"ERROR", "LIST_REPLY"}
  PROVE  Aside
  <1>1. Delivers({fd[s]}, m)
    BY ReplyIs DEF Reply
  <1>2. m.type \notin Talk
    BY DEF Talk
  <1>3. QED
    BY <1>1, <1>2, StaysSame DEF Aside

(* A slot closes: its member, if there is one, is no longer one.           *)
LEMMA ClosesSlot ==
  ASSUME TypeInv, NEW s \in used, close_slot(s)
  PROVE  /\ s \in joined => Loses(s)
         /\ s \notin joined /\ silent' = silent => Stays
  <1>1. /\ used \subseteq Slots /\ joined \subseteq used
        /\ fd \in [Slots -> Conns \cup {NoConn}]
        /\ nick \in [Slots -> Nicks \cup {NoNick}]
        /\ link \in [Conns -> {"idle", "backlog", "open", "closed"}]
        /\ fd[s] \in Conns
    BY DEF TypeInv, TypeOK, SlotsFilled
  <1>2. /\ link' = [link EXCEPT ![fd[s]] = "closed"]
        /\ used' = used \ {s} /\ joined' = joined \ {s}
        /\ fd' = [fd EXCEPT ![s] = NoConn]
        /\ nick' = [nick EXCEPT ![s] = NoNick]
    BY DEF close_slot
  <1>3. StrangersStay
    BY <1>1, <1>2 DEF StrangersStay, Stranger
  <1>4. \A t \in joined' : fd'[t] = fd[t] /\ nick'[t] = nick[t]
    BY <1>1, <1>2
  <1>5. s \notin joined => joined' = joined
    BY <1>2
  <1>6. QED
    BY <1>2, <1>3, <1>4, <1>5 DEF Loses, Stays

LEMMA RemovesClient ==
  ASSUME TypeInv, NEW s \in used, remove_client_index(s), UNCHANGED <<silent, saidVars>>
  PROVE  Aside \/ Farewell
  <1> DEFINE m == Msg("NOTIFY", <<"PART", nick[s]>>)
  <1>1. close_slot(s) /\ joined \subseteq used /\ used \subseteq Slots
    BY DEF remove_client_index, TypeInv, TypeOK
  <1>2. CASE s \in joined
    <2>1. EmitAll(FdsOf(Members \ {s}), m, "scan")
      BY <1>2 DEF remove_client_index
    <2>2. Members \ {s} \in SUBSET Slots /\ Members \ {s} = joined \ {s}
      BY <1>1 DEF Members
    <2> HIDE DEF m
    <2>3. Delivers({fd[t] : t \in joined \ {s}}, m)
      BY <2>1, <2>2, EmitMembersIs
    <2>4. Loses(s)
      BY <1>1, <1>2, ClosesSlot
    <2>5. QED
      BY <2>3, <2>4 DEF Farewell, m
  <1>3. CASE s \notin joined
    <2>1. UNCHANGED <<peer, outq>>
      BY <1>3 DEF remove_client_index, EmitNone, wireVars
    <2>2. Stays
      BY <1>1, <1>3, ClosesSlot
    <2>3. QED
      BY <2>1, <2>2, AsideQuiet
  <1>4. QED
    BY <1>2, <1>3

LEMMA AcceptsClient ==
  ASSUME TypeInv, TableInv, AcceptClient
  PROVE  Aside
  <1> DEFINE c == Head(backlog)
  <1>1. PICK s \in Slots \ used : add_client(c, s)
    BY DEF AcceptClient, First
  <1>2. /\ link' = [link EXCEPT ![c] = "open"]
        /\ used' = used \cup {s} /\ joined' = joined \ {s}
        /\ fd' = [fd EXCEPT ![s] = c]
        /\ nick' = [nick EXCEPT ![s] = NoNick]
        /\ UNCHANGED <<peer, outq, silent, saidVars>>
        /\ backlog # <<>> /\ backlog' = Tail(backlog)
    BY <1>1 DEF AcceptClient, add_client, EmitNone, wireVars, TypeInv, Control
  <1>3. c \in Conns /\ link[c] = "backlog"
    BY <1>2, WaitingTail
  <1>4. /\ used \subseteq Slots /\ joined \subseteq used
        /\ fd \in [Slots -> Conns \cup {NoConn}]
        /\ nick \in [Slots -> Nicks \cup {NoNick}]
        /\ link \in [Conns -> {"idle", "backlog", "open", "closed"}]
    BY DEF TypeInv, TypeOK
  <1>5. joined' = joined /\ \A t \in joined : fd'[t] = fd[t] /\ nick'[t] = nick[t]
    BY <1>1, <1>2, <1>4
  <1>6. ASSUME NEW d \in Conns, Stranger(d)' PROVE Stranger(d)
    <2>1. link'[d] \in {"idle", "backlog"} \/ \E t \in used' \ joined' : fd'[t] = d
      BY <1>6 DEF Stranger
    <2>2. CASE d = c
      BY <1>3, <2>2 DEF Stranger
    <2>3. CASE d # c
      BY <1>1, <1>2, <1>4, <1>5, <2>1, <2>3 DEF Stranger
    <2>4. QED
      BY <2>2, <2>3
  <1>7. Stays
    BY <1>2, <1>5, <1>6 DEF Stays, StrangersStay
  <1>8. QED
    BY <1>2, <1>7, AsideQuiet

LEMMA RefusesClient ==
  ASSUME TypeInv, RefuseClient
  PROVE  Aside
  <1> DEFINE m == Msg("ERROR", "Server full")
  <1>1. /\ link' = [link EXCEPT ![Head(backlog)] = "closed"]
        /\ UNCHANGED <<used, joined, fd, nick, silent, saidVars>>
        /\ \/ pc' = "dead" /\ UNCHANGED wireVars
           \/ EmitAll(<<Head(backlog)>>, m, "scan")
    BY DEF RefuseClient, tableVars
  <1>2. m.type \notin Talk
    BY DEF Msg, Talk
  <1> HIDE DEF m
  <1>3. Delivers({Head(backlog)}, m)
    <2>1. CASE pc' = "dead" /\ UNCHANGED wireVars
      <3>1. {} \in SUBSET {Head(backlog)}
        OBVIOUS
      <3>2. QED
        BY <2>1, <3>1 DEF Delivers, Writes, wireVars
    <2>2. CASE EmitAll(<<Head(backlog)>>, m, "scan")
      BY <2>2, ReplyIs
    <2>3. QED
      BY <1>1, <2>1, <2>2
  <1>4. Stays
    BY <1>1 DEF Stays, StrangersStay, Stranger, TypeInv, TypeOK
  <1>5. QED
    BY <1>1, <1>2, <1>3, <1>4 DEF Aside

LEMMA BroadcastIs ==
  ASSUME TypeInv, HandleBroadcast
  PROVE  Aside \/ Speech
  <1> DEFINE line == <<nick[i], Head(inbuf[i]).arg>>
             m == Msg("BROADCAST", line)
  <1>1. /\ handle_broadcast(i, Head(inbuf[i]).arg)
        /\ UNCHANGED <<used, joined, fd, nick, link, silent>>
        /\ Head(inbuf[i]).arg \in Texts
    BY HeadTyped DEF HandleBroadcast, Frames, Frame, handle_broadcast, Handled, netVars
  <1>2. CASE i \in joined
    <2>1. EmitAll(FdsOf(Members), m, "process") /\ hist_push(line) /\ said' = Append(said, line)
      BY <1>1, <1>2 DEF handle_broadcast
    <2>2. line \in Lines
      BY <1>1, <1>2, ServerAssumption DEF TypeInv, MembersNamed
    <2>3. Members \in SUBSET Slots /\ Members = joined
      BY DEF Members, TypeInv, TypeOK
    <2>4. Delivers({fd[t] : t \in joined}, m)
      <3> HIDE DEF m
      <3>1. QED
        BY <2>1, <2>3, EmitMembersIs
    <2>5. Stays
      BY <1>1, StaysSame
    <2> HIDE DEF line
    <2>6. QED
      BY <2>1, <2>2, <2>4, <2>5 DEF Speech
  <1>3. CASE i \notin joined
    BY <1>1, <1>3, AsideStill DEF handle_broadcast, EmitNone, wireVars
  <1>4. QED
    BY <1>2, <1>3

LEMMA PrivateIs ==
  ASSUME TypeInv, TableInv, HandlePrivate
  PROVE  Aside \/ Whisper
  <1> DEFINE target == Head(inbuf[i]).arg
             m == Msg("PRIVATE", <<nick[i], target>>)
  <1>1. /\ handle_private(i, target)
        /\ UNCHANGED <<used, joined, fd, nick, link, silent, saidVars>>
        /\ joined \subseteq used
    BY DEF HandlePrivate, handle_private, Handled, netVars, TypeInv, TypeOK
  <1>2. CASE i \notin joined
    BY <1>1, <1>2, AsideStill DEF handle_private, EmitNone, wireVars
  <1>3. CASE i \in joined /\ find_by_nick(target) = {}
    <2>1. Reply(i, Msg("ERROR", "User not found")) /\ Msg("ERROR", "User not found").type = "ERROR"
      BY <1>1, <1>3 DEF handle_private, Msg
    <2>2. QED
      BY <1>1, <2>1, AsideReply
  <1>4. CASE i \in joined /\ find_by_nick(target) # {}
    <2>1. PICK t \in find_by_nick(target) :
            EmitAll(IF t = i \/ peer[fd[t]] = "rst" THEN <<fd[t]>> ELSE <<fd[t], fd[i]>>, m, "process")
      BY <1>1, <1>4 DEF handle_private
    <2>2. t \in joined /\ nick[t] = target /\ fd[t] \in Conns /\ fd[i] \in Conns
      BY <1>1, <1>4 DEF find_by_nick, First, Members, TypeInv, SlotsFilled
    <2>3. m.type = "PRIVATE" /\ m.arg[1] = nick[i] /\ m.arg[2] = nick[t]
      BY <2>2 DEF Msg
    <2> HIDE DEF m
    <2>4. PICK R \in SUBSET {fd[t], fd[i]} : Delivers(R, m)
      <3>1. CASE t = i \/ peer[fd[t]] = "rst"
        BY <2>1, <3>1, ReplyIs
      <3>2. CASE ~(t = i \/ peer[fd[t]] = "rst")
        BY <2>1, <3>2, EmitTwoIs
      <3>3. QED
        BY <3>1, <3>2
    <2>5. \A c \in R : \E s \in joined : fd[s] = c
      BY <1>4, <2>2
    <2>6. ASSUME NEW s \in joined, fd[s] \in R
          PROVE  nick[s] \in {m.arg[1], m.arg[2]}
      <3>1. s = t \/ s = i
        BY <1>1, <1>4, <2>2, <2>6 DEF TableInv, OneSlotPerConnection
      <3>2. QED
        BY <2>3, <3>1
    <2>7. QED
      BY <1>1, <2>3, <2>4, <2>5, <2>6, StaysSame DEF Whisper
  <1>5. QED
    BY <1>2, <1>3, <1>4

LEMMA JoinIs ==
  ASSUME TypeInv, HandleJoin
  PROVE  Aside \/ Welcome
  <1> DEFINE n == Head(inbuf[i]).arg
  <1>1. /\ RefuseJoin(i, n) \/ AcceptJoin(i, n)
        /\ UNCHANGED <<used, fd, link, saidVars>> /\ i \in used
        /\ n \in Nicks \cup {BadNick}
    BY HeadTyped DEF HandleJoin, handle_join, Handled, Frames, Frame, netVars, TypeInv, Control
  <1>2. CASE RefuseJoin(i, n)
    <2>1. PICK text : Reply(i, Msg("ERROR", text))
      BY <1>2 DEF RefuseJoin
    <2>2. Msg("ERROR", text).type = "ERROR" /\ UNCHANGED <<joined, nick, silent>>
      BY <1>2 DEF Msg, RefuseJoin
    <2>3. QED
      BY <1>1, <2>1, <2>2, AsideReply
  <1>3. CASE AcceptJoin(i, n)
    <2>1. n \in Nicks
      BY <1>1, <1>3 DEF AcceptJoin
    <2>2. QED
      BY <1>1, <1>3, <2>1 DEF Welcome
  <1>4. QED
    BY <1>1, <1>2, <1>3

LEMMA InvalidIs ==
  ASSUME TypeInv, HandleInvalid
  PROVE  Aside \/ CutOff
  <1>1. /\ i \in used /\ close_slot(i) /\ UNCHANGED <<peer, outq, saidVars>>
        /\ silent' = IF i \in joined THEN silent \cup {nick[i]} ELSE silent
    BY DEF HandleInvalid, Frames, EmitNone, wireVars, TypeInv, Control
  <1>2. CASE i \in joined
    BY <1>1, <1>2, ClosesSlot DEF CutOff
  <1>3. CASE i \notin joined
    BY <1>1, <1>3, ClosesSlot, AsideQuiet
  <1>4. QED
    BY <1>2, <1>3

LEMMA PeersAside ==
  ASSUME TypeInv, Peers
  PROVE  Aside
  <1>1. PICK c \in Conns : \/ Connect(c)
                           \/ \E f \in Inputs : SendFrame(c, f)
                           \/ \E state \in {"fin", "rst"} : Drop(c, state)
                           \/ ResetArrives(c)
    BY DEF Peers
  <1>2. peer \in [Conns -> PeerStates] /\ link \in [Conns -> {"idle", "backlog", "open", "closed"}]
    BY DEF TypeInv, TypeOK
  <1>3. CASE Connect(c)
    <2>1. /\ link[c] = "idle" /\ link' = [link EXCEPT ![c] = "backlog"]
          /\ UNCHANGED <<used, joined, fd, nick, silent, peer, outq, saidVars>>
      BY <1>3 DEF Connect, tableVars, wireVars
    <2>2. Stays
      BY <1>2, <2>1 DEF Stays, StrangersStay, Stranger
    <2>3. QED
      BY <2>1, <2>2, AsideQuiet
  <1>4. CASE \E f \in Inputs : SendFrame(c, f)
    BY <1>4, AsideStill DEF SendFrame, tableVars, wireVars
  <1>5. CASE (\E state \in {"fin", "rst"} : Drop(c, state)) \/ ResetArrives(c)
    <2>1. UNCHANGED <<used, joined, fd, nick, link, silent, outq, saidVars>>
      BY <1>5 DEF Drop, ResetArrives, tableVars, netVars
    <2>2. PICK state \in {"fin", "rst", "broken"} : peer' = [peer EXCEPT ![c] = state]
      BY <1>5 DEF Drop, ResetArrives
    <2>3. \A d \in Conns : peer'[d] = "up" => peer[d] = "up"
      BY <1>2, <2>2
    <2>4. QED
      BY <2>1, <2>3, AsideQuiet, StaysSame
  <1>6. QED
    BY <1>1, <1>3, <1>4, <1>5

LEMMA StepIs ==
  ASSUME TypeInv, TableInv, [Next]_vars
  PROVE  Aside \/ Whisper \/ Speech \/ Farewell \/ CutOff \/ Welcome
  <1>1. CASE \/ Poll \/ ScanEnds \/ SkipFree \/ ScanQuiet \/ ScanIn \/ Recv
             \/ HandleUnknown \/ HandleNone \/ UNCHANGED vars
    <2>1. UNCHANGED <<used, joined, fd, nick, link, silent, peer, outq, saidVars>>
      BY <1>1 DEF Poll, ScanEnds, SkipFree, ScanQuiet, ScanIn, Recv, HandleUnknown, HandleNone,
                  Handled, EmitNone, tableVars, netVars, wireVars, vars
    <2>2. QED
      BY <2>1, AsideStill
  <1>2. CASE AcceptClient \/ RefuseClient
    BY <1>2, AcceptsClient, RefusesClient
  <1>3. CASE ScanHup
    BY <1>3, RemovesClient DEF ScanHup, TakeEvent
  <1>4. CASE RecvEnd
    <2>1. i \in used
      BY <1>4 DEF RecvEnd, TypeInv, Control
    <2>2. QED
      BY <1>4, <2>1, RemovesClient DEF RecvEnd
  <1>5. CASE HandleList
    <2>1. Reply(i, ListReply) /\ ListReply.type = "LIST_REPLY"
      BY <1>5 DEF HandleList, handle_list, ListReply, Msg
    <2>2. UNCHANGED <<used, joined, fd, nick, link, silent, saidVars>>
      BY <1>5 DEF HandleList, handle_list, Handled, netVars
    <2>3. QED
      BY <2>1, <2>2, AsideReply
  <1>6. CASE Peers
    BY <1>6, PeersAside
  <1>7. QED
    BY <1>1, <1>2, <1>3, <1>4, <1>5, <1>6, JoinIs, BroadcastIs, PrivateIs, InvalidIs
      DEF Next, Server
------------------------------------------------------------------------------
(* Acknowledgements first, private messages to the two.                    *)
LEMMA RoomInit == Init => RoomInv
  <1>1. SUFFICES ASSUME Init PROVE RoomInv
    OBVIOUS
  <1>2. \A c \in Conns : outq[c] = <<>> /\ Says(<<>>, Talk) = {} /\ IsSeq(<<>>)
    BY <1>1 DEF Init, Says, IsSeq
  <1>3. joined = {}
    BY <1>1 DEF Init
  <1>4. QED
    BY <1>2, <1>3 DEF RoomInv, Wire, Heard, AckFirst

LEMMA RoomStep == TypeInv /\ TableInv /\ RingOK /\ RoomInv /\ [Next]_vars => RoomInv'
  <1>1. SUFFICES ASSUME TypeInv, TableInv, RingOK, RoomInv, [Next]_vars PROVE RoomInv'
    OBVIOUS
  <1>2. CASE Aside
    <2>1. PICK R, m : m.type \notin Talk /\ Delivers(R, m) /\ Stays
      BY <1>2 DEF Aside
    <2>2. m.type # "JOIN_ACK" /\ m.type # "PRIVATE"
      BY <2>1 DEF Talk
    <2>3. QED
      BY <1>1, <2>1, <2>2, RoomKeeps DEF Stays, StrangersStay
  <1>3. CASE Whisper
    <2>1. PICK R, m : /\ m.type = "PRIVATE" /\ Delivers(R, m)
                      /\ \A c \in R : \E s \in joined : fd[s] = c
                      /\ \A s \in joined : fd[s] \in R => nick[s] \in {m.arg[1], m.arg[2]}
                      /\ Stays
      BY <1>3 DEF Whisper
    <2>2. QED
      BY <1>1, <2>1, RoomKeeps DEF Stays, StrangersStay
  <1>4. CASE Speech
    <2>1. PICK line : Delivers({fd[s] : s \in joined}, Msg("BROADCAST", line)) /\ Stays
      BY <1>4 DEF Speech
    <2> DEFINE m == Msg("BROADCAST", line)
    <2>2. m.type = "BROADCAST"
      BY DEF Msg
    <2> HIDE DEF m
    <2>3. QED
      BY <1>1, <2>1, <2>2, RoomKeeps DEF Stays, StrangersStay, m
  <1>5. CASE Farewell
    <2>1. PICK x : /\ Loses(x)
                   /\ Delivers({fd[s] : s \in joined \ {x}}, Msg("NOTIFY", <<"PART", nick[x]>>))
      BY <1>5 DEF Farewell
    <2> DEFINE m == Msg("NOTIFY", <<"PART", nick[x]>>)
    <2>2. m.type = "NOTIFY"
      BY DEF Msg
    <2> HIDE DEF m
    <2>3. \A c \in {fd[s] : s \in joined \ {x}} : \E s \in joined : fd[s] = c
      OBVIOUS
    <2>4. \A s \in joined' : s \in joined
      BY <2>1 DEF Loses
    <2>5. QED
      BY <1>1, <2>1, <2>2, <2>3, <2>4, RoomKeeps DEF Loses, StrangersStay, m
  <1>6. CASE CutOff
    <2>1. PICK x : Loses(x) /\ UNCHANGED <<peer, outq>>
      BY <1>6 DEF CutOff
    <2> DEFINE m == Msg("ERROR", 0)
    <2>2. m.type \notin Talk /\ m.type # "JOIN_ACK" /\ m.type # "PRIVATE"
      BY DEF Msg, Talk
    <2> HIDE DEF m
    <2>3. Delivers({}, m)
      BY <2>1, EmitNoneIs
    <2>4. \A s \in joined' : s \in joined
      BY <2>1 DEF Loses
    <2>5. QED
      BY <1>1, <2>1, <2>2, <2>3, <2>4, RoomKeeps DEF Loses, StrangersStay
  <1>7. CASE Welcome
    BY <1>1, <1>7, RoomJoins DEF Welcome
  <1>8. QED
    BY <1>1, <1>2, <1>3, <1>4, <1>5, <1>6, <1>7, StepIs

(* The ring's own invariant holds inside the server.                       *)
LEMMA RingAlways == Spec => []RingOK
  <1>1. Init => HistInit
    BY DEF Init
  <1>2. Spec => HistSpec
    BY <1>1, TypeAlways, HistoryStep, PTL DEF Spec, HistSpec
  <1>3. QED
    BY <1>2, RingInvariant

LEMMA RoomAlways == Spec => []RoomInv
  BY RoomInit, TypeAlways, TableAlways, RingAlways, RoomStep, PTL DEF Spec

(* Nothing of the conversation reaches a connection before its JOIN_ACK,   *)
(* and none is acknowledged twice.                                         *)
THEOREM AcksComeFirst == Spec => []AckComesFirst
  <1>1. RoomInv => AckComesFirst
    BY DEF RoomInv, AckFirst, AckComesFirst, Received, Says, Talk
  <1>2. QED
    BY <1>1, RoomAlways, PTL

(* A private message is only ever found with the two it names, whoever     *)
(* held their slots and nicknames before.                                  *)
THEOREM PrivateStaysPrivate == Spec => []PrivateToTheTwo
  <1>1. RoomInv => PrivateToTheTwo
    BY DEF RoomInv, Whispers, PrivateToTheTwo, Received, Says, Members
  <1>2. QED
    BY <1>1, RoomAlways, PTL
------------------------------------------------------------------------------
(* The last notice about a nickname in a sequence of frames.               *)
Notes(q, n) == {k \in Says(q, {"NOTIFY"}) : q[k].arg[2] = n}
LastOf(q, n) == IF Notes(q, n) = {} THEN "nothing" ELSE q[Max(Notes(q, n))].arg[1]

LEMMA LargestIs ==
  ASSUME NEW N \in Nat, NEW S \in SUBSET (1 .. N), S # {}
  PROVE  Max(S) \in S /\ \A k \in S : k <= Max(S)
  <1> DEFINE T == {N - k : k \in S}
             R == OpToRel(<, Nat)
  <1>1. T \subseteq Nat /\ T # {}
    <2>1. \A k \in S : N - k \in Nat
      OBVIOUS
    <2>2. \E k \in S : N - k \in T
      OBVIOUS
    <2>3. QED
      BY <2>1, <2>2
  <1>2. \E x \in T : \A y \in T : ~(<<y, x>> \in R)
    <2>1. IsWellFoundedOn(R, Nat)
      BY NatLessThanWellFounded
    <2> HIDE DEF R, T
    <2>2. QED
      BY <1>1, <2>1, WFMin
  <1>3. PICK x \in T : \A y \in T : ~(<<y, x>> \in R)
    BY <1>2
  <1>4. \A y \in T : ~(y < x)
    BY <1>1, <1>3 DEF OpToRel
  <1>5. PICK k \in S : x = N - k
    BY <1>3
  <1>6. \A j \in S : k >= j
    <2>1. ASSUME NEW j \in S PROVE k >= j
      <3>1. N - j \in T
        OBVIOUS
      <3> HIDE DEF T
      <3>2. ~(N - j < N - k) /\ j \in 1 .. N /\ k \in 1 .. N
        BY <1>4, <1>5, <3>1
      <3>3. QED
        BY <3>2
    <2>2. QED
      BY <2>1
  <1>7. Max(S) \in S /\ \A j \in S : Max(S) >= j
    BY <1>6 DEF Max
  <1>8. QED
    BY <1>7

LEMMA LastNone ==
  ASSUME NEW q, Says(q, {"NOTIFY"}) = {}, NEW n
  PROVE  LastOf(q, n) = "nothing"
  BY DEF LastOf, Notes

(* A frame that is no notice about n.                                      *)
LEMMA LastSame ==
  ASSUME NEW q, IsSeq(q), NEW n, NEW m, m.type # "NOTIFY" \/ m.arg[2] # n
  PROVE  LastOf(q \o <<m>>, n) = LastOf(q, n)
  <1> DEFINE r == q \o <<m>>
  <1>1. /\ Len(q) \in Nat
        /\ \A k \in 1 .. Len(q) : r[k] = q[k]
        /\ r[Len(q) + 1] = m
        /\ m.type \in {"NOTIFY"} => Says(r, {"NOTIFY"}) = Says(q, {"NOTIFY"}) \cup {Len(q) + 1}
        /\ m.type \notin {"NOTIFY"} => Says(r, {"NOTIFY"}) = Says(q, {"NOTIFY"})
    BY SaysMore DEF IsSeq
  <1> HIDE DEF r
  <1>2. \A k \in Says(q, {"NOTIFY"}) : k \in 1 .. Len(q)
    BY DEF Says
  <1>3. Notes(r, n) = Notes(q, n)
    <2>1. CASE m.type # "NOTIFY"
      BY <1>1, <1>2, <2>1 DEF Notes
    <2>2. CASE m.type = "NOTIFY" /\ m.arg[2] # n
      BY <1>1, <1>2, <2>2 DEF Notes
    <2>3. QED
      BY <2>1, <2>2
  <1>4. CASE Notes(q, n) = {}
    BY <1>3, <1>4 DEF LastOf, r
  <1>5. CASE Notes(q, n) # {}
    <2>1. Notes(q, n) \in SUBSET (1 .. Len(q))
      BY <1>2 DEF Notes
    <2>2. Max(Notes(q, n)) \in 1 .. Len(q)
      BY <1>1, <1>5, <2>1, LargestIs
    <2>3. r[Max(Notes(q, n))] = q[Max(Notes(q, n))]
      BY <1>1, <2>2
    <2>4. QED
      BY <1>3, <1>5, <2>3 DEF LastOf, r
  <1>6. QED
    BY <1>4, <1>5

(* A new notice about n.                                                   *)
LEMMA LastNew ==
  ASSUME NEW q, IsSeq(q), NEW n, NEW m, m.type = "NOTIFY", m.arg[2] = n
  PROVE  LastOf(q \o <<m>>, n) = m.arg[1]
  <1> DEFINE r == q \o <<m>>
             top == Len(q) + 1
  <1>1. /\ Len(q) \in Nat
        /\ r[top] = m
        /\ m.type \in {"NOTIFY"} => Says(r, {"NOTIFY"}) = Says(q, {"NOTIFY"}) \cup {top}
    BY SaysMore DEF IsSeq
  <1> HIDE DEF r
  <1>2. \A k \in Says(q, {"NOTIFY"}) : k \in 1 .. Len(q)
    BY DEF Says
  <1>3. top \in Notes(r, n) /\ \A k \in Notes(r, n) : k \in Int /\ k <= top
    BY <1>1, <1>2 DEF Notes
  <1>4. Max(Notes(r, n)) = top
    <2>1. Max(Notes(r, n)) \in Notes(r, n) /\ \A k \in Notes(r, n) : Max(Notes(r, n)) >= k
      BY <1>1, <1>3 DEF Max
    <2>2. QED
      BY <1>1, <1>3, <2>1
  <1>5. QED
    BY <1>1, <1>3, <1>4 DEF LastOf, r
------------------------------------------------------------------------------
(* What the notices tell a member: whoever was announced last is there, or *)
(* was cut off; whoever left last is gone, or is back on a dead connection. *)
Agrees(last, n) ==
  /\ last = "JOIN" => n \in silent \/ \E t \in joined : nick[t] = n
  /\ last = "PART" => \A t \in joined : nick[t] = n => peer[fd[t]] # "up"

Informed(s, n) == Agrees(LastOf(outq[fd[s]], n), n)

AgreeInv ==
  pc # "dead" => \A s \in joined, n \in Nicks : peer[fd[s]] = "up" => Informed(s, n)

LEMMA InformedNext ==
  ASSUME NEW s, NEW n, NEW last, LastOf(outq'[fd'[s]], n) = last,
         last = "JOIN" => n \in silent' \/ \E t \in joined' : nick'[t] = n,
         last = "PART" => \A t \in joined' : nick'[t] = n => peer'[fd'[t]] # "up"
  PROVE  Informed(s, n)'
  BY DEF Informed, Agrees

(* What each member finds after a delivery, when the server lives on.      *)
LEMMA MemberHears ==
  ASSUME TypeInv, Wire, NEW R, NEW m, Delivers(R, m), NEW s \in joined
  PROVE  /\ fd[s] \in Conns /\ IsSeq(outq[fd[s]])
         /\ peer'[fd[s]] = "up" => peer[fd[s]] = "up"
         /\ outq'[fd[s]] = outq[fd[s]] \/ outq'[fd[s]] = outq[fd[s]] \o <<m>>
         /\ pc' # "dead" /\ fd[s] \in R /\ peer'[fd[s]] = "up" => outq'[fd[s]] = outq[fd[s]] \o <<m>>
  <1>1. fd[s] \in Conns /\ IsSeq(outq[fd[s]])
    BY DEF TypeInv, TypeOK, SlotsFilled, Wire
  <1>2. QED
    BY <1>1, DeliversTo

(* Nobody comes or goes and nobody is told of it.                          *)
LEMMA AgreeStays ==
  ASSUME TypeInv, Wire, AgreeInv, Stays, NEW R, NEW m, Delivers(R, m), m.type # "NOTIFY",
         pc # "dead"
  PROVE  AgreeInv'
  <1>1. SUFFICES ASSUME NEW s \in joined, NEW n \in Nicks, peer'[fd[s]] = "up"
                 PROVE  Informed(s, n)'
    BY DEF AgreeInv, Stays
  <1>2. /\ IsSeq(outq[fd[s]]) /\ peer[fd[s]] = "up" /\ fd'[s] = fd[s]
        /\ outq'[fd[s]] = outq[fd[s]] \/ outq'[fd[s]] = outq[fd[s]] \o <<m>>
    BY <1>1, MemberHears DEF Stays
  <1>3. LastOf(outq'[fd[s]], n) = LastOf(outq[fd[s]], n)
    BY ZenonT(30), <1>2, LastSame
  <1> DEFINE last == LastOf(outq[fd[s]], n)
  <1>4. Agrees(last, n)
    BY <1>2 DEF AgreeInv, Informed
  <1>5. LastOf(outq'[fd'[s]], n) = last
    BY <1>2, <1>3
  <1> HIDE DEF last
  <1>6. last = "JOIN" => n \in silent' \/ \E t \in joined' : nick'[t] = n
    BY <1>4 DEF Agrees, Stays
  <1>7. last = "PART" => \A t \in joined' : nick'[t] = n => peer'[fd'[t]] # "up"
    <2>1. \A t \in joined : peer'[fd[t]] = "up" => peer[fd[t]] = "up"
      BY MemberHears
    <2>2. \A t \in joined' : t \in joined /\ nick'[t] = nick[t] /\ fd'[t] = fd[t]
      BY DEF Stays
    <2>3. QED
      BY <1>4, <2>1, <2>2 DEF Agrees
  <1>8. QED
    BY <1>5, <1>6, <1>7, InformedNext

(* A member leaves, and the others are told, or he counts as silent.       *)
LEMMA AgreeFarewell ==
  ASSUME TypeInv, TableInv, Wire, AgreeInv, Farewell, pc # "dead"
  PROVE  AgreeInv'
  <1>1. PICK x : /\ Loses(x) /\ silent' = silent
                 /\ Delivers({fd[s] : s \in joined \ {x}}, Msg("NOTIFY", <<"PART", nick[x]>>))
    BY DEF Farewell
  <1> DEFINE m == Msg("NOTIFY", <<"PART", nick[x]>>)
             R == {fd[s] : s \in joined \ {x}}
  <1>2. m.type = "NOTIFY" /\ m.arg[1] = "PART" /\ m.arg[2] = nick[x]
    BY DEF Msg
  <1>3. Delivers(R, m)
    BY <1>1
  <1>4. SUFFICES ASSUME pc' # "dead", NEW s \in joined', NEW n \in Nicks, peer'[fd'[s]] = "up"
                 PROVE  Informed(s, n)'
    BY DEF AgreeInv
  <1>5. /\ joined' = joined \ {x} /\ s \in joined /\ x \in joined
        /\ \A t \in joined' : fd'[t] = fd[t] /\ nick'[t] = nick[t]
    BY <1>1 DEF Loses
  <1>6. fd[s] \in R
    BY <1>4, <1>5
  <1> HIDE DEF m, R
  <1>7. /\ IsSeq(outq[fd[s]]) /\ peer[fd[s]] = "up" /\ fd'[s] = fd[s]
        /\ outq'[fd[s]] = outq[fd[s]] \o <<m>>
    BY <1>3, <1>4, <1>5, <1>6, MemberHears
  <1> DEFINE last == LastOf(outq[fd[s]], n)
             lastp == LastOf(outq'[fd[s]], n)
  <1>8. Agrees(last, n)
    BY <1>5, <1>7 DEF AgreeInv, Informed
  <1>9. /\ n = nick[x] => lastp = "PART"
        /\ n # nick[x] => lastp = last
    BY <1>2, <1>7, LastNew, LastSame
  <1>10. LastOf(outq'[fd'[s]], n) = lastp
    BY <1>7
  <1> HIDE DEF last, lastp
  <1>11. CASE n = nick[x]
    <2>1. \A t \in joined' : nick'[t] # n
      BY <1>5, <1>11 DEF TableInv, NicksUnique, Members, TypeInv, TypeOK
    <2>2. QED
      BY <1>9, <1>10, <1>11, <2>1, InformedNext
  <1>12. CASE n # nick[x]
    <2>1. last = "JOIN" => n \in silent' \/ \E t \in joined' : nick'[t] = n
      BY <1>1, <1>5, <1>8, <1>12 DEF Agrees
    <2>2. last = "PART" => \A t \in joined' : nick'[t] = n => peer'[fd'[t]] # "up"
      <3>1. \A t \in joined : peer'[fd[t]] = "up" => peer[fd[t]] = "up"
        BY <1>3, MemberHears
      <3>2. \A t \in joined' : t \in joined
        BY <1>5
      <3>3. QED
        BY <1>5, <1>8, <3>1, <3>2 DEF Agrees
    <2>3. QED
      BY <1>9, <1>10, <1>12, <2>1, <2>2, InformedNext
  <1>13. QED
    BY <1>11, <1>12

LEMMA AgreeCutOff ==
  ASSUME TypeInv, Wire, AgreeInv, CutOff, pc # "dead"
  PROVE  AgreeInv'
  <1>1. PICK x : Loses(x) /\ silent' = silent \cup {nick[x]} /\ UNCHANGED <<peer, outq>>
    BY DEF CutOff
  <1>2. /\ joined' = joined \ {x} /\ x \in joined
        /\ \A t \in joined' : fd'[t] = fd[t] /\ nick'[t] = nick[t]
    BY <1>1 DEF Loses
  <1>3. SUFFICES ASSUME NEW s \in joined', NEW n \in Nicks, peer[fd[s]] = "up"
                 PROVE  Informed(s, n)'
    BY <1>1, <1>2 DEF AgreeInv
  <1> DEFINE last == LastOf(outq[fd[s]], n)
  <1>4. Agrees(last, n)
    BY <1>2, <1>3 DEF AgreeInv, Informed
  <1>5. LastOf(outq'[fd'[s]], n) = last
    BY <1>1, <1>2
  <1> HIDE DEF last
  <1>6. last = "JOIN" => n \in silent' \/ \E t \in joined' : nick'[t] = n
    BY <1>1, <1>2, <1>4 DEF Agrees
  <1>7. last = "PART" => \A t \in joined' : nick'[t] = n => peer'[fd'[t]] # "up"
    BY <1>1, <1>2, <1>4 DEF Agrees
  <1>8. QED
    BY <1>5, <1>6, <1>7, InformedNext

(* A member joins: he has been told nothing yet; the others are told,      *)
(* unless his acknowledgement could not be written.                        *)
LEMMA AgreeWelcome ==
  ASSUME TypeInv, TableInv, RingOK, RoomInv, AgreeInv, Welcome, pc # "dead"
  PROVE  AgreeInv'
  <1>1. PICK p \in Nicks : i \in used /\ AcceptJoin(i, p) /\ UNCHANGED <<used, fd, link>>
    BY DEF Welcome
  <1> DEFINE c == fd[i]
             h == HistoryFrames
             a == Ack(i, p)
             note == Msg("NOTIFY", <<"JOIN", p>>)
  <1>2. /\ c \in Conns /\ i \notin joined
        /\ \A s \in joined : fd[s] \in Conns /\ fd[s] # c
        /\ IsSeq(h) /\ \A k \in 1 .. Len(h) : h[k] = Msg("HISTORY", Replay[k])
        /\ \A d \in Conns : peer'[d] = "up" => peer[d] = "up"
        /\ peer[c] = "up" => outq'[c] = outq[c] \o (<<a>> \o h)
        /\ \A d \in Conns \ {c} :
             outq'[d] = outq[d] \/ outq'[d] = outq[d] \o <<note>>
        /\ pc' # "dead" /\ peer[c] # "rst" =>
             \A s \in joined : peer[fd[s]] = "up" => outq'[fd[s]] = outq[fd[s]] \o <<note>>
    BY <1>1, JoinWrites
  <1>3. /\ a.type = "JOIN_ACK"
        /\ note.type = "NOTIFY" /\ note.arg[1] = "JOIN" /\ note.arg[2] = p
    BY DEF Ack, Msg
  <1> HIDE DEF h, a, note
  <1>4. \A k \in 1 .. Len(h) : h[k].type = "HISTORY"
    <2>1. ASSUME NEW k \in 1 .. Len(h) PROVE h[k].type = "HISTORY"
      <3>1. h[k] = Msg("HISTORY", Replay[k])
        BY <1>2
      <3>2. QED
        BY <3>1 DEF Msg
    <2>2. QED
      BY <2>1
  <1>5. /\ joined' = joined \cup {i} /\ nick' = [nick EXCEPT ![i] = p] /\ silent' = silent \ {p}
        /\ i \in Slots /\ joined \subseteq Slots /\ joined \subseteq used
        /\ nick \in [Slots -> Nicks \cup {NoNick}]
        /\ \A t \in joined : nick[t] # p
    BY <1>1, <1>2 DEF AcceptJoin, nick_taken, Members, TypeInv, TypeOK
  <1>6. nick'[i] = p /\ \A t \in joined : nick'[t] = nick[t]
    BY <1>2, <1>5
  <1>7. SUFFICES ASSUME pc' # "dead", NEW s \in joined', NEW n \in Nicks, peer'[fd[s]] = "up"
                 PROVE  Informed(s, n)'
    BY <1>1 DEF AgreeInv
  <1>8. CASE s = i
    <2>1. peer[c] = "up" /\ Says(outq[c], Talk) = {} /\ IsSeq(outq[c])
      <3>1. Stranger(c)
        BY <1>1, <1>2 DEF Stranger
      <3>2. QED
        BY <1>2, <1>7, <1>8, <3>1 DEF RoomInv, Heard, Wire
    <2>2. Says(outq[c] \o (<<a>> \o h), {"NOTIFY"}) = {}
      <3> HIDE DEF c
      <3>1. QED
        BY <1>2, <1>3, <1>4, <2>1, HearsWelcome
    <2>3. LastOf(outq'[fd'[s]], n) = "nothing"
      BY <1>1, <1>2, <1>8, <2>1, <2>2, LastNone
    <2> DEFINE last == "nothing"
    <2>4. last # "JOIN" /\ last # "PART"
      OBVIOUS
    <2> HIDE DEF last
    <2>5. QED
      BY <2>3, <2>4, InformedNext DEF last
  <1>9. CASE s # i
    <2> DEFINE last == LastOf(outq[fd[s]], n)
               lastp == LastOf(outq'[fd[s]], n)
    <2>1. s \in joined /\ fd[s] \in Conns /\ peer[fd[s]] = "up" /\ IsSeq(outq[fd[s]])
      BY <1>2, <1>5, <1>7, <1>9 DEF RoomInv, Wire
    <2>2. Agrees(last, n)
      BY <2>1 DEF AgreeInv, Informed
    <2>3. outq'[fd[s]] = outq[fd[s]] \/ outq'[fd[s]] = outq[fd[s]] \o <<note>>
      BY <1>2, <2>1
    <2>4. LastOf(outq'[fd'[s]], n) = lastp /\ fd' = fd
      BY <1>1
    <2>5. CASE n = p
      <3>1. lastp = "PART" => peer[c] = "rst"
        <4>1. CASE peer[c] # "rst"
          <5>1. outq'[fd[s]] = outq[fd[s]] \o <<note>>
            BY <1>2, <1>7, <2>1, <4>1
          <5>2. lastp = "JOIN"
            BY <1>3, <2>1, <2>5, <5>1, LastNew
          <5>3. QED
            BY <5>2
        <4>2. QED
          BY <4>1
      <3> HIDE DEF last, lastp
      <3>2. \E t \in joined' : nick'[t] = n
        BY <1>5, <1>6, <2>5
      <3>3. lastp = "PART" => \A t \in joined' : nick'[t] = n => peer'[fd[t]] # "up"
        BY <1>2, <1>5, <1>6, <2>5, <3>1
      <3>4. QED
        BY <2>4, <3>2, <3>3, InformedNext
    <2>6. CASE n # p
      <3>1. lastp = last
        BY ZenonT(30), <1>3, <2>1, <2>3, <2>6, LastSame
      <3> HIDE DEF last, lastp
      <3>2. last = "JOIN" => n \in silent' \/ \E t \in joined' : nick'[t] = n
        BY <1>5, <1>6, <2>2, <2>6 DEF Agrees
      <3>3. last = "PART" => \A t \in joined' : nick'[t] = n => peer'[fd[t]] # "up"
        BY <1>2, <1>5, <1>6, <2>2, <2>6 DEF Agrees
      <3>4. QED
        BY <2>4, <3>1, <3>2, <3>3, InformedNext
    <2>7. QED
      BY <2>5, <2>6
  <1>10. QED
    BY <1>8, <1>9

(* The server does not come back.                                          *)
LEMMA DeadStays == pc = "dead" /\ [Next]_vars => pc' = "dead"
  <1>1. SUFFICES ASSUME pc = "dead", [Next]_vars PROVE pc' = "dead"
    OBVIOUS
  <1>2. CASE \/ Poll \/ AcceptClient \/ RefuseClient \/ ScanEnds \/ SkipFree
             \/ ScanQuiet \/ ScanHup \/ ScanIn \/ Recv \/ RecvEnd
    BY <1>1, <1>2 DEF Poll, AcceptClient, RefuseClient, ScanEnds, SkipFree, ScanQuiet, ScanHup,
                      ScanIn, TakeEvent, Recv, RecvEnd
  <1>3. CASE \/ HandleJoin \/ HandleBroadcast \/ HandlePrivate \/ HandleList
             \/ HandleUnknown \/ HandleInvalid \/ HandleNone
    BY <1>1, <1>3 DEF HandleJoin, HandleBroadcast, HandlePrivate, HandleList, HandleUnknown,
                      HandleInvalid, HandleNone, Frames
  <1>4. CASE Peers
    BY <1>1, <1>4 DEF Peers, Connect, SendFrame, Drop, ResetArrives, Attached
  <1>5. CASE UNCHANGED vars
    BY <1>1, <1>5 DEF vars
  <1>6. QED
    BY <1>1, <1>2, <1>3, <1>4, <1>5 DEF Next, Server

LEMMA AgreeInit == Init => AgreeInv
  BY DEF Init, AgreeInv

LEMMA AgreeStep ==
  TypeInv /\ TableInv /\ RingOK /\ RoomInv /\ AgreeInv /\ [Next]_vars => AgreeInv'
  <1>1. SUFFICES ASSUME TypeInv, TableInv, RingOK, RoomInv, AgreeInv, [Next]_vars PROVE AgreeInv'
    OBVIOUS
  <1>2. CASE pc = "dead"
    BY <1>1, <1>2, DeadStays DEF AgreeInv
  <1>3. CASE pc # "dead" /\ (Aside \/ Whisper \/ Speech)
    <2>1. PICK R, m : Delivers(R, m) /\ m.type # "NOTIFY" /\ Stays
      <3>1. CASE Aside \/ Whisper
        BY <3>1 DEF Aside, Whisper, Talk
      <3>2. CASE Speech
        BY <3>2 DEF Speech, Msg
      <3>3. QED
        BY <1>3, <3>1, <3>2
    <2>2. QED
      BY <1>1, <1>3, <2>1, AgreeStays DEF RoomInv
  <1>4. CASE pc # "dead" /\ Farewell
    BY <1>1, <1>4, AgreeFarewell DEF RoomInv
  <1>5. CASE pc # "dead" /\ CutOff
    BY <1>1, <1>5, AgreeCutOff DEF RoomInv
  <1>6. CASE pc # "dead" /\ Welcome
    BY <1>1, <1>6, AgreeWelcome
  <1>7. QED
    BY <1>1, <1>2, <1>3, <1>4, <1>5, <1>6, StepIs

(* A living server's members are rightly informed: NoticesAgree, whatever  *)
(* joins, departures, bad headers and failing connections there are.       *)
THEOREM NoticesAreRight == Spec => []NoticesAgree
  <1>1. TypeInv /\ AgreeInv => NoticesAgree
    <2>1. SUFFICES ASSUME TypeInv, AgreeInv, pc # "dead",
                          NEW s \in Members, NEW n \in Nicks, peer[fd[s]] = "up"
                   PROVE  CASE LastNotice(fd[s], n) = "JOIN" ->
                                 n \in silent \/ \E t \in Members : nick[t] = n
                            [] LastNotice(fd[s], n) = "PART" ->
                                 \A t \in Members : nick[t] = n => peer[fd[t]] # "up"
                            [] OTHER -> TRUE
      BY DEF NoticesAgree
    <2>2. Members = joined
      BY <2>1 DEF Members, TypeInv, TypeOK
    <2>3. LastNotice(fd[s], n) = LastOf(outq[fd[s]], n)
      BY DEF LastNotice, LastOf, Notes, Received, Says
    <2>4. Agrees(LastNotice(fd[s], n), n)
      BY <2>1, <2>2, <2>3 DEF AgreeInv, Informed
    <2> DEFINE last == LastNotice(fd[s], n)
    <2>5. /\ last = "JOIN" => n \in silent \/ \E t \in Members : nick[t] = n
          /\ last = "PART" => \A t \in Members : nick[t] = n => peer[fd[t]] # "up"
      BY <2>2, <2>4 DEF Agrees
    <2> HIDE DEF last
    <2>6. (CASE last = "JOIN" -> n \in silent \/ \E t \in Members : nick[t] = n
             [] last = "PART" -> \A t \in Members : nick[t] = n => peer[fd[t]] # "up"
             [] OTHER -> TRUE)
      BY <2>5
    <2>7. QED
      BY <2>6 DEF last
  <1>2. Spec => []AgreeInv
    BY AgreeInit, TypeAlways, TableAlways, RingAlways, RoomAlways, AgreeStep, PTL DEF Spec
  <1>3. QED
    BY <1>1, <1>2, TypeAlways, PTL
------------------------------------------------------------------------------
(* The lines in a stream of frames, and those of them up to a place.       *)
LineTypes == {"HISTORY", "BROADCAST"}
LinesIn(q) == Says(q, LineTypes)
Upto(q, k) == {j \in LinesIn(q) : j <= k}

(* They are the end of a text, at least n lines of it.                     *)
Follows(q, text, n) ==
  /\ Cardinality(LinesIn(q)) <= Len(text) /\ Cardinality(LinesIn(q)) >= n
  /\ \A k \in LinesIn(q) :
       q[k].arg = text[Len(text) - Cardinality(LinesIn(q)) + Cardinality(Upto(q, k))]

LEMMA LinesFinite ==
  ASSUME NEW q, IsSeq(q)
  PROVE  /\ LinesIn(q) \subseteq 1 .. Len(q)
         /\ IsFiniteSet(LinesIn(q)) /\ Cardinality(LinesIn(q)) \in Nat
         /\ \A k \in LinesIn(q) : Cardinality(Upto(q, k)) \in 1 .. Cardinality(LinesIn(q))
  <1>1. /\ LinesIn(q) \in SUBSET (1 .. Len(q)) /\ Len(q) \in Nat
        /\ IsFiniteSet(LinesIn(q)) /\ Cardinality(LinesIn(q)) \in Nat
    <2>1. LinesIn(q) \in SUBSET (1 .. Len(q)) /\ Len(q) \in Nat
      BY DEF LinesIn, Says, IsSeq
    <2>2. IsFiniteSet(1 .. Len(q))
      BY <2>1, FS_Interval
    <2>3. QED
      BY <2>1, <2>2, FS_Subset, FS_CardinalityType
  <1>2. ASSUME NEW k \in LinesIn(q)
        PROVE  Cardinality(Upto(q, k)) \in 1 .. Cardinality(LinesIn(q))
    <2>1. Upto(q, k) \in SUBSET LinesIn(q) /\ k \in Upto(q, k)
      BY <1>1 DEF Upto
    <2>2. /\ IsFiniteSet(Upto(q, k)) /\ Cardinality(Upto(q, k)) <= Cardinality(LinesIn(q))
          /\ Cardinality(Upto(q, k)) \in Nat
      BY <1>1, <2>1, FS_Subset, FS_CardinalityType
    <2>3. {k} \in SUBSET Upto(q, k) /\ Cardinality({k}) = 1
      BY <2>1, FS_Singleton
    <2>4. Cardinality({k}) <= Cardinality(Upto(q, k))
      BY <2>2, <2>3, FS_Subset
    <2>5. QED
      BY <1>1, <2>2, <2>3, <2>4
  <1>3. QED
    BY <1>1, <1>2

(* A frame that is no line changes nothing.                                *)
LEMMA FollowsSame ==
  ASSUME NEW q, IsSeq(q), NEW m, m.type \notin LineTypes, NEW text, NEW n, Follows(q, text, n)
  PROVE  Follows(q \o <<m>>, text, n)
  <1> DEFINE r == q \o <<m>>
  <1>1. /\ \A k \in 1 .. Len(q) : r[k] = q[k]
        /\ LinesIn(r) = LinesIn(q)
    BY SaysMore DEF LinesIn
  <1> HIDE DEF r
  <1>2. \A k : Upto(r, k) = Upto(q, k)
    BY <1>1 DEF Upto
  <1>3. \A k \in LinesIn(q) : r[k] = q[k]
    BY <1>1, LinesFinite
  <1>4. Follows(r, text, n)
    BY <1>1, <1>2, <1>3 DEF Follows
  <1>5. QED
    BY <1>4 DEF r

(* One line more, of the text and of the stream.                           *)
LEMMA FollowsMore ==
  ASSUME NEW q, IsSeq(q), NEW m, m.type \in LineTypes, NEW text \in Seq(Lines), m.arg \in Lines,
         NEW n \in Nat, NEW k0 \in Nat, k0 <= n + 1, Follows(q, text, n)
  PROVE  Follows(q \o <<m>>, Append(text, m.arg), k0)
  <1> DEFINE r == q \o <<m>>
             top == Len(q) + 1
             longer == Append(text, m.arg)
             size == Cardinality(LinesIn(q))
  <1>1. /\ \A k \in 1 .. Len(q) : r[k] = q[k]
        /\ r[top] = m /\ Len(q) \in Nat
        /\ LinesIn(r) = LinesIn(q) \cup {top}
    BY SaysMore DEF LinesIn, IsSeq
  <1>2. /\ Len(text) \in Nat /\ Len(longer) = Len(text) + 1
        /\ \A k \in 1 .. Len(text) : longer[k] = text[k]
        /\ longer[Len(text) + 1] = m.arg
    BY AppendProperties, LenProperties
  <1>3. /\ \A k \in LinesIn(q) : k \in 1 .. Len(q)
        /\ IsFiniteSet(LinesIn(q)) /\ size \in Nat
        /\ \A k \in LinesIn(q) : Cardinality(Upto(q, k)) \in 1 .. size
    BY LinesFinite
  <1>4. size <= Len(text) /\ size >= n
    BY DEF Follows
  <1> HIDE DEF r, longer
  <1>5. top \notin LinesIn(q)
    BY <1>1, <1>3
  <1>6. Cardinality(LinesIn(r)) = size + 1
    <2>1. Cardinality(LinesIn(q) \cup {top}) = size + 1
      BY <1>3, <1>5, FS_AddElement
    <2>2. QED
      BY <1>1, <2>1
  <1>7. ASSUME NEW k \in LinesIn(q)
        PROVE  r[k].arg = longer[Len(longer) - (size + 1) + Cardinality(Upto(r, k))]
    <2>1. Upto(r, k) = Upto(q, k)
      BY <1>1, <1>3 DEF Upto
    <2> DEFINE at == Len(text) - size + Cardinality(Upto(q, k))
    <2>2. at \in 1 .. Len(text) /\ Len(longer) - (size + 1) + Cardinality(Upto(q, k)) = at
      BY SMTT(30), <1>2, <1>3, <1>4
    <2>3. q[k].arg = text[at]
      BY DEF Follows
    <2>4. r[k] = q[k]
      BY <1>1, <1>3
    <2> HIDE DEF at
    <2>5. QED
      BY <1>2, <2>1, <2>2, <2>3, <2>4
  <1>8. r[top].arg = longer[Len(longer) - (size + 1) + Cardinality(Upto(r, top))]
    <2>1. Upto(r, top) = LinesIn(r)
      BY <1>1, <1>3 DEF Upto
    <2>2. Len(longer) - (size + 1) + (size + 1) = Len(text) + 1
      BY <1>2, <1>3
    <2>3. QED
      BY <1>1, <1>2, <1>6, <2>1, <2>2
  <1>9. Cardinality(LinesIn(r)) <= Len(longer) /\ Cardinality(LinesIn(r)) >= k0
    BY <1>2, <1>3, <1>4, <1>6
  <1>10. Follows(r, longer, k0)
    BY <1>1, <1>6, <1>7, <1>8, <1>9 DEF Follows
  <1>11. QED
    BY <1>10 DEF r, longer

(* A stream with no line yet gets the last lines of the text.              *)
LEMMA FollowsWelcome ==
  ASSUME NEW q, IsSeq(q), LinesIn(q) = {}, NEW a, a.type = "JOIN_ACK", NEW h, IsSeq(h),
         NEW text, Len(text) \in Nat, Len(h) <= Len(text),
         \A k \in 1 .. Len(h) : h[k].type = "HISTORY" /\ h[k].arg = text[Len(text) - Len(h) + k]
  PROVE  Follows(q \o (<<a>> \o h), text, Len(h))
  <1> DEFINE r == q \o (<<a>> \o h)
             n == Len(q) + 1
  <1>1. /\ Len(r) = n + Len(h) /\ n - 1 = Len(q) /\ n \in Nat \ {0} /\ Len(h) \in Nat
        /\ \A k \in 1 .. n - 1 : r[k] = q[k]
        /\ r[n] = a
        /\ \A k \in 1 .. Len(h) : r[n + k] = h[k]
    <2>1. Len(q) \in Nat /\ Len(h) \in Nat /\ n - 1 = Len(q) /\ n \in Nat \ {0}
      BY DEF IsSeq
    <2>2. /\ Len(r) = Len(q) + 1 + Len(h)
          /\ \A k \in 1 .. Len(q) : r[k] = q[k]
          /\ r[Len(q) + 1] = a
          /\ \A k \in 1 .. Len(h) : r[Len(q) + 1 + k] = h[k]
      BY WelcomeIs
    <2> HIDE DEF r
    <2>3. QED
      BY <2>1, <2>2
  <1> HIDE DEF r, n
  <1>2. \A k \in 1 .. n - 1 : q[k].type \notin LineTypes
    BY <1>1 DEF LinesIn, Says
  <1>3. ASSUME NEW k \in n + 1 .. n + Len(h)
        PROVE  /\ k \in 1 .. Len(r) /\ k - n \in 1 .. Len(h)
               /\ r[k] = h[k - n] /\ r[k].type \in LineTypes
    <2>1. k - n \in 1 .. Len(h) /\ n + (k - n) = k /\ k \in 1 .. Len(r)
      BY <1>1
    <2>2. r[k] = h[k - n] /\ h[k - n].type = "HISTORY"
      BY <1>1, <2>1
    <2>3. QED
      BY <2>1, <2>2 DEF LineTypes
  <1>4. ASSUME NEW k \in 1 .. n PROVE r[k].type \notin LineTypes
    <2>1. CASE k = n
      BY <1>1, <2>1 DEF LineTypes
    <2>2. CASE k \in 1 .. n - 1
      BY <1>1, <1>2, <2>2
    <2>3. QED
      BY <1>1, <2>1, <2>2
  <1>5. LinesIn(r) = n + 1 .. n + Len(h)
    <2>1. \A k \in 1 .. Len(r) : k \in 1 .. n \/ k \in n + 1 .. n + Len(h)
      BY <1>1
    <2>2. QED
      BY <1>3, <1>4, <2>1 DEF LinesIn, Says
  <1>6. Cardinality(LinesIn(r)) = Len(h)
    <2> DEFINE low == n + 1
               high == n + Len(h)
    <2>0. n \in Nat /\ Len(h) \in Nat
      BY <1>1
    <2>1. low \in Int /\ high \in Int /\ high - low + 1 = Len(h) /\ (low > high => Len(h) = 0)
      BY <2>0
    <2> HIDE DEF low, high
    <2>2. Cardinality(low .. high) = IF low > high THEN 0 ELSE high - low + 1
      BY <2>1, FS_Interval
    <2>3. LinesIn(r) = low .. high
      BY <1>5 DEF low, high
    <2>4. QED
      BY <2>0, <2>1, <2>2, <2>3
  <1>7. ASSUME NEW k \in n + 1 .. n + Len(h)
        PROVE  r[k].arg = text[Len(text) - Len(h) + Cardinality(Upto(r, k))]
    <2>1. Upto(r, k) = n + 1 .. k
      BY <1>1, <1>5 DEF Upto
    <2>2. Cardinality(n + 1 .. k) = k - n
      BY <1>1, FS_Interval
    <2>3. QED
      BY <1>3, <2>1, <2>2
  <1>8. Follows(r, text, Len(h))
    BY <1>1, <1>5, <1>6, <1>7 DEF Follows
  <1>9. QED
    BY <1>8 DEF r
------------------------------------------------------------------------------
(* The ring holds the end of what was said.                                *)
SaidInv ==
  /\ said \in Seq(Lines) /\ hist_count <= Len(said)
  /\ \A k \in 1 .. hist_count : Replay[k] = said[Len(said) - hist_count + k]

LEMMA ReplayIs ==
  ASSUME RingOK
  PROVE  IsSeq(Replay) /\ Len(Replay) = hist_count /\ hist_count \in 0 .. HISTORY_LINES
         /\ Replay \in Seq(Lines \cup {NoLine})
  <1>1. hist_count \in Nat /\ HISTORY_LINES \in Nat \ {0} /\ hist_count \in 0 .. HISTORY_LINES
    BY HistoryAssumption DEF RingOK
  <1>2. ASSUME NEW k \in 1 .. hist_count PROVE history[SlotAt(k - 1)] \in Lines \cup {NoLine}
    BY <1>1, SlotsDistinct DEF RingOK
  <1>3. Replay \in Seq(Lines \cup {NoLine}) /\ Len(Replay) = hist_count
    BY <1>1, <1>2 DEF Replay
  <1>4. QED
    BY <1>1, <1>3, SeqIs

LEMMA SaidStep ==
  ASSUME RingOK, SaidInv, NEW l \in Lines, hist_push(l), said' = Append(said, l)
  PROVE  SaidInv' /\ RingOK' /\ hist_count' <= hist_count + 1
  <1>1. RingOK' /\ Recent!Push(l)
    BY PushStep
  <1>2. /\ Len(Replay) = hist_count /\ hist_count \in 0 .. HISTORY_LINES /\ HISTORY_LINES \in Nat \ {0}
        /\ Replay \in Seq(Lines \cup {NoLine})
    BY ReplayIs, HistoryAssumption
  <1>3. /\ said' \in Seq(Lines) /\ Len(said) \in Nat /\ Len(said') = Len(said) + 1
        /\ \A k \in 1 .. Len(said) : said'[k] = said[k]
        /\ said'[Len(said) + 1] = l
        /\ hist_count <= Len(said)
    BY AppendProperties, LenProperties DEF SaidInv
  <1>4. CASE hist_count < HISTORY_LINES
    <2>1. hist_count' = hist_count + 1 /\ Replay' = Append(Replay, l)
      BY <1>1, <1>2, <1>4 DEF hist_push, Recent!Push
    <2>2. /\ \A k \in 1 .. hist_count : Append(Replay, l)[k] = Replay[k]
          /\ Append(Replay, l)[hist_count + 1] = l
      BY <1>2, AppendProperties
    <2>3. ASSUME NEW k \in 1 .. hist_count'
          PROVE  Replay'[k] = said'[Len(said') - hist_count' + k]
      <3>1. Len(said') - hist_count' + k = Len(said) - hist_count + k
        BY <1>2, <1>3, <2>1
      <3>2. CASE k = hist_count + 1
        <4>1. Len(said) - hist_count + k = Len(said) + 1
          BY <1>2, <1>3, <3>2
        <4>2. QED
          BY <1>3, <2>1, <2>2, <3>1, <3>2, <4>1
      <3>3. CASE k \in 1 .. hist_count
        <4>1. Len(said) - hist_count + k \in 1 .. Len(said)
          BY <1>2, <1>3, <3>3
        <4>2. Replay[k] = said[Len(said) - hist_count + k]
          BY <3>3 DEF SaidInv
        <4>3. QED
          BY <1>3, <2>1, <2>2, <3>1, <3>3, <4>1, <4>2
      <3>4. QED
        <4>1. k = hist_count + 1 \/ k \in 1 .. hist_count
          BY <1>2, <2>1
        <4>2. QED
          BY <3>2, <3>3, <4>1
    <2>4. hist_count' <= Len(said') /\ hist_count' <= hist_count + 1
      BY <1>2, <1>3, <2>1
    <2>5. QED
      BY <1>1, <1>3, <2>3, <2>4 DEF SaidInv
  <1>5. CASE hist_count = HISTORY_LINES
    <2>1. hist_count' = hist_count /\ Replay' = Append(Tail(Replay), l)
      BY <1>1, <1>2, <1>5 DEF hist_push, Recent!Push
    <2>2. /\ Tail(Replay) \in Seq(Lines \cup {NoLine}) /\ Len(Tail(Replay)) = hist_count - 1
          /\ \A k \in 1 .. hist_count - 1 : Tail(Replay)[k] = Replay[k + 1]
      <3>1. Replay # <<>>
        BY <1>2, <1>5
      <3>2. QED
        BY <1>2, <3>1, HeadTailProperties
    <2>3. /\ \A k \in 1 .. hist_count - 1 : Append(Tail(Replay), l)[k] = Replay[k + 1]
          /\ Append(Tail(Replay), l)[hist_count] = l
      BY <1>2, <1>5, <2>2, AppendProperties
    <2>4. ASSUME NEW k \in 1 .. hist_count
          PROVE  Replay'[k] = said'[Len(said') - hist_count' + k]
      <3>1. Len(said') - hist_count' + k = Len(said) - hist_count + (k + 1)
        BY <1>2, <1>3, <2>1
      <3>2. CASE k = hist_count
        <4>1. Len(said) - hist_count + (k + 1) = Len(said) + 1
          BY <1>2, <1>3, <3>2
        <4>2. QED
          BY <1>3, <2>1, <2>3, <3>1, <3>2, <4>1
      <3>3. CASE k \in 1 .. hist_count - 1
        <4>1. Len(said) - hist_count + (k + 1) \in 1 .. Len(said) /\ k + 1 \in 1 .. hist_count
          BY <1>2, <1>3, <3>3
        <4>2. Replay[k + 1] = said[Len(said) - hist_count + (k + 1)]
          BY <4>1 DEF SaidInv
        <4>3. QED
          BY <1>3, <2>1, <2>3, <3>1, <3>3, <4>1, <4>2
      <3>4. QED
        <4>1. k = hist_count \/ k \in 1 .. hist_count - 1
          BY <1>2
        <4>2. QED
          BY <3>2, <3>3, <4>1
    <2>5. hist_count' <= Len(said') /\ hist_count' <= hist_count + 1
      BY <1>2, <1>3, <2>1
    <2>6. QED
      BY <1>1, <1>3, <2>1, <2>4, <2>5 DEF SaidInv
  <1>6. QED
    BY <1>2, <1>4, <1>5

LEMMA SaidSame ==
  ASSUME SaidInv, UNCHANGED saidVars
  PROVE  SaidInv'
  BY DEF SaidInv, saidVars, Replay, SlotAt
------------------------------------------------------------------------------
(* What every member has heard is the end of what was said.                *)
GapInv ==
  /\ SaidInv
  /\ pc # "dead" => \A s \in joined : peer[fd[s]] = "up" => Follows(outq[fd[s]], said, hist_count)

(* Nothing is said, and members stay or leave.                             *)
LEMMA GapKeeps ==
  ASSUME TypeInv, Wire, GapInv, NEW R, NEW m, Delivers(R, m), m.type \notin LineTypes,
         UNCHANGED saidVars, pc # "dead",
         \A s \in joined' : s \in joined /\ fd'[s] = fd[s]
  PROVE  GapInv'
  <1>1. SaidInv' /\ said' = said /\ hist_count' = hist_count
    BY SaidSame DEF GapInv, saidVars
  <1>2. ASSUME NEW s \in joined', peer'[fd'[s]] = "up"
        PROVE  Follows(outq'[fd'[s]], said, hist_count)
    <2>1. s \in joined /\ fd'[s] = fd[s]
      OBVIOUS
    <2>2. /\ IsSeq(outq[fd[s]]) /\ peer[fd[s]] = "up"
          /\ outq'[fd[s]] = outq[fd[s]] \/ outq'[fd[s]] = outq[fd[s]] \o <<m>>
      BY <1>2, <2>1, MemberHears
    <2>3. Follows(outq[fd[s]], said, hist_count)
      BY <2>1, <2>2 DEF GapInv
    <2>4. Follows(outq[fd[s]] \o <<m>>, said, hist_count)
      BY <2>2, <2>3, FollowsSame
    <2>5. CASE outq'[fd[s]] = outq[fd[s]]
      BY <2>1, <2>3, <2>5
    <2>6. CASE outq'[fd[s]] = outq[fd[s]] \o <<m>>
      BY <2>1, <2>4, <2>6
    <2>7. QED
      BY <2>2, <2>5, <2>6
  <1>3. QED
    BY <1>1, <1>2 DEF GapInv

LEMMA GapSpeech ==
  ASSUME TypeInv, RingOK, Wire, GapInv, Speech, pc # "dead"
  PROVE  GapInv'
  <1>1. PICK line \in Lines :
          /\ Delivers({fd[s] : s \in joined}, Msg("BROADCAST", line))
          /\ hist_push(line) /\ said' = Append(said, line) /\ Stays
    BY DEF Speech
  <1> DEFINE m == Msg("BROADCAST", line)
             R == {fd[s] : s \in joined}
  <1>2. m.type \in LineTypes /\ m.arg = line /\ Delivers(R, m)
    BY <1>1 DEF Msg, LineTypes
  <1>3. /\ SaidInv' /\ RingOK' /\ hist_count' <= hist_count + 1
        /\ said \in Seq(Lines)
    BY <1>1, SaidStep DEF GapInv, SaidInv
  <1>4. hist_count \in Nat /\ hist_count' \in Nat
    BY <1>3, HistoryAssumption DEF RingOK
  <1> HIDE DEF m
  <1>5. ASSUME pc' # "dead", NEW s \in joined', peer'[fd'[s]] = "up"
        PROVE  Follows(outq'[fd'[s]], said', hist_count')
    <2>1. s \in joined /\ fd'[s] = fd[s] /\ fd[s] \in R
      BY <1>1 DEF Stays
    <2> HIDE DEF R
    <2>2. /\ IsSeq(outq[fd[s]]) /\ peer[fd[s]] = "up"
          /\ outq'[fd[s]] = outq[fd[s]] \o <<m>>
      BY <1>2, <1>5, <2>1, MemberHears
    <2>3. Follows(outq[fd[s]], said, hist_count)
      BY <2>1, <2>2 DEF GapInv
    <2>4. Follows(outq[fd[s]] \o <<m>>, Append(said, m.arg), hist_count')
      BY <1>2, <1>3, <1>4, <2>2, <2>3, FollowsMore
    <2>5. QED
      BY <1>1, <1>2, <2>1, <2>2, <2>4
  <1>6. QED
    BY <1>3, <1>5 DEF GapInv

(* The history a member is sent on joining ends where the broadcasts he    *)
(* will hear begin.                                                        *)
LEMMA GapWelcome ==
  ASSUME TypeInv, TableInv, RingOK, RoomInv, GapInv, Welcome, pc # "dead"
  PROVE  GapInv'
  <1>1. PICK p \in Nicks : i \in used /\ AcceptJoin(i, p) /\ UNCHANGED <<used, fd, link, saidVars>>
    BY DEF Welcome
  <1> DEFINE c == fd[i]
             h == HistoryFrames
             a == Ack(i, p)
             note == Msg("NOTIFY", <<"JOIN", p>>)
  <1>2. /\ c \in Conns /\ i \notin joined
        /\ \A s \in joined : fd[s] \in Conns /\ fd[s] # c
        /\ IsSeq(h) /\ Len(h) = hist_count
        /\ \A k \in 1 .. Len(h) : h[k] = Msg("HISTORY", Replay[k])
        /\ \A d \in Conns : peer'[d] = "up" => peer[d] = "up"
        /\ peer[c] = "up" => outq'[c] = outq[c] \o (<<a>> \o h)
        /\ \A d \in Conns \ {c} :
             outq'[d] = outq[d] \/ outq'[d] = outq[d] \o <<note>>
    BY <1>1, JoinWrites
  <1>3. a.type = "JOIN_ACK" /\ note.type \notin LineTypes
    BY DEF Ack, Msg, LineTypes
  <1> HIDE DEF h, a, note
  <1>4. SaidInv' /\ said' = said /\ hist_count' = hist_count /\ joined' = joined \cup {i}
    BY <1>1, SaidSame DEF GapInv, saidVars, AcceptJoin
  <1>5. SUFFICES ASSUME NEW s \in joined', peer'[fd[s]] = "up"
                 PROVE  Follows(outq'[fd[s]], said, hist_count)
    BY <1>1, <1>4 DEF GapInv
  <1>6. CASE s = i
    <2>1. peer[c] = "up" /\ LinesIn(outq[c]) = {} /\ IsSeq(outq[c])
      <3>1. Stranger(c)
        BY <1>1, <1>2 DEF Stranger
      <3>2. Says(outq[c], Talk) = {} /\ IsSeq(outq[c]) /\ peer[c] = "up"
        BY <1>2, <1>5, <1>6, <3>1 DEF RoomInv, Heard, Wire
      <3>3. QED
        BY <3>2 DEF LinesIn, LineTypes, Says, Talk
    <2>2. Len(said) \in Nat /\ hist_count <= Len(said)
      BY LenProperties DEF GapInv, SaidInv
    <2>3. ASSUME NEW k \in 1 .. Len(h)
          PROVE  h[k].type = "HISTORY" /\ h[k].arg = said[Len(said) - Len(h) + k]
      <3>1. h[k] = Msg("HISTORY", Replay[k])
        BY <1>2
      <3>2. Replay[k] = said[Len(said) - hist_count + k]
        BY <1>2 DEF GapInv, SaidInv
      <3>3. QED
        BY <1>2, <3>1, <3>2 DEF Msg
    <2>4. Follows(outq[c] \o (<<a>> \o h), said, Len(h))
      <3> HIDE DEF c
      <3>1. QED
        BY <1>2, <1>3, <2>1, <2>2, <2>3, FollowsWelcome
    <2>5. QED
      BY <1>2, <1>6, <2>1, <2>4
  <1>7. CASE s # i
    <2>1. s \in joined /\ fd[s] \in Conns \ {c} /\ peer[fd[s]] = "up" /\ IsSeq(outq[fd[s]])
      BY <1>2, <1>4, <1>5, <1>7 DEF RoomInv, Wire
    <2>2. Follows(outq[fd[s]], said, hist_count)
      BY <2>1 DEF GapInv
    <2>3. outq'[fd[s]] = outq[fd[s]] \/ outq'[fd[s]] = outq[fd[s]] \o <<note>>
      BY <1>2, <2>1
    <2>4. QED
      BY <1>3, <2>1, <2>2, <2>3, FollowsSame
  <1>8. QED
    BY <1>6, <1>7

LEMMA GapInit == Init => GapInv
  <1>1. SUFFICES ASSUME Init PROVE GapInv
    OBVIOUS
  <1>2. said = <<>> /\ hist_count = 0 /\ joined = {}
    BY <1>1 DEF Init, HistInit
  <1>3. QED
    BY <1>2 DEF GapInv, SaidInv

LEMMA GapStep ==
  TypeInv /\ TableInv /\ RingOK /\ RoomInv /\ GapInv /\ [Next]_vars => GapInv'
  <1>1. SUFFICES ASSUME TypeInv, TableInv, RingOK, RoomInv, GapInv, [Next]_vars PROVE GapInv'
    OBVIOUS
  <1>2. CASE pc = "dead"
    <2>1. SaidInv'
      <3>1. CASE Speech
        BY <1>1, <3>1, SaidStep DEF Speech, GapInv
      <3>2. CASE UNCHANGED saidVars
        BY <1>1, <3>2, SaidSame DEF GapInv
      <3>3. QED
        BY <1>1, <3>1, <3>2, StepIs DEF Aside, Whisper, Farewell, CutOff, Welcome
    <2>2. QED
      BY <1>1, <1>2, <2>1, DeadStays DEF GapInv
  <1>3. CASE pc # "dead" /\ (Aside \/ Whisper)
    <2>1. PICK R, m : Delivers(R, m) /\ m.type \notin LineTypes /\ Stays /\ UNCHANGED saidVars
      BY <1>3 DEF Aside, Whisper, Talk, LineTypes
    <2>2. QED
      BY <1>1, <1>3, <2>1, GapKeeps DEF RoomInv, Stays
  <1>4. CASE pc # "dead" /\ Speech
    BY <1>1, <1>4, GapSpeech DEF RoomInv
  <1>5. CASE pc # "dead" /\ Farewell
    <2>1. PICK x : /\ Loses(x) /\ UNCHANGED saidVars
                   /\ Delivers({fd[s] : s \in joined \ {x}}, Msg("NOTIFY", <<"PART", nick[x]>>))
      BY <1>5 DEF Farewell
    <2> DEFINE m == Msg("NOTIFY", <<"PART", nick[x]>>)
    <2>2. m.type \notin LineTypes
      BY DEF Msg, LineTypes
    <2> HIDE DEF m
    <2>3. \A s \in joined' : s \in joined /\ fd'[s] = fd[s]
      BY <2>1 DEF Loses
    <2>4. QED
      BY <1>1, <1>5, <2>1, <2>2, <2>3, GapKeeps DEF RoomInv, m
  <1>6. CASE pc # "dead" /\ CutOff
    <2>1. PICK x : Loses(x) /\ UNCHANGED <<peer, outq, saidVars>>
      BY <1>6 DEF CutOff
    <2> DEFINE m == Msg("ERROR", 0)
    <2>2. m.type \notin LineTypes
      BY DEF Msg, LineTypes
    <2> HIDE DEF m
    <2>3. Delivers({}, m)
      BY <2>1, EmitNoneIs
    <2>4. \A s \in joined' : s \in joined /\ fd'[s] = fd[s]
      BY <2>1 DEF Loses
    <2>5. QED
      BY <1>1, <1>6, <2>1, <2>2, <2>3, <2>4, GapKeeps DEF RoomInv
  <1>7. CASE pc # "dead" /\ Welcome
    BY <1>1, <1>7, GapWelcome
  <1>8. QED
    BY <1>1, <1>2, <1>3, <1>4, <1>5, <1>6, <1>7, StepIs

(* What a member has heard, replayed and live together, is the end of what *)
(* was said without a gap, and covers the whole ring, for every size of    *)
(* the ring and however late he joined.                                    *)
THEOREM TranscriptIsWhole == Spec => []TranscriptHasNoGap
  <1>1. TypeInv /\ RoomInv /\ GapInv => TranscriptHasNoGap
    <2>1. SUFFICES ASSUME TypeInv, RoomInv, GapInv, pc # "dead", NEW s \in Members, peer[fd[s]] = "up"
                   PROVE  LET c      == fd[s]
                              heard  == Received(c, {"HISTORY", "BROADCAST"})
                              missed == Len(said) - Cardinality(heard)
                          IN /\ missed >= 0 /\ Cardinality(heard) >= hist_count
                             /\ \A k \in heard :
                                  outq[c][k].arg =
                                    said[missed + Cardinality({j \in heard : j <= k})]
      BY DEF TranscriptHasNoGap
    <2> DEFINE q == outq[fd[s]]
    <2>2. /\ s \in joined /\ IsSeq(q) /\ Follows(q, said, hist_count)
          /\ Len(said) \in Nat
      BY <2>1, LenProperties DEF Members, GapInv, SaidInv, RoomInv, Wire, TypeInv, SlotsFilled
    <2>3. Received(fd[s], {"HISTORY", "BROADCAST"}) = LinesIn(q)
      BY DEF Received, LinesIn, Says, LineTypes
    <2>4. \A k : {j \in LinesIn(q) : j <= k} = Upto(q, k)
      BY DEF Upto
    <2>5. Cardinality(LinesIn(q)) \in Nat
      BY <2>2, LinesFinite
    <2>6. /\ Len(said) - Cardinality(LinesIn(q)) >= 0 /\ Cardinality(LinesIn(q)) >= hist_count
          /\ \A k \in LinesIn(q) :
               q[k].arg = said[Len(said) - Cardinality(LinesIn(q)) + Cardinality(Upto(q, k))]
      BY <2>2, <2>5 DEF Follows
    <2>7. QED
      BY <2>3, <2>4, <2>6 DEF Upto
  <1>2. Spec => []GapInv
    BY GapInit, TypeAlways, TableAlways, RingAlways, RoomAlways, GapStep, PTL DEF Spec
  <1>3. QED
    BY <1>1, <1>2, TypeAlways, RoomAlways, PTL
==============================================================================
