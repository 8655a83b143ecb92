--------------------------- MODULE ChatClient_proof ---------------------------
(***************************************************************************)
(* One client and the server's end of its connection, for any sizes of     *)
(* headers, bodies and pipes and any lines typed: the frames arrive whole  *)
(* and in order however the streams are cut, no buffer is ever full when   *)
(* more is to be received, and both ends part for a reason.                *)
(***************************************************************************)
EXTENDS ChatClient, SequenceTheorems, NaturalsInduction, WellFoundedInduction, TLAPS

FrameTypes == {"JOIN", "JOIN_ACK", "HISTORY", "NOTIFY", "LIST", "LIST_REPLY", "PRIVATE",
               "BROADCAST", "ERROR"}

AnyFrame == [type : FrameTypes, len : 0 .. CHAT_MAX_BODY]

(* What makes a stream: each unit is followed by the next of its frame, or *)
(* by the first of the next frame.  Nothing is said of where it begins.    *)
Size(frames, n) == CHAT_HEADER_SIZE + frames[n].len

After(frames, u) ==
  IF u[2] < Size(frames, u[1]) THEN <<u[1], u[2] + 1>> ELSE <<u[1] + 1, 1>>

Run(frames, q) ==
  /\ q \in Seq(Units)
  /\ \A k \in 1 .. Len(q) : q[k][1] \in 1 .. Len(frames) /\ q[k][2] <= Size(frames, q[k][1])
  /\ \A k \in 1 .. Len(q) - 1 : q[k + 1] = After(frames, q[k])

(* A piece of the stream that begins with the frame after the m-th; its    *)
(* first p units end where the n-th frame ends; it goes to the very end.   *)
Rest(frames, q, m) ==
  Run(frames, q) /\ m \in 0 .. Len(frames) /\ (q # <<>> => q[1] = <<m + 1, 1>>)

Boundary(frames, q, m, p, n) ==
  IF p = 0 THEN n = m ELSE q[p] = <<n, Size(frames, n)>>

Whole(frames, q, m) == Rest(frames, q, m) /\ Boundary(frames, q, m, Len(q), Len(frames))

------------------------------------------------------------------------------
(* Induction, as the existence of a least element.                         *)

LEMMA Minimum ==
  ASSUME NEW T \in SUBSET Nat, T # {}
  PROVE  \E x \in T : \A y \in T : x <= y
  <1> DEFINE R == OpToRel(<, Nat)
  <1>1. \E x \in T : \A y \in T : ~(<<y, x>> \in R)
    <2>1. IsWellFoundedOn(R, Nat)
      BY NatLessThanWellFounded
    <2> HIDE DEF R
    <2>2. QED
      BY <2>1, WFMin
  <1>2. PICK x \in T : \A y \in T : ~(<<y, x>> \in R)
    BY <1>1
  <1>3. \A y \in T : ~(y < x)
    BY <1>2 DEF OpToRel
  <1>4. \A y \in T : x \in Nat /\ y \in Nat
    OBVIOUS
  <1>5. QED
    BY <1>3, <1>4

(* A set of numbers with 0 and, up to N, with every successor.             *)
LEMMA UpTo ==
  ASSUME NEW N \in Nat, NEW S, 0 \in S, \A k \in 0 .. N - 1 : k \in S => k + 1 \in S
  PROVE  \A k \in 0 .. N : k \in S
  <1> DEFINE T == {k \in 0 .. N : k \notin S}
  <1> SUFFICES ASSUME T # {} PROVE FALSE
    OBVIOUS
  <1>1. T \in SUBSET Nat
    OBVIOUS
  <1>2. PICK x \in T : \A y \in T : x <= y
    BY <1>1, Minimum
  <1>3. x # 0 /\ x \in 1 .. N /\ x - 1 \in 0 .. N - 1 /\ x - 1 \notin T
    BY <1>2
  <1>4. x - 1 \in S
    BY <1>3
  <1>5. x \in S
    BY <1>3, <1>4
  <1>6. QED
    BY <1>2, <1>5

------------------------------------------------------------------------------
(* Pieces of sequences.                                                    *)

(* The end of a sequence, its beginning, and two sequences put together.   *)
LEMMA FromIs ==
  ASSUME NEW S, NEW q \in Seq(S), NEW p \in 0 .. Len(q)
  PROVE  /\ From(q, p + 1) \in Seq(S) /\ Len(From(q, p + 1)) = Len(q) - p
         /\ \A k \in 1 .. Len(q) - p : From(q, p + 1)[k] = q[p + k]
         /\ From(q, p + 1) = <<>> <=> p = Len(q)
  <1>1. Len(q) \in Nat /\ p + 1 \in Int /\ \A k \in p + 1 .. Len(q) : q[k] \in S
    BY ElementOfSeq, LenProperties
  <1>2. /\ From(q, p + 1) \in Seq(S) /\ Len(From(q, p + 1)) = Len(q) - p
        /\ \A k \in 1 .. Len(q) - p : From(q, p + 1)[k] = q[p + k]
    BY <1>1, SubSeqProperties DEF From
  <1>3. QED
    BY <1>1, <1>2, EmptySeq

LEMMA UptoIs ==
  ASSUME NEW S, NEW q \in Seq(S), NEW p \in 0 .. Len(q)
  PROVE  /\ SubSeq(q, 1, p) \in Seq(S) /\ Len(SubSeq(q, 1, p)) = p
         /\ \A k \in 1 .. p : SubSeq(q, 1, p)[k] = q[k]
  <1>1. Len(q) \in Nat /\ p \in Int /\ \A k \in 1 .. p : q[k] \in S
    BY ElementOfSeq, LenProperties
  <1>2. QED
    BY <1>1, SubSeqProperties

LEMMA JoinIs ==
  ASSUME NEW S, NEW q \in Seq(S), NEW r \in Seq(S)
  PROVE  /\ q \o r \in Seq(S) /\ Len(q \o r) = Len(q) + Len(r)
         /\ Len(q) \in Nat /\ Len(r) \in Nat
         /\ \A k \in 1 .. Len(q) : (q \o r)[k] = q[k]
         /\ \A k \in 1 .. Len(r) : (q \o r)[Len(q) + k] = r[k]
  BY ConcatProperties, LenProperties

(* A sequence cut in two is its two parts.                                 *)
LEMMA CutInTwo ==
  ASSUME NEW S, NEW b \in Seq(S), NEW n \in 0 .. Len(b), NEW x \in Seq(S), NEW y \in Seq(S),
         Len(x) = n, Len(y) = Len(b) - n,
         \A k \in 1 .. n : x[k] = b[k],
         \A k \in 1 .. Len(b) - n : y[k] = b[n + k]
  PROVE  x \o y = b
  <1>1. /\ x \o y \in Seq(S) /\ Len(x \o y) = n + (Len(b) - n)
        /\ Len(b) \in Nat
        /\ \A k \in 1 .. n : (x \o y)[k] = x[k]
        /\ \A k \in 1 .. Len(b) - n : (x \o y)[n + k] = y[k]
    <2>1. /\ x \o y \in Seq(S) /\ Len(x \o y) = Len(x) + Len(y)
          /\ \A k \in 1 .. Len(x) : (x \o y)[k] = x[k]
          /\ \A k \in 1 .. Len(y) : (x \o y)[Len(x) + k] = y[k]
      BY JoinIs
    <2>2. QED
      BY <2>1, LenProperties
  <1> DEFINE s == x \o y
  <1>2. /\ s \in Seq(S) /\ Len(s) = Len(b)
        /\ \A k \in 1 .. n : s[k] = b[k]
        /\ \A k \in 1 .. Len(b) - n : s[n + k] = b[n + k]
    BY <1>1
  <1> HIDE DEF s
  <1>3. ASSUME NEW k \in 1 .. Len(s) PROVE s[k] = b[k]
    <2>1. CASE k <= n
      BY <1>2, <2>1
    <2>2. CASE ~(k <= n)
      <3>1. k - n \in 1 .. Len(b) - n /\ n + (k - n) = k
        BY <1>1, <1>2, <2>2
      <3>2. QED
        BY <1>2, <3>1
    <2>3. QED
      BY <2>1, <2>2
  <1>4. s = b
    BY <1>2, <1>3, SeqEqual
  <1>5. QED
    BY <1>4 DEF s

(* Pieces put together.  The equalities have names, for the provers lose   *)
(* themselves in what else follows from them.                              *)
Piece(S, x) == x \in Seq(S)
Regrouped(x, y, z) == (x \o y) \o z = x \o (y \o z)
Moved(a, b, n) == (a \o SubSeq(b, 1, n)) \o From(b, n + 1) = a \o b

(* Some units move on to the next place, others stay.                      *)
LEMMA MovesOn ==
  ASSUME NEW S, NEW a \in Seq(S), NEW b \in Seq(S), NEW n \in 0 .. Len(b)
  PROVE  /\ a \o SubSeq(b, 1, n) \in Seq(S) /\ From(b, n + 1) \in Seq(S)
         /\ Moved(a, b, n)
  <1> DEFINE x == SubSeq(b, 1, n)
             y == From(b, n + 1)
  <1>1. /\ x \in Seq(S) /\ y \in Seq(S) /\ Len(x) = n /\ Len(y) = Len(b) - n
        /\ \A k \in 1 .. n : x[k] = b[k]
        /\ \A k \in 1 .. Len(b) - n : y[k] = b[n + k]
    BY FromIs, UptoIs
  <1> SUFFICES a \o x \in Seq(S) /\ y \in Seq(S) /\ (a \o x) \o y = a \o b
    BY DEF Moved
  <1> HIDE DEF x, y
  <1>2. x \o y = b
    BY <1>1, CutInTwo
  <1>3. (a \o x) \o y = a \o (x \o y)
    <2>1. a \in Seq(S) /\ x \in Seq(S) /\ y \in Seq(S)
      BY <1>1
    <2>2. QED
      BY SMTT(30), <2>1, ConcatAssociative
  <1>4. a \o x \in Seq(S)
    BY <1>1, JoinIs
  <1>5. QED
    BY <1>1, <1>2, <1>3, <1>4

(* The beginning is taken away from a sequence that goes on with r.        *)
LEMMA TakenAway ==
  ASSUME NEW S, NEW q \in Seq(S), NEW r \in Seq(S), NEW p \in 0 .. Len(q)
  PROVE  /\ p \in 0 .. Len(q \o r)
         /\ From(q, p + 1) \o r = From(q \o r, p + 1)
  <1> DEFINE w == q \o r
             x == From(q, p + 1)
             s == x \o r
             t == From(w, p + 1)
  <1>1. /\ w \in Seq(S) /\ Len(w) = Len(q) + Len(r) /\ Len(q) \in Nat /\ Len(r) \in Nat
        /\ \A k \in 1 .. Len(q) : w[k] = q[k]
        /\ \A k \in 1 .. Len(r) : w[Len(q) + k] = r[k]
    BY JoinIs
  <1>2. /\ x \in Seq(S) /\ Len(x) = Len(q) - p
        /\ \A k \in 1 .. Len(q) - p : x[k] = q[p + k]
    BY FromIs
  <1> SUFFICES p \in 0 .. Len(w) /\ s = t
    OBVIOUS
  <1> HIDE DEF w, x
  <1>3. p \in 0 .. Len(w) /\ p \in Nat
    BY <1>1
  <1>4. /\ t \in Seq(S) /\ Len(t) = Len(w) - p
        /\ \A k \in 1 .. Len(w) - p : t[k] = w[p + k]
    BY <1>1, <1>3, FromIs
  <1>5. /\ s \in Seq(S) /\ Len(s) = Len(x) + Len(r)
        /\ \A k \in 1 .. Len(x) : s[k] = x[k]
        /\ \A k \in 1 .. Len(r) : s[Len(x) + k] = r[k]
    <2>1. x \in Seq(S)
      BY <1>2
    <2>2. QED
      BY <2>1, JoinIs
  <1> HIDE DEF s, t
  <1>6. ASSUME NEW k \in 1 .. Len(s) PROVE s[k] = t[k]
    <2>1. CASE k <= Len(q) - p
      <3>1. p + k \in 1 .. Len(q) /\ k \in 1 .. Len(x) /\ k \in 1 .. Len(w) - p
        BY <1>1, <1>2, <1>3, <1>5, <2>1
      <3>2. QED
        BY <1>1, <1>2, <1>4, <1>5, <3>1
    <2>2. CASE ~(k <= Len(q) - p)
      <3> DEFINE j == k - (Len(q) - p)
      <3>1. j \in 1 .. Len(r) /\ k = Len(x) + j /\ p + k = Len(q) + j /\ k \in 1 .. Len(w) - p
        BY <1>1, <1>2, <1>3, <1>5, <2>2
      <3> HIDE DEF j
      <3>2. QED
        BY <1>1, <1>4, <1>5, <3>1
    <2>3. QED
      BY <2>1, <2>2
  <1>7. Len(s) = Len(t)
    BY <1>1, <1>2, <1>3, <1>4, <1>5
  <1>8. QED
    BY <1>3, <1>4, <1>5, <1>6, <1>7, SeqEqual

------------------------------------------------------------------------------
(* Streams.                                                                *)

LEMMA SizeIs ==
  ASSUME NEW frames \in Seq(AnyFrame), NEW n \in 1 .. Len(frames)
  PROVE  Size(frames, n) \in CHAT_HEADER_SIZE .. CHAT_HEADER_SIZE + CHAT_MAX_BODY
         /\ Size(frames, n) \in Nat \ {0}
  <1>1. frames[n] \in AnyFrame
    BY ElementOfSeq
  <1>2. frames[n].len \in 0 .. CHAT_MAX_BODY
    BY <1>1 DEF AnyFrame
  <1>3. QED
    BY <1>2, ClientAssumption DEF Size

(* A run, unit by unit.                                                    *)
LEMMA RunIs ==
  ASSUME NEW frames \in Seq(AnyFrame), NEW q, Run(frames, q)
  PROVE  /\ q \in Seq(Units) /\ Len(q) \in Nat /\ Len(frames) \in Nat
         /\ \A k \in 1 .. Len(q) :
              /\ q[k] = <<q[k][1], q[k][2]>>
              /\ q[k][1] \in 1 .. Len(frames) /\ q[k][2] \in 1 .. Size(frames, q[k][1])
              /\ Size(frames, q[k][1]) \in Nat
         /\ \A k \in 1 .. Len(q) : k + 1 <= Len(q) =>
              /\ q[k][2] < Size(frames, q[k][1]) => q[k + 1] = <<q[k][1], q[k][2] + 1>>
              /\ q[k][2] = Size(frames, q[k][1]) => q[k + 1] = <<q[k][1] + 1, 1>>
  <1>1. q \in Seq(Units) /\ Len(q) \in Nat /\ Len(frames) \in Nat
    BY LenProperties DEF Run
  <1>2. ASSUME NEW k \in 1 .. Len(q)
        PROVE  /\ q[k] = <<q[k][1], q[k][2]>>
               /\ q[k][1] \in 1 .. Len(frames) /\ q[k][2] \in 1 .. Size(frames, q[k][1])
               /\ Size(frames, q[k][1]) \in Nat
    <2>1. q[k] \in Units
      BY <1>1, ElementOfSeq
    <2>2. q[k] = <<q[k][1], q[k][2]>> /\ q[k][2] \in Nat \ {0}
      BY <2>1, ClientAssumption DEF Units
    <2>3. q[k][1] \in 1 .. Len(frames) /\ q[k][2] <= Size(frames, q[k][1])
      BY DEF Run
    <2>4. Size(frames, q[k][1]) \in Nat
      BY <2>3, SizeIs
    <2>5. QED
      BY <2>2, <2>3, <2>4
  <1>3. ASSUME NEW k \in 1 .. Len(q), k + 1 <= Len(q)
        PROVE  /\ q[k][2] < Size(frames, q[k][1]) => q[k + 1] = <<q[k][1], q[k][2] + 1>>
               /\ q[k][2] = Size(frames, q[k][1]) => q[k + 1] = <<q[k][1] + 1, 1>>
    <2>1. k \in 1 .. Len(q) - 1
      BY <1>1, <1>3
    <2>2. q[k + 1] = After(frames, q[k])
      BY <2>1 DEF Run
    <2>3. q[k][2] = Size(frames, q[k][1]) => ~(q[k][2] < Size(frames, q[k][1]))
      BY <1>2
    <2>4. QED
      BY <2>2, <2>3 DEF After
  <1>4. QED
    BY <1>1, <1>2, <1>3

(* A piece of a run is a run.                                              *)
LEMMA RunPiece ==
  ASSUME NEW frames \in Seq(AnyFrame), NEW q, Run(frames, q),
         NEW r \in Seq(Units), NEW d \in Nat, d + Len(r) <= Len(q),
         \A k \in 1 .. Len(r) : r[k] = q[d + k]
  PROVE  Run(frames, r)
  <1>1. Len(r) \in Nat /\ Len(q) \in Nat
    BY LenProperties, RunIs
  <1>2. ASSUME NEW k \in 1 .. Len(r)
        PROVE  r[k][1] \in 1 .. Len(frames) /\ r[k][2] <= Size(frames, r[k][1])
    <2>1. d + k \in 1 .. Len(q) /\ r[k] = q[d + k]
      BY <1>1
    <2>2. QED
      BY <2>1 DEF Run
  <1>3. ASSUME NEW k \in 1 .. Len(r) - 1 PROVE r[k + 1] = After(frames, r[k])
    <2>1. /\ d + k \in 1 .. Len(q) - 1 /\ d + (k + 1) = (d + k) + 1
          /\ k \in 1 .. Len(r) /\ k + 1 \in 1 .. Len(r)
      <3>1. k \in Nat /\ 1 <= k /\ k + 1 <= Len(r)
        BY <1>1
      <3>2. QED
        BY <1>1, <3>1
    <2>2. r[k] = q[d + k] /\ r[k + 1] = q[(d + k) + 1]
      BY SMTT(30), <2>1
    <2>3. QED
      BY <2>1, <2>2 DEF Run
  <1>4. QED
    BY <1>2, <1>3 DEF Run

(* A beginning of it is a piece that begins at the same place.             *)
LEMMA RestBegins ==
  ASSUME NEW frames \in Seq(AnyFrame), NEW m, NEW q \in Seq(Units), NEW r \in Seq(Units),
         Rest(frames, q \o r, m)
  PROVE  /\ Rest(frames, q, m)
         /\ \A p \in 0 .. Len(q) : \A n : Boundary(frames, q, m, p, n) <=> Boundary(frames, q \o r, m, p, n)
  <1> DEFINE w == q \o r
  <1>1. /\ w \in Seq(Units) /\ Len(w) = Len(q) + Len(r) /\ Len(q) \in Nat /\ Len(r) \in Nat
        /\ \A k \in 1 .. Len(q) : w[k] = q[k]
    BY JoinIs
  <1>2. Run(frames, w) /\ m \in 0 .. Len(frames) /\ (w # <<>> => w[1] = <<m + 1, 1>>)
    BY DEF Rest
  <1> SUFFICES /\ Rest(frames, q, m)
               /\ \A p \in 0 .. Len(q) : \A n : Boundary(frames, q, m, p, n) <=> Boundary(frames, w, m, p, n)
    OBVIOUS
  <1> HIDE DEF w
  <1>3. Run(frames, q)
    <2>1. \A k \in 1 .. Len(q) : q[k] = w[0 + k]
      BY <1>1
    <2>2. 0 + Len(q) <= Len(w)
      BY <1>1
    <2>3. QED
      BY <1>2, <2>1, <2>2, RunPiece
  <1>4. ASSUME q # <<>> PROVE q[1] = <<m + 1, 1>>
    <2>1. Len(q) # 0
      BY <1>4, EmptySeq
    <2>2. 1 \in 1 .. Len(q) /\ Len(w) # 0
      BY <1>1, <2>1
    <2>3. w # <<>>
      BY <2>2, EmptySeq
    <2>4. QED
      BY <1>1, <1>2, <2>2, <2>3
  <1>5. ASSUME NEW p \in 0 .. Len(q), NEW n
        PROVE  Boundary(frames, q, m, p, n) <=> Boundary(frames, w, m, p, n)
    <2>1. p = 0 \/ (p # 0 /\ w[p] = q[p])
      BY <1>1
    <2>2. QED
      BY <2>1 DEF Boundary
  <1>6. QED
    BY <1>2, <1>3, <1>4, <1>5 DEF Rest

(* What is left after the end of the n-th frame.                           *)
LEMMA RestCut ==
  ASSUME NEW frames \in Seq(AnyFrame), NEW q, NEW m, Rest(frames, q, m),
         NEW p \in 0 .. Len(q), NEW n, Boundary(frames, q, m, p, n)
  PROVE  /\ Rest(frames, From(q, p + 1), n)
         /\ n \in 0 .. Len(frames)
         /\ Whole(frames, q, m) => Whole(frames, From(q, p + 1), n)
  <1> DEFINE r == From(q, p + 1)
  <1>1. /\ Run(frames, q) /\ m \in 0 .. Len(frames) /\ (q # <<>> => q[1] = <<m + 1, 1>>)
        /\ q \in Seq(Units) /\ Len(q) \in Nat /\ p \in Nat
    BY RunIs DEF Rest
  <1>2. /\ r \in Seq(Units) /\ Len(r) = Len(q) - p
        /\ \A k \in 1 .. Len(q) - p : r[k] = q[p + k]
        /\ r = <<>> <=> p = Len(q)
    BY <1>1, FromIs
  <1> HIDE DEF r
  <1>3. Run(frames, r)
    <2>1. p + Len(r) <= Len(q) /\ \A k \in 1 .. Len(r) : r[k] = q[p + k]
      BY <1>1, <1>2
    <2>2. QED
      BY <1>1, <1>2, <2>1, RunPiece
  <1>4. ASSUME p # 0 PROVE /\ p \in 1 .. Len(q) /\ q[p][1] = n /\ q[p][2] = Size(frames, n)
                           /\ n \in 1 .. Len(frames)
    <2>1. p \in 1 .. Len(q) /\ q[p] = <<n, Size(frames, n)>>
      BY <1>1, <1>4 DEF Boundary
    <2>2. QED
      BY <1>1, <2>1, RunIs
  <1>5. n \in 0 .. Len(frames)
    <2>1. Len(frames) \in Nat
      BY LenProperties
    <2>2. QED
      BY <1>1, <1>4, <2>1 DEF Boundary
  <1>6. ASSUME r # <<>> PROVE r[1] = <<n + 1, 1>>
    <2>1. p + 1 \in 1 .. Len(q) /\ r[1] = q[p + 1]
      BY <1>1, <1>2, <1>6
    <2>2. CASE p = 0
      <3>1. q # <<>> /\ n = m
        BY <1>1, <2>1, <2>2, EmptySeq DEF Boundary
      <3>2. QED
        BY <1>1, <2>1, <2>2, <3>1
    <2>3. CASE p # 0
      BY <1>1, <1>4, <2>1, <2>3, RunIs
    <2>4. QED
      BY <2>2, <2>3
  <1>7. Rest(frames, r, n)
    BY <1>3, <1>5, <1>6 DEF Rest
  <1>8. ASSUME Whole(frames, q, m) PROVE Whole(frames, r, n)
    <2>1. Boundary(frames, q, m, Len(q), Len(frames))
      BY <1>8 DEF Whole
    <2>2. CASE p = Len(q)
      <3>1. Len(r) = 0
        BY <1>1, <1>2, <2>2
      <3>2. n = Len(frames)
        <4>1. CASE p = 0
          BY <2>1, <2>2, <4>1 DEF Boundary
        <4>2. CASE p # 0
          <5>1. q[p] = <<Len(frames), Size(frames, Len(frames))>>
            BY <2>1, <2>2, <4>2 DEF Boundary
          <5>2. QED
            BY <1>4, <4>2, <5>1
        <4>3. QED
          BY <4>1, <4>2
      <3>3. QED
        BY <1>7, <3>1, <3>2 DEF Whole, Boundary
    <2>3. CASE p # Len(q)
      <3>1. Len(r) \in 1 .. Len(q) - p /\ p + Len(r) = Len(q) /\ Len(q) # 0 /\ Len(r) # 0
        BY <1>1, <1>2, <2>3
      <3>2. r[Len(r)] = q[Len(q)]
        BY <1>2, <3>1
      <3>3. QED
        BY <1>7, <2>1, <3>1, <3>2 DEF Whole, Boundary
    <2>4. QED
      BY <2>2, <2>3
  <1>9. QED
    BY <1>5, <1>7, <1>8 DEF r

(* Behind a boundary stand the units of one frame, as far as q goes.       *)
LEMMA InFrame ==
  ASSUME NEW frames \in Seq(AnyFrame), NEW q, NEW m, Rest(frames, q, m),
         NEW p \in 0 .. Len(q), NEW n, Boundary(frames, q, m, p, n), p < Len(q)
  PROVE  /\ n + 1 \in 1 .. Len(frames)
         /\ \A k \in 1 .. Size(frames, n + 1) : p + k <= Len(q) => q[p + k] = <<n + 1, k>>
  <1> DEFINE r == From(q, p + 1)
             N == Size(frames, n + 1)
             S == {k \in 0 .. N : k = 0 \/ (k <= Len(r) => r[k] = <<n + 1, k>>)}
  <1>1. /\ Rest(frames, r, n) /\ n \in 0 .. Len(frames)
        /\ q \in Seq(Units) /\ Len(q) \in Nat /\ Len(frames) \in Nat /\ p \in Nat
    <2>1. Run(frames, q)
      BY DEF Rest
    <2>2. QED
      BY <2>1, RestCut, RunIs
  <1>2. /\ Len(r) = Len(q) - p /\ Len(r) \in Nat /\ r # <<>>
        /\ \A k \in 1 .. Len(r) : r[k] = q[p + k]
    <2>1. /\ Len(r) = Len(q) - p /\ (r = <<>> <=> p = Len(q))
          /\ \A k \in 1 .. Len(q) - p : r[k] = q[p + k]
      BY <1>1, FromIs
    <2> HIDE DEF r
    <2>2. QED
      BY <1>1, <2>1
  <1> HIDE DEF r
  <1>3. Run(frames, r) /\ r[1] = <<n + 1, 1>> /\ 1 \in 1 .. Len(r)
    BY <1>1, <1>2 DEF Rest
  <1>4. n + 1 \in 1 .. Len(frames)
    <2>1. r[1][1] \in 1 .. Len(frames)
      BY <1>3, RunIs
    <2>2. QED
      BY <1>3, <2>1
  <1>5. N \in Nat
    BY <1>4, SizeIs
  <1> HIDE DEF N
  <1>6. ASSUME NEW k \in 0 .. N - 1, k \in S PROVE k + 1 \in S
    <2>1. k + 1 \in 0 .. N /\ k \in Nat
      BY <1>5
    <2>2. ASSUME k + 1 <= Len(r) PROVE r[k + 1] = <<n + 1, k + 1>>
      <3>1. CASE k = 0
        BY <1>3, <3>1
      <3>2. CASE k # 0
        <4>1. k \in 1 .. Len(r) /\ r[k] = <<n + 1, k>> /\ k < N
          BY <1>2, <1>5, <1>6, <2>1, <2>2, <3>2
        <4>2. r[k][1] = n + 1 /\ r[k][2] = k
          BY <4>1
        <4>3. r[k][2] < Size(frames, r[k][1])
          BY <4>1, <4>2 DEF N
        <4>4. QED
          BY SMTT(30), <1>3, <2>2, <4>1, <4>2, <4>3, RunIs
      <3>3. QED
        BY <3>1, <3>2
    <2>3. QED
      BY <2>1, <2>2
  <1>7. \A k \in 0 .. N : k \in S
    <2>1. 0 \in S
      BY <1>5
    <2> HIDE DEF S
    <2>2. QED
      BY <1>5, <1>6, <2>1, UpTo
  <1>8. ASSUME NEW k \in 1 .. N, p + k <= Len(q) PROVE q[p + k] = <<n + 1, k>>
    <2>1. k \in 0 .. N /\ k # 0 /\ k <= Len(r) /\ k \in 1 .. Len(r)
      BY <1>1, <1>2, <1>5, <1>8
    <2>2. r[k] = <<n + 1, k>>
      BY <1>7, <2>1
    <2>3. QED
      BY <1>2, <2>1, <2>2
  <1>9. QED
    BY <1>4, <1>8 DEF N

(* What the loops see behind a boundary: never a bad header, and after a   *)
(* whole frame the next boundary.                                          *)
LEMMA HeaderIs ==
  ASSUME NEW frames \in Seq(AnyFrame), NEW q, NEW m, Rest(frames, q, m),
         NEW p \in 0 .. Len(q), NEW n, Boundary(frames, q, m, p, n)
  PROVE  /\ ~BadHeader(frames, q, p)
         /\ HasFrame(frames, q, p) =>
              /\ need(frames, q, p) = Size(frames, n + 1) /\ n + 1 \in 1 .. Len(frames)
              /\ p + need(frames, q, p) \in p + 1 .. Len(q)
              /\ Boundary(frames, q, m, p + need(frames, q, p), n + 1)
         /\ ~HasFrame(frames, q, p) => Len(q) - p < RECV_CAP
         /\ ~HasFrame(frames, q, p) /\ p < Len(q) => Len(q) - p < Size(frames, n + 1)
  <1> DEFINE N == Size(frames, n + 1)
             H == CHAT_HEADER_SIZE
  <1>1. Len(q) \in Nat /\ p \in Nat /\ H \in Nat \ {0} /\ CHAT_MAX_BODY \in Nat
    BY RunIs, ClientAssumption DEF Rest
  <1>2. ASSUME p < Len(q)
        PROVE  /\ n + 1 \in 1 .. Len(frames) /\ N \in H .. H + CHAT_MAX_BODY /\ N \in Nat \ {0}
               /\ \A k \in 1 .. N : p + k <= Len(q) => q[p + k] = <<n + 1, k>>
               /\ q[p + 1][1] = n + 1 /\ need(frames, q, p) = N
    <2>1. /\ n + 1 \in 1 .. Len(frames)
          /\ \A k \in 1 .. N : p + k <= Len(q) => q[p + k] = <<n + 1, k>>
      BY <1>2, InFrame
    <2>2. N \in H .. H + CHAT_MAX_BODY /\ N \in Nat \ {0}
      BY <2>1, SizeIs
    <2>3. q[p + 1] = <<n + 1, 1>>
      <3>1. 1 \in 1 .. N /\ p + 1 <= Len(q)
        BY <1>1, <1>2, <2>2
      <3>2. QED
        BY <2>1, <3>1
    <2>4. q[p + 1][1] = n + 1
      BY <2>3
    <2>5. need(frames, q, p) = N
      BY <2>4 DEF need, Size
    <2>6. QED
      BY <2>1, <2>2, <2>4, <2>5
  <1> HIDE DEF N
  <1>3. ASSUME HasHeader(q, p)
        PROVE  p < Len(q) /\ chat_header_valid(frames, q, p)
    <2>1. p < Len(q) /\ p + H <= Len(q)
      BY <1>1, <1>3 DEF HasHeader
    <2>2. ASSUME NEW k \in 1 .. H PROVE q[p + k] = <<q[p + 1][1], k>>
      <3>1. k \in 1 .. N /\ p + k <= Len(q)
        BY <1>1, <1>2, <2>1
      <3>2. QED
        BY <1>2, <2>1, <3>1
    <2>3. frames[q[p + 1][1]].len <= CHAT_MAX_BODY
      <3>1. frames[n + 1] \in AnyFrame
        BY <1>2, <2>1, ElementOfSeq
      <3>2. frames[n + 1].len \in 0 .. CHAT_MAX_BODY
        BY <3>1 DEF AnyFrame
      <3>3. QED
        BY <1>1, <1>2, <2>1, <3>2
    <2>4. QED
      BY <2>1, <2>2, <2>3 DEF chat_header_valid
  <1>4. ~BadHeader(frames, q, p)
    BY <1>3 DEF BadHeader
  <1>5. ASSUME HasFrame(frames, q, p)
        PROVE  /\ need(frames, q, p) = N /\ n + 1 \in 1 .. Len(frames)
               /\ p + need(frames, q, p) \in p + 1 .. Len(q)
               /\ Boundary(frames, q, m, p + need(frames, q, p), n + 1)
    <2>1. p < Len(q) /\ p + need(frames, q, p) <= Len(q)
      BY <1>3, <1>5 DEF HasFrame
    <2>2. need(frames, q, p) = N /\ p + N <= Len(q) /\ N \in Nat \ {0} /\ n + 1 \in 1 .. Len(frames)
      BY <1>2, <2>1
    <2>3. N \in 1 .. N /\ p + N # 0 /\ p + N \in p + 1 .. Len(q)
      BY <1>1, <2>2
    <2>4. q[p + N] = <<n + 1, N>>
      BY <1>2, <2>1, <2>2, <2>3
    <2>5. Boundary(frames, q, m, p + N, n + 1)
      BY <2>3, <2>4 DEF Boundary, N
    <2>6. QED
      BY <2>2, <2>3, <2>5
  <1>6. ASSUME ~HasFrame(frames, q, p), p < Len(q)
        PROVE  Len(q) - p < N /\ N <= RECV_CAP
    <2>1. N \in H .. H + CHAT_MAX_BODY /\ need(frames, q, p) = N /\ RECV_CAP = H + CHAT_MAX_BODY
      BY <1>2, <1>6 DEF RECV_CAP
    <2>2. CASE HasHeader(q, p)
      <3>1. ~(p + N <= Len(q))
        BY <1>3, <1>6, <2>1, <2>2 DEF HasFrame
      <3>2. QED
        BY <1>1, <2>1, <3>1
    <2>3. CASE ~HasHeader(q, p)
      <3>1. ~(p + H <= Len(q))
        BY <2>3 DEF HasHeader
      <3>2. QED
        BY <1>1, <2>1, <3>1
    <2>4. QED
      BY <2>2, <2>3
  <1>7. ASSUME ~HasFrame(frames, q, p) PROVE Len(q) - p < RECV_CAP
    <2>1. CASE p < Len(q)
      <3>1. Len(q) - p < N /\ N <= RECV_CAP /\ N \in Nat /\ RECV_CAP \in Nat
        BY <1>1, <1>2, <1>6, <1>7, <2>1 DEF RECV_CAP
      <3>2. QED
        BY <1>1, <3>1
    <2>2. CASE ~(p < Len(q))
      BY <1>1, <2>2 DEF RECV_CAP
    <2>3. QED
      BY <2>1, <2>2
  <1>8. QED
    BY <1>4, <1>5, <1>6, <1>7 DEF N

(* A whole frame takes the loop over a buffer on, and not past its end.    *)
LEMMA Forward ==
  ASSUME NEW frames \in Seq(AnyFrame), NEW q, Run(frames, q),
         NEW p \in 0 .. Len(q), HasFrame(frames, q, p)
  PROVE  p + need(frames, q, p) \in p + 1 .. Len(q)
  <1>1. /\ Len(q) \in Nat /\ CHAT_HEADER_SIZE \in Nat \ {0}
        /\ p + CHAT_HEADER_SIZE <= Len(q) /\ p + need(frames, q, p) <= Len(q)
    BY RunIs, ClientAssumption DEF HasFrame, HasHeader
  <1>2. p + 1 \in 1 .. Len(q)
    BY <1>1
  <1>3. q[p + 1][1] \in 1 .. Len(frames)
    BY <1>2, RunIs
  <1>4. need(frames, q, p) = Size(frames, q[p + 1][1])
    BY DEF need, Size
  <1>5. need(frames, q, p) \in Nat \ {0}
    BY <1>3, <1>4, SizeIs
  <1>6. QED
    BY <1>1, <1>5

(* The recursion of Consumed goes forward only, so it defines a function.  *)
IsFunction(f, D) == f = [x \in D |-> f[x]]

LEMMA WayOn ==
  ASSUME NEW frames \in Seq(AnyFrame), NEW q, Run(frames, q)
  PROVE  \E f : /\ IsFunction(f, 0 .. Len(q))
                /\ \A p \in 0 .. Len(q) :
                     f[p] = IF HasFrame(frames, q, p) THEN f[p + need(frames, q, p)] ELSE p
  <1> DEFINE L == Len(q)
             nx(p) == p + need(frames, q, p)
  <1>len. L \in Nat
    BY RunIs
  <1>on. \A p \in 0 .. L : HasFrame(frames, q, p) => nx(p) \in p + 1 .. L
    BY Forward
  <1> HIDE DEF L, nx
  <1> DEFINE Good(f, d) == f = [p \in L - d .. L |-> IF HasFrame(frames, q, p) THEN f[nx(p)] ELSE p]
             S == {d \in 0 .. L : \E f : Good(f, d)}
  <1>1. 0 \in S
    <2> DEFINE g == [p \in L - 0 .. L |-> p]
    <2>1. ~HasFrame(frames, q, L) /\ L - 0 = L
      BY <1>len, <1>on
    <2>2. \A p \in L - 0 .. L : ~HasFrame(frames, q, p)
      BY <1>len, <1>on, <2>1
    <2>3. g = [p \in L - 0 .. L |-> IF HasFrame(frames, q, p) THEN g[nx(p)] ELSE p]
      BY <2>2
    <2>4. 0 \in 0 .. L
      BY <1>len, <1>on
    <2> HIDE DEF g
    <2>5. QED
      BY <2>3, <2>4
  <1>2. ASSUME NEW d \in 0 .. L - 1, d \in S PROVE d + 1 \in S
    <2>1. PICK f : Good(f, d)
      BY <1>2
    <2> DEFINE z == L - (d + 1)
               g == [p \in z .. L |-> IF p = z THEN IF HasFrame(frames, q, z) THEN f[nx(z)] ELSE z ELSE f[p]]
    <2>2. z \in 0 .. L /\ L - d = z + 1 /\ d + 1 \in 0 .. L
      BY <1>len, <1>on
    <2> HIDE DEF z
    <2>3. \A p \in z + 1 .. L : g[p] = f[p]
      BY <2>2
    <2>4. ASSUME NEW p \in z .. L PROVE g[p] = IF HasFrame(frames, q, p) THEN g[nx(p)] ELSE p
      <3>1. CASE p = z
        <4>1. g[p] = IF HasFrame(frames, q, z) THEN f[nx(z)] ELSE z
          BY <2>2, <3>1
        <4>2. HasFrame(frames, q, z) => g[nx(z)] = f[nx(z)]
          BY <1>len, <1>on, <2>2, <2>3
        <4>3. QED
          BY <3>1, <4>1, <4>2
      <3>2. CASE p # z
        <4>1. p \in z + 1 .. L /\ g[p] = f[p]
          BY <2>2, <2>3, <3>2
        <4>2. f[p] = IF HasFrame(frames, q, p) THEN f[nx(p)] ELSE p
          BY <2>1, <2>2, <4>1
        <4>3. HasFrame(frames, q, p) => g[nx(p)] = f[nx(p)]
          <5>1. HasFrame(frames, q, p) => nx(p) \in z + 1 .. L
            BY <1>len, <1>on, <2>2, <4>1
          <5>2. QED
            BY <2>3, <5>1
        <4>4. QED
          BY <4>1, <4>2, <4>3
      <3>3. QED
        BY <3>1, <3>2
    <2>5. g = [p \in z .. L |-> g[p]]
      OBVIOUS
    <2> HIDE DEF g
    <2>6. Good(g, d + 1)
      BY <2>4, <2>5 DEF z
    <2>7. QED
      BY <2>2, <2>6
  <1> HIDE DEF S
  <1>3. L \in S
    <2>1. \A k \in 0 .. L : k \in S
      BY <1>len, <1>1, <1>2, UpTo
    <2>2. QED
      BY <1>len, <2>1
  <1>4. PICK f : Good(f, L)
    BY <1>3 DEF S
  <1>5. L - L = 0
    BY <1>len, <1>on
  <1>6. f = [p \in 0 .. L |-> IF HasFrame(frames, q, p) THEN f[nx(p)] ELSE p]
    BY <1>4, <1>5
  <1>7. QED
    BY <1>6 DEF IsFunction, L, nx

(* The recursion of Consumed has the values it says it has, since offsets  *)
(* only grow towards the end of the buffer.                                *)
LEMMA ConsumedDefined ==
  ASSUME NEW frames \in Seq(AnyFrame), NEW q, Run(frames, q)
  PROVE  \E f : /\ Consumed(frames, q) = f[0]
                /\ \A p \in 0 .. Len(q) :
                     f[p] = IF HasFrame(frames, q, p) THEN f[p + need(frames, q, p)] ELSE p
  <1> DEFINE after == CHOOSE f : f = [p \in 0 .. Len(q) |->
                        IF HasFrame(frames, q, p) THEN f[p + need(frames, q, p)] ELSE p]
  <1>1. PICK f : /\ IsFunction(f, 0 .. Len(q))
                 /\ \A p \in 0 .. Len(q) :
                      f[p] = IF HasFrame(frames, q, p) THEN f[p + need(frames, q, p)] ELSE p
    BY WayOn
  <1>2. f = [p \in 0 .. Len(q) |-> IF HasFrame(frames, q, p) THEN f[p + need(frames, q, p)] ELSE p]
    BY <1>1 DEF IsFunction
  <1>3. after = [p \in 0 .. Len(q) |->
                   IF HasFrame(frames, q, p) THEN after[p + need(frames, q, p)] ELSE p]
    BY <1>2, Zenon
  <1>4. Consumed(frames, q) = after[0]
    BY Zenon DEF Consumed
  <1> HIDE DEF after
  <1>5. QED
    BY <1>3, <1>4

(* The loop over the frames of a buffer ends at a boundary, and leaves no  *)
(* whole frame.                                                            *)
LEMMA ConsumedIs ==
  ASSUME NEW frames \in Seq(AnyFrame), NEW q, NEW m, Rest(frames, q, m)
  PROVE  /\ Consumed(frames, q) \in 0 .. Len(q)
         /\ ~HasFrame(frames, q, Consumed(frames, q))
         /\ \E n \in m .. Len(frames) : Boundary(frames, q, m, Consumed(frames, q), n)
  <1>1. Run(frames, q) /\ Len(q) \in Nat /\ m \in Nat /\ Len(frames) \in Nat /\ m <= Len(frames)
    <2>1. Run(frames, q) /\ m \in 0 .. Len(frames)
      BY DEF Rest
    <2>2. QED
      BY <2>1, RunIs
  <1>2. PICK f : /\ Consumed(frames, q) = f[0]
                 /\ \A p \in 0 .. Len(q) :
                      f[p] = IF HasFrame(frames, q, p) THEN f[p + need(frames, q, p)] ELSE p
    BY <1>1, ConsumedDefined
  <1> DEFINE Good(p) == /\ f[p] \in 0 .. Len(q) /\ ~HasFrame(frames, q, f[p])
                        /\ \E n \in m .. Len(frames) : Boundary(frames, q, m, f[p], n)
             Ends1(p) == \E n \in m .. Len(frames) : Boundary(frames, q, m, p, n)
             T == {d \in 0 .. Len(q) : Ends1(Len(q) - d) /\ ~Good(Len(q) - d)}
  <1>3. T = {}
    <2> SUFFICES ASSUME T # {} PROVE FALSE
      OBVIOUS
    <2>1. PICK d \in T : \A e \in T : d <= e
      <3>1. T \in SUBSET Nat
        BY <1>1
      <3> HIDE DEF T
      <3>2. QED
        BY <3>1, Minimum
    <2> DEFINE p == Len(q) - d
    <2>2. p \in 0 .. Len(q) /\ d \in 0 .. Len(q) /\ Ends1(p) /\ ~Good(p)
      BY <1>1, <2>1
    <2>3. PICK n \in m .. Len(frames) : Boundary(frames, q, m, p, n)
      BY <2>2
    <2> HIDE DEF p
    <2>4. CASE ~HasFrame(frames, q, p)
      <3>1. f[p] = p
        BY <1>2, <2>2, <2>4
      <3>2. QED
        BY <2>2, <2>3, <2>4, <3>1
    <2>5. CASE HasFrame(frames, q, p)
      <3> DEFINE x == p + need(frames, q, p)
      <3>1. /\ x \in p + 1 .. Len(q) /\ n + 1 \in 1 .. Len(frames)
            /\ Boundary(frames, q, m, x, n + 1) /\ f[p] = f[x]
        BY <1>2, <2>2, <2>3, <2>5, HeaderIs
      <3> HIDE DEF x
      <3> DEFINE e == Len(q) - x
      <3>2. e \in 0 .. Len(q) /\ Len(q) - e = x /\ e < d /\ n + 1 \in m .. Len(frames)
        BY SMTT(30), <1>1, <2>2, <3>1 DEF p
      <3> HIDE DEF e
      <3>3. Ends1(Len(q) - e) /\ ~Good(Len(q) - e)
        <4>1. Ends1(x)
          BY <3>1, <3>2
        <4>2. ~Good(x)
          BY <2>2, <3>1
        <4>3. QED
          BY <3>2, <4>1, <4>2
      <3>4. e \in T
        BY <3>2, <3>3
      <3>5. QED
        BY SMTT(30), <1>1, <2>1, <2>2, <3>2, <3>4
    <2>6. QED
      BY <2>4, <2>5
  <1>4. Ends1(0)
    BY <1>1 DEF Boundary
  <1>5. Good(0)
    <2>1. Len(q) \in 0 .. Len(q) /\ Len(q) - Len(q) = 0
      BY <1>1
    <2>2. QED
      BY <1>3, <1>4, <2>1
  <1>6. QED
    BY <1>2, <1>5

(* What NumbersIn reads off whole frames: their numbers, in order.         *)
LEMMA StepByStep ==
  ASSUME NEW N \in Nat, NEW units
  PROVE  \E f : /\ IsFunction(f, 0 .. N)
                /\ \A k \in 0 .. N :
                     f[k] = IF k = 0 THEN <<>>
                            ELSE IF units[k][2] = 1 THEN Append(f[k - 1], units[k][1])
                            ELSE f[k - 1]
  <1> DEFINE Val(f, k) == IF k = 0 THEN <<>>
                          ELSE IF units[k][2] = 1 THEN Append(f[k - 1], units[k][1])
                          ELSE f[k - 1]
             Good(f, n) == f = [k \in 0 .. n |-> Val(f, k)]
             S == {n \in 0 .. N : \E f : Good(f, n)}
  <1>1. 0 \in S
    <2> DEFINE g == [k \in 0 .. 0 |-> <<>>]
    <2>1. \A k \in 0 .. 0 : g[k] = Val(g, k)
      OBVIOUS
    <2>2. g = [k \in 0 .. 0 |-> g[k]] /\ 0 \in 0 .. N
      OBVIOUS
    <2> HIDE DEF g, Val
    <2>3. Good(g, 0)
      BY <2>1, <2>2
    <2>4. QED
      BY <2>2, <2>3
  <1>2. ASSUME NEW n \in 0 .. N - 1, n \in S PROVE n + 1 \in S
    <2>1. PICK f : Good(f, n)
      BY <1>2
    <2> DEFINE g == [k \in 0 .. n + 1 |-> IF k = n + 1 THEN Val(f, n + 1) ELSE f[k]]
    <2>2. /\ \A k \in 0 .. n : g[k] = f[k] /\ f[k] = Val(f, k)
          /\ g[n + 1] = Val(f, n + 1) /\ n + 1 \in 0 .. N
      <3> HIDE DEF Val
      <3>1. \A k \in 0 .. n : f[k] = Val(f, k)
        BY <2>1
      <3>2. \A k \in 0 .. n : k \in 0 .. n + 1 /\ k # n + 1
        OBVIOUS
      <3>3. n + 1 \in 0 .. n + 1 /\ n + 1 \in 0 .. N
        OBVIOUS
      <3>4. QED
        BY <3>1, <3>2, <3>3
    <2>3. g = [k \in 0 .. n + 1 |-> g[k]]
      OBVIOUS
    <2> HIDE DEF g
    <2>4. ASSUME NEW k \in 0 .. n + 1 PROVE g[k] = Val(g, k)
      <3>1. CASE k = n + 1
        <4>1. k - 1 = n /\ k # 0 /\ n \in 0 .. n
          BY <3>1
        <4>2. g[k - 1] = f[k - 1]
          BY <2>2, <4>1
        <4>3. QED
          BY <2>2, <3>1, <4>1, <4>2
      <3>2. CASE k # n + 1
        <4>1. k \in 0 .. n /\ (k # 0 => k - 1 \in 0 .. n)
          BY <3>2
        <4>2. g[k] = Val(f, k) /\ (k # 0 => g[k - 1] = f[k - 1])
          BY <2>2, <4>1
        <4>3. QED
          BY <4>2
      <3>3. QED
        BY <3>1, <3>2
    <2> HIDE DEF Val
    <2>5. Good(g, n + 1)
      BY <2>3, <2>4
    <2>6. QED
      BY <2>2, <2>5
  <1> HIDE DEF S
  <1>3. N \in S
    BY <1>1, <1>2, UpTo
  <1>4. PICK f : Good(f, N)
    BY <1>3 DEF S
  <1>5. QED
    BY <1>4 DEF IsFunction

(* The same of NumbersIn, whose recursion goes back to 0.                  *)
LEMMA NumbersDefined ==
  ASSUME NEW units, Len(units) \in Nat
  PROVE  \E f : /\ NumbersIn(units) = f[Len(units)]
                /\ f[0] = <<>>
                /\ \A k \in 1 .. Len(units) :
                     f[k] = IF units[k][2] = 1 THEN Append(f[k - 1], units[k][1]) ELSE f[k - 1]
  <1> DEFINE numbers == CHOOSE f : f = [k \in 0 .. Len(units) |->
                IF k = 0 THEN <<>>
                ELSE IF units[k][2] = 1 THEN Append(f[k - 1], units[k][1])
                ELSE f[k - 1]]
  <1>1. \E f : f = [k \in 0 .. Len(units) |->
                IF k = 0 THEN <<>>
                ELSE IF units[k][2] = 1 THEN Append(f[k - 1], units[k][1])
                ELSE f[k - 1]]
    <2>1. PICK f : /\ IsFunction(f, 0 .. Len(units))
                   /\ \A k \in 0 .. Len(units) :
                        f[k] = IF k = 0 THEN <<>>
                               ELSE IF units[k][2] = 1 THEN Append(f[k - 1], units[k][1])
                               ELSE f[k - 1]
      BY StepByStep
    <2>2. QED
      BY <2>1 DEF IsFunction
  <1>2. numbers = [k \in 0 .. Len(units) |->
                IF k = 0 THEN <<>>
                ELSE IF units[k][2] = 1 THEN Append(numbers[k - 1], units[k][1])
                ELSE numbers[k - 1]]
    BY <1>1, Zenon
  <1>3. NumbersIn(units) = numbers[Len(units)]
    BY DEF NumbersIn
  <1> HIDE DEF numbers
  <1>4. numbers[0] = <<>>
    BY <1>2
  <1>5. ASSUME NEW k \in 1 .. Len(units)
        PROVE  numbers[k] = IF units[k][2] = 1 THEN Append(numbers[k - 1], units[k][1])
                            ELSE numbers[k - 1]
    <2>1. k \in 0 .. Len(units) /\ k # 0
      OBVIOUS
    <2>2. QED
      BY <1>2, <2>1
  <1>6. QED
    BY <1>3, <1>4, <1>5

(* What begins in a piece that ends with the n-th frame: the frames after  *)
(* the m-th up to the n-th, in order.                                      *)
LEMMA NumbersAre ==
  ASSUME NEW frames \in Seq(AnyFrame), NEW q, NEW m, Rest(frames, q, m),
         NEW n, Boundary(frames, q, m, Len(q), n)
  PROVE  n - m \in Nat /\ NumbersIn(q) = [k \in 1 .. n - m |-> m + k]
  <1>1. /\ Run(frames, q) /\ q \in Seq(Units) /\ Len(q) \in Nat
        /\ m \in Nat /\ (q # <<>> => q[1] = <<m + 1, 1>>)
    <2>1. Run(frames, q) /\ m \in 0 .. Len(frames) /\ (q # <<>> => q[1] = <<m + 1, 1>>)
      BY DEF Rest
    <2>2. QED
      BY <2>1, RunIs
  <1>2. PICK f : /\ NumbersIn(q) = f[Len(q)]
                 /\ f[0] = <<>>
                 /\ \A k \in 1 .. Len(q) :
                      f[k] = IF q[k][2] = 1 THEN Append(f[k - 1], q[k][1]) ELSE f[k - 1]
    BY <1>1, NumbersDefined
  <1> DEFINE List(j) == [k \in 1 .. j |-> m + k]
             Good(k) == k = 0 \/ (q[k][1] - m \in Nat /\ f[k] = List(q[k][1] - m))
             S == {k \in 0 .. Len(q) : Good(k)}
  <1>3. \A j \in Nat : Append(List(j), m + (j + 1)) = List(j + 1)
    <2> SUFFICES ASSUME NEW j \in Nat PROVE Append(List(j), m + (j + 1)) = List(j + 1)
      OBVIOUS
    <2>1. List(j) \in Seq(Int) /\ Len(List(j)) = j /\ List(j + 1) \in Seq(Int) /\ Len(List(j + 1)) = j + 1
      BY <1>1
    <2>2. m + (j + 1) \in Int
      BY <1>1
    <2> DEFINE s == List(j)
               a == Append(s, m + (j + 1))
               r == List(j + 1)
    <2>3. /\ \A k \in 1 .. j : s[k] = m + k
          /\ \A k \in 1 .. j + 1 : r[k] = m + k
      OBVIOUS
    <2> HIDE DEF s, r
    <2>4. /\ a \in Seq(Int) /\ Len(a) = j + 1
          /\ \A k \in 1 .. j : a[k] = s[k]
          /\ a[j + 1] = m + (j + 1)
      <3>1. s \in Seq(Int) /\ Len(s) = j
        BY <2>1 DEF s
      <3>2. QED
        BY <2>2, <3>1, AppendProperties
    <2> HIDE DEF a
    <2>5. \A k \in 1 .. j + 1 : a[k] = r[k]
      BY <2>3, <2>4
    <2>6. r \in Seq(Int) /\ Len(r) = j + 1
      BY <2>1 DEF r
    <2>7. a = r
      BY <2>4, <2>5, <2>6, SeqEqual
    <2>8. QED
      BY <2>7 DEF a, s, r
  <1>4. List(0) = <<>>
    OBVIOUS
  <1> HIDE DEF List
  <1>5. 0 \in S
    BY <1>1
  <1>6. ASSUME NEW k \in 0 .. Len(q) - 1, k \in S PROVE k + 1 \in S
    <2>1. /\ k + 1 \in 1 .. Len(q) /\ (k + 1) - 1 = k /\ k \in Nat
          /\ f[k + 1] = IF q[k + 1][2] = 1 THEN Append(f[k], q[k + 1][1]) ELSE f[k]
      <3>1. k + 1 \in 1 .. Len(q) /\ (k + 1) - 1 = k /\ k \in Nat
        BY <1>1
      <3>2. QED
        BY <1>2, <3>1
    <2>2. CASE k = 0
      <3>1. Len(q) # 0
        BY <1>1, <2>1
      <3>2. q[1] = <<m + 1, 1>>
        BY <1>1, <3>1, EmptySeq
      <3>3. q[k + 1][1] = m + (0 + 1) /\ q[k + 1][2] = 1
        BY <1>1, <2>2, <3>2
      <3>4. f[k + 1] = List(0 + 1)
        BY <1>2, <1>3, <1>4, <2>1, <2>2, <3>3
      <3>5. q[k + 1][1] - m = 1 /\ 1 \in Nat /\ 0 + 1 = 1
        BY <1>1, <3>3
      <3>6. QED
        BY <2>1, <3>4, <3>5
    <2>3. CASE k # 0
      <3>1. k \in 1 .. Len(q) /\ q[k][1] - m \in Nat /\ f[k] = List(q[k][1] - m) /\ q[k][1] \in Nat
        <4>1. k \in 1 .. Len(q) /\ q[k][1] - m \in Nat /\ f[k] = List(q[k][1] - m)
          BY <1>6, <2>1, <2>3
        <4>2. QED
          BY <1>1, <4>1, RunIs
      <3>2. /\ q[k][2] \in 1 .. Size(frames, q[k][1]) /\ Size(frames, q[k][1]) \in Nat
            /\ q[k][2] < Size(frames, q[k][1]) => q[k + 1] = <<q[k][1], q[k][2] + 1>>
            /\ q[k][2] = Size(frames, q[k][1]) => q[k + 1] = <<q[k][1] + 1, 1>>
        <4>1. Run(frames, q) /\ k + 1 <= Len(q)
          BY <1>1, <2>1
        <4>2. \A i \in 1 .. Len(q) :
                /\ q[i][2] \in 1 .. Size(frames, q[i][1]) /\ Size(frames, q[i][1]) \in Nat
                /\ i + 1 <= Len(q) =>
                     /\ q[i][2] < Size(frames, q[i][1]) => q[i + 1] = <<q[i][1], q[i][2] + 1>>
                     /\ q[i][2] = Size(frames, q[i][1]) => q[i + 1] = <<q[i][1] + 1, 1>>
          BY <4>1, RunIs
        <4>3. QED
          BY <3>1, <4>1, <4>2
      <3>3. CASE q[k][2] < Size(frames, q[k][1])
        <4>1. q[k + 1][1] = q[k][1] /\ q[k + 1][2] # 1
          BY <3>2, <3>3
        <4>2. QED
          BY <2>1, <3>1, <4>1
      <3>4. CASE q[k][2] = Size(frames, q[k][1])
        <4> DEFINE j == q[k][1] - m
        <4>1. q[k + 1][1] = q[k][1] + 1 /\ q[k + 1][2] = 1
          BY <3>2, <3>4
        <4>2. q[k + 1][1] = m + (j + 1) /\ q[k + 1][1] - m = j + 1 /\ j + 1 \in Nat
          <5>1. \A x, y \in Nat : x - y \in Nat =>
                  x + 1 = y + ((x - y) + 1) /\ (x + 1) - y = (x - y) + 1 /\ (x - y) + 1 \in Nat
            OBVIOUS
          <5>2. PICK x \in Nat : x = q[k][1]
            BY <3>1
          <5>3. x - m \in Nat /\ q[k + 1][1] = x + 1 /\ j = x - m
            BY <3>1, <4>1, <5>2
          <5> HIDE DEF j
          <5>4. QED
            BY <1>1, <5>1, <5>3
        <4>3. f[k + 1] = List(j + 1)
          BY <1>3, <2>1, <3>1, <4>1, <4>2
        <4> HIDE DEF j
        <4>4. QED
          BY <2>1, <4>2, <4>3
      <3>5. QED
        BY <3>2, <3>3, <3>4
    <2>4. QED
      BY <2>2, <2>3
  <1>7. Good(Len(q))
    <2>1. Len(q) \in 0 .. Len(q)
      BY <1>1
    <2> HIDE DEF S
    <2>2. Len(q) \in S
      BY <1>1, <1>5, <1>6, <2>1, UpTo
    <2>3. QED
      BY <2>2 DEF S
  <1>8. CASE Len(q) = 0
    <2>1. n = m
      BY <1>8 DEF Boundary
    <2>2. n - m = 0 /\ NumbersIn(q) = List(0)
      BY <1>1, <1>2, <1>4, <1>8, <2>1
    <2>3. QED
      BY <2>2 DEF List
  <1>9. CASE Len(q) # 0
    <2>1. q[Len(q)] = <<n, Size(frames, n)>>
      BY <1>9 DEF Boundary
    <2>2. q[Len(q)][1] = n
      BY <2>1
    <2>3. n - m \in Nat /\ f[Len(q)] = List(n - m)
      BY <1>7, <1>9, <2>2
    <2>4. QED
      BY <1>2, <2>3 DEF List
  <1>10. QED
    BY <1>8, <1>9

(* More frames leave what is there of the earlier ones as it is.           *)
LEMMA MoreFrames ==
  ASSUME NEW frames \in Seq(AnyFrame), NEW new \in Seq(AnyFrame)
  PROVE  /\ frames \o new \in Seq(AnyFrame)
         /\ Len(frames) \in Nat /\ Len(new) \in Nat
         /\ Len(frames \o new) = Len(frames) + Len(new)
         /\ \A n \in 1 .. Len(frames) : /\ (frames \o new)[n] = frames[n]
                                        /\ Size(frames \o new, n) = Size(frames, n)
         /\ \A n \in 1 .. Len(new) : (frames \o new)[Len(frames) + n] = new[n]
  <1>1. /\ frames \o new \in Seq(AnyFrame)
        /\ Len(frames) \in Nat /\ Len(new) \in Nat
        /\ Len(frames \o new) = Len(frames) + Len(new)
        /\ \A n \in 1 .. Len(frames) : (frames \o new)[n] = frames[n]
        /\ \A n \in 1 .. Len(new) : (frames \o new)[Len(frames) + n] = new[n]
    BY JoinIs
  <1>2. \A n \in 1 .. Len(frames) : Size(frames \o new, n) = Size(frames, n)
    BY <1>1 DEF Size
  <1>3. QED
    BY <1>1, <1>2

(* A piece of a stream is one of the longer stream too.                    *)
LEMMA RunOfMore ==
  ASSUME NEW frames \in Seq(AnyFrame), NEW new \in Seq(AnyFrame), NEW q, NEW m,
         Rest(frames, q, m)
  PROVE  /\ Rest(frames \o new, q, m)
         /\ ~HasFrame(frames, q, 0) => ~HasFrame(frames \o new, q, 0)
         /\ \A p \in 0 .. Len(q), n \in 0 .. Len(frames) :
              Boundary(frames, q, m, p, n) => Boundary(frames \o new, q, m, p, n)
  <1> DEFINE more == frames \o new
  <1>1. /\ more \in Seq(AnyFrame) /\ Len(more) \in Nat /\ Len(frames) \in Nat
        /\ Len(frames) <= Len(more)
        /\ \A n \in 1 .. Len(frames) : more[n] = frames[n] /\ Size(more, n) = Size(frames, n)
    BY MoreFrames
  <1> SUFFICES /\ Rest(more, q, m)
               /\ ~HasFrame(frames, q, 0) => ~HasFrame(more, q, 0)
               /\ \A p \in 0 .. Len(q), n \in 0 .. Len(frames) :
                    Boundary(frames, q, m, p, n) => Boundary(more, q, m, p, n)
    OBVIOUS
  <1> HIDE DEF more
  <1>2. Run(frames, q) /\ m \in 0 .. Len(frames) /\ (q # <<>> => q[1] = <<m + 1, 1>>)
    BY DEF Rest
  <1>3. q \in Seq(Units) /\ Len(q) \in Nat
    BY <1>2, RunIs
  <1>4. ASSUME NEW k \in 1 .. Len(q)
        PROVE  /\ q[k][1] \in 1 .. Len(more) /\ q[k][2] <= Size(more, q[k][1])
               /\ After(more, q[k]) = After(frames, q[k])
    <2>1. q[k][1] \in 1 .. Len(frames) /\ q[k][2] <= Size(frames, q[k][1])
      BY <1>2 DEF Run
    <2>2. Size(more, q[k][1]) = Size(frames, q[k][1])
      BY <1>1, <2>1
    <2>3. q[k][1] \in 1 .. Len(more)
      BY <1>1, <2>1
    <2>4. QED
      BY <2>1, <2>2, <2>3 DEF After
  <1>5. Run(more, q)
    <2>1. ASSUME NEW k \in 1 .. Len(q) - 1 PROVE q[k + 1] = After(more, q[k])
      <3>1. k \in 1 .. Len(q)
        BY <1>3
      <3>2. QED
        BY <1>2, <1>4, <3>1 DEF Run
    <2>2. QED
      BY <1>3, <1>4, <2>1 DEF Run
  <1>6. Rest(more, q, m)
    BY <1>1, <1>2, <1>5 DEF Rest
  <1>7. ASSUME HasFrame(more, q, 0) PROVE HasFrame(frames, q, 0)
    <2>1. HasHeader(q, 0) /\ chat_header_valid(more, q, 0) /\ 0 + need(more, q, 0) <= Len(q)
      BY <1>7 DEF HasFrame
    <2>2. 0 + 1 \in 1 .. Len(q)
      BY <1>3, <2>1, ClientAssumption DEF HasHeader
    <2>3. q[0 + 1][1] \in 1 .. Len(frames)
      BY <1>2, <2>2 DEF Run
    <2>4. more[q[0 + 1][1]] = frames[q[0 + 1][1]]
      BY <1>1, <2>3
    <2>5. need(more, q, 0) = need(frames, q, 0) /\ chat_header_valid(frames, q, 0)
      BY <2>1, <2>4 DEF need, chat_header_valid
    <2>6. QED
      BY <2>1, <2>5 DEF HasFrame
  <1>8. ASSUME NEW p \in 0 .. Len(q), NEW n \in 0 .. Len(frames), Boundary(frames, q, m, p, n)
        PROVE  Boundary(more, q, m, p, n)
    <2>1. CASE p = 0
      BY <1>8, <2>1 DEF Boundary
    <2>2. CASE p # 0
      <3>1. q[p] = <<n, Size(frames, n)>> /\ p \in 1 .. Len(q)
        BY <1>3, <1>8, <2>2 DEF Boundary
      <3>2. q[p][1] \in 1 .. Len(frames) /\ q[p][1] = n
        BY <1>2, <3>1 DEF Run
      <3>3. Size(more, n) = Size(frames, n)
        BY <1>1, <3>2
      <3>4. QED
        BY <2>2, <3>1, <3>3 DEF Boundary
    <2>3. QED
      BY <2>1, <2>2
  <1>9. QED
    BY <1>6, <1>7, <1>8

(* Two streams, the second beginning where the first ends.                 *)
LEMMA GoesOn ==
  ASSUME NEW frames \in Seq(AnyFrame), NEW q, NEW m, NEW n, NEW r,
         Rest(frames, q, m), Boundary(frames, q, m, Len(q), n), Rest(frames, r, n)
  PROVE  /\ Rest(frames, q \o r, m)
         /\ \A e : Boundary(frames, r, n, Len(r), e) => Boundary(frames, q \o r, m, Len(q \o r), e)
  <1> DEFINE w == q \o r
  <1>1. /\ Run(frames, q) /\ Run(frames, r)
        /\ m \in 0 .. Len(frames) /\ (q # <<>> => q[1] = <<m + 1, 1>>)
        /\ n \in 0 .. Len(frames) /\ (r # <<>> => r[1] = <<n + 1, 1>>)
    BY DEF Rest
  <1>2. q \in Seq(Units) /\ r \in Seq(Units)
    BY <1>1, RunIs
  <1>3. /\ w \in Seq(Units) /\ Len(w) = Len(q) + Len(r) /\ Len(q) \in Nat /\ Len(r) \in Nat
        /\ \A k \in 1 .. Len(q) : w[k] = q[k]
        /\ \A k \in 1 .. Len(r) : w[Len(q) + k] = r[k]
    BY <1>2, JoinIs
  <1>4. Len(q) = 0 <=> q = <<>>
    BY <1>2, EmptySeq
  <1>5. Len(r) = 0 <=> r = <<>>
    BY <1>2, EmptySeq
  <1> SUFFICES /\ Rest(frames, w, m)
               /\ \A e : Boundary(frames, r, n, Len(r), e) => Boundary(frames, w, m, Len(w), e)
    OBVIOUS
  <1> HIDE DEF w
  <1>6. Len(q) = 0 => n = m
    BY DEF Boundary
  <1>7. ASSUME NEW k \in 1 .. Len(w)
        PROVE  \/ k \in 1 .. Len(q)
               \/ \E j \in 1 .. Len(r) : k = Len(q) + j
    <2>1. CASE k <= Len(q)
      BY <1>3, <2>1
    <2>2. CASE ~(k <= Len(q))
      <3> DEFINE j == k - Len(q)
      <3>1. j \in 1 .. Len(r) /\ k = Len(q) + j
        BY <1>3, <2>2
      <3> HIDE DEF j
      <3>2. QED
        BY <3>1
    <2>3. QED
      BY <2>1, <2>2
  <1>8. ASSUME NEW k \in 1 .. Len(w)
        PROVE  w[k][1] \in 1 .. Len(frames) /\ w[k][2] <= Size(frames, w[k][1])
    <2>1. CASE k \in 1 .. Len(q)
      BY <1>1, <1>3, <2>1 DEF Run
    <2>2. ASSUME NEW j \in 1 .. Len(r), k = Len(q) + j
          PROVE  w[k][1] \in 1 .. Len(frames) /\ w[k][2] <= Size(frames, w[k][1])
      BY <1>1, <1>3, <2>2 DEF Run
    <2>3. QED
      BY <1>7, <2>1, <2>2
  <1>9. ASSUME NEW k \in 1 .. Len(w) - 1 PROVE w[k + 1] = After(frames, w[k])
    <2>0. k \in 1 .. Len(w) /\ k + 1 \in 1 .. Len(w) /\ k \in Nat
      <3>1. k \in Nat /\ 1 <= k /\ k + 1 <= Len(w) /\ Len(w) \in Nat
        BY <1>3
      <3>2. QED
        BY <3>1
    <2>1. CASE k \in 1 .. Len(q) - 1
      <3>1. k \in 1 .. Len(q) /\ k + 1 \in 1 .. Len(q)
        BY <1>3, <2>0, <2>1
      <3>2. QED
        BY <1>1, <1>3, <2>1, <3>1 DEF Run
    <2>2. CASE k = Len(q)
      <3>1. /\ Len(q) # 0 /\ Len(q) \in 1 .. Len(q) /\ Len(r) # 0
            /\ 1 \in 1 .. Len(r) /\ k + 1 = Len(q) + 1
        BY <1>3, <2>0, <2>2
      <3>2. q[k] = <<n, Size(frames, n)>> /\ w[k] = q[k] /\ w[k + 1] = <<n + 1, 1>>
        BY <1>1, <1>3, <1>5, <2>2, <3>1 DEF Boundary
      <3>3. n \in 1 .. Len(frames)
        BY <1>1, <2>2, <3>1, <3>2 DEF Run
      <3>4. ~(Size(frames, n) < Size(frames, n))
        BY <3>3, SizeIs
      <3>5. QED
        BY <3>2, <3>4 DEF After
    <2>3. CASE k > Len(q)
      <3>1. PICK j \in 1 .. Len(r) : k = Len(q) + j
        BY <1>3, <1>7, <2>0, <2>3
      <3>2. j \in 1 .. Len(r) - 1 /\ j + 1 \in 1 .. Len(r) /\ k + 1 = Len(q) + (j + 1)
        BY <1>3, <2>0, <3>1
      <3>3. w[k] = r[j] /\ w[k + 1] = r[j + 1]
        BY <1>3, <3>1, <3>2
      <3>4. QED
        BY <1>1, <3>2, <3>3 DEF Run
    <2>4. QED
      BY <1>3, <2>0, <2>1, <2>2, <2>3
  <1>10. Run(frames, w)
    BY <1>3, <1>8, <1>9 DEF Run
  <1>11. ASSUME w # <<>> PROVE w[1] = <<m + 1, 1>>
    <2>1. CASE q # <<>>
      <3>1. 1 \in 1 .. Len(q)
        BY <1>3, <1>4, <2>1
      <3>2. QED
        BY <1>1, <1>3, <2>1, <3>1
    <2>2. CASE q = <<>>
      <3>1. Len(q) = 0 /\ n = m /\ Len(w) # 0
        BY <1>3, <1>4, <1>6, <1>11, <2>2, EmptySeq
      <3>2. 1 \in 1 .. Len(r) /\ Len(q) + 1 = 1
        BY <1>3, <3>1
      <3>3. r # <<>> /\ w[1] = r[1]
        BY <1>3, <1>5, <3>2
      <3>4. QED
        BY <1>1, <3>1, <3>3
    <2>3. QED
      BY <2>1, <2>2
  <1>12. Rest(frames, w, m)
    BY <1>1, <1>10, <1>11 DEF Rest
  <1>13. ASSUME NEW e, Boundary(frames, r, n, Len(r), e) PROVE Boundary(frames, w, m, Len(w), e)
    <2>1. CASE Len(r) = 0
      <3>1. e = n /\ Len(w) = Len(q)
        BY <1>3, <1>13, <2>1 DEF Boundary
      <3>2. Len(q) # 0 => Len(q) \in 1 .. Len(q)
        BY <1>3
      <3>3. QED
        BY <1>3, <3>1, <3>2 DEF Boundary
    <2>2. CASE Len(r) # 0
      <3>1. Len(r) \in 1 .. Len(r) /\ Len(w) # 0
        BY <1>3, <2>2
      <3>2. w[Len(w)] = r[Len(r)]
        BY <1>3, <3>1
      <3>3. QED
        BY <1>13, <2>2, <3>1, <3>2 DEF Boundary
    <2>3. QED
      BY <2>1, <2>2
  <1>14. QED
    BY <1>12, <1>13

(* The units of one frame, of any number of frames.                        *)
LEMMA UnitsOfIs ==
  ASSUME NEW frames \in Seq(AnyFrame), NEW n \in 1 .. Len(frames)
  PROVE  /\ Rest(frames, UnitsOf(frames, n), n - 1)
         /\ Boundary(frames, UnitsOf(frames, n), n - 1, Len(UnitsOf(frames, n)), n)
         /\ UnitsOf(frames, n) # <<>> /\ Len(UnitsOf(frames, n)) \in Nat \ {0}
  <1> DEFINE N == Size(frames, n)
             u == UnitsOf(frames, n)
  <1>1. /\ N \in Nat \ {0} /\ N <= CHAT_HEADER_SIZE + CHAT_MAX_BODY
        /\ n \in Nat \ {0} /\ n - 1 \in 0 .. Len(frames) /\ (n - 1) + 1 = n
    <2>1. N \in CHAT_HEADER_SIZE .. CHAT_HEADER_SIZE + CHAT_MAX_BODY /\ N \in Nat \ {0}
      BY SizeIs
    <2>2. Len(frames) \in Nat
      BY LenProperties
    <2> HIDE DEF N
    <2>3. QED
      BY <2>1, <2>2, ClientAssumption
  <1>2. u = [k \in 1 .. N |-> <<n, k>>]
    BY DEF UnitsOf, Size
  <1> HIDE DEF N
  <1>3. u \in Seq(Units) /\ Len(u) = N /\ \A k \in 1 .. N : u[k] = <<n, k>>
    <2> DEFINE K == CHAT_HEADER_SIZE + CHAT_MAX_BODY
    <2>1. \A k \in 1 .. N : k \in 1 .. K
      BY <1>1, ClientAssumption
    <2> HIDE DEF K
    <2>2. \A k \in 1 .. N : <<n, k>> \in Units
      BY <1>1, <2>1 DEF Units, K
    <2> HIDE DEF u
    <2>3. u \in Seq(Units) /\ Len(u) = N
      BY <1>1, <1>2, <2>2
    <2>4. QED
      BY <1>2, <2>3
  <1> HIDE DEF u
  <1>4. Run(frames, u)
    <2>1. ASSUME NEW k \in 1 .. Len(u)
          PROVE  u[k][1] \in 1 .. Len(frames) /\ u[k][2] <= Size(frames, u[k][1])
      BY <1>1, <1>3 DEF N
    <2>2. ASSUME NEW k \in 1 .. Len(u) - 1 PROVE u[k + 1] = After(frames, u[k])
      <3>1. k \in 1 .. N /\ k + 1 \in 1 .. N /\ k < N
        <4>1. k \in Nat /\ 1 <= k /\ k + 1 <= N
          BY <1>1, <1>3
        <4>2. QED
          BY <1>1, <4>1
      <3>2. u[k] = <<n, k>> /\ u[k + 1] = <<n, k + 1>>
        BY <1>3, <3>1
      <3>3. QED
        BY <3>1, <3>2 DEF After, N
    <2>3. QED
      BY <1>3, <2>1, <2>2 DEF Run
  <1>5. Rest(frames, u, n - 1) /\ u # <<>>
    <2>1. 1 \in 1 .. N
      BY <1>1
    <2>2. u[1] = <<(n - 1) + 1, 1>>
      BY <1>1, <1>3, <2>1
    <2>3. u # <<>>
      BY <1>1, <1>3, EmptySeq
    <2>4. QED
      BY <1>1, <1>4, <2>2, <2>3 DEF Rest
  <1>6. Boundary(frames, u, n - 1, Len(u), n)
    <2>1. N \in 1 .. N /\ N # 0
      BY <1>1
    <2>2. u[N] = <<n, N>>
      BY <1>3, <2>1
    <2>3. QED
      BY <1>3, <2>1, <2>2 DEF Boundary, N
  <1>7. QED
    BY <1>1, <1>3, <1>5, <1>6 DEF u

(* Two pieces from the same place agree as far as both go, and two to the  *)
(* very end are the same.                                                  *)
LEMMA Agree ==
  ASSUME NEW frames \in Seq(AnyFrame), NEW m, NEW q, NEW r,
         Rest(frames, q, m), Rest(frames, r, m), Len(q) <= Len(r)
  PROVE  \A k \in 1 .. Len(q) : q[k] = r[k]
  <1> DEFINE S == {k \in 0 .. Len(q) : k = 0 \/ q[k] = r[k]}
  <1>1. /\ Run(frames, q) /\ q \in Seq(Units) /\ Len(q) \in Nat /\ (q # <<>> => q[1] = <<m + 1, 1>>)
        /\ Run(frames, r) /\ r \in Seq(Units) /\ Len(r) \in Nat /\ (r # <<>> => r[1] = <<m + 1, 1>>)
    <2>1. /\ Run(frames, q) /\ (q # <<>> => q[1] = <<m + 1, 1>>)
          /\ Run(frames, r) /\ (r # <<>> => r[1] = <<m + 1, 1>>)
      BY DEF Rest
    <2>2. QED
      BY <2>1, RunIs
  <1>2. ASSUME NEW k \in 0 .. Len(q) - 1, k \in S PROVE k + 1 \in S
    <2>1. k \in Nat /\ k + 1 \in 1 .. Len(q)
      BY <1>1
    <2>2. CASE k = 0
      <3>1. q # <<>> /\ r # <<>>
        BY <1>1, <2>1, EmptySeq
      <3>2. QED
        BY <1>1, <2>1, <2>2, <3>1
    <2>3. CASE k # 0
      <3>1. k \in 1 .. Len(q) - 1 /\ k \in 1 .. Len(r) - 1 /\ q[k] = r[k]
        BY <1>1, <1>2, <2>1, <2>3
      <3>2. q[k + 1] = After(frames, q[k]) /\ r[k + 1] = After(frames, r[k])
        BY <1>1, <3>1 DEF Run
      <3>3. QED
        BY <2>1, <3>1, <3>2
    <2>4. QED
      BY <2>2, <2>3
  <1>3. 0 \in S
    BY <1>1
  <1> HIDE DEF S
  <1>4. \A k \in 0 .. Len(q) : k \in S
    BY <1>1, <1>2, <1>3, UpTo
  <1>5. ASSUME NEW k \in 1 .. Len(q) PROVE q[k] = r[k]
    <2>1. k \in 0 .. Len(q) /\ k # 0
      BY <1>1
    <2>2. k \in S
      BY <1>4, <2>1
    <2>3. QED
      BY <2>1, <2>2 DEF S
  <1>6. QED
    BY <1>5

(* A whole stream cannot go on.                                            *)
LEMMA NoLonger ==
  ASSUME NEW frames \in Seq(AnyFrame), NEW m, NEW q, NEW r,
         Whole(frames, q, m), Rest(frames, r, m)
  PROVE  Len(r) <= Len(q)
  <1> SUFFICES ASSUME ~(Len(r) <= Len(q)) PROVE FALSE
    OBVIOUS
  <1>1. Rest(frames, q, m) /\ Boundary(frames, q, m, Len(q), Len(frames))
    BY DEF Whole
  <1>2. /\ Len(q) \in Nat /\ Len(r) \in Nat /\ m \in 0 .. Len(frames) /\ Len(frames) \in Nat
        /\ Run(frames, r) /\ Run(frames, q) /\ (r # <<>> => r[1] = <<m + 1, 1>>) /\ r \in Seq(Units)
    <2>1. /\ Run(frames, q) /\ Run(frames, r) /\ m \in 0 .. Len(frames)
          /\ (r # <<>> => r[1] = <<m + 1, 1>>)
      BY <1>1 DEF Rest
    <2>2. QED
      BY <2>1, RunIs
  <1>3. Boundary(frames, r, m, Len(q), Len(frames))
    <2>1. CASE Len(q) = 0
      BY <1>1, <2>1 DEF Boundary
    <2>2. CASE Len(q) # 0
      <3>1. Len(q) \in 1 .. Len(q) /\ Len(q) <= Len(r)
        BY <1>2, <2>2
      <3>2. q[Len(q)] = r[Len(q)]
        BY <1>1, <3>1, Agree
      <3>3. QED
        BY <1>1, <2>2, <3>2 DEF Boundary
    <2>3. QED
      BY <2>1, <2>2
  <1>4. Len(q) \in 0 .. Len(r) /\ Len(q) < Len(r)
    BY <1>2
  <1>5. Len(frames) + 1 \in 1 .. Len(frames)
    BY <1>3, <1>4, InFrame
  <1>6. QED
    BY <1>2, <1>5

(* Two pieces that begin alike and go to the end are one sequence.         *)
LEMMA Same ==
  ASSUME NEW frames \in Seq(AnyFrame), NEW m, NEW q, NEW r,
         Whole(frames, q, m), Whole(frames, r, m)
  PROVE  q = r
  <1>1. Rest(frames, q, m) /\ Rest(frames, r, m)
    BY DEF Whole
  <1>2. q \in Seq(Units) /\ r \in Seq(Units) /\ Len(q) \in Nat /\ Len(r) \in Nat
    BY <1>1, RunIs DEF Rest
  <1>3. Len(r) <= Len(q) /\ Len(q) <= Len(r)
    BY <1>1, NoLonger
  <1>4. Len(q) = Len(r)
    BY <1>2, <1>3
  <1>5. \A k \in 1 .. Len(q) : q[k] = r[k]
    BY <1>1, <1>3, Agree
  <1>6. QED
    BY <1>2, <1>4, <1>5, SeqEqual

(* One that need not go to the end is a beginning of one that does.        *)
LEMMA BeginsIt ==
  ASSUME NEW frames \in Seq(AnyFrame), NEW m, NEW q, NEW r,
         Rest(frames, q, m), Whole(frames, r, m)
  PROVE  IsPrefix(q, r)
  <1>1. Rest(frames, r, m)
    BY DEF Whole
  <1>2. q \in Seq(Units) /\ r \in Seq(Units) /\ Len(q) \in Nat /\ Len(r) \in Nat
    BY <1>1, RunIs DEF Rest
  <1>3. Len(q) <= Len(r) /\ Len(q) \in 0 .. Len(q) /\ Len(q) \in 0 .. Len(r)
    BY <1>2, NoLonger
  <1>4. \A k \in 1 .. Len(q) : q[k] = r[k]
    BY <1>1, <1>3, Agree
  <1>5. /\ SubSeq(q, 1, Len(q)) \in Seq(Units) /\ Len(SubSeq(q, 1, Len(q))) = Len(q)
        /\ \A k \in 1 .. Len(q) : SubSeq(q, 1, Len(q))[k] = q[k]
    BY <1>2, <1>3, UptoIs
  <1>6. /\ SubSeq(r, 1, Len(q)) \in Seq(Units) /\ Len(SubSeq(r, 1, Len(q))) = Len(q)
        /\ \A k \in 1 .. Len(q) : SubSeq(r, 1, Len(q))[k] = r[k]
    BY <1>2, <1>3, UptoIs
  <1> DEFINE x == SubSeq(q, 1, Len(q))
             y == SubSeq(r, 1, Len(q))
  <1>7. x = y
    <2>1. /\ x \in Seq(Units) /\ Len(x) = Len(q) /\ y \in Seq(Units) /\ Len(y) = Len(q)
          /\ \A k \in 1 .. Len(q) : x[k] = y[k]
      BY <1>4, <1>5, <1>6
    <2> HIDE DEF x, y
    <2>2. QED
      BY <2>1, SeqEqual
  <1>8. QED
    BY <1>3, <1>7 DEF IsPrefix

(* The units of all frames after the m-th, one after the other.            *)
LEMMA OneByOne ==
  ASSUME NEW N \in Nat, NEW ss
  PROVE  \E f : /\ IsFunction(f, 1 .. N)
                /\ \A i \in 1 .. N : f[i] = IF i = 1 THEN ss[i] ELSE f[i - 1] \o ss[i]
  <1> DEFINE Val(f, i) == IF i = 1 THEN ss[i] ELSE f[i - 1] \o ss[i]
             Good(f, n) == f = [i \in 1 .. n |-> Val(f, i)]
             S == {n \in 0 .. N : \E f : Good(f, n)}
  <1>1. 0 \in S
    <2> DEFINE g == [i \in 1 .. 0 |-> <<>>]
    <2>1. \A i \in 1 .. 0 : g[i] = Val(g, i)
      OBVIOUS
    <2>2. g = [i \in 1 .. 0 |-> g[i]] /\ 0 \in 0 .. N
      OBVIOUS
    <2> HIDE DEF g, Val
    <2>3. Good(g, 0)
      BY <2>1, <2>2
    <2>4. QED
      BY <2>2, <2>3
  <1>2. ASSUME NEW n \in 0 .. N - 1, n \in S PROVE n + 1 \in S
    <2>1. PICK f : Good(f, n)
      BY <1>2
    <2> DEFINE g == [i \in 1 .. n + 1 |-> IF i = n + 1 THEN Val(f, n + 1) ELSE f[i]]
    <2>2. /\ \A i \in 1 .. n : g[i] = f[i] /\ f[i] = Val(f, i)
          /\ g[n + 1] = Val(f, n + 1) /\ n + 1 \in 0 .. N
      <3> HIDE DEF Val
      <3>1. \A i \in 1 .. n : f[i] = Val(f, i)
        BY <2>1
      <3>2. \A i \in 1 .. n : i \in 1 .. n + 1 /\ i # n + 1
        OBVIOUS
      <3>3. n + 1 \in 1 .. n + 1 /\ n + 1 \in 0 .. N
        OBVIOUS
      <3>4. QED
        BY <3>1, <3>2, <3>3
    <2>3. g = [i \in 1 .. n + 1 |-> g[i]]
      OBVIOUS
    <2> HIDE DEF g
    <2>4. ASSUME NEW i \in 1 .. n + 1 PROVE g[i] = Val(g, i)
      <3>1. i = n + 1 \/ i \in 1 .. n
        OBVIOUS
      <3>2. i # 1 => i - 1 \in 1 .. n
        OBVIOUS
      <3>3. g[i] = Val(f, i)
        BY <2>2, <3>1
      <3>4. i # 1 => g[i - 1] = f[i - 1]
        BY <2>2, <3>2
      <3>5. QED
        BY <3>3, <3>4
    <2> HIDE DEF Val
    <2>5. Good(g, n + 1)
      BY <2>3, <2>4
    <2>6. QED
      BY <2>2, <2>5
  <1> HIDE DEF S
  <1>3. N \in S
    BY <1>1, <1>2, UpTo
  <1>4. PICK f : Good(f, N)
    BY <1>3 DEF S
  <1>5. QED
    BY <1>4 DEF IsFunction

(* FlattenSeq, as the recursion of the community module defines it.        *)
LEMMA FlattenDefined ==
  ASSUME NEW ss, Len(ss) \in Nat \ {0}
  PROVE  \E f : /\ FlattenSeq(ss) = f[Len(ss)]
                /\ f[1] = ss[1]
                /\ \A i \in 1 .. Len(ss) : i # 1 => f[i] = f[i - 1] \o ss[i]
  <1> DEFINE flatten == CHOOSE f : f = [i \in 1 .. Len(ss) |->
                IF i = 1 THEN ss[i] ELSE f[i - 1] \o ss[i]]
  <1>1. \E f : f = [i \in 1 .. Len(ss) |-> IF i = 1 THEN ss[i] ELSE f[i - 1] \o ss[i]]
    <2>1. PICK f : /\ IsFunction(f, 1 .. Len(ss))
                   /\ \A i \in 1 .. Len(ss) : f[i] = IF i = 1 THEN ss[i] ELSE f[i - 1] \o ss[i]
      BY OneByOne
    <2>2. QED
      BY <2>1, ZenonT(30) DEF IsFunction
  <1>2. flatten = [i \in 1 .. Len(ss) |-> IF i = 1 THEN ss[i] ELSE flatten[i - 1] \o ss[i]]
    BY <1>1, Zenon
  <1>3. FlattenSeq(ss) = flatten[Len(ss)]
    BY DEF FlattenSeq
  <1> HIDE DEF flatten
  <1>4. flatten[1] = ss[1]
    <2>1. 1 \in 1 .. Len(ss)
      OBVIOUS
    <2>2. QED
      BY <1>2, <2>1
  <1>5. ASSUME NEW i \in 1 .. Len(ss), i # 1 PROVE flatten[i] = flatten[i - 1] \o ss[i]
    BY <1>2, <1>5
  <1>6. QED
    BY <1>3, <1>4, <1>5

LEMMA NothingLeft ==
  ASSUME NEW frames \in Seq(AnyFrame)
  PROVE  Whole(frames, <<>>, Len(frames))
  <1>1. Len(frames) \in 0 .. Len(frames) /\ Len(frames) \in Nat
    BY LenProperties
  <1>2. <<>> \in Seq(Units) /\ Len(<<>>) = 0
    OBVIOUS
  <1>3. Run(frames, <<>>)
    BY <1>2 DEF Run
  <1>4. QED
    BY <1>1, <1>2, <1>3 DEF Whole, Rest, Boundary

(* The frames written one after the other make a stream in the sense above.*)
LEMMA StreamIs ==
  ASSUME NEW frames \in Seq(AnyFrame), NEW m \in 0 .. Len(frames)
  PROVE  Whole(frames, Stream(frames, m), m)
  <1> DEFINE N == Len(frames) - m
             ss == [j \in 1 .. N |-> UnitsOf(frames, m + j)]
  <1>1. Len(frames) \in Nat /\ m \in Nat /\ N \in Nat
    BY LenProperties
  <1>2. Len(ss) = N /\ \A j \in 1 .. N : ss[j] = UnitsOf(frames, m + j)
    BY <1>1
  <1>3. Stream(frames, m) = FlattenSeq(ss)
    BY DEF Stream
  <1>4. CASE N = 0
    <2>1. ss = <<>> /\ Len(ss) = 0
      <3>1. ss = [j \in 1 .. 0 |-> UnitsOf(frames, m + j)]
        BY <1>4
      <3>2. [j \in 1 .. 0 |-> UnitsOf(frames, m + j)] = <<>>
        OBVIOUS
      <3>3. QED
        BY <1>2, <1>4, <3>1, <3>2
    <2>2. Stream(frames, m) = <<>> /\ m = Len(frames)
      BY <1>1, <1>3, <1>4, <2>1 DEF FlattenSeq
    <2>3. QED
      BY <2>2, NothingLeft
  <1>5. CASE N # 0
    <2> HIDE DEF ss, N
    <2>1. N \in Nat \ {0} /\ Len(ss) \in Nat \ {0}
      BY <1>1, <1>2, <1>5
    <2>2. PICK f : /\ FlattenSeq(ss) = f[Len(ss)]
                   /\ f[1] = ss[1]
                   /\ \A i \in 1 .. Len(ss) : i # 1 => f[i] = f[i - 1] \o ss[i]
      BY <2>1, FlattenDefined
    <2> DEFINE Good(i) == Rest(frames, f[i], m) /\ Boundary(frames, f[i], m, Len(f[i]), m + i)
               S == {i \in 0 .. N : i = 0 \/ Good(i)}
    <2>3. ASSUME NEW i \in 1 .. N
          PROVE  /\ Rest(frames, ss[i], m + (i - 1))
                 /\ Boundary(frames, ss[i], m + (i - 1), Len(ss[i]), m + i)
      <3>1. m + i \in 1 .. Len(frames) /\ (m + i) - 1 = m + (i - 1)
        BY <1>1 DEF N
      <3>2. ss[i] = UnitsOf(frames, m + i)
        BY <1>2
      <3>3. QED
        BY <3>1, <3>2, UnitsOfIs
    <2>4. ASSUME NEW i \in 0 .. N - 1, i \in S PROVE i + 1 \in S
      <3>1. i + 1 \in 1 .. N /\ i \in Nat /\ (i + 1) - 1 = i /\ i + 1 \in 0 .. N
        BY <2>1
      <3>2. Rest(frames, ss[i + 1], m + i) /\ Boundary(frames, ss[i + 1], m + i, Len(ss[i + 1]), m + (i + 1))
        BY <2>3, <3>1
      <3>3. CASE i = 0
        <4>1. f[i + 1] = ss[i + 1] /\ m + i = m
          BY <1>1, <2>2, <3>3
        <4>2. Good(i + 1)
          BY <3>2, <4>1
        <4>3. QED
          BY <3>1, <4>2
      <3>4. CASE i # 0
        <4>1. f[i + 1] = f[i] \o ss[i + 1]
          <5>1. i + 1 \in 1 .. Len(ss) /\ i + 1 # 1
            BY <1>2, <3>1, <3>4
          <5>2. f[i + 1] = f[(i + 1) - 1] \o ss[i + 1]
            BY <2>2, <5>1
          <5>3. QED
            BY <3>1, <5>2
        <4>2. Rest(frames, f[i], m) /\ Boundary(frames, f[i], m, Len(f[i]), m + i)
          BY <2>4, <3>4
        <4>3. Good(i + 1)
          BY <3>2, <4>1, <4>2, GoesOn
        <4>4. QED
          BY <3>1, <4>3
      <3>5. QED
        BY <3>3, <3>4
    <2>5. 0 \in S
      BY <2>1
    <2> HIDE DEF S
    <2>6. N \in S
      <3>1. \A k \in 0 .. N : k \in S
        BY <2>1, <2>4, <2>5, UpTo
      <3>2. N \in 0 .. N
        BY <2>1
      <3>3. QED
        BY <3>1, <3>2
    <2>7. Good(N) /\ m + N = Len(frames)
      BY <1>1, <2>1, <2>6 DEF S, N
    <2>8. QED
      BY <1>2, <1>3, <2>2, <2>7 DEF Whole
  <1>6. QED
    BY <1>4, <1>5

(* New frames go to the end of a whole stream.                             *)
LEMMA Extended ==
  ASSUME NEW frames \in Seq(AnyFrame), NEW new \in Seq(AnyFrame), NEW q, NEW m, NEW r,
         Whole(frames, q, m), Whole(frames \o new, r, Len(frames))
  PROVE  Whole(frames \o new, q \o r, m)
  <1> DEFINE more == frames \o new
  <1>1. Rest(frames, q, m) /\ Boundary(frames, q, m, Len(q), Len(frames))
    BY DEF Whole
  <1>2. Len(q) \in 0 .. Len(q) /\ Len(frames) \in 0 .. Len(frames)
    <2>1. Run(frames, q)
      BY <1>1 DEF Rest
    <2>2. Len(q) \in Nat /\ Len(frames) \in Nat
      BY <2>1, RunIs
    <2>3. QED
      BY <2>2
  <1>3. Rest(more, q, m) /\ Boundary(more, q, m, Len(q), Len(frames))
    BY <1>1, <1>2, RunOfMore
  <1>4. Rest(more, r, Len(frames)) /\ Boundary(more, r, Len(frames), Len(r), Len(more))
    BY DEF Whole
  <1>5. more \in Seq(AnyFrame)
    BY MoreFrames
  <1> HIDE DEF more
  <1>6. QED
    <2>1. Rest(more, q \o r, m) /\ Boundary(more, q \o r, m, Len(q \o r), Len(more))
      BY <1>3, <1>4, <1>5, GoesOn
    <2>2. QED
      BY <2>1 DEF Whole, more

(* What a receiver finds: what is read of the whole frames, and what stays.*)
LEMMA BufferRead ==
  ASSUME NEW frames \in Seq(AnyFrame), NEW b \in Seq(Units), NEW r \in Seq(Units), NEW m,
         Rest(frames, b \o r, m), NEW cut, cut = Consumed(frames, b)
  PROVE  /\ cut \in 0 .. Len(b) /\ From(b, cut + 1) \in Seq(Units)
         /\ ~BadHeader(frames, b, cut)
         /\ ~HasFrame(frames, From(b, cut + 1), 0)
         /\ \E n \in m .. Len(frames) :
              /\ NumbersIn(SubSeq(b, 1, cut)) = [k \in 1 .. n - m |-> m + k]
              /\ n - m \in Nat
              /\ Boundary(frames, b, m, cut, n)
              /\ Rest(frames, From(b, cut + 1) \o r, n)
              /\ Whole(frames, b \o r, m) => Whole(frames, From(b, cut + 1) \o r, n)
  <1>1. /\ Rest(frames, b, m)
        /\ \A p \in 0 .. Len(b) : \A n : Boundary(frames, b, m, p, n) <=> Boundary(frames, b \o r, m, p, n)
    BY RestBegins
  <1>2. cut \in 0 .. Len(b) /\ ~HasFrame(frames, b, cut)
    BY <1>1, ConsumedIs
  <1>3. PICK n \in m .. Len(frames) : Boundary(frames, b, m, cut, n)
    BY <1>1, ConsumedIs
  <1>4. ~BadHeader(frames, b, cut)
    BY <1>1, <1>2, <1>3, HeaderIs
  <1>5. /\ cut \in 0 .. Len(b \o r)
        /\ From(b, cut + 1) \o r = From(b \o r, cut + 1)
    BY <1>2, TakenAway
  <1>6. Boundary(frames, b \o r, m, cut, n)
    BY <1>1, <1>2, <1>3
  <1>7. /\ Rest(frames, From(b, cut + 1) \o r, n)
        /\ Whole(frames, b \o r, m) => Whole(frames, From(b, cut + 1) \o r, n)
    BY <1>5, <1>6, RestCut
  <1> DEFINE x == SubSeq(b, 1, cut)
             y == From(b, cut + 1)
  <1>8. x \in Seq(Units) /\ y \in Seq(Units) /\ Len(x) = cut /\ Len(y) = Len(b) - cut
        /\ (\A k \in 1 .. cut : x[k] = b[k]) /\ (\A k \in 1 .. Len(b) - cut : y[k] = b[cut + k])
    <2>1. cut \in 0 .. Len(b)
      BY <1>2
    <2>2. y \in Seq(Units) /\ Len(y) = Len(b) - cut /\ \A k \in 1 .. Len(b) - cut : y[k] = b[cut + k]
      BY <2>1, FromIs, ZenonT(30)
    <2>3. x \in Seq(Units) /\ Len(x) = cut /\ \A k \in 1 .. cut : x[k] = b[k]
      BY <2>1, UptoIs
    <2>4. QED
      BY <2>2, <2>3
  <1>9. n - m \in Nat /\ NumbersIn(x) = [k \in 1 .. n - m |-> m + k]
    <2> HIDE DEF x, y
    <2>1. x \o y = b
      BY <1>2, <1>8, CutInTwo
    <2>2. /\ Rest(frames, x, m)
          /\ \A p \in 0 .. Len(x) : \A e : Boundary(frames, x, m, p, e) <=> Boundary(frames, b, m, p, e)
      BY <1>1, <1>8, <2>1, RestBegins
    <2>3. Len(x) \in 0 .. Len(x)
      BY <1>2, <1>8
    <2>4. Boundary(frames, x, m, Len(x), n)
      BY <1>3, <1>8, <2>2, <2>3
    <2>5. QED
      BY <2>2, <2>4, NumbersAre
  <1>10. ~HasFrame(frames, y, 0)
    <2> HIDE DEF x
    <2>0. Len(b) \in Nat /\ cut \in Nat /\ Len(y) \in Nat
      BY <1>2, <1>8, LenProperties
    <2> HIDE DEF y
    <2> SUFFICES ASSUME HasFrame(frames, y, 0) PROVE FALSE
      OBVIOUS
    <2>1. /\ CHAT_HEADER_SIZE \in Nat \ {0} /\ 0 + CHAT_HEADER_SIZE <= Len(y)
          /\ chat_header_valid(frames, y, 0) /\ 0 + need(frames, y, 0) <= Len(y)
      BY ClientAssumption DEF HasFrame, HasHeader
    <2>2. \A k \in 1 .. CHAT_HEADER_SIZE : y[0 + k] = b[cut + k] /\ 0 + k = k
      BY <1>8, <2>0, <2>1
    <2>3. y[0 + 1] = b[cut + 1]
      BY <2>1, <2>2
    <2>4. need(frames, b, cut) = need(frames, y, 0)
      BY <2>3 DEF need
    <2>5. chat_header_valid(frames, b, cut)
      BY <2>1, <2>2, <2>3 DEF chat_header_valid
    <2>6. HasHeader(b, cut)
      BY <1>8, <2>0, <2>1 DEF HasHeader
    <2>7. cut + need(frames, b, cut) <= Len(b)
      <3>0. cut < Len(b)
        BY <1>8, <2>0, <2>1
      <3>1. ~HasFrame(frames, b, cut) => Len(b) - cut < Size(frames, n + 1)
        BY <1>1, <1>2, <1>3, <3>0, HeaderIs
      <3>2. n + 1 \in 1 .. Len(frames) /\ b[cut + 1] = <<n + 1, 1>>
        <4>1. /\ n + 1 \in 1 .. Len(frames)
              /\ \A k \in 1 .. Size(frames, n + 1) : cut + k <= Len(b) => b[cut + k] = <<n + 1, k>>
          BY <1>1, <1>2, <1>3, <3>0, InFrame
        <4>2. 1 \in 1 .. Size(frames, n + 1) /\ cut + 1 <= Len(b)
          <5>1. Size(frames, n + 1) \in Nat \ {0}
            BY <4>1, SizeIs
          <5>2. QED
            BY <2>0, <3>0, <5>1
        <4>3. QED
          BY <4>1, <4>2
      <3>3. need(frames, b, cut) = Size(frames, n + 1)
        BY <3>2 DEF need, Size
      <3>4. Size(frames, n + 1) \in Nat
        BY <3>2, SizeIs
      <3>5. Size(frames, n + 1) <= Len(y)
        BY <2>1, <2>4, <3>3, <3>4
      <3>6. QED
        BY <1>8, <2>0, <3>3, <3>4, <3>5
    <2>8. HasFrame(frames, b, cut)
      BY <2>5, <2>6, <2>7 DEF HasFrame
    <2>9. QED
      BY <1>2, <2>8
  <1>11. QED
    BY <1>2, <1>3, <1>4, <1>7, <1>8, <1>9, <1>10

(* A buffer that holds no whole frame has room, and no bad header; and     *)
(* where the stream ends with whole frames it is empty.                    *)
LEMMA BufferSmall ==
  ASSUME NEW frames \in Seq(AnyFrame), NEW b \in Seq(Units), NEW r \in Seq(Units), NEW m,
         Rest(frames, b \o r, m), ~HasFrame(frames, b, 0)
  PROVE  /\ Len(b) < RECV_CAP /\ ~BadHeader(frames, b, 0)
         /\ Whole(frames, b \o r, m) /\ r = <<>> => b = <<>>
  <1>1. /\ Rest(frames, b, m)
        /\ \A p \in 0 .. Len(b) : \A n : Boundary(frames, b, m, p, n) <=> Boundary(frames, b \o r, m, p, n)
    BY RestBegins
  <1>2. Len(b) \in Nat /\ 0 \in 0 .. Len(b) /\ Boundary(frames, b, m, 0, m) /\ Len(b) - 0 = Len(b)
    <2>1. Len(b) \in Nat
      BY LenProperties
    <2>2. QED
      BY <2>1 DEF Boundary
  <1>3. /\ Len(b) < RECV_CAP /\ ~BadHeader(frames, b, 0)
        /\ 0 < Len(b) => Len(b) < Size(frames, m + 1)
    BY <1>1, <1>2, HeaderIs
  <1>4. ASSUME Whole(frames, b \o r, m), r = <<>>, b # <<>> PROVE FALSE
    <2>1. b \o r = b
      BY <1>4, ConcatEmptySeq
    <2>2. Len(b) \in 1 .. Len(b) /\ Len(b) # 0
      BY <1>2, <1>4, EmptySeq
    <2>3. b[Len(b)] = <<Len(frames), Size(frames, Len(frames))>>
      BY <1>4, <2>1, <2>2 DEF Whole, Boundary
    <2>4. Len(b) < Size(frames, m + 1) /\ Size(frames, m + 1) \in Nat /\ m + 1 \in 1 .. Len(frames)
      <3>1. 0 < Len(b)
        BY <2>2
      <3>2. m + 1 \in 1 .. Len(frames)
        BY <1>1, <1>2, <3>1, InFrame
      <3>3. QED
        BY <1>3, <3>1, <3>2, SizeIs
    <2>5. b[0 + Len(b)] = <<m + 1, Len(b)>>
      <3>1. Len(b) \in 1 .. Size(frames, m + 1) /\ 0 + Len(b) <= Len(b) /\ 0 < Len(b)
        BY <2>2, <2>4
      <3>2. QED
        BY <1>1, <1>2, <3>1, InFrame
    <2>6. 0 + Len(b) = Len(b)
      BY <1>2
    <2>7. m + 1 = Len(frames) /\ Len(b) = Size(frames, Len(frames))
      BY <2>3, <2>5, <2>6
    <2>8. QED
      BY <2>4, <2>7
  <1>5. QED
    BY <1>3, <1>4

------------------------------------------------------------------------------
(* The invariant.                                                          *)

Shape ==
  /\ TypeOK
  /\ asked \in Seq(AnyFrame) /\ sent \in Seq(AnyFrame)
  /\ printed \in Seq(Nat) /\ handled \in Seq(Nat)

(* Who has closed, and who is writing.                                     *)
Ends ==
  /\ cpc # "exit" => cconn = "open" /\ why = "none"
  /\ spc = "gone" <=> gone # "none"
  /\ spc # "gone" => sconn = "open"
  /\ gone \in {"hup", "eof"} => cpc = "exit"
  /\ spc = "write" <=> sout # <<>>
  /\ cpc \notin {"join", "send"} /\ spc # "gone" => cout = <<>>
  /\ cpc = "stdin" => reads < MAX_READS

(* The way to the client: what is not printed yet is under way.            *)
ToClient ==
  cpc # "exit" =>
    /\ InOrder(printed)
    /\ Rest(sent, rx \o s2c \o sout, Len(printed))
    /\ gone # "died" => Whole(sent, rx \o s2c \o sout, Len(printed))
    /\ ~HasFrame(sent, rx, 0)

(* The way to the server; it leaves no whole frame when it goes to poll.   *)
Refusing == spc = "write" /\ sthen = "close"
Idle == spc \in {"backlog", "poll"} \/ (spc = "write" /\ sthen \in {"poll", "close"})

ToServer ==
  spc # "gone" =>
    /\ InOrder(handled)
    /\ Whole(asked, inbuf \o c2s \o cout, Len(handled))
    /\ Idle => ~HasFrame(asked, inbuf, 0)

(* Before the JOIN was handled nothing is said, but that the server is     *)
(* full; during the handshake there is nothing but its answer.             *)
Handshaking == cpc \in {"join", "handshake"}
Error == <<Frame("ERROR", 1)>>
Admitted ==
  /\ joined /\ sent # <<>> /\ sent[1].type = "JOIN_ACK"
  /\ \A k \in 2 .. Len(sent) : sent[k].type \in {"HISTORY", "NOTIFY", "BROADCAST"}

Opening ==
  /\ asked # <<>>
  /\ \A k \in 1 .. Len(asked) :
       asked[k].type \in IF k = 1 THEN {"JOIN"} ELSE {"LIST", "PRIVATE", "BROADCAST"}
  /\ spc = "backlog" => handled = <<>> /\ inbuf = <<>>
  /\ Refusing => handled = <<>> /\ sent = Error
  /\ spc # "gone" /\ handled = <<>> =>
       Handshaking /\ ~joined /\ (sent = <<>> \/ Refusing)
  /\ gone = "full" => Handshaking \/ cpc = "exit"
  /\ cpc = "join" => printed = <<>>
  /\ Handshaking =>
       /\ Len(asked) = 1 /\ (got_join <=> printed # <<>>)
       /\ (sent = <<>> /\ ~joined) \/ (sent = Error /\ ~joined) \/ Admitted
       /\ printed # <<>> => Admitted
       /\ gone = "full" => sent = Error

(* Why they parted, once they have.                                        *)
Parting ==
  /\ why # "protocol"
  /\ why = "refused" =>
       /\ Len(printed) \in 1 .. Len(sent) /\ sent[Len(printed)].type = "ERROR" /\ ~joined
       /\ spc = "gone" \/ handled # <<>>
  /\ why = "unexpected" =>
       /\ Len(printed) + 1 <= Len(sent) /\ joined
       /\ sent[Len(printed) + 1].type \in {"NOTIFY", "BROADCAST"}
  /\ why = "closed" => gone = "died"
  /\ why = "send" => gone = "died" \/ (gone = "full" /\ Len(asked) = 1 /\ printed = <<>>)
  /\ LastWordsHeard

Inv == Shape /\ Ends /\ ToClient /\ ToServer /\ Opening /\ Parting
------------------------------------------------------------------------------
(* Every step keeps it.  First what the steps have in common.              *)

(* The types that most steps need.                                         *)
LEMMA ShapeIs ==
  ASSUME Shape
  PROVE  /\ rx \in Seq(Units) /\ s2c \in Seq(Units) /\ sout \in Seq(Units)
         /\ inbuf \in Seq(Units) /\ c2s \in Seq(Units) /\ cout \in Seq(Units)
         /\ asked \in Seq(AnyFrame) /\ sent \in Seq(AnyFrame)
         /\ printed \in Seq(Nat) /\ handled \in Seq(Nat)
         /\ Len(c2s) \in Nat /\ Len(s2c) \in Nat /\ Len(cout) \in Nat /\ Len(sout) \in Nat
         /\ Len(rx) \in Nat /\ Len(inbuf) \in Nat /\ PIPE \in Nat
         /\ rx \o s2c \in Seq(Units) /\ inbuf \o c2s \in Seq(Units)
  <1>1. /\ rx \in Seq(Units) /\ s2c \in Seq(Units) /\ sout \in Seq(Units)
        /\ inbuf \in Seq(Units) /\ c2s \in Seq(Units) /\ cout \in Seq(Units)
    BY DEF Shape, TypeOK
  <1>2. /\ asked \in Seq(AnyFrame) /\ sent \in Seq(AnyFrame)
        /\ printed \in Seq(Nat) /\ handled \in Seq(Nat)
    BY DEF Shape
  <1>3. /\ Len(c2s) \in Nat /\ Len(s2c) \in Nat /\ Len(cout) \in Nat /\ Len(sout) \in Nat
        /\ Len(rx) \in Nat /\ Len(inbuf) \in Nat
    BY <1>1, LenProperties
  <1>4. rx \o s2c \in Seq(Units) /\ inbuf \o c2s \in Seq(Units)
    BY <1>1, ConcatProperties
  <1>5. QED
    BY <1>1, <1>2, <1>3, <1>4, ClientAssumption

(* Three pieces may be put together in either order.                       *)
LEMMA Regroup ==
  ASSUME NEW S, NEW x, NEW y, NEW z, Piece(S, x), Piece(S, y), Piece(S, z)
  PROVE  Regrouped(x, y, z)
  BY ConcatAssociative DEF Piece, Regrouped

LEMMA MovedOn ==
  ASSUME NEW S, NEW a, NEW b, Piece(S, a), Piece(S, b), NEW n \in 0 .. Len(b)
  PROVE  /\ Moved(a, b, n)
         /\ Piece(S, a \o SubSeq(b, 1, n)) /\ Piece(S, From(b, n + 1))
  <1>1. a \in Seq(S) /\ b \in Seq(S)
    BY DEF Piece
  <1>2. /\ a \o SubSeq(b, 1, n) \in Seq(S) /\ From(b, n + 1) \in Seq(S)
        /\ Moved(a, b, n)
    BY <1>1, MovesOn
  <1>3. QED
    BY <1>2 DEF Piece

(* A recv: a \o b \o c, and n units of b go over to a.                     *)
TakenIn(a, b, c, n) == (a \o SubSeq(b, 1, n)) \o (From(b, n + 1) \o c) = (a \o b) \o c

LEMMA TakeIn ==
  ASSUME NEW S, NEW a, NEW b, NEW c, Piece(S, a), Piece(S, b), Piece(S, c),
         NEW n \in 0 .. Len(b)
  PROVE  TakenIn(a, b, c, n)
  <1>1. /\ Piece(S, a \o SubSeq(b, 1, n)) /\ Piece(S, From(b, n + 1))
        /\ Moved(a, b, n)
    BY MovedOn
  <1>2. Regrouped(a \o SubSeq(b, 1, n), From(b, n + 1), c)
    BY <1>1, Regroup
  <1>3. QED
    BY <1>1, <1>2 DEF Moved, Regrouped, TakenIn

(* A write: a \o b \o c, and n units of c go over to b.                    *)
PassedOn(a, b, c, n) == (a \o (b \o SubSeq(c, 1, n))) \o From(c, n + 1) = (a \o b) \o c

LEMMA PassOn ==
  ASSUME NEW S, NEW a, NEW b, NEW c, Piece(S, a), Piece(S, b), Piece(S, c),
         NEW n \in 0 .. Len(c)
  PROVE  PassedOn(a, b, c, n)
  <1>1. /\ Piece(S, b \o SubSeq(c, 1, n)) /\ Piece(S, From(c, n + 1))
        /\ Moved(b, c, n)
    BY MovedOn
  <1>2. Regrouped(a, b, c)
    BY Regroup
  <1>3. Regrouped(a, b \o SubSeq(c, 1, n), From(c, n + 1))
    BY <1>1, Regroup
  <1>4. QED
    BY <1>1, <1>2, <1>3 DEF Moved, Regrouped, PassedOn

(* The client goes on without a unit moved.                                *)
LEMMA Quiet ==
  ASSUME Inv, Shape',
         UNCHANGED <<rx, got_join, cout, c2s, s2c, cconn, sconn, serverVars, asked, printed, why>>,
         cpc \in {"loop", "stdin", "lines", "pull"}, cpc' \in {"loop", "stdin", "lines", "pull"},
         cpc' = "stdin" => reads' < MAX_READS
  PROVE  Inv'
  <1>1. Ends'
    BY DEF Inv, Ends, serverVars
  <1>2. ToClient'
    BY DEF Inv, ToClient, serverVars
  <1>3. ToServer'
    BY DEF Inv, ToServer, Idle, serverVars
  <1>4. Opening'
    BY DEF Inv, Opening, Refusing, Handshaking, Admitted, Error, serverVars
  <1>5. Parting'
    BY DEF Inv, Parting, LastWordsHeard, serverVars
  <1>6. QED
    BY <1>1, <1>2, <1>3, <1>4, <1>5 DEF Inv

(* The client ends, other than in its handshake.                           *)
LEMMA Leaves ==
  ASSUME Inv, Shape',
         UNCHANGED <<cout, c2s, sconn, serverVars, asked, printed>>,
         cpc \notin {"join", "handshake", "send", "exit"} \/ spc = "gone",
         cpc' = "exit", why' \notin {"refused", "unexpected", "protocol"},
         why' = "closed" => gone = "died",
         why' = "send" => gone = "died" \/ (gone = "full" /\ Len(asked) = 1 /\ printed = <<>>)
  PROVE  Inv'
  <1>1. Ends'
    BY DEF Inv, Ends, serverVars
  <1>2. ToClient'
    BY DEF ToClient
  <1>3. ToServer'
    BY DEF Inv, ToServer, Idle, serverVars
  <1>4. Opening'
    BY DEF Inv, Opening, Refusing, Handshaking, serverVars
  <1>5. Parting'
    BY DEF Inv, Parting, LastWordsHeard, serverVars
  <1>6. QED
    BY <1>1, <1>2, <1>3, <1>4, <1>5 DEF Inv

(* The numbers that follow are put to the end.                             *)
LEMMA Numbered ==
  ASSUME NEW p \in Seq(Nat), InOrder(p), NEW d \in Nat
  PROVE  /\ [k \in 1 .. d |-> Len(p) + k] \in Seq(Nat)
         /\ p \o [k \in 1 .. d |-> Len(p) + k] \in Seq(Nat)
         /\ InOrder(p \o [k \in 1 .. d |-> Len(p) + k])
         /\ Len(p \o [k \in 1 .. d |-> Len(p) + k]) = Len(p) + d
  <1> DEFINE x == [k \in 1 .. d |-> Len(p) + k]
             w == p \o x
  <1>1. Len(p) \in Nat
    BY LenProperties
  <1>2. x \in Seq(Nat) /\ Len(x) = d /\ \A k \in 1 .. d : x[k] = Len(p) + k
    BY <1>1
  <1> SUFFICES x \in Seq(Nat) /\ w \in Seq(Nat) /\ InOrder(w) /\ Len(w) = Len(p) + d
    OBVIOUS
  <1> HIDE DEF x
  <1>3. /\ w \in Seq(Nat) /\ Len(w) = Len(p) + Len(x)
        /\ \A k \in 1 .. Len(p) : w[k] = p[k]
        /\ \A k \in 1 .. Len(x) : w[Len(p) + k] = x[k]
    <2>1. x \in Seq(Nat)
      BY <1>2
    <2>2. QED
      BY <2>1, JoinIs
  <1> HIDE DEF w
  <1>4. ASSUME NEW k \in DOMAIN w PROVE w[k] = k
    <2>1. k \in 1 .. Len(w)
      BY <1>3, LenProperties
    <2>2. CASE k <= Len(p)
      <3>1. k \in 1 .. Len(p) /\ k \in DOMAIN p
        BY <1>1, <1>3, <2>1, <2>2, LenProperties
      <3>2. QED
        BY <1>3, <3>1 DEF InOrder
    <2>3. CASE ~(k <= Len(p))
      <3> DEFINE j == k - Len(p)
      <3>1. j \in 1 .. Len(x) /\ j \in 1 .. d /\ k = Len(p) + j
        BY <1>1, <1>2, <1>3, <2>1, <2>3
      <3> HIDE DEF j
      <3>2. w[Len(p) + j] = x[j] /\ x[j] = Len(p) + j
        BY <1>2, <1>3, <3>1
      <3>3. QED
        BY <3>1, <3>2
    <2>4. QED
      BY <2>2, <2>3
  <1>5. QED
    BY <1>2, <1>3, <1>4 DEF InOrder

(* One recv of the client, and the loop over what it has then: the frames  *)
(* up to the e-th are read, and the rest of the stream is left.            *)
Arrived(n, b, cut, e) ==
  /\ e - Len(printed) \in Nat
  /\ NumbersIn(SubSeq(b, 1, cut)) = [k \in 1 .. e - Len(printed) |-> Len(printed) + k]
  /\ Rest(sent, (From(b, cut + 1) \o From(s2c, n + 1)) \o sout, e)
  /\ gone # "died" => Whole(sent, (From(b, cut + 1) \o From(s2c, n + 1)) \o sout, e)

LEMMA Received ==
  ASSUME Inv, cpc # "exit", NEW n \in RecvSizes(s2c, rx),
         NEW b, b = Buffer(n), NEW cut, cut = Consumed(sent, b)
  PROVE  /\ From(s2c, n + 1) \in Seq(Units) /\ Len(From(s2c, n + 1)) <= PIPE
         /\ From(b, cut + 1) \in Seq(Units)
         /\ ~BadHeader(sent, b, cut) /\ ~HasFrame(sent, From(b, cut + 1), 0)
         /\ \E e \in Len(printed) .. Len(sent) : Arrived(n, b, cut, e)
  <1> DEFINE m == Len(printed)
             y == From(s2c, n + 1)
             r == y \o sout
             z == From(b, cut + 1)
  <1>1. rx \in Seq(Units) /\ s2c \in Seq(Units) /\ sout \in Seq(Units) /\ sent \in Seq(AnyFrame)
    BY ShapeIs DEF Inv
  <1>2. n \in 0 .. Len(s2c) /\ Len(s2c) \in Nat /\ Len(s2c) <= PIPE /\ PIPE \in Nat
    <2>1. Len(s2c) \in Nat /\ Len(rx) \in Nat /\ PIPE \in Nat
      BY ShapeIs DEF Inv
    <2>2. Len(s2c) <= PIPE
      BY DEF Inv, Shape, TypeOK
    <2>3. CHAT_HEADER_SIZE \in Nat /\ CHAT_MAX_BODY \in Nat
      BY ClientAssumption
    <2>4. QED
      BY <2>1, <2>2, <2>3 DEF RecvSizes, LeastOf, RECV_CAP
  <1>3. /\ y \in Seq(Units) /\ Len(y) = Len(s2c) - n
    BY <1>1, <1>2, FromIs
  <1>4. b \in Seq(Units)
    BY <1>1, <1>2, MovesOn DEF Buffer
  <1>5. r \in Seq(Units)
    BY <1>1, <1>3, ConcatProperties
  <1>6. b \o r = (rx \o s2c) \o sout
    <2>1. TakenIn(rx, s2c, sout, n)
      BY <1>1, <1>2, TakeIn DEF Piece
    <2>2. QED
      BY <2>1 DEF TakenIn, Buffer
  <1>7. /\ Rest(sent, (rx \o s2c) \o sout, m)
        /\ gone # "died" => Whole(sent, (rx \o s2c) \o sout, m)
    BY DEF Inv, ToClient
  <1>8. Rest(sent, b \o r, m)
    BY <1>6, <1>7
  <1> HIDE DEF m, y, r, z
  <1>9. /\ cut \in 0 .. Len(b) /\ z \in Seq(Units)
        /\ ~BadHeader(sent, b, cut)
        /\ ~HasFrame(sent, z, 0)
        /\ \E e \in m .. Len(sent) :
             /\ NumbersIn(SubSeq(b, 1, cut)) = [k \in 1 .. e - m |-> m + k]
             /\ e - m \in Nat
             /\ Boundary(sent, b, m, cut, e)
             /\ Rest(sent, z \o r, e)
             /\ Whole(sent, b \o r, m) => Whole(sent, z \o r, e)
    BY <1>1, <1>4, <1>5, <1>8, BufferRead DEF z
  <1>10. z \o r = (z \o y) \o sout
    <2>1. Regrouped(z, y, sout)
      BY <1>1, <1>3, <1>9, Regroup DEF Piece
    <2>2. QED
      BY <2>1 DEF Regrouped, r
  <1>11. Len(y) <= PIPE
    BY <1>2, <1>3
  <1>12. PICK e \in m .. Len(sent) :
              /\ NumbersIn(SubSeq(b, 1, cut)) = [k \in 1 .. e - m |-> m + k]
              /\ e - m \in Nat
              /\ Rest(sent, z \o r, e)
              /\ Whole(sent, b \o r, m) => Whole(sent, z \o r, e)
    BY <1>9
  <1>13. /\ Rest(sent, (z \o y) \o sout, e)
         /\ gone # "died" => Whole(sent, (z \o y) \o sout, e)
    <2>1. gone # "died" => Whole(sent, b \o r, m)
      BY <1>6, <1>7 DEF m
    <2>2. QED
      BY <1>10, <1>12, <2>1
  <1>14. Arrived(n, b, cut, e) /\ e \in Len(printed) .. Len(sent)
    BY <1>12, <1>13 DEF m, y, z, Arrived
  <1>15. QED
    BY <1>3, <1>9, <1>11, <1>14 DEF y, z

(* A receive in the main loop or after a line was sent.                    *)
LEMMA Receives ==
  ASSUME Inv, ReceiveAndPrint, cpc \in {"loop", "pull"}, cpc' \in {"loop", "stdin", "pull"},
         UNCHANGED <<got_join, cout, typed, c2s, sconn, cconn, why, serverVars, reads, asked>>,
         sp' \in 0 .. MAX_SPINS, stall' \in 0 .. MAX_STALL,
         cpc' = "stdin" => reads < MAX_READS
  PROVE  Inv'
  <1>1. PICK n \in RecvSizes(s2c, rx) :
          LET b   == Buffer(n)
              cut == Consumed(sent, b)
          IN /\ s2c' = From(s2c, n + 1)
             /\ print_incoming(NumbersIn(SubSeq(b, 1, cut)))
             /\ rx' = IF BadHeader(sent, b, cut) THEN <<>> ELSE From(b, cut + 1)
    BY DEF ReceiveAndPrint
  <1> DEFINE b == Buffer(n)
             cut == Consumed(sent, b)
             m == Len(printed)
             numbers == NumbersIn(SubSeq(b, 1, cut))
  <1>2. /\ s2c' = From(s2c, n + 1)
        /\ printed' = printed \o numbers
        /\ rx' = IF BadHeader(sent, b, cut) THEN <<>> ELSE From(b, cut + 1)
    BY <1>1 DEF print_incoming
  <1> HIDE DEF b, cut, numbers
  <1>3. /\ From(s2c, n + 1) \in Seq(Units) /\ Len(From(s2c, n + 1)) <= PIPE
        /\ From(b, cut + 1) \in Seq(Units)
        /\ ~BadHeader(sent, b, cut) /\ ~HasFrame(sent, From(b, cut + 1), 0)
        /\ \E e \in m .. Len(sent) : Arrived(n, b, cut, e)
    <2>1. b = Buffer(n) /\ cut = Consumed(sent, b) /\ cpc # "exit"
      BY DEF b, cut
    <2>2. QED
      BY <2>1, Received
  <1>4. rx' = From(b, cut + 1)
    BY <1>2, <1>3
  <1>5. PICK e \in m .. Len(sent) : Arrived(n, b, cut, e)
    BY <1>3
  <1>a. /\ e - m \in Nat
        /\ numbers = [k \in 1 .. e - m |-> m + k]
        /\ Rest(sent, (rx' \o s2c') \o sout, e)
        /\ gone # "died" => Whole(sent, (rx' \o s2c') \o sout, e)
    BY <1>2, <1>4, <1>5 DEF Arrived, numbers
  <1>6. printed' \in Seq(Nat) /\ InOrder(printed') /\ Len(printed') = e
    <2>1. printed \in Seq(Nat) /\ InOrder(printed) /\ m \in Nat
      <3>1. printed \in Seq(Nat) /\ InOrder(printed)
        BY ShapeIs DEF Inv, ToClient
      <3>2. QED
        BY <3>1, LenProperties
    <2>2. /\ printed' \in Seq(Nat) /\ InOrder(printed') /\ Len(printed') = m + (e - m)
      BY <1>2, <1>a, <2>1, Numbered
    <2>3. m + (e - m) = e
      BY <1>5, <2>1
    <2>4. QED
      BY <2>2, <2>3
  <1>7. UNCHANGED <<spc, inbuf, joined, sout, sthen, others, sent, handled, gone>>
    BY DEF serverVars
  <1>8. Shape'
    <2>1. rx' \in Seq(Units) /\ s2c' \in Seq(Units) /\ Len(s2c') <= PIPE
      BY <1>2, <1>3, <1>4
    <2>2. QED
      BY <1>6, <1>7, <2>1 DEF Inv, Shape, TypeOK
  <1>9. Ends'
    BY <1>7 DEF Inv, Ends
  <1>10. ToClient'
    <2>1. ~HasFrame(sent, rx', 0)
      BY <1>3, <1>4
    <2>2. QED
      BY <1>a, <1>6, <1>7, <2>1 DEF ToClient
  <1>11. ToServer'
    BY <1>7 DEF Inv, ToServer, Idle
  <1>12. Opening'
    BY <1>7 DEF Inv, Opening, Refusing, Handshaking
  <1>13. Parting'
    <2>1. why = "none"
      BY DEF Inv, Ends
    <2>2. QED
      BY <1>7, <2>1 DEF Inv, Parting, LastWordsHeard
  <1>14. QED
    BY <1>8, <1>9, <1>10, <1>11, <1>12, <1>13 DEF Inv

(* write_full of the client.                                               *)
LEMMA Sends ==
  ASSUME Inv, NEW next, SendTo(next),
         (cpc = "join" /\ next = "handshake") \/ (cpc = "send" /\ next = "pull"),
         UNCHANGED <<rx, got_join, typed, sp, stall, s2c, serverVars, reads, asked, printed>>
  PROVE  Inv'
  <1> DEFINE n == LeastOf(Len(cout), PIPE - Len(c2s))
  <1>1. UNCHANGED <<spc, inbuf, joined, sout, sthen, others, sent, handled, gone>>
    BY DEF serverVars
  <1>2. /\ cout \in Seq(Units) /\ c2s \in Seq(Units) /\ inbuf \in Seq(Units)
        /\ cconn = "open" /\ why = "none"
        /\ cpc' = next => cpc' \in {"handshake", "pull"}
    BY ShapeIs DEF Inv, Ends
  <1>3. CASE /\ sconn = "open" /\ n > 0
             /\ c2s' = c2s \o SubSeq(cout, 1, n)
             /\ cout' = From(cout, n + 1)
             /\ Stay(IF n = Len(cout) THEN next ELSE cpc)
             /\ UNCHANGED sconn
    <2>1. /\ n \in 0 .. Len(cout) /\ Len(c2s) + n <= PIPE
          /\ Len(cout) \in Nat /\ Len(c2s) \in Nat /\ n \in Nat
      <3>1. Len(cout) \in Nat /\ Len(c2s) \in Nat /\ PIPE \in Nat
        BY ShapeIs DEF Inv
      <3>2. QED
        BY <1>3, <3>1 DEF LeastOf
    <2> HIDE DEF n
    <2>2. /\ c2s' \in Seq(Units) /\ cout' \in Seq(Units) /\ Len(c2s') <= PIPE
          /\ cout' = <<>> <=> n = Len(cout)
      <3>1. /\ SubSeq(cout, 1, n) \in Seq(Units) /\ Len(SubSeq(cout, 1, n)) = n
        BY <1>2, <2>1, UptoIs
      <3>2. Len(c2s \o SubSeq(cout, 1, n)) = Len(c2s) + Len(SubSeq(cout, 1, n))
            /\ c2s \o SubSeq(cout, 1, n) \in Seq(Units)
        BY <1>2, <3>1, JoinIs
      <3>3. From(cout, n + 1) \in Seq(Units) /\ (From(cout, n + 1) = <<>> <=> n = Len(cout))
        BY <1>2, <2>1, FromIs
      <3>4. QED
        BY <1>3, <2>1, <3>1, <3>2, <3>3
    <2>3. /\ cpc' = IF n = Len(cout) THEN next ELSE cpc
          /\ UNCHANGED <<why, cconn, sconn>>
      BY <1>3 DEF Stay
    <2>4. Shape'
      BY <1>1, <2>2, <2>3 DEF Inv, Shape, TypeOK
    <2>5. Ends'
      BY <1>1, <2>2, <2>3 DEF Inv, Ends
    <2>6. ToClient'
      BY <1>1, <2>3 DEF Inv, ToClient
    <2>7. ToServer'
      <3>1. (inbuf \o c2s') \o cout' = (inbuf \o c2s) \o cout
        <4>1. PassedOn(inbuf, c2s, cout, n)
          BY <1>2, <2>1, PassOn DEF Piece
        <4>2. QED
          BY <1>3, <4>1 DEF PassedOn
      <3>2. QED
        BY <1>1, <3>1 DEF Inv, ToServer, Idle
    <2>8. Opening'
      BY <1>1, <2>3 DEF Inv, Opening, Refusing, Handshaking, Admitted, Error
    <2>9. Parting'
      BY <1>1, <2>3 DEF Inv, Parting, LastWordsHeard
    <2>10. QED
      BY <2>4, <2>5, <2>6, <2>7, <2>8, <2>9 DEF Inv
  <1>4. CASE /\ sconn = "fin"
             /\ \E m \in 1 .. Len(cout) :
                  /\ m = Len(cout) \/ cout[m][2] = CHAT_HEADER_SIZE
                  /\ cout' = From(cout, m + 1)
                  /\ Stay(IF m = Len(cout) THEN next ELSE cpc)
             /\ sconn' = "rst" /\ UNCHANGED c2s
    <2>1. spc = "gone" /\ UNCHANGED <<why, cconn, c2s>> /\ cpc' \in {next, cpc}
      BY <1>4 DEF Inv, Ends, Stay
    <2>2. Shape'
      <3>1. cout' \in Seq(Units)
        <4>1. PICK m \in 1 .. Len(cout) : cout' = From(cout, m + 1)
          BY <1>4
        <4>2. Len(cout) \in Nat
          BY ShapeIs DEF Inv
        <4>3. m \in 0 .. Len(cout)
          BY <4>2
        <4>4. QED
          BY <1>2, <4>1, <4>3, FromIs
      <3>2. QED
        BY <1>1, <1>4, <2>1, <3>1 DEF Inv, Shape, TypeOK
    <2>3. Ends'
      BY <1>1, <1>4, <2>1 DEF Inv, Ends
    <2>4. ToClient'
      BY <1>1, <2>1 DEF Inv, ToClient
    <2>5. ToServer'
      BY <1>1, <2>1 DEF ToServer
    <2>6. Opening'
      BY <1>1, <2>1 DEF Inv, Opening, Refusing, Handshaking, Admitted, Error
    <2>7. Parting'
      BY <1>1, <2>1 DEF Inv, Parting, LastWordsHeard
    <2>8. QED
      BY <2>2, <2>3, <2>4, <2>5, <2>6, <2>7 DEF Inv
  <1>5. CASE /\ sconn = "rst"
             /\ Exit("send", s2c)
             /\ UNCHANGED <<c2s, cout, sconn>>
    <2>1. /\ spc = "gone" /\ cpc' = "exit" /\ why' = "send" /\ cconn' \in {"fin", "rst"}
      BY <1>5 DEF Inv, Ends, Exit
    <2>2. Shape'
      BY <1>1, <1>5, <2>1 DEF Inv, Shape, TypeOK
    <2>3. gone = "died" \/ (gone = "full" /\ Len(asked) = 1 /\ printed = <<>>)
      <3>1. gone \in {"full", "died"}
        BY <2>1 DEF Inv, Shape, TypeOK, Ends
      <3>2. gone = "full" => cpc = "join"
        BY DEF Inv, Opening, Handshaking
      <3>3. QED
        BY <3>1, <3>2 DEF Inv, Opening, Handshaking
    <2>4. QED
      BY <1>5, <2>1, <2>2, <2>3, Leaves
  <1>6. QED
    BY <1>3, <1>4, <1>5 DEF SendTo

(* A handler of the server begins to write.                                *)
LEMMA Emits ==
  ASSUME Inv, NEW new \in Seq(AnyFrame), new # <<>>, NEW next, Emit(new, next),
         spc \notin {"write", "gone"}, UNCHANGED <<cpc, rx, s2c, printed, gone>>
  PROVE  /\ sent' \in Seq(AnyFrame) /\ sout' \in Seq(Units) /\ sout' # <<>>
         /\ spc' = "write" /\ sthen' = next
         /\ Len(sent) \in Nat /\ Len(sent') = Len(sent) + Len(new)
         /\ \A k \in 1 .. Len(sent) : sent'[k] = sent[k]
         /\ \A k \in 1 .. Len(new) : sent'[Len(sent) + k] = new[k]
         /\ ToClient'
  <1>1. /\ sent' = sent \o new /\ sout' = Stream(sent', Len(sent))
        /\ spc' = "write" /\ sthen' = next
    BY DEF Emit
  <1>2. sent \in Seq(AnyFrame)
    BY ShapeIs DEF Inv
  <1>3. /\ sent' \in Seq(AnyFrame)
        /\ Len(sent) \in Nat /\ Len(new) \in Nat /\ Len(sent') = Len(sent) + Len(new)
        /\ \A k \in 1 .. Len(sent) : sent'[k] = sent[k]
        /\ \A k \in 1 .. Len(new) : sent'[Len(sent) + k] = new[k]
    BY <1>1, <1>2, MoreFrames
  <1>4. Whole(sent', sout', Len(sent))
    <2>1. Len(sent) \in 0 .. Len(sent')
      BY <1>3
    <2>2. QED
      BY <1>1, <1>3, <2>1, StreamIs
  <1>5. sout' \in Seq(Units)
    BY <1>3, <1>4, RunIs DEF Whole, Rest
  <1>6. ASSUME sout' = <<>> PROVE FALSE
    <2>1. Len(sout') = 0
      BY <1>6
    <2>2. Len(sent') = Len(sent)
      BY <1>4, <2>1 DEF Whole, Boundary
    <2>3. Len(new) # 0
      BY EmptySeq
    <2>4. QED
      BY <1>3, <2>2, <2>3
  <1>7. ASSUME cpc # "exit"
        PROVE  /\ InOrder(printed)
               /\ Rest(sent', (rx \o s2c) \o sout', Len(printed))
               /\ Whole(sent', (rx \o s2c) \o sout', Len(printed))
               /\ ~HasFrame(sent', rx, 0)
    <2>1. sout = <<>> /\ gone # "died"
      BY DEF Inv, Ends
    <2>2. /\ InOrder(printed) /\ ~HasFrame(sent, rx, 0)
          /\ Whole(sent, (rx \o s2c) \o <<>>, Len(printed))
      BY <1>7, <2>1 DEF Inv, ToClient
    <2>3. rx \in Seq(Units) /\ s2c \in Seq(Units) /\ rx \o s2c \in Seq(Units)
      BY ShapeIs DEF Inv
    <2>4. Whole(sent, rx \o s2c, Len(printed))
      <3>1. (rx \o s2c) \o <<>> = rx \o s2c
        BY <2>3, ConcatEmptySeq
      <3>2. QED
        BY <2>2, <3>1
    <2>5. Whole(sent \o new, (rx \o s2c) \o sout', Len(printed))
      <3>1. Whole(sent \o new, sout', Len(sent))
        BY <1>1, <1>4
      <3>2. QED
        BY <1>2, <2>4, <3>1, Extended
    <2>6. ~HasFrame(sent \o new, rx, 0)
      <3>1. Rest(sent, rx, Len(printed))
        <4>1. Rest(sent, rx \o s2c, Len(printed))
          BY <2>4 DEF Whole
        <4>2. QED
          BY <1>2, <2>3, <4>1, RestBegins
      <3>2. QED
        BY <1>2, <2>2, <3>1, RunOfMore
    <2>7. QED
      BY <1>1, <2>2, <2>5, <2>6 DEF Whole
  <1>8. ToClient'
    BY <1>7 DEF ToClient
  <1>9. QED
    BY <1>1, <1>3, <1>5, <1>6, <1>8

(* The server's steps.  Those that write nothing new leave what was said.  *)
LEMMA Unsaid ==
  ASSUME Inv, spc # "gone", UNCHANGED <<why, printed, asked, sent, joined, handled>>,
         gone' # "eof"
  PROVE  Parting'
  <1>1. why # "closed" /\ why # "send"
    BY DEF Inv, Parting, Ends
  <1>2. LastWordsHeard'
    BY DEF LastWordsHeard
  <1>3. QED
    BY <1>1, <1>2 DEF Inv, Parting

(* A frame by itself, and as the only one that is written.                 *)
LEMMA FrameIs ==
  ASSUME NEW type \in FrameTypes, NEW len \in 0 .. CHAT_MAX_BODY
  PROVE  /\ Frame(type, len) \in AnyFrame /\ Frame(type, len).type = type
         /\ <<Frame(type, len)>> \in Seq(AnyFrame) /\ <<Frame(type, len)>> # <<>>
         /\ Len(<<Frame(type, len)>>) = 1 /\ <<Frame(type, len)>>[1] = Frame(type, len)
  <1>1. Frame(type, len) \in AnyFrame /\ Frame(type, len).type = type
    BY DEF Frame, AnyFrame
  <1>2. QED
    BY <1>1

(* A connection is accepted, or told that the server is full.              *)
LEMMA Accepts ==
  ASSUME Inv, SvAccept
  PROVE  Inv'
  <1>1. /\ spc = "backlog" /\ handled = <<>> /\ inbuf = <<>> /\ sent = <<>> /\ ~joined /\ Handshaking
        /\ gone = "none" /\ sconn = "open" /\ cconn = "open" /\ why = "none" /\ sout = <<>>
    BY DEF SvAccept, Inv, Opening, Ends, Handshaking, Refusing
  <1>2. /\ UNCHANGED <<inbuf, joined, others, handled, gone, c2s, s2c, cconn, sconn>>
        /\ UNCHANGED <<cpc, rx, got_join, cout, typed, sp, stall, reads, asked, printed, why>>
    BY DEF SvAccept, clientVars
  <1>3. CASE EmitNone("poll")
    <2>1. spc' = "poll" /\ UNCHANGED <<sent, sout, sthen>>
      BY <1>3 DEF EmitNone
    <2>2. Shape'
      BY <1>2, <2>1 DEF Inv, Shape, TypeOK
    <2>3. Ends'
      BY <1>1, <1>2, <2>1 DEF Inv, Ends
    <2>4. ToClient'
      BY <1>2, <2>1 DEF Inv, ToClient
    <2>5. ToServer'
      BY <1>1, <1>2, <2>1 DEF Inv, ToServer, Idle
    <2>6. Opening'
      BY <1>1, <1>2, <2>1 DEF Inv, Opening, Refusing, Handshaking, Admitted, Error
    <2>7. Parting'
      BY <1>1, <1>2, <2>1 DEF Inv, Parting, LastWordsHeard
    <2>8. QED
      BY <2>2, <2>3, <2>4, <2>5, <2>6, <2>7 DEF Inv
  <1>4. CASE Emit(<<Frame("ERROR", 1)>>, "close")
    <2>1. Error \in Seq(AnyFrame) /\ Error # <<>>
      <3>1. 1 \in 0 .. CHAT_MAX_BODY
        BY ClientAssumption
      <3>2. "ERROR" \in FrameTypes
        BY DEF FrameTypes
      <3>3. <<Frame("ERROR", 1)>> \in Seq(AnyFrame) /\ <<Frame("ERROR", 1)>> # <<>>
        BY <3>1, <3>2, FrameIs
      <3>4. QED
        BY <3>3 DEF Error
    <2>2. /\ sent' \in Seq(AnyFrame) /\ sout' \in Seq(Units) /\ sout' # <<>>
          /\ spc' = "write" /\ sthen' = "close" /\ ToClient'
      <3>1. Emit(Error, "close")
        BY <1>4 DEF Error
      <3>2. QED
        BY <1>1, <1>2, <2>1, <3>1, Emits
    <2>3. sent' = Error
      <3>1. sent' = <<>> \o Error
        BY <1>1, <1>4 DEF Emit, Error
      <3>2. QED
        BY <2>1, <3>1, ConcatEmptySeq
    <2>4. Shape'
      BY <1>2, <2>2 DEF Inv, Shape, TypeOK
    <2>5. Ends'
      BY <1>1, <1>2, <2>2 DEF Inv, Ends
    <2>6. ToServer'
      BY <1>1, <1>2, <2>2 DEF Inv, ToServer, Idle
    <2>7. printed = <<>>
      <3>1. got_join <=> printed # <<>>
        BY <1>1 DEF Inv, Opening
      <3>2. printed # <<>> => Admitted
        BY <1>1 DEF Inv, Opening
      <3>3. QED
        BY <1>1, <3>2 DEF Admitted
    <2>8. Opening'
      BY <1>1, <1>2, <2>2, <2>3, <2>7 DEF Inv, Opening, Refusing, Handshaking, Error
    <2>9. Parting'
      BY <1>1, <1>2, <2>2 DEF Inv, Parting, LastWordsHeard
    <2>10. QED
      BY <2>2, <2>4, <2>5, <2>6, <2>8, <2>9 DEF Inv
  <1>5. QED
    BY <1>3, <1>4 DEF SvAccept

(* The server writes here on behalf of another client.                     *)
LEMMA Others ==
  ASSUME Inv, SvOther
  PROVE  Inv'
  <1>1. PICK type \in {"NOTIFY", "BROADCAST"} : Emit(<<Frame(type, 1)>>, "poll")
    BY DEF SvOther
  <1>2. /\ spc = "poll" /\ joined /\ others < MAX_OTHERS /\ others' = others + 1
        /\ UNCHANGED <<inbuf, joined, handled, gone, c2s, s2c, cconn, sconn>>
        /\ UNCHANGED <<cpc, rx, got_join, cout, typed, sp, stall, reads, asked, printed, why>>
    BY DEF SvOther, clientVars
  <1> DEFINE new == <<Frame(type, 1)>>
  <1>3. /\ new \in Seq(AnyFrame) /\ new # <<>> /\ Len(new) = 1 /\ new[1].type = type
    <2>1. 1 \in 0 .. CHAT_MAX_BODY /\ type \in FrameTypes
      BY ClientAssumption DEF FrameTypes
    <2>2. QED
      BY <2>1, FrameIs
  <1>4. Emit(new, "poll")
    BY <1>1
  <1> HIDE DEF new
  <1>5. /\ sent' \in Seq(AnyFrame) /\ sout' \in Seq(Units) /\ sout' # <<>>
        /\ spc' = "write" /\ sthen' = "poll"
        /\ Len(sent) \in Nat /\ Len(sent') = Len(sent) + Len(new)
        /\ \A k \in 1 .. Len(sent) : sent'[k] = sent[k]
        /\ \A k \in 1 .. Len(new) : sent'[Len(sent) + k] = new[k]
        /\ ToClient'
    BY <1>2, <1>3, <1>4, Emits
  <1>6. /\ Len(sent') = Len(sent) + 1 /\ sent'[Len(sent) + 1].type = type
    <2>1. 1 \in 1 .. Len(new)
      BY <1>3
    <2>2. QED
      BY <1>3, <1>5, <2>1
  <1>7. Shape'
    <2>1. others' \in 0 .. MAX_OTHERS
      <3>1. others \in 0 .. MAX_OTHERS
        BY DEF Inv, Shape, TypeOK
      <3>2. QED
        BY <1>2, <3>1, ClientAssumption
    <2>2. QED
      BY <1>2, <1>5, <2>1 DEF Inv, Shape, TypeOK
  <1>8. Ends'
    BY <1>2, <1>5 DEF Inv, Ends
  <1>9. ToServer'
    BY <1>2, <1>5 DEF Inv, ToServer, Idle
  <1>10. handled # <<>>
    BY <1>2 DEF Inv, Opening
  <1>11. Admitted => Admitted'
    <2> SUFFICES ASSUME Admitted PROVE Admitted'
      OBVIOUS
    <2>1. Len(sent) # 0
      BY <1>5, EmptySeq DEF Admitted, Inv, Shape
    <2>2. sent' # <<>> /\ sent'[1].type = "JOIN_ACK"
      <3>1. 1 \in 1 .. Len(sent) /\ Len(sent') # 0
        BY <1>5, <1>6, <2>1
      <3>2. QED
        BY <1>5, <3>1 DEF Admitted
    <2>3. ASSUME NEW k \in 2 .. Len(sent') PROVE sent'[k].type \in {"HISTORY", "NOTIFY", "BROADCAST"}
      <3>1. CASE k <= Len(sent)
        <4>1. k \in 1 .. Len(sent) /\ k \in 2 .. Len(sent)
          BY <1>5, <1>6, <3>1
        <4>2. QED
          BY <1>5, <4>1 DEF Admitted
      <3>2. CASE ~(k <= Len(sent))
        <4>1. k = Len(sent) + 1
          BY <1>5, <1>6, <3>2
        <4>2. QED
          BY <1>6, <4>1
      <3>3. QED
        BY <3>1, <3>2
    <2>4. QED
      BY <1>2, <2>2, <2>3 DEF Admitted
  <1>12. Opening'
    <2>1. gone # "full"
      BY <1>2 DEF Inv, Ends
    <2>2. ASSUME Handshaking
          PROVE  Len(asked) = 1 /\ (got_join <=> printed # <<>>) /\ Admitted
      BY <1>2, <2>2 DEF Inv, Opening
    <2>3. Handshaking' => Len(asked') = 1 /\ (got_join' <=> printed' # <<>>) /\ Admitted'
      BY <1>2, <1>11, <2>2 DEF Handshaking
    <2>4. QED
      BY <1>2, <1>5, <1>10, <2>1, <2>3 DEF Inv, Opening, Refusing
  <1>13. Parting'
    <2>1. Len(printed) \in Nat
      BY ShapeIs, LenProperties DEF Inv
    <2>2. why # "refused"
      BY <1>2 DEF Inv, Parting
    <2>3. ASSUME why = "unexpected"
          PROVE  /\ Len(printed) + 1 <= Len(sent') /\ joined
                 /\ sent'[Len(printed) + 1].type \in {"NOTIFY", "BROADCAST"}
      <3>1. /\ Len(printed) + 1 <= Len(sent) /\ joined
            /\ sent[Len(printed) + 1].type \in {"NOTIFY", "BROADCAST"}
        BY <2>3 DEF Inv, Parting
      <3>2. Len(printed) + 1 \in 1 .. Len(sent)
        BY <1>5, <2>1, <3>1
      <3>3. QED
        BY <1>5, <1>6, <2>1, <3>1, <3>2
    <2>4. QED
      BY <1>2, <2>2, <2>3 DEF Inv, Parting, LastWordsHeard
  <1>14. QED
    BY <1>5, <1>7, <1>8, <1>9, <1>12, <1>13 DEF Inv

(* The server receives, and goes over what it has, frame by frame.         *)
LEMMA Recvs ==
  ASSUME Inv, SvRecv
  PROVE  Inv'
  <1>1. PICK n \in RecvSizes(c2s, inbuf) :
          inbuf' = inbuf \o SubSeq(c2s, 1, n) /\ c2s' = From(c2s, n + 1)
    BY DEF SvRecv
  <1>2. /\ spc = "poll" /\ spc' = "process" /\ UNCHANGED <<sent, sout, sthen>>
        /\ UNCHANGED <<joined, others, handled, gone, s2c, cconn, sconn>>
        /\ UNCHANGED <<cpc, rx, got_join, cout, typed, sp, stall, reads, asked, printed, why>>
    BY DEF SvRecv, EmitNone, clientVars
  <1>3. /\ inbuf \in Seq(Units) /\ c2s \in Seq(Units) /\ cout \in Seq(Units)
        /\ Len(c2s) \in Nat /\ Len(inbuf) \in Nat /\ PIPE \in Nat
    BY ShapeIs DEF Inv
  <1>4. n \in 0 .. Len(c2s)
    <2>1. CHAT_HEADER_SIZE \in Nat /\ CHAT_MAX_BODY \in Nat
      BY ClientAssumption
    <2>2. QED
      BY <1>3, <2>1 DEF RecvSizes, LeastOf, RECV_CAP
  <1>5. inbuf' \in Seq(Units) /\ c2s' \in Seq(Units) /\ Len(c2s') <= PIPE
    <2>1. inbuf' \in Seq(Units)
      BY <1>1, <1>3, <1>4, MovesOn
    <2>2. c2s' \in Seq(Units) /\ Len(c2s') = Len(c2s) - n
      BY <1>1, <1>3, <1>4, FromIs
    <2>3. Len(c2s) <= PIPE
      BY DEF Inv, Shape, TypeOK
    <2>4. QED
      BY <1>3, <1>4, <2>1, <2>2, <2>3
  <1>6. inbuf' \o c2s' = inbuf \o c2s
    <2>1. Moved(inbuf, c2s, n)
      BY <1>3, <1>4, MovesOn
    <2>2. QED
      BY <1>1, <2>1 DEF Moved
  <1>7. Shape'
    BY <1>2, <1>5 DEF Inv, Shape, TypeOK
  <1>8. Ends'
    BY <1>2 DEF Inv, Ends
  <1>9. ToClient'
    BY <1>2 DEF Inv, ToClient
  <1>10. ToServer'
    BY <1>2, <1>6 DEF Inv, ToServer, Idle
  <1>11. Opening'
    BY <1>2 DEF Inv, Opening, Refusing, Handshaking, Admitted, Error
  <1>12. Parting'
    <2>1. gone = "none"
      BY <1>2 DEF Inv, Ends
    <2>2. QED
      BY <1>2, <2>1, Unsaid
  <1>13. QED
    BY <1>7, <1>8, <1>9, <1>10, <1>11, <1>12 DEF Inv

LEMMA Processed ==
  ASSUME Inv, SvProcessed
  PROVE  Inv'
  <1>1. /\ spc = "process" /\ ~HasFrame(asked, inbuf, 0)
        /\ spc' = "poll" /\ UNCHANGED <<sent, sout, sthen>>
        /\ UNCHANGED <<inbuf, joined, others, handled, gone, c2s, s2c, cconn, sconn>>
        /\ UNCHANGED <<cpc, rx, got_join, cout, typed, sp, stall, reads, asked, printed, why>>
    BY DEF SvProcessed, EmitNone, clientVars
  <1>2. Shape'
    BY <1>1 DEF Inv, Shape, TypeOK
  <1>3. Ends'
    BY <1>1 DEF Inv, Ends
  <1>4. ToClient'
    BY <1>1 DEF Inv, ToClient
  <1>5. ToServer'
    BY <1>1 DEF Inv, ToServer
  <1>6. Opening'
    BY <1>1 DEF Inv, Opening, Refusing, Handshaking, Admitted, Error
  <1>7. Parting'
    <2>1. gone = "none"
      BY <1>1 DEF Inv, Ends
    <2>2. QED
      BY <1>1, <2>1, Unsaid
  <1>8. QED
    BY <1>2, <1>3, <1>4, <1>5, <1>6, <1>7 DEF Inv

(* Where the server's end closes, what was under way is cut off behind the *)
(* units that are already there.                                           *)
LEMMA Closes ==
  ASSUME Inv, spc # "gone", spc' = "gone", gone' \in {"hup", "eof", "died"},
         gone' \in {"hup", "eof"} => cpc = "exit",
         gone' = "eof" => Len(handled) = Len(asked),
         sconn' \in {"fin", "rst"}, cconn' = cconn \/ (cpc = "exit" /\ cconn' \in {"fin", "rst"}),
         sout' = <<>>,
         UNCHANGED <<inbuf, joined, others, sent, sthen, handled, c2s, s2c>>,
         UNCHANGED clientVars
  PROVE  Inv'
  <1>1. UNCHANGED <<cpc, rx, got_join, cout, typed, sp, stall, reads, asked, printed, why>>
    BY DEF clientVars
  <1>2. Shape'
    <2>1. <<>> \in Seq(Units)
      OBVIOUS
    <2>2. QED
      BY <1>1, <2>1 DEF Inv, Shape, TypeOK
  <1>3. Ends'
    BY <1>1 DEF Inv, Ends
  <1>4. ToClient'
    <2> SUFFICES ASSUME cpc # "exit" PROVE ToClient'
      BY <1>1 DEF ToClient
    <2>1. /\ InOrder(printed) /\ ~HasFrame(sent, rx, 0)
          /\ Rest(sent, (rx \o s2c) \o sout, Len(printed))
      BY DEF Inv, ToClient
    <2>2. /\ rx \o s2c \in Seq(Units) /\ sout \in Seq(Units) /\ sent \in Seq(AnyFrame)
      BY ShapeIs DEF Inv
    <2>3. Rest(sent, rx \o s2c, Len(printed))
      BY <2>1, <2>2, RestBegins
    <2>4. (rx \o s2c) \o <<>> = rx \o s2c
      BY <2>2, ConcatEmptySeq
    <2>5. QED
      BY <1>1, <2>1, <2>3, <2>4 DEF ToClient
  <1>5. ToServer'
    BY DEF ToServer
  <1>6. Opening'
    BY <1>1 DEF Inv, Opening, Refusing, Handshaking, Admitted, Error
  <1>7. Parting'
    <2>1. why # "closed" /\ why # "send"
      BY DEF Inv, Parting, Ends
    <2>2. LastWordsHeard'
      BY <1>1 DEF LastWordsHeard
    <2>3. QED
      BY <1>1, <2>1, <2>2 DEF Inv, Parting
  <1>8. QED
    BY <1>2, <1>3, <1>4, <1>5, <1>6, <1>7 DEF Inv

(* The server's process ends, wherever it was.                             *)
LEMMA Dies ==
  ASSUME Inv, SvDie
  PROVE  Inv'
  <1>1. /\ spc # "gone" /\ spc' = "gone" /\ gone' = "died" /\ sconn' \in {"fin", "rst"}
        /\ sout' = <<>> /\ UNCHANGED <<inbuf, joined, others, sent, sthen, handled, c2s, s2c, cconn>>
        /\ UNCHANGED clientVars
    BY DEF SvDie, Shut
  <1>2. QED
    BY <1>1, Closes

(* A client is dropped at its end of file when everything was handled.     *)
LEMMA Removes ==
  ASSUME Inv, SvRemove
  PROVE  Inv'
  <1>1. /\ spc = "poll" /\ spc' = "gone" /\ UNCHANGED <<sent, sout, sthen>>
        /\ UNCHANGED <<inbuf, joined, others, handled, c2s, s2c, cconn>>
        /\ UNCHANGED clientVars
        /\ sconn' \in {"fin", "rst"}
        /\ (cconn = "rst" /\ gone' = "hup") \/ (cconn = "fin" /\ c2s = <<>> /\ gone' = "eof")
    BY DEF SvRemove, EmitNone, Shut
  <1>2. cpc = "exit" /\ sout = <<>> /\ cout = <<>>
    BY <1>1 DEF Inv, Ends
  <1>3. ASSUME gone' = "eof" PROVE Len(handled) = Len(asked)
    <2>1. c2s = <<>>
      BY <1>1, <1>3
    <2>2. /\ Whole(asked, (inbuf \o <<>>) \o <<>>, Len(handled))
          /\ ~HasFrame(asked, inbuf, 0)
      BY <1>1, <1>2, <2>1 DEF Inv, ToServer, Idle
    <2>3. inbuf \in Seq(Units) /\ asked \in Seq(AnyFrame) /\ <<>> \in Seq(Units)
      BY ShapeIs DEF Inv
    <2>4. Whole(asked, inbuf \o <<>>, Len(handled)) /\ Whole(asked, inbuf, Len(handled))
      <3>1. inbuf \o <<>> = inbuf
        BY <2>3, ConcatEmptySeq
      <3>2. QED
        BY <2>2, <3>1
    <2>5. inbuf = <<>>
      <3>1. Rest(asked, inbuf \o <<>>, Len(handled))
        BY <2>4 DEF Whole
      <3>2. QED
        BY <2>2, <2>3, <2>4, <3>1, BufferSmall
    <2>6. QED
      BY <2>4, <2>5 DEF Whole, Boundary
  <1>4. QED
    BY <1>1, <1>2, <1>3, Closes

(* The server writes: some of it, the rest of it, or the last it says here.*)
LEMMA Writes ==
  ASSUME Inv, SvWrite
  PROVE  Inv'
  <1> DEFINE n == LeastOf(Len(sout), PIPE - Len(s2c))
  <1>1. /\ spc = "write" /\ cconn = "open" /\ n > 0
        /\ s2c' = s2c \o SubSeq(sout, 1, n)
        /\ sout' = From(sout, n + 1)
        /\ IF n < Len(sout) THEN UNCHANGED <<spc, gone, sconn>>
           ELSE IF sthen = "close" THEN spc' = "gone" /\ Shut("full")
           ELSE spc' = sthen /\ UNCHANGED <<gone, sconn>>
        /\ UNCHANGED <<inbuf, joined, others, sent, sthen, handled, c2s, cconn>>
        /\ UNCHANGED <<cpc, rx, got_join, cout, typed, sp, stall, reads, asked, printed, why>>
    BY DEF SvWrite, clientVars
  <1>2. /\ rx \in Seq(Units) /\ s2c \in Seq(Units) /\ sout \in Seq(Units)
        /\ Len(s2c) \in Nat /\ Len(sout) \in Nat /\ PIPE \in Nat
    BY ShapeIs DEF Inv
  <1>3. n \in 0 .. Len(sout) /\ Len(s2c) + n <= PIPE /\ n \in Nat
    BY <1>1, <1>2 DEF LeastOf
  <1>4. gone = "none" /\ sconn = "open"
    BY <1>1 DEF Inv, Ends
  <1> HIDE DEF n
  <1>5. /\ s2c' \in Seq(Units) /\ sout' \in Seq(Units) /\ Len(s2c') <= PIPE
        /\ sout' = <<>> <=> n = Len(sout)
    <2>1. SubSeq(sout, 1, n) \in Seq(Units) /\ Len(SubSeq(sout, 1, n)) = n
      BY <1>2, <1>3, UptoIs
    <2>2. /\ s2c \o SubSeq(sout, 1, n) \in Seq(Units)
          /\ Len(s2c \o SubSeq(sout, 1, n)) = Len(s2c) + Len(SubSeq(sout, 1, n))
      BY <1>2, <2>1, JoinIs
    <2>3. From(sout, n + 1) \in Seq(Units) /\ (From(sout, n + 1) = <<>> <=> n = Len(sout))
      BY <1>2, <1>3, FromIs
    <2>4. QED
      BY <1>1, <1>3, <2>1, <2>2, <2>3
  <1>6. (rx \o s2c') \o sout' = (rx \o s2c) \o sout
    <2>1. PassedOn(rx, s2c, sout, n)
      BY <1>2, <1>3, PassOn DEF Piece
    <2>2. QED
      BY <1>1, <2>1 DEF PassedOn
  <1>7. \/ n < Len(sout) /\ sout' # <<>> /\ UNCHANGED <<spc, gone, sconn>>
        \/ sout' = <<>> /\ sthen = "close" /\ spc' = "gone" /\ gone' = "full" /\ sconn' \in {"fin", "rst"}
        \/ sout' = <<>> /\ sthen # "close" /\ spc' = sthen /\ UNCHANGED <<gone, sconn>>
    BY <1>1, <1>2, <1>3, <1>5 DEF Shut
  <1>8. sthen \in {"poll", "process", "close"}
    BY DEF Inv, Shape, TypeOK
  <1>9. Shape'
    <2>1. /\ spc' \in {"poll", "process", "write", "gone"} /\ gone' \in {"none", "full"}
          /\ sconn' \in {"open", "fin", "rst"}
      BY <1>1, <1>4, <1>7, <1>8
    <2>2. /\ UNCHANGED <<inbuf, joined, others, sent, sthen, handled, c2s, cconn>>
          /\ UNCHANGED <<cpc, rx, got_join, cout, typed, sp, stall, reads, asked, printed, why>>
      BY <1>1
    <2>3. /\ Len(c2s) <= PIPE /\ c2s \in Seq(Units) /\ inbuf \in Seq(Units) /\ rx \in Seq(Units)
          /\ cout \in Seq(Units)
      BY DEF Inv, Shape, TypeOK
    <2>4. TypeOK'
      BY SMTT(30), <1>5, <2>1, <2>2, <2>3 DEF Inv, Shape, TypeOK
    <2>5. QED
      BY <2>2, <2>4 DEF Inv, Shape
  <1>10. Ends'
    BY <1>1, <1>4, <1>7, <1>8 DEF Inv, Ends
  <1>11. ToClient'
    BY <1>1, <1>4, <1>6 DEF Inv, ToClient
  <1>12. ToServer'
    BY <1>1, <1>7, <1>8 DEF Inv, ToServer, Idle
  <1>13. Opening'
    BY <1>1, <1>4, <1>7, <1>8 DEF Inv, Opening, Refusing, Handshaking, Admitted, Error
  <1>14. Parting'
    BY <1>1, <1>4, <1>7, Unsaid
  <1>15. QED
    BY <1>9, <1>10, <1>11, <1>12, <1>13, <1>14 DEF Inv

(* A write to a client that has closed.                                    *)
LEMMA WritesLost ==
  ASSUME Inv, SvWriteLost
  PROVE  Inv'
  <1>1. /\ spc = "write" /\ cconn # "open" /\ cconn' = "rst" /\ sout' = <<>>
        /\ \/ spc' = sthen /\ UNCHANGED <<gone, sconn>>
           \/ spc' = "gone" /\ gone' = "died" /\ sconn' \in {"fin", "rst"}
        /\ UNCHANGED <<inbuf, joined, others, sent, sthen, handled, c2s, s2c>>
        /\ UNCHANGED clientVars
    BY DEF SvWriteLost, Shut
  <1>2. UNCHANGED <<cpc, rx, got_join, cout, typed, sp, stall, reads, asked, printed, why>>
    BY <1>1 DEF clientVars
  <1>3. cpc = "exit" /\ gone = "none"
    BY <1>1 DEF Inv, Ends
  <1>4. sthen \in {"poll", "process"} /\ ~Refusing
    <2>1. sthen \in {"poll", "process", "close"}
      BY DEF Inv, Shape, TypeOK
    <2>2. ~Refusing
      BY <1>1, <1>3 DEF Inv, Opening, Refusing, Handshaking
    <2>3. QED
      BY <1>1, <2>1, <2>2 DEF Refusing
  <1>5. CASE spc' = "gone" /\ gone' = "died" /\ sconn' \in {"fin", "rst"}
    BY <1>1, <1>3, <1>5, Closes
  <1>6. CASE spc' = sthen /\ UNCHANGED <<gone, sconn>>
    <2>1. Shape'
      <3>1. <<>> \in Seq(Units)
        OBVIOUS
      <3>2. QED
        BY <1>1, <1>2, <1>4, <1>6, <3>1 DEF Inv, Shape, TypeOK
    <2>2. Ends'
      BY <1>1, <1>2, <1>3, <1>4, <1>6 DEF Inv, Ends
    <2>3. ToClient'
      BY <1>2, <1>3 DEF ToClient
    <2>4. ToServer'
      BY <1>1, <1>2, <1>4, <1>6 DEF Inv, ToServer, Idle
    <2>5. Opening'
      BY <1>1, <1>2, <1>3, <1>4, <1>6 DEF Inv, Opening, Refusing, Handshaking
    <2>6. Parting'
      BY <1>1, <1>2, <1>3, <1>6, Unsaid
    <2>7. QED
      BY <2>1, <2>2, <2>3, <2>4, <2>5, <2>6 DEF Inv
  <1>7. QED
    BY <1>1, <1>5, <1>6

(* One frame of the client is handled.                                     *)
LEMMA AnswersAre ==
  ASSUME NEW f \in AnyFrame, NEW answer \in Answers(f),
         f.type \in {"JOIN", "LIST", "PRIVATE", "BROADCAST"}
  PROVE  /\ answer \in Seq(AnyFrame) /\ answer # <<>>
         /\ f.type # "JOIN" => answer[1].type # "JOIN_ACK"
         /\ f.type = "JOIN" =>
              \/ answer = Error
              \/ /\ answer[1].type = "JOIN_ACK"
                 /\ \A k \in 2 .. Len(answer) : answer[k].type = "HISTORY"
  <1>1. 1 \in 0 .. CHAT_MAX_BODY /\ f.len \in 0 .. CHAT_MAX_BODY
    BY ClientAssumption DEF AnyFrame
  <1>2. ASSUME NEW type \in FrameTypes, NEW len \in 0 .. CHAT_MAX_BODY, answer = <<Frame(type, len)>>
        PROVE  answer \in Seq(AnyFrame) /\ answer # <<>> /\ answer[1].type = type
    <2>1. /\ <<Frame(type, len)>> \in Seq(AnyFrame) /\ <<Frame(type, len)>> # <<>>
          /\ <<Frame(type, len)>>[1] = Frame(type, len) /\ Frame(type, len).type = type
      BY FrameIs
    <2>2. QED
      BY <1>2, <2>1
  <1>3. CASE f.type = "JOIN"
    <2>1. \/ answer = <<Frame("ERROR", 1)>>
          \/ \E h \in 0 .. MAX_HISTORY :
               answer = <<Frame("JOIN_ACK", 1)>> \o [k \in 1 .. h |-> Frame("HISTORY", 1)]
      BY <1>3 DEF Answers
    <2>2. CASE answer = <<Frame("ERROR", 1)>>
      <3>1. "ERROR" \in FrameTypes
        BY DEF FrameTypes
      <3>2. answer \in Seq(AnyFrame) /\ answer # <<>>
        BY <1>1, <1>2, <2>2, <3>1
      <3>3. QED
        BY <1>3, <2>2, <3>2 DEF Error
    <2>3. CASE \E h \in 0 .. MAX_HISTORY :
                 answer = <<Frame("JOIN_ACK", 1)>> \o [k \in 1 .. h |-> Frame("HISTORY", 1)]
      <3>1. PICK h \in 0 .. MAX_HISTORY :
              answer = <<Frame("JOIN_ACK", 1)>> \o [k \in 1 .. h |-> Frame("HISTORY", 1)]
        BY <2>3
      <3> DEFINE a == <<Frame("JOIN_ACK", 1)>>
                 r == [k \in 1 .. h |-> Frame("HISTORY", 1)]
      <3>2. /\ a \in Seq(AnyFrame) /\ Len(a) = 1 /\ a[1].type = "JOIN_ACK"
        <4>1. "JOIN_ACK" \in FrameTypes
          BY DEF FrameTypes
        <4>2. /\ <<Frame("JOIN_ACK", 1)>> \in Seq(AnyFrame) /\ Len(<<Frame("JOIN_ACK", 1)>>) = 1
              /\ <<Frame("JOIN_ACK", 1)>>[1] = Frame("JOIN_ACK", 1)
              /\ Frame("JOIN_ACK", 1).type = "JOIN_ACK"
          BY <1>1, <4>1, FrameIs
        <4>3. QED
          BY <4>2
      <3>3. /\ r \in Seq(AnyFrame) /\ Len(r) = h /\ h \in Nat
            /\ \A k \in 1 .. h : r[k].type = "HISTORY"
        <4>1. "HISTORY" \in FrameTypes
          BY DEF FrameTypes
        <4>2. Frame("HISTORY", 1) \in AnyFrame /\ Frame("HISTORY", 1).type = "HISTORY"
          BY <1>1, <4>1, FrameIs
        <4>3. h \in Nat
          BY ClientAssumption
        <4>4. QED
          BY <4>2, <4>3
      <3>4. answer = a \o r
        BY <3>1
      <3> HIDE DEF a, r
      <3>5. /\ a \o r \in Seq(AnyFrame) /\ Len(a \o r) = Len(a) + Len(r)
            /\ \A k \in 1 .. Len(a) : (a \o r)[k] = a[k]
            /\ \A k \in 1 .. Len(r) : (a \o r)[Len(a) + k] = r[k]
        <4>1. a \in Seq(AnyFrame) /\ r \in Seq(AnyFrame)
          BY <3>2, <3>3
        <4>2. QED
          BY <4>1, JoinIs
      <3>6. /\ answer \in Seq(AnyFrame) /\ Len(answer) = 1 + h
            /\ answer[1] = a[1]
            /\ \A k \in 1 .. h : answer[1 + k] = r[k]
        <4>1. 1 \in 1 .. Len(a)
          BY <3>2
        <4>2. QED
          BY <3>2, <3>3, <3>4, <3>5, <4>1
      <3>7. answer # <<>>
        <4>1. Len(answer) # 0
          BY <3>3, <3>6
        <4>2. QED
          BY <4>1
      <3>8. ASSUME NEW k \in 2 .. Len(answer) PROVE answer[k].type = "HISTORY"
        <4> DEFINE j == k - 1
        <4>1. j \in 1 .. h /\ k = 1 + j
          BY <3>3, <3>6
        <4> HIDE DEF j
        <4>2. QED
          BY <3>3, <3>6, <4>1
      <3>9. QED
        BY <1>3, <3>2, <3>6, <3>7, <3>8
    <2>4. QED
      BY <2>1, <2>2, <2>3
  <1>4. CASE f.type # "JOIN"
    <2>1. \E type \in FrameTypes \ {"JOIN_ACK"}, len \in 0 .. CHAT_MAX_BODY :
            answer = <<Frame(type, len)>>
      <3>1. /\ "LIST_REPLY" \in FrameTypes \ {"JOIN_ACK"} /\ "ERROR" \in FrameTypes \ {"JOIN_ACK"}
            /\ "PRIVATE" \in FrameTypes \ {"JOIN_ACK"} /\ "BROADCAST" \in FrameTypes \ {"JOIN_ACK"}
        BY DEF FrameTypes
      <3>2. \/ answer = <<Frame("LIST_REPLY", 1)>> \/ answer = <<Frame("ERROR", 1)>>
            \/ answer = <<Frame("PRIVATE", f.len)>> \/ answer = <<Frame("BROADCAST", f.len)>>
        BY <1>4 DEF Answers
      <3>3. QED
        BY <1>1, <3>1, <3>2
    <2>2. PICK type \in FrameTypes \ {"JOIN_ACK"}, len \in 0 .. CHAT_MAX_BODY :
            answer = <<Frame(type, len)>>
      BY <2>1
    <2>3. answer \in Seq(AnyFrame) /\ answer # <<>> /\ answer[1].type = type
      BY <1>2, <2>2
    <2>4. QED
      BY <1>4, <2>3
  <1>5. QED
    BY <1>3, <1>4

LEMMA Handles ==
  ASSUME Inv, SvHandle
  PROVE  Inv'
  <1> DEFINE n == inbuf[1][1]
             m == Len(handled)
             p == need(asked, inbuf, 0)
  <1>2. /\ spc = "process" /\ HasFrame(asked, inbuf, 0)
        /\ handled' = Append(handled, n) /\ inbuf' = From(inbuf, p + 1)
        /\ UNCHANGED <<others, gone, c2s, s2c, cconn, sconn>>
        /\ UNCHANGED <<cpc, rx, got_join, cout, typed, sp, stall, reads, asked, printed, why>>
    BY DEF SvHandle, Shift, clientVars
  <1>3. /\ inbuf \in Seq(Units) /\ c2s \in Seq(Units) /\ cout \in Seq(Units)
        /\ inbuf \o c2s \in Seq(Units) /\ asked \in Seq(AnyFrame) /\ sent \in Seq(AnyFrame)
        /\ handled \in Seq(Nat) /\ InOrder(handled)
        /\ Whole(asked, (inbuf \o c2s) \o cout, m)
        /\ gone = "none" /\ sout = <<>>
    BY <1>2, ShapeIs DEF Inv, ToServer, Ends
  <1>4. m \in Nat /\ Len(inbuf) \in Nat
    BY <1>3, LenProperties
  <1>5. /\ Rest(asked, inbuf, m)
        /\ \A k \in 0 .. Len(inbuf) : \A e :
             Boundary(asked, inbuf, m, k, e) <=> Boundary(asked, inbuf \o (c2s \o cout), m, k, e)
        /\ Whole(asked, inbuf \o (c2s \o cout), m) /\ c2s \o cout \in Seq(Units)
    <2>1. c2s \o cout \in Seq(Units)
      BY <1>3, ConcatProperties
    <2>2. Whole(asked, inbuf \o (c2s \o cout), m)
      <3>1. Regrouped(inbuf, c2s, cout)
        BY <1>3, Regroup DEF Piece
      <3>2. QED
        BY <1>3, <3>1 DEF Regrouped
    <2>3. Rest(asked, inbuf \o (c2s \o cout), m)
      BY <2>2 DEF Whole
    <2>4. QED
      BY <1>3, <2>1, <2>2, <2>3, RestBegins
  <1>6. /\ p = Size(asked, m + 1) /\ m + 1 \in 1 .. Len(asked)
        /\ p \in 1 .. Len(inbuf) /\ Boundary(asked, inbuf, m, p, m + 1)
        /\ n = m + 1
    <2>1. 0 \in 0 .. Len(inbuf) /\ Boundary(asked, inbuf, m, 0, m)
      BY <1>4 DEF Boundary
    <2>2. /\ p = Size(asked, m + 1) /\ m + 1 \in 1 .. Len(asked)
          /\ 0 + p \in 0 + 1 .. Len(inbuf) /\ Boundary(asked, inbuf, m, 0 + p, m + 1)
      BY <1>2, <1>3, <1>5, <2>1, HeaderIs
    <2>3. p \in Nat
      BY <1>3, <2>2, SizeIs
    <2> HIDE DEF p
    <2>4. 0 + p = p /\ p \in 1 .. Len(inbuf)
      BY <1>4, <2>2, <2>3
    <2>5. n = m + 1
      <3>1. inbuf # <<>>
        BY <2>4, EmptySeq
      <3>2. inbuf[1] = <<m + 1, 1>>
        BY <1>5, <3>1 DEF Rest
      <3>3. QED
        BY <3>2
    <2>6. QED
      BY <2>2, <2>4, <2>5
  <1> HIDE DEF p, n
  <1>7. Whole(asked, (inbuf' \o c2s) \o cout, m + 1) /\ inbuf' \in Seq(Units)
    <2> DEFINE r == c2s \o cout
               z == From(inbuf, p + 1)
    <2>1. p \in 0 .. Len(inbuf)
      BY <1>4, <1>6
    <2>2. p \in 0 .. Len(inbuf \o r) /\ z \o r = From(inbuf \o r, p + 1)
      <3>1. inbuf \in Seq(Units) /\ r \in Seq(Units)
        BY <1>3, <1>5
      <3> HIDE DEF r
      <3>2. QED
        BY <2>1, <3>1, TakenAway
    <2>3. z \in Seq(Units)
      BY <1>3, <2>1, FromIs
    <2> HIDE DEF r, z
    <2>4. Boundary(asked, inbuf \o r, m, p, m + 1)
      BY <1>5, <1>6, <2>1 DEF r
    <2>5. Rest(asked, inbuf \o r, m) /\ Whole(asked, inbuf \o r, m)
      BY <1>5 DEF Whole, r
    <2>6. Whole(asked, z \o r, m + 1)
      BY <1>3, <2>2, <2>4, <2>5, RestCut
    <2>7. (z \o c2s) \o cout = z \o r
      <3>1. Regrouped(z, c2s, cout)
        BY <1>3, <2>3, Regroup DEF Piece
      <3>2. QED
        BY <3>1 DEF Regrouped, r
    <2>8. inbuf' = z
      BY <1>2 DEF z
    <2>9. QED
      BY <2>3, <2>6, <2>7, <2>8
  <1>8. /\ handled' \in Seq(Nat) /\ InOrder(handled') /\ Len(handled') = m + 1 /\ handled' # <<>>
    <2>1. n \in Nat
      BY <1>4, <1>6
    <2>2. /\ handled' \in Seq(Nat) /\ Len(handled') = m + 1
          /\ \A k \in 1 .. m : handled'[k] = handled[k]
          /\ handled'[m + 1] = n
      BY <1>2, <1>3, <2>1, AppendProperties
    <2>3. \A k \in 1 .. m : handled[k] = k
      <3>1. DOMAIN handled = 1 .. m
        BY <1>3, LenProperties
      <3>2. QED
        BY <1>3, <3>1 DEF InOrder
    <2>4. DOMAIN handled' = 1 .. m + 1
      BY <2>2, LenProperties
    <2>5. InOrder(handled')
      BY <1>4, <1>6, <2>2, <2>3, <2>4 DEF InOrder
    <2>6. handled' # <<>>
      BY <1>4, <2>2, EmptySeq
    <2>7. QED
      BY <2>2, <2>5, <2>6
  <1>9. /\ asked[n] \in AnyFrame
        /\ asked[n].type \in IF m = 0 THEN {"JOIN"} ELSE {"LIST", "PRIVATE", "BROADCAST"}
    <2>1. asked[n] \in AnyFrame
      BY <1>3, <1>6, ElementOfSeq
    <2>2. asked[n].type \in IF n = 1 THEN {"JOIN"} ELSE {"LIST", "PRIVATE", "BROADCAST"}
      BY <1>6 DEF Inv, Opening
    <2>3. n = 1 <=> m = 0
      BY <1>4, <1>6
    <2>4. QED
      BY <2>1, <2>2, <2>3
  <1>10. CASE \E answer \in Answers(asked[n]) :
                 Emit(answer, "process") /\ joined' = (joined \/ answer[1].type = "JOIN_ACK")
    <2>1. PICK answer \in Answers(asked[n]) :
            Emit(answer, "process") /\ joined' = (joined \/ answer[1].type = "JOIN_ACK")
      BY <1>10
    <2>2. /\ answer \in Seq(AnyFrame) /\ answer # <<>>
          /\ m # 0 => answer[1].type # "JOIN_ACK"
          /\ m = 0 =>
               \/ answer = Error
               \/ /\ answer[1].type = "JOIN_ACK"
                  /\ \A k \in 2 .. Len(answer) : answer[k].type = "HISTORY"
      <3>1. asked[n].type \in {"JOIN", "LIST", "PRIVATE", "BROADCAST"} /\ (asked[n].type = "JOIN" <=> m = 0)
        BY <1>9
      <3>2. QED
        BY <2>1, <1>9, <3>1, AnswersAre
    <2>3. /\ sent' \in Seq(AnyFrame) /\ sout' \in Seq(Units) /\ sout' # <<>>
          /\ spc' = "write" /\ sthen' = "process"
          /\ Len(sent) \in Nat /\ Len(sent') = Len(sent) + Len(answer)
          /\ \A k \in 1 .. Len(sent) : sent'[k] = sent[k]
          /\ \A k \in 1 .. Len(answer) : sent'[Len(sent) + k] = answer[k]
          /\ ToClient'
      BY <2>1, <1>2, <2>2, Emits
    <2>4. joined' \in BOOLEAN /\ (m # 0 => joined' = joined)
      <3>1. joined \in BOOLEAN
        BY DEF Inv, Shape, TypeOK
      <3>2. QED
        BY <2>1, <2>2, <3>1
    <2>5. Shape'
      <3>1. TypeOK'
        BY <1>2, <1>7, <2>3, <2>4 DEF Inv, Shape, TypeOK
      <3>2. QED
        BY <1>2, <1>8, <2>3, <3>1 DEF Inv, Shape
    <2>6. Ends'
      BY <1>2, <2>3 DEF Inv, Ends
    <2>7. ToServer'
      BY <1>2, <1>7, <1>8, <2>3 DEF ToServer, Idle
    <2>8. handled = <<>> <=> m = 0
      BY <1>3, EmptySeq
    <2>9. Opening'
      <3>1. ASSUME Handshaking
            PROVE  /\ Len(asked) = 1 /\ (got_join <=> printed # <<>>) /\ printed = <<>>
                   /\ (sent' = Error /\ ~joined') \/ Admitted'
        <4>1. Len(asked) = 1 /\ (got_join <=> printed # <<>>)
          BY <3>1 DEF Inv, Opening
        <4>2. m = 0
          BY <1>4, <1>6, <4>1
        <4>3. sent = <<>> /\ ~joined
          BY <1>2, <2>8, <4>2 DEF Inv, Opening, Refusing
        <4>4. printed = <<>>
          BY <3>1, <4>3 DEF Inv, Opening, Admitted
        <4>5. sent' = answer
          <5>1. sent' = <<>> \o answer
            BY <2>1, <4>3 DEF Emit
          <5>2. QED
            BY <2>2, <5>1, ConcatEmptySeq
        <4>6. CASE answer = Error
          BY <2>1, <4>1, <4>3, <4>4, <4>5, <4>6 DEF Error, Frame
        <4>7. CASE /\ answer[1].type = "JOIN_ACK"
                   /\ \A k \in 2 .. Len(answer) : answer[k].type = "HISTORY"
          <5>1. Admitted'
            BY <2>1, <2>2, <4>5, <4>7 DEF Admitted
          <5>2. QED
            BY <4>1, <4>4, <5>1
        <4>8. QED
          BY <2>2, <4>2, <4>6, <4>7
      <3>2. Handshaking' =>
              /\ Len(asked') = 1 /\ (got_join' <=> printed' # <<>>) /\ printed' = <<>>
              /\ (sent' = Error /\ ~joined') \/ Admitted'
        BY <1>2, <3>1 DEF Handshaking
      <3>3. ~(Refusing') /\ gone' # "full"
        BY <1>2, <1>3, <2>3 DEF Refusing
      <3>4. asked' # <<>> /\ \A k \in 1 .. Len(asked') :
              asked'[k].type \in IF k = 1 THEN {"JOIN"} ELSE {"LIST", "PRIVATE", "BROADCAST"}
        BY <1>2 DEF Inv, Opening
      <3>5. cpc' = "join" => printed' = <<>>
        BY <1>2 DEF Inv, Opening
      <3>6. QED
        BY <1>8, <2>3, <3>2, <3>3, <3>4, <3>5 DEF Opening, Error
    <2>10. Parting'
      <3>1. Len(printed) \in Nat /\ Len(answer) \in Nat
        <4>1. printed \in Seq(Nat)
          BY ShapeIs DEF Inv
        <4>2. QED
          BY <2>2, <4>1, LenProperties
      <3>2. ASSUME why = "refused"
            PROVE  /\ Len(printed) \in 1 .. Len(sent') /\ sent'[Len(printed)].type = "ERROR" /\ ~joined'
        <4>1. /\ Len(printed) \in 1 .. Len(sent) /\ sent[Len(printed)].type = "ERROR" /\ ~joined
              /\ handled # <<>>
          BY <1>2, <3>2 DEF Inv, Parting
        <4>2. QED
          BY <2>3, <2>4, <2>8, <3>1, <4>1
      <3>3. ASSUME why = "unexpected"
            PROVE  /\ Len(printed) + 1 <= Len(sent') /\ joined'
                   /\ sent'[Len(printed) + 1].type \in {"NOTIFY", "BROADCAST"}
        <4>1. /\ Len(printed) + 1 <= Len(sent) /\ joined
              /\ sent[Len(printed) + 1].type \in {"NOTIFY", "BROADCAST"}
          BY <3>3 DEF Inv, Parting
        <4>2. Len(printed) + 1 \in 1 .. Len(sent)
          BY <2>3, <3>1, <4>1
        <4>3. QED
          <5>1. joined'
            BY <2>1, <4>1
          <5>2. sent'[Len(printed) + 1] = sent[Len(printed) + 1]
            BY <2>3, <4>2
          <5>3. Len(sent) <= Len(sent')
            BY <2>3, <3>1
          <5>4. Len(printed) + 1 <= Len(sent')
            BY <2>3, <3>1, <4>1, <5>3
          <5>5. QED
            BY <4>1, <5>1, <5>2, <5>4
      <3>4. why # "protocol" /\ why # "closed" /\ why # "send"
        BY <1>3 DEF Inv, Parting
      <3>5. LastWordsHeard'
        BY <1>2, <1>3 DEF LastWordsHeard
      <3>6. QED
        BY <1>2, <1>8, <3>2, <3>3, <3>4, <3>5 DEF Parting
    <2>11. QED
      BY <2>3, <2>5, <2>6, <2>7, <2>9, <2>10 DEF Inv
  <1>11. CASE asked[n].type = "PRIVATE" /\ EmitNone("process") /\ UNCHANGED joined
    <2>1. /\ spc' = "process" /\ UNCHANGED <<sout, sthen, sent, joined>>
      BY <1>11 DEF EmitNone
    <2>2. m # 0 /\ handled # <<>>
      <3>1. m # 0
        BY <1>9, <1>11
      <3>2. QED
        BY <3>1, <1>3, EmptySeq
    <2>3. Shape'
      <3>1. TypeOK'
        BY <1>2, <1>7, <2>1 DEF Inv, Shape, TypeOK
      <3>2. QED
        BY <1>2, <1>8, <2>1, <3>1 DEF Inv, Shape
    <2>4. Ends'
      BY <1>2, <2>1 DEF Inv, Ends
    <2>5. ToClient'
      BY <1>2, <2>1 DEF Inv, ToClient
    <2>6. ToServer'
      BY <1>2, <1>7, <1>8, <2>1 DEF ToServer, Idle
    <2>7. Opening'
      BY <1>2, <1>3, <1>8, <2>1, <2>2 DEF Inv, Opening, Handshaking, Refusing, Admitted, Error
    <2>8. Parting'
      <3>1. LastWordsHeard'
        BY <1>2, <1>3 DEF LastWordsHeard
      <3>2. QED
        BY <1>2, <1>3, <1>8, <2>1, <2>2, <3>1 DEF Inv, Parting
    <2>9. QED
      BY <2>3, <2>4, <2>5, <2>6, <2>7, <2>8 DEF Inv
  <1>12. QED
    BY <1>10, <1>11 DEF SvHandle, n

(* The client's handshake.                                                 *)
LEMMA Shakes ==
  ASSUME Inv, Handshake
  PROVE  Inv'
  <1> DEFINE m == Len(printed)
  <1>1. PICK n \in RecvSizes(s2c, rx) :
          LET b   == Buffer(n)
              cut == Consumed(sent, b)
              new == NumbersIn(SubSeq(b, 1, cut))
              bad == {k \in DOMAIN new : ~Welcome(new, k)}
          IN /\ s2c' = From(s2c, n + 1)
             /\ rx' = From(b, cut + 1)
             /\ got_join' = (got_join \/ \E k \in DOMAIN new : sent[new[k]].type = "JOIN_ACK")
             /\ IF bad # {}
                  THEN LET first == CHOOSE k \in bad : \A j \in bad : k <= j
                           error == sent[new[first]].type = "ERROR"
                       IN /\ Exit(IF error THEN "refused" ELSE "unexpected", s2c')
                          /\ print_incoming(SubSeq(new, 1, IF error THEN first ELSE first - 1))
                ELSE /\ print_incoming(new)
                     /\ IF BadHeader(sent, b, cut) THEN Exit("protocol", s2c')
                        ELSE Stay(IF got_join' /\ rx' = <<>> THEN "loop" ELSE "handshake")
    BY DEF Handshake
  <1> DEFINE b     == Buffer(n)
             cut   == Consumed(sent, b)
             new   == NumbersIn(SubSeq(b, 1, cut))
             bad   == {k \in DOMAIN new : ~Welcome(new, k)}
             first == CHOOSE k \in bad : \A j \in bad : k <= j
             error == sent[new[first]].type = "ERROR"
  <1> HIDE DEF b, cut, new, bad, first, error
  <1>2. /\ s2c' = From(s2c, n + 1)
        /\ rx' = From(b, cut + 1)
        /\ got_join' = (got_join \/ \E k \in DOMAIN new : sent[new[k]].type = "JOIN_ACK")
        /\ bad # {} => /\ Exit(IF error THEN "refused" ELSE "unexpected", s2c')
                       /\ print_incoming(SubSeq(new, 1, IF error THEN first ELSE first - 1))
        /\ bad = {} => /\ print_incoming(new)
                       /\ IF BadHeader(sent, b, cut) THEN Exit("protocol", s2c')
                          ELSE Stay(IF got_join' /\ rx' = <<>> THEN "loop" ELSE "handshake")
    BY <1>1 DEF b, cut, new, bad, first, error
  <1>3. /\ cpc = "handshake"
        /\ UNCHANGED <<cout, typed, sp, stall, c2s, sconn, reads, asked>>
        /\ UNCHANGED <<spc, inbuf, joined, sout, sthen, others, sent, handled, gone>>
    BY DEF Handshake, serverVars
  <1>4. /\ From(s2c, n + 1) \in Seq(Units) /\ Len(From(s2c, n + 1)) <= PIPE
        /\ From(b, cut + 1) \in Seq(Units)
        /\ ~BadHeader(sent, b, cut) /\ ~HasFrame(sent, From(b, cut + 1), 0)
        /\ \E e \in m .. Len(sent) : Arrived(n, b, cut, e)
    <2>1. b = Buffer(n) /\ cut = Consumed(sent, b) /\ cpc # "exit"
      BY <1>3 DEF b, cut
    <2>2. QED
      BY <2>1, Received
  <1>5. PICK e \in m .. Len(sent) : Arrived(n, b, cut, e)
    BY <1>4
  <1>6. /\ e - m \in Nat
        /\ new = [k \in 1 .. e - m |-> m + k]
        /\ Rest(sent, (rx' \o s2c') \o sout, e)
        /\ gone # "died" => Whole(sent, (rx' \o s2c') \o sout, e)
    BY <1>2, <1>5 DEF Arrived, new
  <1>7. /\ printed \in Seq(Nat) /\ InOrder(printed) /\ m \in Nat /\ Len(sent) \in Nat
        /\ sent \in Seq(AnyFrame) /\ why = "none" /\ cconn = "open"
        /\ Len(asked) = 1 /\ (got_join <=> printed # <<>>)
        /\ (sent = <<>> /\ ~joined) \/ (sent = Error /\ ~joined) \/ Admitted
        /\ printed # <<>> => Admitted
        /\ m = 0 <=> printed = <<>>
    <2>1. printed \in Seq(Nat) /\ InOrder(printed) /\ sent \in Seq(AnyFrame)
      BY <1>3, ShapeIs DEF Inv, ToClient
    <2>2. m \in Nat /\ Len(sent) \in Nat /\ (m = 0 <=> printed = <<>>)
      BY <2>1, LenProperties, EmptySeq
    <2>3. why = "none" /\ cconn = "open"
      BY <1>3 DEF Inv, Ends
    <2>4. /\ Len(asked) = 1 /\ (got_join <=> printed # <<>>)
          /\ (sent = <<>> /\ ~joined) \/ (sent = Error /\ ~joined) \/ Admitted
          /\ printed # <<>> => Admitted
      BY <1>3 DEF Inv, Opening, Handshaking
    <2>5. QED
      BY <2>1, <2>2, <2>3, <2>4
  <1>8. /\ DOMAIN new = 1 .. e - m
        /\ \A k \in 1 .. e - m : new[k] = m + k /\ m + k \in 1 .. Len(sent)
    <2>1. \A k \in 1 .. e - m : m + k \in 1 .. Len(sent)
      BY <1>6, <1>7
    <2>2. QED
      BY <1>6, <2>1
  <1>9. rx' \in Seq(Units) /\ s2c' \in Seq(Units) /\ Len(s2c') <= PIPE
    BY <1>2, <1>4
  <1>10. got_join' \in BOOLEAN
    <2>1. got_join \in BOOLEAN
      BY DEF Inv, Shape, TypeOK
    <2>2. QED
      BY <1>2, <2>1
  <1>11. ToServer'
    BY <1>3 DEF Inv, ToServer, Idle
  <1>12. ASSUME sent # <<>>, spc # "gone", handled = <<>> PROVE e = 0
    <2>1. sent = Error /\ sout # <<>> /\ ~joined /\ Len(sent) = 1
      <3>1. Refusing /\ ~joined
        BY <1>3, <1>12 DEF Inv, Opening
      <3>2. sent = Error /\ sout # <<>>
        BY <3>1 DEF Inv, Opening, Refusing, Ends
      <3>3. QED
        BY <3>1, <3>2 DEF Error
    <2>2. e # 1
      <3> SUFFICES ASSUME e = 1 PROVE FALSE
        OBVIOUS
      <3> DEFINE here == (rx' \o s2c') \o sout
      <3>1. Rest(sent, here, Len(sent)) /\ Whole(sent, <<>>, Len(sent))
        BY <1>6, <1>7, <2>1, NothingLeft
      <3>2. Len(here) <= Len(<<>>)
        BY <1>7, <3>1, NoLonger
      <3>3. /\ sout \in Seq(Units) /\ Len(sout) \in Nat /\ Len(sout) # 0
            /\ rx' \o s2c' \in Seq(Units)
        <4>1. sout \in Seq(Units) /\ rx' \o s2c' \in Seq(Units)
          BY <1>9, ShapeIs, ConcatProperties DEF Inv
        <4>2. QED
          BY <2>1, <4>1, LenProperties, EmptySeq
      <3>4. Len(here) = Len(rx' \o s2c') + Len(sout) /\ Len(rx' \o s2c') \in Nat
        BY <3>3, JoinIs
      <3> HIDE DEF here
      <3>5. QED
        BY <3>2, <3>3, <3>4
    <2>3. QED
      BY <1>7, <2>1, <2>2
  <1>13. CASE bad = {}
    <2>1. printed' = printed \o new
      BY <1>2, <1>13 DEF print_incoming
    <2>2. printed' \in Seq(Nat) /\ InOrder(printed') /\ Len(printed') = e
      <3>1. printed' \in Seq(Nat) /\ InOrder(printed') /\ Len(printed') = m + (e - m)
        BY <1>6, <1>7, <2>1, Numbered
      <3>2. m + (e - m) = e
        BY <1>7
      <3>3. QED
        BY <3>1, <3>2
    <2>3. /\ UNCHANGED <<why, cconn>>
          /\ cpc' = IF got_join' /\ rx' = <<>> THEN "loop" ELSE "handshake"
      BY <1>2, <1>4, <1>13 DEF Stay
    <2>4. \A k \in 1 .. e - m : Welcome(new, k)
      BY <1>8, <1>13 DEF bad
    <2>5. e # 0 => sent # <<>> /\ got_join' /\ Admitted
      <3> SUFFICES ASSUME e # 0 PROVE sent # <<>> /\ got_join' /\ Admitted
        OBVIOUS
      <3>1. CASE m # 0
        BY <1>2, <1>7, <3>1 DEF Admitted
      <3>2. CASE m = 0
        <4>1. 1 \in 1 .. e - m /\ new[1] = 1
          <5>1. e - m = e /\ e \in Nat \ {0} /\ 1 \in 1 .. e
            BY <1>6, <1>7, <3>2
          <5>2. QED
            BY <1>8, <3>2, <5>1
        <4>2. sent[new[1]].type = "JOIN_ACK"
          <5>1. Welcome(new, 1)
            BY <2>4, <4>1
          <5>2. ~got_join /\ 1 .. 1 - 1 = {}
            BY <1>7, <3>2
          <5>3. QED
            BY <5>1, <5>2 DEF Welcome
        <4>3. got_join'
          BY <1>2, <1>8, <4>1, <4>2
        <4>4. sent # <<>>
          BY <1>7, <3>2
        <4>5. sent # Error
          BY <4>1, <4>2 DEF Error, Frame
        <4>6. QED
          BY <1>7, <4>3, <4>4, <4>5
      <3>3. QED
        BY <3>1, <3>2
    <2>6. got_join' <=> e # 0
      <3>1. e = 0 => m = 0 /\ DOMAIN new = {}
        BY <1>6, <1>7, <1>8
      <3>2. e = 0 => ~got_join'
        BY <1>2, <1>7, <3>1
      <3>3. QED
        BY <2>5, <3>2
    <2>7. Shape'
      BY <1>3, <1>9, <1>10, <2>2, <2>3 DEF Inv, Shape, TypeOK
    <2>8. Ends'
      BY <1>3, <2>3 DEF Inv, Ends
    <2>9. ToClient'
      <3>1. ~HasFrame(sent, rx', 0)
        BY <1>2, <1>4
      <3>2. QED
        BY <1>3, <1>6, <2>2, <3>1 DEF ToClient
    <2>10. Opening'
      <3>1. printed' # <<>> <=> e # 0
        BY <2>2, EmptySeq
      <3>2. spc # "gone" /\ handled = <<>> => cpc' = "handshake"
        BY <1>12, <2>3, <2>5, <2>6
      <3>3. (got_join' <=> printed' # <<>>) /\ (printed' # <<>> => Admitted)
        BY <2>5, <2>6, <3>1
      <3>4. Admitted' <=> Admitted
        BY <1>3 DEF Admitted
      <3>5. gone # "full" \/ cpc' = "handshake"
        <4>1. gone = "full" => sent = Error
          BY <1>3 DEF Inv, Opening, Handshaking
        <4>2. ~(Admitted /\ sent = Error)
          BY DEF Admitted, Error, Frame
        <4>3. QED
          BY <2>3, <2>5, <2>6, <4>1, <4>2
      <3>6. QED
        BY <1>3, <1>7, <2>3, <3>2, <3>3, <3>4, <3>5 DEF Inv, Opening, Refusing, Handshaking, Error
    <2>11. Parting'
      BY <1>3, <1>7, <2>3 DEF Inv, Parting, LastWordsHeard
    <2>12. QED
      BY <1>11, <2>7, <2>8, <2>9, <2>10, <2>11 DEF Inv
  <1>14. CASE bad # {}
    <2>1. /\ first \in 1 .. e - m /\ ~Welcome(new, first)
      <3>1. bad \in SUBSET Nat
        BY <1>6, <1>8 DEF bad
      <3>2. \E k \in bad : \A j \in bad : k <= j
        BY <1>14, <3>1, Minimum
      <3>3. first \in bad
        BY <3>2 DEF first
      <3>4. QED
        BY <1>8, <3>3 DEF bad
    <2>2. /\ new[first] = m + first /\ m + first \in 1 .. Len(sent) /\ first \in Nat
          /\ sent # <<>>
      BY <1>7, <1>8, <2>1
    <2>3. \/ m + first = 1 /\ error /\ sent = Error /\ ~joined
          \/ /\ ~error /\ Admitted
             /\ sent[m + first].type \in {"NOTIFY", "BROADCAST"}
      <3>1. CASE sent = Error /\ ~joined
        <4>1. Len(sent) = 1 /\ sent[1].type = "ERROR"
          BY <3>1 DEF Error, Frame
        <4>2. m + first = 1
          BY <1>7, <2>2, <4>1
        <4>3. QED
          BY <2>2, <3>1, <4>1, <4>2 DEF error
      <3>2. CASE Admitted
        <4>1. sent[m + first].type # "JOIN_ACK"
          BY <2>1, <2>2 DEF Welcome
        <4>2. m + first # 1
          BY <3>2, <4>1 DEF Admitted
        <4>3. m + first \in 2 .. Len(sent)
          BY <1>7, <2>2, <4>2
        <4>4. sent[m + first].type \in {"HISTORY", "NOTIFY", "BROADCAST"}
          BY <3>2, <4>3 DEF Admitted
        <4>5. sent[m + first].type # "HISTORY"
          <5> SUFFICES ASSUME sent[m + first].type = "HISTORY" PROVE FALSE
            OBVIOUS
          <5>1. ~got_join /\ ~\E j \in 1 .. first - 1 : sent[new[j]].type = "JOIN_ACK"
            BY <2>1, <2>2 DEF Welcome
          <5>2. m = 0
            BY <1>7, <5>1
          <5>3. 1 \in 1 .. first - 1 /\ 1 \in 1 .. e - m /\ m + 1 = 1
            BY <1>6, <2>1, <2>2, <4>3, <5>2
          <5>4. new[1] = 1
            BY <1>8, <5>3
          <5>5. sent[new[1]].type = "JOIN_ACK"
            BY <3>2, <5>4 DEF Admitted
          <5>6. QED
            BY <5>1, <5>3, <5>5
        <4>6. QED
          BY <2>2, <3>2, <4>4, <4>5 DEF error
      <3>3. QED
        BY <1>7, <2>2, <3>1, <3>2
    <2>4. spc = "gone" \/ handled # <<>>
      <3>1. e # 0
        BY <1>6, <1>7, <2>1
      <3>2. QED
        BY <1>12, <2>2, <3>1
    <2>5. /\ cpc' = "exit" /\ why' = (IF error THEN "refused" ELSE "unexpected")
          /\ cconn' \in {"fin", "rst"}
          /\ printed' = printed \o SubSeq(new, 1, IF error THEN first ELSE first - 1)
      BY <1>2, <1>14 DEF Exit, print_incoming
    <2>6. /\ printed' \in Seq(Nat)
          /\ Len(printed') = m + (IF error THEN first ELSE first - 1)
      <3> DEFINE l == IF error THEN first ELSE first - 1
                 x == SubSeq(new, 1, l)
      <3>1. new \in Seq(Nat) /\ Len(new) = e - m
        <4>1. \A k \in 1 .. e - m : m + k \in Nat
          BY <1>7
        <4>2. QED
          BY <1>6, <4>1
      <3>2. l \in 0 .. Len(new) /\ l \in Nat
        BY <1>6, <2>1, <2>2, <3>1
      <3> HIDE DEF l
      <3>3. x \in Seq(Nat) /\ Len(x) = l
        BY <3>1, <3>2, UptoIs
      <3> HIDE DEF x
      <3>4. printed \o x \in Seq(Nat) /\ Len(printed \o x) = Len(printed) + Len(x)
        <4>1. printed \in Seq(Nat) /\ x \in Seq(Nat)
          BY <1>7, <3>3
        <4>2. QED
          BY <4>1, JoinIs
      <3>5. printed' = printed \o x
        BY <2>5 DEF x, l
      <3>6. QED
        BY <3>3, <3>4, <3>5 DEF l
    <2>7. Shape'
      BY <1>3, <1>9, <1>10, <2>5, <2>6 DEF Inv, Shape, TypeOK
    <2>8. Ends'
      BY <1>3, <2>5 DEF Inv, Ends
    <2>9. ToClient'
      BY <2>5 DEF ToClient
    <2>10. Opening'
      <3>1. ~Refusing
        <4>1. spc = "write" => ~(handled = <<>>)
          BY <2>4
        <4>2. QED
          BY <4>1 DEF Inv, Opening, Refusing
      <3>2. QED
        BY <1>3, <2>4, <2>5, <3>1 DEF Inv, Opening, Refusing, Handshaking
    <2>11. Parting'
      <3>1. CASE error
        <4>1. m + first = 1 /\ sent = Error /\ ~joined /\ why' = "refused" /\ Len(printed') = 1
          BY <2>3, <2>5, <2>6, <3>1
        <4>2. Len(sent) = 1 /\ sent[1].type = "ERROR"
          BY <4>1 DEF Error, Frame
        <4>3. QED
          BY <1>3, <2>4, <4>1, <4>2 DEF Inv, Parting, LastWordsHeard
      <3>2. CASE ~error
        <4>1. /\ why' = "unexpected" /\ joined
              /\ sent[m + first].type \in {"NOTIFY", "BROADCAST"}
              /\ Len(printed') = m + (first - 1)
          BY <2>3, <2>5, <2>6, <3>2 DEF Admitted
        <4>2. Len(printed') + 1 = m + first
          BY <1>7, <2>2, <4>1
        <4>3. Len(printed') + 1 <= Len(sent)
          BY <2>2, <4>2
        <4>4. QED
          BY <1>3, <4>1, <4>2, <4>3 DEF Inv, Parting, LastWordsHeard
      <3>3. QED
        BY <3>1, <3>2
    <2>12. QED
      BY <1>11, <2>7, <2>8, <2>9, <2>10, <2>11 DEF Inv
  <1>15. QED
    BY <1>13, <1>14

(* The server's end is gone, and the handshake finds the end of the        *)
(* stream: had it been refused, the refusal would have been there.         *)
LEMMA HandshakeEnds ==
  ASSUME Inv, HandshakeEnd
  PROVE  Inv'
  <1>1. /\ cpc = "handshake" /\ s2c = <<>> /\ sconn # "open"
        /\ cpc' = "exit" /\ why' = "closed" /\ cconn' = "fin"
        /\ UNCHANGED <<rx, got_join, cout, typed, sp, stall, reads, asked, printed, c2s, s2c,
                       sconn, serverVars>>
    BY DEF HandshakeEnd, Exit, NothingElse
  <1>2. UNCHANGED <<spc, inbuf, joined, sout, sthen, others, sent, handled, gone>>
    BY <1>1 DEF serverVars
  <1>3. spc = "gone" /\ gone \in {"full", "died"} /\ sout = <<>>
    <2>1. spc = "gone" /\ gone # "none" /\ gone \notin {"hup", "eof"} /\ sout = <<>>
      BY <1>1 DEF Inv, Ends
    <2>2. gone \in {"none", "full", "hup", "eof", "died"}
      BY DEF Inv, Shape, TypeOK
    <2>3. QED
      BY <2>1, <2>2
  <1>4. ASSUME gone = "full" PROVE FALSE
    <2>1. /\ sent = Error /\ (printed # <<>> => Admitted)
      BY <1>1, <1>4 DEF Inv, Opening, Handshaking
    <2>2. Len(sent) = 1 /\ sent[1].type = "ERROR"
      BY <2>1 DEF Error, Frame
    <2>3. /\ Whole(sent, (rx \o <<>>) \o <<>>, Len(printed))
          /\ ~HasFrame(sent, rx, 0)
      BY <1>1, <1>3, <1>4 DEF Inv, ToClient
    <2>4. rx \in Seq(Units) /\ sent \in Seq(AnyFrame) /\ <<>> \in Seq(Units)
      BY ShapeIs DEF Inv
    <2>5. Whole(sent, rx \o <<>>, Len(printed)) /\ Whole(sent, rx, Len(printed))
      <3>1. rx \o <<>> = rx
        BY <2>4, ConcatEmptySeq
      <3>2. QED
        BY <2>3, <3>1
    <2>6. rx = <<>>
      <3>1. Rest(sent, rx \o <<>>, Len(printed))
        BY <2>5 DEF Whole
      <3>2. QED
        BY <2>3, <2>4, <2>5, <3>1, BufferSmall
    <2>7. Len(printed) = 1
      BY <2>2, <2>5, <2>6 DEF Whole, Boundary
    <2>8. Admitted
      <3>1. printed # <<>>
        BY <2>7
      <3>2. QED
        BY <2>1, <3>1
    <2>9. QED
      BY <2>2, <2>8 DEF Admitted
  <1>5. gone = "died"
    BY <1>3, <1>4
  <1>6. Shape'
    BY <1>1, <1>2 DEF Inv, Shape, TypeOK
  <1>7. QED
    BY <1>1, <1>3, <1>5, <1>6, Leaves

(* The main loop and the user's line: the ways out.                        *)
LEMMA Quits ==
  ASSUME Inv, LoopHup \/ LoopEnd \/ QuitLine
  PROVE  Inv'
  <1>1. /\ cpc \in {"loop", "lines"} /\ cpc' = "exit" /\ why' \in {"hup", "eof", "quit"}
        /\ cconn' \in {"fin", "rst"}
        /\ UNCHANGED <<rx, got_join, cout, typed, sp, stall, reads, asked, printed, c2s, s2c,
                       sconn, serverVars>>
    BY DEF LoopHup, LoopEnd, QuitLine, Exit, NothingElse
  <1>2. UNCHANGED <<spc, inbuf, joined, sout, sthen, others, sent, handled, gone>>
    BY <1>1 DEF serverVars
  <1>3. Shape'
    BY <1>1, <1>2 DEF Inv, Shape, TypeOK
  <1>4. QED
    BY <1>1, <1>3, Leaves

(* The steps that move no unit.                                            *)
LEMMA Types ==
  ASSUME Inv, LoopStdin \/ ReadStdin \/ LocalLine \/ LinesEnd
  PROVE  Inv'
  <1>1. /\ typed \in Seq(Lines) /\ reads \in 0 .. MAX_READS /\ MAX_READS \in Nat
        /\ Chunks \subseteq Seq(Lines)
        /\ cpc = "stdin" => reads < MAX_READS
    BY ClientAssumption DEF Inv, Shape, TypeOK, Ends
  <1>2. /\ UNCHANGED <<rx, got_join, cout, sp, stall, asked, printed, c2s, s2c, sconn, serverVars,
                       why, cconn>>
        /\ cpc \in {"loop", "stdin", "lines"} /\ cpc' \in {"loop", "stdin", "lines"}
        /\ cpc' = "stdin" => cpc = "loop" /\ reads < MAX_READS /\ UNCHANGED reads
        /\ \/ UNCHANGED reads
           \/ cpc = "stdin" /\ reads' = reads + 1
        /\ \/ UNCHANGED typed
           \/ typed' \in Chunks
           \/ typed # <<>> /\ typed' = Tail(typed)
    BY DEF LoopStdin, ReadStdin, LocalLine, LinesEnd, Stay, NothingElse
  <1>3. UNCHANGED <<spc, inbuf, joined, sout, sthen, others, sent, handled, gone>>
    BY <1>2 DEF serverVars
  <1>4. typed' \in Seq(Lines)
    <2>1. typed # <<>> => Tail(typed) \in Seq(Lines)
      BY <1>1, HeadTailProperties
    <2>2. QED
      BY <1>1, <1>2, <2>1
  <1>5. reads' \in 0 .. MAX_READS
    BY <1>1, <1>2
  <1>6. Shape'
    BY <1>2, <1>3, <1>4, <1>5 DEF Inv, Shape, TypeOK
  <1>7. QED
    BY <1>2, <1>3, <1>6, Quiet DEF serverVars

(* A timeout, or the end, of pull_server_after_send.                       *)
LEMMA Pulls ==
  ASSUME Inv, PullTimeout \/ PullEnd
  PROVE  Inv'
  <1>1. /\ sp \in 0 .. MAX_SPINS /\ stall \in 0 .. MAX_STALL
        /\ MAX_SPINS \in Nat /\ MAX_STALL \in Nat
    BY ClientAssumption DEF Inv, Shape, TypeOK
  <1>2. /\ UNCHANGED <<rx, got_join, cout, typed, asked, printed, c2s, s2c, sconn, serverVars,
                       reads, why, cconn>>
        /\ cpc = "pull" /\ cpc' \in {"pull", "lines"}
        /\ \/ sp < MAX_SPINS /\ sp' = sp + 1 /\ stall < MAX_STALL /\ stall' = stall + 1
           \/ sp' = 0 /\ stall' = 0
    BY DEF PullTimeout, PullEnd, Stay, Leave, BearsStall
  <1>3. UNCHANGED <<spc, inbuf, joined, sout, sthen, others, sent, handled, gone>>
    BY <1>2 DEF serverVars
  <1>4. sp' \in 0 .. MAX_SPINS /\ stall' \in 0 .. MAX_STALL
    BY <1>1, <1>2
  <1>5. Shape'
    BY <1>2, <1>3, <1>4 DEF Inv, Shape, TypeOK
  <1>6. QED
    BY <1>2, <1>3, <1>5, Quiet

(* The client receives: in its main loop, and after it wrote a line.       *)
LEMMA LoopReceives ==
  ASSUME Inv, LoopRecv
  PROVE  Inv'
  <1>1. /\ cpc = "loop" /\ ReceiveAndPrint
        /\ cpc' \in {"loop", "stdin"} /\ (cpc' = "stdin" => reads < MAX_READS)
        /\ UNCHANGED <<got_join, cout, typed, sp, stall, c2s, sconn, cconn, why, serverVars, reads,
                       asked>>
    BY DEF LoopRecv, Stay
  <1>2. sp' \in 0 .. MAX_SPINS /\ stall' \in 0 .. MAX_STALL
    BY <1>1 DEF Inv, Shape, TypeOK
  <1>3. QED
    BY <1>1, <1>2, Receives

LEMMA Spins ==
  ASSUME Inv, PullSpin
  PROVE  Inv'
  <1>1. /\ cpc = "pull" /\ ReceiveAndPrint /\ cpc' = "pull"
        /\ sp < MAX_SPINS /\ sp' = sp + 1 /\ stall' = 0
        /\ UNCHANGED <<got_join, cout, typed, c2s, sconn, cconn, why, serverVars, reads, asked>>
    BY DEF PullSpin, Stay
  <1>2. sp' \in 0 .. MAX_SPINS /\ stall' \in 0 .. MAX_STALL
    BY <1>1, ClientAssumption DEF Inv, Shape, TypeOK
  <1>3. QED
    BY <1>1, <1>2, Receives

(* A line of the user becomes the next frame of the stream.                *)
LEMMA Asks ==
  ASSUME Inv, FrameLine
  PROVE  Inv'
  <1> DEFINE x == Head(typed)
             l == Len(asked)
  <1>1. /\ cpc = "lines" /\ cpc' = "send" /\ typed # <<>> /\ x.type \notin {"QUIT", "LOCAL"}
        /\ asked' = Append(asked, x)
        /\ cout' = UnitsOf(asked', Len(asked'))
        /\ typed' = Tail(typed)
        /\ UNCHANGED <<rx, got_join, sp, stall, c2s, s2c, cconn, sconn, reads, printed, why>>
        /\ UNCHANGED <<spc, inbuf, joined, sout, sthen, others, sent, handled, gone>>
    BY DEF FrameLine, Stay, serverVars
  <1>2. typed \in Seq(Lines) /\ asked \in Seq(AnyFrame)
    BY DEF Inv, Shape, TypeOK
  <1>3. x \in Lines /\ typed' \in Seq(Lines)
    BY <1>1, <1>2, HeadTailProperties
  <1>4. x \in AnyFrame /\ x.type \in {"LIST", "PRIVATE", "BROADCAST"}
    BY <1>1, <1>3 DEF Lines, AnyFrame, FrameTypes
  <1> HIDE DEF x
  <1>5. /\ asked' = asked \o <<x>> /\ <<x>> \in Seq(AnyFrame) /\ Len(<<x>>) = 1 /\ <<x>>[1] = x
    BY <1>1, <1>2, <1>4, AppendIsConcat
  <1>6. /\ asked' \in Seq(AnyFrame) /\ l \in Nat /\ Len(asked') = l + 1
        /\ \A k \in 1 .. l : asked'[k] = asked[k]
        /\ asked'[l + 1] = x
    <2>1. /\ asked \o <<x>> \in Seq(AnyFrame) /\ l \in Nat
          /\ Len(asked \o <<x>>) = l + Len(<<x>>)
          /\ \A k \in 1 .. l : (asked \o <<x>>)[k] = asked[k]
          /\ \A k \in 1 .. Len(<<x>>) : (asked \o <<x>>)[l + k] = <<x>>[k]
      BY <1>2, <1>5, MoreFrames
    <2>2. QED
      BY <1>5, <2>1
  <1>7. /\ Whole(asked', cout', l) /\ cout' \in Seq(Units)
    <2>1. l + 1 \in 1 .. Len(asked') /\ (l + 1) - 1 = l
      BY <1>6
    <2>2. /\ Rest(asked', cout', l)
          /\ Boundary(asked', cout', l, Len(cout'), l + 1)
      BY <1>1, <1>6, <2>1, UnitsOfIs
    <2>3. QED
      BY <1>6, <2>2 DEF Whole, Rest, Run
  <1>8. Shape'
    BY <1>1, <1>3, <1>6, <1>7 DEF Inv, Shape, TypeOK
  <1>9. Ends'
    BY <1>1 DEF Inv, Ends
  <1>10. ToClient'
    BY <1>1 DEF Inv, ToClient
  <1>11. ToServer'
    <2> SUFFICES ASSUME spc # "gone" PROVE ToServer'
      BY <1>1 DEF ToServer
    <2>1. cout = <<>>
      BY <1>1 DEF Inv, Ends
    <2>2. /\ InOrder(handled) /\ (Idle => ~HasFrame(asked, inbuf, 0))
          /\ Whole(asked, (inbuf \o c2s) \o <<>>, Len(handled))
      BY <2>1 DEF Inv, ToServer
    <2>3. inbuf \in Seq(Units) /\ c2s \in Seq(Units) /\ inbuf \o c2s \in Seq(Units)
      BY ShapeIs DEF Inv
    <2>4. Whole(asked, inbuf \o c2s, Len(handled))
      <3>1. (inbuf \o c2s) \o <<>> = inbuf \o c2s
        BY <2>3, ConcatEmptySeq
      <3>2. QED
        BY <2>2, <3>1
    <2>5. Whole(asked \o <<x>>, (inbuf \o c2s) \o cout', Len(handled))
      <3>1. Whole(asked \o <<x>>, cout', Len(asked))
        BY <1>5, <1>7
      <3>2. QED
        BY <1>2, <1>5, <2>4, <3>1, Extended
    <2>6. ~HasFrame(asked, inbuf, 0) => ~HasFrame(asked \o <<x>>, inbuf, 0)
      <3>1. Rest(asked, inbuf, Len(handled))
        <4>1. Rest(asked, inbuf \o c2s, Len(handled))
          BY <2>4 DEF Whole
        <4>2. QED
          BY <1>2, <2>3, <4>1, RestBegins
      <3>2. QED
        BY <1>2, <1>5, <3>1, RunOfMore
    <2>7. QED
      BY <1>1, <1>5, <2>2, <2>5, <2>6 DEF ToServer, Idle
  <1>12. Opening'
    <2>1. asked # <<>> /\ l # 0
      BY <1>2, EmptySeq DEF Inv, Opening
    <2>2. ASSUME NEW k \in 1 .. Len(asked')
          PROVE  asked'[k].type \in IF k = 1 THEN {"JOIN"} ELSE {"LIST", "PRIVATE", "BROADCAST"}
      <3>1. CASE k \in 1 .. l
        BY <1>6, <3>1 DEF Inv, Opening
      <3>2. CASE k = l + 1
        <4>1. k # 1
          BY <1>6, <2>1, <3>2
        <4>2. QED
          BY <1>4, <1>6, <3>2, <4>1
      <3>3. QED
        BY <1>6, <3>1, <3>2
    <2>3. asked' # <<>>
      BY <1>6, EmptySeq
    <2>4. ~Handshaking /\ ~Handshaking'
      BY <1>1 DEF Handshaking
    <2>5. QED
      BY <1>1, <2>2, <2>3, <2>4 DEF Inv, Opening, Refusing
  <1>13. Parting'
    <2>1. why = "none" /\ gone # "eof"
      BY <1>1 DEF Inv, Ends
    <2>2. QED
      BY <1>1, <2>1 DEF Parting, LastWordsHeard
  <1>14. QED
    BY <1>8, <1>9, <1>10, <1>11, <1>12, <1>13 DEF Inv

(* The invariant holds at the start, and no step breaks it.                *)
LEMMA Starts ==
  ASSUME Init
  PROVE  Inv
  <1> DEFINE f == Frame("JOIN", 1)
  <1>1. /\ CHAT_HEADER_SIZE \in Nat \ {0} /\ CHAT_MAX_BODY \in Nat \ {0} /\ PIPE \in Nat
        /\ MAX_HISTORY \in Nat /\ MAX_OTHERS \in Nat /\ MAX_READS \in Nat
        /\ MAX_STALL \in Nat /\ MAX_SPINS \in Nat
    BY ClientAssumption
  <1>2. /\ f \in AnyFrame /\ f.type = "JOIN" /\ <<f>> \in Seq(AnyFrame) /\ Len(<<f>>) = 1
        /\ <<f>>[1] = f
    <2>1. 1 \in 0 .. CHAT_MAX_BODY /\ "JOIN" \in FrameTypes
      BY <1>1 DEF FrameTypes
    <2>2. QED
      BY <2>1, FrameIs
  <1>3. asked = <<f>> /\ cout = UnitsOf(asked, 1)
    BY DEF Init
  <1> HIDE DEF f
  <1>4. asked \in Seq(AnyFrame) /\ Len(asked) = 1 /\ asked # <<>> /\ asked[1].type = "JOIN"
    BY <1>2, <1>3
  <1>5. Whole(asked, cout, 0) /\ cout \in Seq(Units)
    <2>1. 1 \in 1 .. Len(asked) /\ 1 - 1 = 0
      BY <1>4
    <2>2. Rest(asked, cout, 0) /\ Boundary(asked, cout, 0, Len(cout), 1)
      BY <1>3, <1>4, <2>1, UnitsOfIs
    <2>3. QED
      BY <1>4, <2>2 DEF Whole, Rest, Run
  <1>6. /\ <<>> \in Seq(Units) /\ <<>> \in Seq(AnyFrame) /\ <<>> \in Seq(Nat) /\ <<>> \in Seq(Lines)
        /\ Len(<<>>) = 0
    OBVIOUS
  <1>7. ASSUME NEW frames PROVE ~HasFrame(frames, <<>>, 0)
    BY <1>1, <1>6 DEF HasFrame, HasHeader
  <1>8. InOrder(<<>>)
    BY DEF InOrder
  <1>9. Shape
    <2>1. Len(c2s) <= PIPE /\ Len(s2c) <= PIPE
      BY <1>1, <1>6 DEF Init
    <2>2. \A s \in {rx, inbuf, c2s, s2c, cout, sout} : s \in Seq(Units)
      BY <1>5, <1>6 DEF Init
    <2>3. /\ sp \in 0 .. MAX_SPINS /\ stall \in 0 .. MAX_STALL
          /\ others \in 0 .. MAX_OTHERS /\ reads \in 0 .. MAX_READS
      BY <1>1 DEF Init
    <2>4. /\ cpc = "join" /\ spc = "backlog" /\ got_join = FALSE /\ joined = FALSE
          /\ typed = <<>> /\ cconn = "open" /\ sconn = "open" /\ sthen = "poll"
          /\ why = "none" /\ gone = "none"
      BY DEF Init
    <2>5. TypeOK
      BY <1>6, <2>1, <2>2, <2>3, <2>4 DEF TypeOK
    <2>6. QED
      BY <1>4, <1>6, <2>5 DEF Init, Shape
  <1>10. Ends
    BY DEF Init, Ends
  <1>11. ToClient
    <2>1. Whole(<<>>, <<>>, Len(<<>>))
      BY <1>6, NothingLeft
    <2>2. (<<>> \o <<>>) \o <<>> = <<>>
      BY <1>6, ConcatEmptySeq
    <2>3. rx = <<>> /\ s2c = <<>> /\ sout = <<>> /\ sent = <<>> /\ printed = <<>>
      BY DEF Init
    <2>4. QED
      BY <1>7, <1>8, <2>1, <2>2, <2>3 DEF ToClient, Whole
  <1>12. ToServer
    <2>1. (<<>> \o <<>>) \o cout = cout
      BY <1>5, <1>6, ConcatEmptySeq
    <2>2. inbuf = <<>> /\ c2s = <<>> /\ handled = <<>>
      BY DEF Init
    <2>3. QED
      BY <1>5, <1>6, <1>7, <1>8, <2>1, <2>2 DEF ToServer
  <1>13. Opening
    <2>1. /\ spc = "backlog" /\ handled = <<>> /\ inbuf = <<>> /\ sent = <<>> /\ printed = <<>>
          /\ cpc = "join" /\ joined = FALSE /\ got_join = FALSE /\ gone = "none"
      BY DEF Init
    <2>2. \A k \in 1 .. Len(asked) : k = 1
      BY <1>4
    <2>3. QED
      BY <1>4, <2>1, <2>2 DEF Opening, Refusing, Handshaking
  <1>14. Parting
    BY DEF Init, Parting, LastWordsHeard
  <1>15. QED
    BY <1>9, <1>10, <1>11, <1>12, <1>13, <1>14 DEF Inv

LEMMA Steps ==
  ASSUME Inv, [Next]_vars
  PROVE  Inv'
  <1>1. CASE SendJoin
    BY <1>1, Sends DEF SendJoin
  <1>2. CASE Handshake
    BY <1>2, Shakes
  <1>3. CASE HandshakeEnd
    BY <1>3, HandshakeEnds
  <1>4. CASE LoopHup \/ LoopEnd \/ QuitLine
    BY <1>4, Quits
  <1>5. CASE LoopRecv
    BY <1>5, LoopReceives
  <1>6. CASE LoopStdin \/ ReadStdin \/ LocalLine \/ LinesEnd
    BY <1>6, Types
  <1>7. CASE FrameLine
    BY <1>7, Asks
  <1>8. CASE SendLine
    BY <1>8, Sends DEF SendLine
  <1>9. CASE PullSpin
    BY <1>9, Spins
  <1>10. CASE PullTimeout \/ PullEnd
    BY <1>10, Pulls
  <1>11. CASE SvAccept
    BY <1>11, Accepts
  <1>12. CASE SvRecv
    BY <1>12, Recvs
  <1>13. CASE SvRemove
    BY <1>13, Removes
  <1>14. CASE SvHandle
    BY <1>14, Handles
  <1>15. CASE SvProcessed
    BY <1>15, Processed
  <1>16. CASE SvWrite
    BY <1>16, Writes
  <1>17. CASE SvWriteLost
    BY <1>17, WritesLost
  <1>18. CASE SvOther
    BY <1>18, Others
  <1>19. CASE SvDie
    BY <1>19, Dies
  <1>20. CASE UNCHANGED vars
    <2>1. /\ UNCHANGED <<cpc, rx, got_join, cout, typed, sp, stall, reads, asked, printed, why>>
          /\ UNCHANGED <<spc, inbuf, joined, sout, sthen, others, sent, handled, gone>>
          /\ UNCHANGED <<c2s, s2c, cconn, sconn>>
      BY <1>20 DEF vars, clientVars, serverVars
    <2>2. Shape'
      BY <2>1 DEF Inv, Shape, TypeOK
    <2>3. Ends'
      BY <2>1 DEF Inv, Ends
    <2>4. ToClient'
      BY <2>1 DEF Inv, ToClient
    <2>5. ToServer'
      BY <2>1 DEF Inv, ToServer, Idle
    <2>6. Opening'
      BY <2>1 DEF Inv, Opening, Refusing, Handshaking, Admitted, Error
    <2>7. Parting'
      BY <2>1 DEF Inv, Parting, LastWordsHeard
    <2>8. QED
      BY <2>2, <2>3, <2>4, <2>5, <2>6, <2>7 DEF Inv
  <1>21. QED
    BY <1>1, <1>2, <1>3, <1>4, <1>5, <1>6, <1>7, <1>8, <1>9, <1>10, <1>11, <1>12, <1>13, <1>14,
       <1>15, <1>16, <1>17, <1>18, <1>19, <1>20 DEF Next, ClientRuns, ServerRuns

------------------------------------------------------------------------------
(* The theorems.                                                           *)

(* The invariant holds in every state the two programs can reach: what is  *)
(* not printed or handled yet lies, in order, in the buffers and the       *)
(* kernel; before the JOIN nothing is said; whoever left had a reason.     *)
THEOREM Invariant == Spec => []Inv
  <1>1. Init => Inv
    BY Starts
  <1>2. Inv /\ [Next]_vars => Inv'
    BY Steps
  <1>3. QED
    BY <1>1, <1>2, PTL DEF Spec

(* Every variable keeps to its values: the pipes hold no more than they    *)
(* can, and pull_server_after_send its bounds on rounds and on timeouts.   *)
THEOREM TypeCorrect == Spec => []TypeOK
  <1>1. Inv => TypeOK
    BY DEF Inv, Shape
  <1>2. QED
    BY <1>1, Invariant, PTL

(* The client prints the frames the server wrote, whole, once each and in  *)
(* order, and keeps exactly the beginning of the next; the server handles  *)
(* the client's frames in the same way (client.c's three receiving loops,  *)
(* server.c's process_message).                                            *)
THEOREM StreamsAreIntact == Spec => []StreamsIntact
  <1>1. ASSUME Inv PROVE StreamsIntact
    <2>1. /\ rx \in Seq(Units) /\ s2c \in Seq(Units) /\ sout \in Seq(Units)
          /\ inbuf \in Seq(Units) /\ c2s \in Seq(Units) /\ cout \in Seq(Units)
          /\ asked \in Seq(AnyFrame) /\ sent \in Seq(AnyFrame)
      BY <1>1, ShapeIs DEF Inv
    <2>2. ASSUME cpc # "exit"
          PROVE  /\ InOrder(printed)
                 /\ LET rest == Stream(sent, Len(printed))
                        here == (rx \o s2c) \o sout
                    IN IF spc = "gone" THEN IsPrefix(here, rest) ELSE here = rest
      <3> DEFINE rest == Stream(sent, Len(printed))
                 here == (rx \o s2c) \o sout
      <3>1. InOrder(printed) /\ Rest(sent, here, Len(printed))
        BY <1>1, <2>2 DEF Inv, ToClient
      <3>2. spc # "gone" => Whole(sent, here, Len(printed))
        BY <1>1, <2>2 DEF Inv, ToClient, Ends
      <3>3. Whole(sent, rest, Len(printed))
        <4>1. Len(printed) \in 0 .. Len(sent)
          BY <3>1 DEF Rest
        <4>2. QED
          BY <2>1, <4>1, StreamIs
      <3> HIDE DEF rest, here
      <3>4. IsPrefix(here, rest)
        BY <2>1, <3>1, <3>3, BeginsIt
      <3>5. spc # "gone" => here = rest
        BY <2>1, <3>2, <3>3, Same
      <3>6. QED
        BY <3>1, <3>4, <3>5 DEF here, rest
    <2>3. ASSUME spc # "gone"
          PROVE  InOrder(handled) /\ (inbuf \o c2s) \o cout = Stream(asked, Len(handled))
      <3>1. InOrder(handled) /\ Whole(asked, (inbuf \o c2s) \o cout, Len(handled))
        BY <1>1, <2>3 DEF Inv, ToServer
      <3>2. Whole(asked, Stream(asked, Len(handled)), Len(handled))
        <4>1. Len(handled) \in 0 .. Len(asked)
          BY <3>1 DEF Whole, Rest
        <4>2. QED
          BY <2>1, <4>1, StreamIs
      <3>3. (inbuf \o c2s) \o cout = Stream(asked, Len(handled))
        BY <2>1, <3>1, <3>2, Same
      <3>4. QED
        BY <3>1, <3>3
    <2>4. QED
      BY <2>2, <2>3 DEF StreamsIntact
  <1>2. QED
    BY <1>1, Invariant, PTL

(* Wherever the code calls recv there is room in the buffer, so a recv of  *)
(* 0 bytes is an end of file and nothing else; and the branch of server.c  *)
(* for a full buffer is never taken.                                       *)
THEOREM AlwaysRoom == Spec => []RoomForMore
  <1>1. ASSUME Inv PROVE RoomForMore
    <2>1. /\ rx \in Seq(Units) /\ s2c \in Seq(Units) /\ sout \in Seq(Units)
          /\ inbuf \in Seq(Units) /\ c2s \in Seq(Units) /\ cout \in Seq(Units)
          /\ asked \in Seq(AnyFrame) /\ sent \in Seq(AnyFrame)
          /\ rx \o s2c \in Seq(Units) /\ inbuf \o c2s \in Seq(Units)
      BY <1>1, ShapeIs DEF Inv
    <2>2. ASSUME cpc # "exit" PROVE Len(rx) < RECV_CAP
      <3>1. Rest(sent, (rx \o s2c) \o sout, Len(printed)) /\ ~HasFrame(sent, rx, 0)
        BY <1>1, <2>2 DEF Inv, ToClient
      <3>2. Rest(sent, rx \o s2c, Len(printed))
        BY <2>1, <3>1, RestBegins
      <3>3. QED
        BY <2>1, <3>1, <3>2, BufferSmall
    <2>3. ASSUME spc = "poll" PROVE Len(inbuf) < RECV_CAP
      <3>1. Whole(asked, (inbuf \o c2s) \o cout, Len(handled)) /\ ~HasFrame(asked, inbuf, 0)
        BY <1>1, <2>3 DEF Inv, ToServer, Idle
      <3>2. Rest(asked, inbuf \o c2s, Len(handled))
        <4>1. Rest(asked, (inbuf \o c2s) \o cout, Len(handled))
          BY <3>1 DEF Whole
        <4>2. QED
          BY <2>1, <4>1, RestBegins
      <3>3. QED
        BY <2>1, <3>1, <3>2, BufferSmall
    <2>4. QED
      BY <2>2, <2>3 DEF RoomForMore
  <1>2. QED
    BY <1>1, Invariant, PTL

(* The handshake gives up only at an ERROR of a server that did not admit  *)
(* the client, at a frame another client caused behind the acknowledgement *)
(* (client.c:106), or at a server that died; never at a bad header.  And a *)
(* full server goes unheard only by a client still writing its JOIN.       *)
THEOREM RefusedWithCause == Spec => []RefusedForCause
  <1>1. Inv => RefusedForCause
    BY DEF Inv, Parting, RefusedForCause
  <1>2. QED
    BY <1>1, Invariant, PTL

(* A client the server drops at its end of file was heard to the last      *)
(* frame it ever wrote.                                                    *)
THEOREM LastWordsAreHeard == Spec => []LastWordsHeard
  <1>1. Inv => LastWordsHeard
    BY DEF Inv, Parting
  <1>2. QED
    BY <1>1, Invariant, PTL

==============================================================================
