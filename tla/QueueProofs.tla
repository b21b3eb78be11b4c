------------------------------ MODULE QueueProofs ------------------------------
(***************************************************************************)
(* What SenderProofs leaves: the queue of outstanding segments, its count, *)
(* its contents and its timer.  InFlightExact, NothingForgotten,           *)
(* SegmentsFaithful, NeverLate, NeverStuck and RetransmitsOldest for every *)
(* capacity, payload size, timeout, window and ISN.  The last section says *)
(* of every call what it puts into segments_out, for ConnectionProofs.     *)
(***************************************************************************)
EXTENDS SenderProofs, FiniteSetTheorems

\* The type of a segment.
Segments == [seqno : Nat, ackno : Nat, ack : BOOLEAN, rst : BOOLEAN, syn : BOOLEAN,
             fin : BOOLEAN, win : Nat, payload : Seq(Nat)]

\* Where a segment starts.  The checkpoint does not matter: every number is below Half32.
Pos(seg) == unwrap(seg.seqno, ISN, 0)

\* The number after a segment.
After(seg) == Pos(seg) + length_in_sequence_space(seg)

\* A segment that was made from the stream b.
SegmentOK(seg, b) ==
  /\ seg \in Segments
  /\ Pos(seg) \in Nat /\ seg.seqno = wrap(Pos(seg), ISN)
  /\ Pos(seg) < After(seg) /\ After(seg) <= MaxBytes + 2
  /\ seg.syn = (Pos(seg) = 0)
  /\ \A j \in 1 .. Len(seg.payload) : seg.payload[j] = Pos(seg) + One(seg.syn) + j - 1
  /\ Len(seg.payload) <= MAX_PAYLOAD_SIZE
  /\ seg.fin => b.end /\ b.buffer = << >> /\ After(seg) = b.written + 2

\* The segments of q follow each other up to n.
Chain(q, n) ==
  \A i \in 1 .. Len(q) :
    /\ Pos(q[i]) \in Nat /\ Pos(q[i]) < After(q[i])
    /\ After(q[i]) = IF i < Len(q) THEN Pos(q[i + 1]) ELSE n

\* The numbers of a queue that ends before n.
Occupied(q, n) == IF q = << >> THEN 0 ELSE n - Pos(q[1])

\* The i-th byte of the outbound stream is the number i.
BytesOK(b) == \A i \in 1 .. Len(b.buffer) : b.buffer[i] = b.total_read + i

\* The queue of outstanding segments and what goes with it.
QueueOK(s) ==
  /\ s.outstandings \in Seq(Segments)
  /\ \A i \in 1 .. Len(s.outstandings) : SegmentOK(s.outstandings[i], s.stream)
  /\ Chain(s.outstandings, s.next_seqno)
  /\ s.in_flights = Occupied(s.outstandings, s.next_seqno)
  /\ BytesOK(s.stream)
  /\ s.fin_sent \in BOOLEAN
  /\ s.fin_sent => s.stream.end /\ s.stream.buffer = << >> /\ s.next_seqno = s.stream.written + 2
  /\ s.timePassed \in Nat

\* What the peer has not acknowledged is still in the queue, and no acknowledgment in
\* the network acknowledges more than the peer.
NotForgotten ==
  /\ peer.ack <= snd.next_seqno
  /\ IF snd.outstandings = << >> THEN peer.ack = snd.next_seqno
     ELSE Pos(snd.outstandings[1]) <= peer.ack
  /\ \A ack \in acks : \E a \in 1 .. peer.ack : ack.ackno = wrap(a, ISN)

\* The timer has counted the time that the oldest segment has been waiting.
Timely == waited \in Nat /\ (snd.outstandings # << >> => waited <= snd.timePassed)

\* Without reordering the window is the one of the newest acknowledgment, the queue is
\* empty only if that acknowledged everything, and a probe is one number beyond it.
InStep(s, new) ==
  /\ new.ack <= s.next_seqno /\ new.ack <= new.edge
  /\ IF new.ack = 0
     THEN /\ new.edge = 0 /\ s.window = 1 /\ s.window_right = 0
          /\ s.outstandings = << >> => s.next_seqno = 0
     ELSE /\ new.edge = s.window_right + 1
          /\ s.window = new.edge - new.ack
          /\ s.outstandings = << >> => new.ack = s.next_seqno
  /\ s.probing => s.next_seqno = s.window_right + 2

\* The inductive invariant.
QInv ==
  /\ Inv
  /\ snd.segments_out = << >>
  /\ QueueOK(snd)
  /\ NotForgotten
  /\ Timely
  /\ newest \in [ack : Nat, edge : Nat] /\ reordered \in BOOLEAN
  /\ ~reordered => InStep(snd, newest)

--------------------------------------------------------------------------------

\* What the constants are assumed to be.
LEMMA Constants ==
  /\ MaxBytes \in Nat /\ MaxWindow \in Nat /\ Half32 \in Nat /\ Capacity \in Nat
  /\ MaxBytes + MaxWindow + 2 < Half32 /\ ISN \in WrappingInt32
  /\ Pow32 \in Nat \ {0} /\ Pow32 % 2 = 0 /\ MAX_PAYLOAD_SIZE \in Nat \ {0}
  BY SenderAssumption, TwoHalves

\* A nonempty set of natural numbers has a smallest element.
LEMMA Smallest ==
  ASSUME NEW S \in SUBSET Nat, S # {}
  PROVE  \E x \in S : \A y \in S : x <= y
<1>1. PICK x \in S : \A y \in S : ~(<<y, x>> \in OpToRel(<, Nat))
  BY NatLessThanWellFounded, WFMin, Zenon
<1>2. \A y \in S : x <= y
  <2> SUFFICES ASSUME NEW y \in S, y < x PROVE FALSE
    OBVIOUS
  <2>1. <<y, x>> \in Nat \X Nat /\ <<y, x>>[1] < <<y, x>>[2]
    OBVIOUS
  <2>2. <<y, x>> \in OpToRel(<, Nat)
    BY <2>1, Zenon DEF OpToRel
  <2> QED
    BY <1>1, <2>2
<1> QED
  BY <1>2

\* A bounded one has a largest element.
LEMMA Largest ==
  ASSUME NEW S \in SUBSET Nat, S # {}, NEW n \in Nat, \A x \in S : x <= n
  PROVE  Max(S) \in S /\ \A y \in S : y <= Max(S)
<1> DEFINE T == {z \in Nat : \E x \in S : z = n - x}
<1>1. T \in SUBSET Nat /\ T # {}
  <2>1. PICK x \in S : TRUE
    OBVIOUS
  <2>2. n - x \in T
    BY <2>1
  <2> QED
    BY <2>2
<1>2. PICK z \in T : \A y \in T : z <= y
  BY <1>1, Smallest
<1>3. PICK x \in S : z = n - x
  BY <1>2
<1>4. \A y \in S : x >= y
  <2> SUFFICES ASSUME NEW y \in S PROVE x >= y
    OBVIOUS
  <2>1. n - y \in T
    OBVIOUS
  <2> QED
    <3>1. n \in Nat /\ x \in 0 .. n /\ y \in 0 .. n /\ n - x <= n - y
      BY <1>2, <1>3, <2>1
    <3> QED
      BY ONLY <3>1
<1>5. Max(S) \in S /\ \A y \in S : Max(S) >= y
  BY <1>4 DEF Max
<1> QED
  BY <1>5

\* Every number that is sent survives wrapping and unwrapping, whatever has been read.
LEMMA PosOfWrap ==
  ASSUME NEW m \in Nat, m <= MaxBytes + 2, NEW c \in Nat, c <= MaxBytes + 2
  PROVE  unwrap(wrap(m, ISN), ISN, c) = m
<1>1. Distance(m, c) < Half32
  BY Constants DEF Distance
<1> QED
  BY <1>1, Constants, UnwrapOfWrap

\* A segment's length is a number.
LEMMA SegmentLength ==
  ASSUME NEW seg \in Segments
  PROVE  /\ seg.payload \in Seq(Nat) /\ Len(seg.payload) \in Nat
         /\ seg.syn \in BOOLEAN /\ seg.fin \in BOOLEAN
         /\ length_in_sequence_space(seg) \in Nat
<1>1. seg.payload \in Seq(Nat) /\ seg.syn \in BOOLEAN /\ seg.fin \in BOOLEAN
  BY DEF Segments
<1>2. Len(seg.payload) \in Nat
  BY <1>1, LenProperties
<1>3. One(seg.syn) \in Nat /\ One(seg.fin) \in Nat
  BY DEF One
<1> QED
  BY <1>1, <1>2, <1>3 DEF length_in_sequence_space

\* The position that the code computes is Pos.
LEMMA StartIsPos ==
  ASSUME NEW b, StreamOK(b), NEW seg, SegmentOK(seg, b)
  PROVE  /\ unwrap(seg.seqno, ISN, BS!bytes_read(b)) = Pos(seg)
         /\ Pos(seg) \in Nat /\ Pos(seg) <= MaxBytes + 2
         /\ length_in_sequence_space(seg) \in Nat
         /\ length_in_sequence_space(seg) = After(seg) - Pos(seg)
<1>1. BS!bytes_read(b) = b.total_read /\ b.total_read \in Nat /\ b.total_read <= MaxBytes
  BY Counters, Constants DEF StreamOK
<1>2. /\ Pos(seg) \in Nat /\ seg.seqno = wrap(Pos(seg), ISN) /\ Pos(seg) < After(seg)
      /\ After(seg) <= MaxBytes + 2
  BY DEF SegmentOK
<1>3. length_in_sequence_space(seg) \in Nat
  BY SegmentLength DEF SegmentOK
<1>4. After(seg) \in Int /\ length_in_sequence_space(seg) = After(seg) - Pos(seg)
  BY <1>2, <1>3 DEF After
<1>5. Pos(seg) <= MaxBytes + 2
  BY <1>2, <1>4, Constants
<1> QED
  BY <1>1, <1>2, <1>3, <1>4, <1>5, Constants, PosOfWrap

--------------------------------------------------------------------------------
\* Queues of segments that follow each other.

\* The numbers of a chain are ordered, and lie before its end.
LEMMA ChainOrder ==
  ASSUME NEW q \in Seq(Segments), NEW n \in Nat, Chain(q, n)
  PROVE  /\ Len(q) \in Nat
         /\ \A i \in 1 .. Len(q) : q[i] \in Segments /\ Pos(q[i]) \in Nat /\ After(q[i]) \in Nat
                                   /\ Pos(q[i]) < After(q[i]) /\ After(q[i]) <= n
         /\ \A i, j \in 1 .. Len(q) : i < j => After(q[i]) <= Pos(q[j])
<1>1. Len(q) \in Nat
  BY LenProperties
<1>2. \A i \in 1 .. Len(q) : q[i] \in Segments /\ Pos(q[i]) \in Nat /\ After(q[i]) \in Nat
                             /\ Pos(q[i]) < After(q[i])
  <2>1. \A i \in 1 .. Len(q) : q[i] \in Segments
    BY ElementOfSeq
  <2> QED
    BY <2>1, SegmentLength DEF Chain, After
<1>3. \A i, j \in 1 .. Len(q) : i < j => After(q[i]) <= Pos(q[j])
  <2> SUFFICES ASSUME NEW i \in 1 .. Len(q), NEW h \in 1 .. Len(q), i < h,
                      ~(After(q[i]) <= Pos(q[h]))
               PROVE  FALSE
    OBVIOUS
  <2> DEFINE S == {j \in 1 .. Len(q) : i < j /\ ~(After(q[i]) <= Pos(q[j]))}
  <2>1. S \in SUBSET Nat /\ S # {}
    BY <1>1
  <2>2. PICK j \in S : \A y \in S : j <= y
    BY <2>1, Smallest
  <2>3. j \in 1 .. Len(q) /\ i < j /\ ~(After(q[i]) <= Pos(q[j]))
    BY <2>2
  <2>4. j - 1 \in 1 .. Len(q) /\ j - 1 < Len(q) /\ After(q[j - 1]) = Pos(q[j])
    <3>1. j - 1 \in 1 .. Len(q) /\ j - 1 < Len(q) /\ (j - 1) + 1 = j
      BY <1>1, <2>3
    <3>2. After(q[j - 1]) = Pos(q[(j - 1) + 1])
      BY <3>1, Zenon DEF Chain
    <3> QED
      BY <3>1, <3>2
  <2>5. j - 1 \notin S
    BY <2>2, <2>4
  <2>6. CASE i = j - 1
    BY <1>2, <2>3, <2>4, <2>6
  <2>7. CASE i # j - 1
    <3>1. After(q[i]) <= Pos(q[j - 1])
      BY <1>1, <2>3, <2>4, <2>5, <2>7
    <3>2. /\ After(q[i]) \in Nat /\ Pos(q[j]) \in Nat
          /\ Pos(q[j - 1]) \in Nat /\ After(q[j - 1]) \in Nat /\ Pos(q[j - 1]) < After(q[j - 1])
      BY <1>2, <2>3, <2>4
    <3>3. After(q[i]) <= After(q[j - 1])
      BY <3>1, <3>2
    <3> QED
      BY <2>3, <2>4, <3>3
  <2> QED
    BY <2>6, <2>7
<1>4. ASSUME NEW i \in 1 .. Len(q) PROVE After(q[i]) <= n
  <2>1. After(q[Len(q)]) = n /\ Len(q) \in 1 .. Len(q)
    BY <1>1 DEF Chain
  <2>2. CASE i = Len(q)
    BY <1>2, <2>1, <2>2
  <2>3. CASE i # Len(q)
    <3>1. After(q[i]) <= Pos(q[Len(q)])
      BY <1>1, <1>3, <2>1, <2>3
    <3>2. /\ After(q[i]) \in Nat /\ Pos(q[Len(q)]) \in Nat /\ After(q[Len(q)]) \in Nat
          /\ Pos(q[Len(q)]) < After(q[Len(q)])
      BY <1>2, <2>1
    <3> QED
      BY <2>1, <3>1, <3>2
  <2> QED
    BY <2>2, <2>3
<1> QED
  BY <1>1, <1>2, <1>3, <1>4

\* No segment is in a chain twice.
LEMMA ChainDistinct ==
  ASSUME NEW q \in Seq(Segments), NEW n \in Nat, Chain(q, n),
         NEW i \in 1 .. Len(q), NEW j \in 1 .. Len(q), i # j
  PROVE  q[i] # q[j]
<1>1. /\ Pos(q[i]) \in Nat /\ After(q[i]) \in Nat /\ Pos(q[i]) < After(q[i])
      /\ Pos(q[j]) \in Nat /\ After(q[j]) \in Nat /\ Pos(q[j]) < After(q[j])
      /\ i < j => After(q[i]) <= Pos(q[j])
      /\ j < i => After(q[j]) <= Pos(q[i])
      /\ i \in Nat /\ j \in Nat
  BY ChainOrder
<1>2. Pos(q[i]) # Pos(q[j])
  BY <1>1
<1> QED
  BY <1>2

\* The numbers that a chain occupies are those from its first segment to its end.
LEMMA ChainLength ==
  ASSUME NEW q \in Seq(Segments), NEW n \in Nat, Chain(q, n)
  PROVE  TotalLength(q) = Occupied(q, n)
<1> DEFINE L(i) == length_in_sequence_space(q[i])
           T == UNION {{i} \X (1 .. L(i)) : i \in DOMAIN q}
           first == Pos(q[1])
           F == [t \in T |-> Pos(q[t[1]]) + t[2] - 1]
<1>1. Len(q) \in Nat /\ DOMAIN q = 1 .. Len(q)
  BY LenProperties
<1>2. CASE q = << >>
  <2>1. DOMAIN q = {}
    BY <1>2, EmptySeq
  <2>2. T = {}
    BY <2>1
  <2> HIDE DEF T
  <2>3. Cardinality(T) = 0
    BY <2>2, FS_EmptySet
  <2> QED
    BY <1>2, <2>3 DEF TotalLength, Occupied, T
<1>3. CASE q # << >>
  <2>1. 1 \in 1 .. Len(q) /\ Len(q) \in 1 .. Len(q)
    BY <1>1, <1>3, EmptySeq
  <2>2. ASSUME NEW i \in 1 .. Len(q)
        PROVE  /\ Pos(q[i]) \in Nat /\ After(q[i]) \in Nat /\ L(i) \in Nat
               /\ Pos(q[i]) + L(i) = After(q[i]) /\ first <= Pos(q[i]) /\ After(q[i]) <= n
               /\ \A j \in 1 .. Len(q) : i < j => After(q[i]) <= Pos(q[j])
    <3>1. /\ q[i] \in Segments /\ Pos(q[i]) \in Nat /\ After(q[i]) \in Nat /\ After(q[i]) <= n
          /\ first \in Nat /\ After(q[1]) \in Nat /\ first < After(q[1])
          /\ 1 < i => After(q[1]) <= Pos(q[i])
          /\ \A j \in 1 .. Len(q) : i < j => After(q[i]) <= Pos(q[j])
      BY <2>1, ChainOrder
    <3>2. L(i) \in Nat /\ Pos(q[i]) + L(i) = After(q[i])
      BY <3>1, SegmentLength DEF After
    <3>3. first <= Pos(q[i])
      BY <1>1, <3>1
    <3> QED
      BY <3>1, <3>2, <3>3
  <2>3. \A t : t \in T <=> \E i \in 1 .. Len(q) : \E k \in 1 .. L(i) : t = <<i, k>>
    BY <1>1
  <2> HIDE DEF L, first
  <2>4. ASSUME NEW t \in T
        PROVE  /\ t[1] \in 1 .. Len(q) /\ t[2] \in 1 .. L(t[1]) /\ t = <<t[1], t[2]>>
               /\ F[t] \in first .. n - 1
               /\ Pos(q[t[1]]) <= F[t] /\ F[t] < After(q[t[1]])
    <3>1. PICK i \in 1 .. Len(q) : \E k \in 1 .. L(i) : t = <<i, k>>
      BY <2>3, <2>4
    <3>2. PICK k \in 1 .. L(i) : t = <<i, k>>
      BY <3>1
    <3>3. t[1] = i /\ t[2] = k /\ F[t] = Pos(q[i]) + k - 1
      BY <2>4, <3>2
    <3> HIDE DEF F, T
    <3>4. /\ Pos(q[i]) <= Pos(q[i]) + k - 1 /\ Pos(q[i]) + k - 1 < After(q[i])
          /\ Pos(q[i]) + k - 1 \in first .. n - 1
      <4> DEFINE a == Pos(q[i])
                 z == After(q[i])
                 l == L(i)
      <4>1. /\ a \in Nat /\ z \in Nat /\ l \in Nat /\ a + l = z /\ first <= a /\ z <= n
            /\ k \in 1 .. l /\ n \in Nat /\ first \in Nat
        <5>1. first \in Nat
          BY <2>1, <2>2 DEF first
        <5>2. /\ Pos(q[i]) \in Nat /\ After(q[i]) \in Nat /\ L(i) \in Nat
              /\ Pos(q[i]) + L(i) = After(q[i]) /\ first <= Pos(q[i]) /\ After(q[i]) <= n
          BY <2>2
        <5> QED
          BY <5>1, <5>2, Zenon
      <4> HIDE DEF a, z, l
      <4>2. a <= a + k - 1 /\ a + k - 1 < z /\ a + k - 1 \in first .. n - 1
        BY ONLY <4>1
      <4> QED
        BY <4>2, Zenon DEF a, z
    <3> QED
      BY <3>2, <3>3, <3>4
  <2>5. F \in [T -> first .. n - 1]
    <3>1. \A t \in T : F[t] \in first .. n - 1
      BY <2>4
    <3> HIDE DEF T
    <3> QED
      BY <3>1
  <2>6. ASSUME NEW t \in T, NEW u \in T, F[t] = F[u] PROVE t = u
    <3> DEFINE i == t[1]
               j == u[1]
    <3>1. /\ i \in 1 .. Len(q) /\ t[2] \in 1 .. L(i) /\ t = <<i, t[2]>>
          /\ Pos(q[i]) <= F[t] /\ F[t] < After(q[i]) /\ F[t] \in first .. n - 1
      BY <2>4
    <3>2. /\ j \in 1 .. Len(q) /\ u[2] \in 1 .. L(j) /\ u = <<j, u[2]>>
          /\ Pos(q[j]) <= F[u] /\ F[u] < After(q[j]) /\ F[u] \in first .. n - 1
      BY <2>4
    <3>3. F[t] = Pos(q[i]) + t[2] - 1 /\ F[u] = Pos(q[j]) + u[2] - 1
      BY DEF F
    <3>4. first \in Nat
      BY <2>1, <2>2 DEF first
    <3> HIDE DEF F, T, i, j
    <3>5. i = j
      <4>1. /\ Pos(q[i]) \in Nat /\ After(q[i]) \in Nat /\ Pos(q[j]) \in Nat /\ After(q[j]) \in Nat
            /\ i < j => After(q[i]) <= Pos(q[j])
            /\ j < i => After(q[j]) <= Pos(q[i])
        BY <2>2, <3>1, <3>2
      <4> DEFINE a == Pos(q[i])
                 y == After(q[i])
                 c == Pos(q[j])
                 z == After(q[j])
                 v == F[t]
      <4>2. /\ a <= v /\ v < y /\ c <= v /\ v < z /\ v \in Int /\ i \in Nat /\ j \in Nat
            /\ a \in Nat /\ y \in Nat /\ c \in Nat /\ z \in Nat
            /\ i < j => y <= c
            /\ j < i => z <= a
        BY <1>1, <2>6, <3>1, <3>2, <3>4, <4>1
      <4> HIDE DEF a, y, c, z, v
      <4> QED
        BY ONLY <4>2
    <3>6. t[2] = u[2]
      <4>1. Pos(q[i]) \in Nat /\ L(i) \in Nat
        BY <2>2, <3>1
      <4>2. Pos(q[i]) + t[2] - 1 = Pos(q[i]) + u[2] - 1
        BY <2>6, <3>3, <3>5
      <4>3. t[2] \in Int /\ u[2] \in Int
        BY <3>1, <3>2
      <4> QED
        BY <4>1, <4>2, <4>3
    <3> QED
      BY <3>1, <3>2, <3>5, <3>6
  <2>7. ASSUME NEW x \in first .. n - 1 PROVE \E t \in T : F[t] = x
    <3> DEFINE S == {i \in 1 .. Len(q) : Pos(q[i]) <= x}
               i == Max(S)
    <3>1. first \in Nat /\ x \in Nat
      BY <2>1, <2>2 DEF first
    <3>2. S \in SUBSET Nat /\ S # {} /\ \A y \in S : y <= Len(q)
      BY <1>1, <2>1, <3>1 DEF first
    <3>3. i \in S /\ \A y \in S : y <= i
      <4> HIDE DEF S
      <4> QED
        BY <1>1, <3>2, Largest
    <3> HIDE DEF i
    <3>4. i \in 1 .. Len(q) /\ Pos(q[i]) <= x
      BY <3>3
    <3>5. x < After(q[i])
      <4>1. CASE i < Len(q)
        <5>1. i + 1 \in 1 .. Len(q) /\ After(q[i]) = Pos(q[i + 1])
          BY <1>1, <3>4, <4>1 DEF Chain
        <5>2. i + 1 \notin S
          BY <3>3, <3>4
        <5>3. Pos(q[i + 1]) \in Nat
          BY <2>2, <5>1
        <5> QED
          BY <3>1, <5>1, <5>2, <5>3
      <4>2. CASE ~(i < Len(q))
        <5>1. After(q[i]) = n
          BY <3>4, <4>2 DEF Chain
        <5> QED
          BY <5>1
      <4> QED
        BY <4>1, <4>2
    <3> DEFINE k == x - Pos(q[i]) + 1
               t == <<i, k>>
    <3>6. /\ Pos(q[i]) \in Nat /\ After(q[i]) \in Nat /\ L(i) \in Nat
          /\ Pos(q[i]) + L(i) = After(q[i])
      BY <2>2, <3>4
    <3>7. k \in 1 .. L(i) /\ Pos(q[i]) + k - 1 = x
      BY <3>1, <3>4, <3>5, <3>6
    <3> HIDE DEF k
    <3>8. t \in T /\ t[1] = i /\ t[2] = k
      BY <2>3, <3>4, <3>7
    <3>9. F[t] = x
      BY <3>7, <3>8
    <3> HIDE DEF F, T, t
    <3> QED
      BY <3>8, <3>9
  <2> HIDE DEF F, T
  <2>8. F \in Injection(T, first .. n - 1) /\ F \in Surjection(T, first .. n - 1)
    BY <2>5, <2>6, <2>7 DEF Injection, Surjection, IsInjective
  <2>9. IsFiniteSet(first .. n - 1) /\ Cardinality(first .. n - 1) = n - first
    <3>1. first \in Nat /\ first <= n
      BY <2>1, <2>2 DEF first
    <3> HIDE DEF first
    <3>2. first \in Int /\ n - 1 \in Int
      BY <3>1
    <3>3. /\ IsFiniteSet(first .. n - 1)
          /\ Cardinality(first .. n - 1) = IF first > n - 1 THEN 0 ELSE (n - 1) - first + 1
      BY <3>2, FS_Interval
    <3>4. (IF first > n - 1 THEN 0 ELSE (n - 1) - first + 1) = n - first
      BY <3>1
    <3> QED
      BY <3>3, <3>4
  <2>10. Cardinality(T) = n - first
    BY <2>8, <2>9, FS_Injection
  <2> QED
    BY <1>3, <2>10 DEF TotalLength, Occupied, T, L, first
<1> QED
  BY <1>2, <1>3

\* What is left of a chain after its first k segments.
LEMMA ChainSuffix ==
  ASSUME NEW q \in Seq(Segments), NEW n \in Nat, Chain(q, n), NEW k \in 0 .. Len(q)
  PROVE  LET p == SubSeq(q, k + 1, Len(q))
         IN  /\ p \in Seq(Segments) /\ Len(p) = Len(q) - k
             /\ \A i \in 1 .. Len(p) : k + i \in 1 .. Len(q) /\ p[i] = q[k + i]
             /\ Chain(p, n)
<1> DEFINE p == SubSeq(q, k + 1, Len(q))
<1>1. Len(q) \in Nat /\ k \in Nat /\ k <= Len(q)
  BY LenProperties
<1>2. \A i \in k + 1 .. Len(q) : q[i] \in Segments
  BY <1>1, ElementOfSeq
<1>3. p \in Seq(Segments) /\ Len(p) = Len(q) - k
  BY <1>1, <1>2, SubSeqProperties
<1>4. ASSUME NEW i \in 1 .. Len(p)
      PROVE  k + i \in 1 .. Len(q) /\ p[i] = q[k + i]
  <2>1. i \in 1 .. Len(q) - k /\ i \in Int
    BY <1>3
  <2>2. p[i] = q[k + i]
    BY <1>1, <2>1
  <2> DEFINE l == Len(q)
  <2>3. l \in Nat /\ k \in Nat /\ i \in 1 .. l - k
    BY <1>1, <2>1
  <2> HIDE DEF l
  <2>4. k + i \in 1 .. l
    BY ONLY <2>3
  <2> QED
    BY <2>2, <2>4 DEF l
<1> HIDE DEF p
<1>5. Chain(p, n)
  <2> SUFFICES ASSUME NEW i \in 1 .. Len(p)
               PROVE  /\ Pos(p[i]) \in Nat /\ Pos(p[i]) < After(p[i])
                      /\ After(p[i]) = IF i < Len(p) THEN Pos(p[i + 1]) ELSE n
    BY DEF Chain
  <2>1. k + i \in 1 .. Len(q) /\ p[i] = q[k + i] /\ (i < Len(p) <=> k + i < Len(q))
    BY <1>1, <1>3, <1>4
  <2>2. /\ Pos(p[i]) \in Nat /\ Pos(p[i]) < After(p[i])
        /\ After(p[i]) = IF i < Len(p) THEN Pos(q[(k + i) + 1]) ELSE n
    BY <2>1, Zenon DEF Chain
  <2>3. i < Len(p) => p[i + 1] = q[(k + i) + 1]
    <3>1. SUFFICES ASSUME i < Len(p) PROVE p[i + 1] = q[(k + i) + 1]
      OBVIOUS
    <3>2. i + 1 \in 1 .. Len(p) /\ k + (i + 1) = (k + i) + 1
      BY <1>1, <1>3, <3>1
    <3>3. p[i + 1] = q[k + (i + 1)]
      BY <1>4, <3>2
    <3> QED
      BY <3>2, <3>3
  <2> QED
    BY <2>2, <2>3
<1> QED
  BY <1>3, <1>4, <1>5 DEF p

\* Its first k segments.
LEMMA ChainPrefix ==
  ASSUME NEW q \in Seq(Segments), NEW n \in Nat, Chain(q, n), NEW k \in 1 .. Len(q)
  PROVE  LET p == SubSeq(q, 1, k)
         IN  /\ p \in Seq(Segments) /\ p # << >> /\ p[1] = q[1]
             /\ Chain(p, After(q[k]))
<1> DEFINE p == SubSeq(q, 1, k)
<1>1. Len(q) \in Nat /\ k \in Nat /\ k <= Len(q) /\ k >= 1
  BY LenProperties
<1>2. \A i \in 1 .. k : q[i] \in Segments
  BY <1>1, ElementOfSeq
<1>3. p \in Seq(Segments) /\ Len(p) = k /\ \A i \in 1 .. k : p[i] = q[i]
  BY <1>1, <1>2, SubSeqProperties
<1> HIDE DEF p
<1>4. Chain(p, After(q[k]))
  <2> SUFFICES ASSUME NEW i \in 1 .. k
               PROVE  /\ Pos(p[i]) \in Nat /\ Pos(p[i]) < After(p[i])
                      /\ After(p[i]) = IF i < k THEN Pos(p[i + 1]) ELSE After(q[k])
    BY <1>3 DEF Chain
  <2>1. i \in 1 .. Len(q) /\ p[i] = q[i]
    BY <1>1, <1>3
  <2>2. /\ Pos(p[i]) \in Nat /\ Pos(p[i]) < After(p[i])
        /\ i < Len(q) => After(p[i]) = Pos(q[i + 1])
    BY <2>1, Zenon DEF Chain
  <2>3. CASE i < k
    <3>1. i < Len(q) /\ i + 1 \in 1 .. k
      BY <1>1, <2>3
    <3> QED
      BY <1>3, <2>2, <2>3, <3>1
  <2>4. CASE ~(i < k)
    <3>1. i = k
      BY <1>1, <2>4
    <3> QED
      BY <2>1, <2>2, <2>4, <3>1
  <2> QED
    BY <2>3, <2>4
<1>5. p # << >> /\ p[1] = q[1]
  BY <1>1, <1>3
<1> QED
  BY <1>3, <1>4, <1>5 DEF p

\* A chain continued by another one.
LEMMA ChainConcat ==
  ASSUME NEW q \in Seq(Segments), NEW n \in Nat, Chain(q, n),
         NEW p \in Seq(Segments), NEW m \in Nat, Chain(p, m), p # << >>, Pos(p[1]) = n
  PROVE  /\ q \o p \in Seq(Segments) /\ Chain(q \o p, m) /\ q \o p # << >>
         /\ Len(q \o p) = Len(q) + Len(p)
         /\ \A i \in 1 .. Len(q) + Len(p) :
              (q \o p)[i] = IF i <= Len(q) THEN q[i] ELSE p[i - Len(q)]
<1> DEFINE c == q \o p
<1>1. Len(q) \in Nat /\ Len(p) \in Nat /\ Len(p) >= 1
  BY LenProperties, EmptySeq
<1>2. /\ c \in Seq(Segments) /\ Len(c) = Len(q) + Len(p)
      /\ \A i \in 1 .. Len(q) + Len(p) : c[i] = IF i <= Len(q) THEN q[i] ELSE p[i - Len(q)]
  BY ConcatProperties
<1> HIDE DEF c
<1>3. Chain(c, m)
  <2> SUFFICES ASSUME NEW i \in 1 .. Len(c)
               PROVE  /\ Pos(c[i]) \in Nat /\ Pos(c[i]) < After(c[i])
                      /\ After(c[i]) = IF i < Len(c) THEN Pos(c[i + 1]) ELSE m
    BY DEF Chain
  <2>1. CASE i <= Len(q)
    <3>1. i \in 1 .. Len(q) /\ c[i] = q[i] /\ i < Len(c)
      BY <1>1, <1>2, <2>1
    <3>2. /\ Pos(q[i]) \in Nat /\ Pos(q[i]) < After(q[i])
          /\ After(q[i]) = IF i < Len(q) THEN Pos(q[i + 1]) ELSE n
      BY <3>1, Zenon DEF Chain
    <3>3. CASE i < Len(q)
      <4>1. c[i + 1] = q[i + 1]
        BY <1>1, <1>2, <3>3
      <4> QED
        BY <3>1, <3>2, <3>3, <4>1
    <3>4. CASE i = Len(q)
      <4>1. i + 1 \in 1 .. Len(q) + Len(p) /\ ~(i + 1 <= Len(q)) /\ i + 1 - Len(q) = 1
        BY <1>1, <3>4
      <4>2. c[i + 1] = p[1]
        BY <1>2, <4>1
      <4>3. ~(i < Len(q))
        BY <1>1, <3>4
      <4> QED
        BY <3>1, <3>2, <4>2, <4>3
    <3> QED
      BY <1>1, <2>1, <3>3, <3>4
  <2>2. CASE ~(i <= Len(q))
    <3> DEFINE h == i - Len(q)
    <3>1. h \in 1 .. Len(p) /\ c[i] = p[h] /\ (i < Len(c) <=> h < Len(p))
      BY <1>1, <1>2, <2>2
    <3>2. i < Len(c) => c[i + 1] = p[h + 1]
      <4>1. SUFFICES ASSUME i < Len(c) PROVE c[i + 1] = p[h + 1]
        OBVIOUS
      <4>2. i + 1 \in 1 .. Len(q) + Len(p) /\ ~(i + 1 <= Len(q)) /\ i + 1 - Len(q) = h + 1
        BY <1>1, <1>2, <2>2, <4>1
      <4> HIDE DEF h
      <4> QED
        BY <1>2, <4>2
    <3> HIDE DEF h
    <3>3. /\ Pos(p[h]) \in Nat /\ Pos(p[h]) < After(p[h])
          /\ After(p[h]) = IF h < Len(p) THEN Pos(p[h + 1]) ELSE m
      BY <3>1, Zenon DEF Chain
    <3> QED
      BY <3>1, <3>2, <3>3
  <2> QED
    BY <2>1, <2>2
<1>4. c # << >>
  BY <1>1, <1>2
<1> QED
  BY <1>2, <1>3, <1>4 DEF c

--------------------------------------------------------------------------------
\* The outbound stream.

\* write appends the next bytes of the stream.
LEMMA WriteBytes ==
  ASSUME NEW b, StreamOK(b), BytesOK(b), NEW n \in Nat, b.written + n <= MaxBytes
  PROVE  BytesOK(BS!write(b, [i \in 1 .. n |-> b.written + i]))
<1> DEFINE data == [i \in 1 .. n |-> b.written + i]
           a == BS!accepted(b, data)
           add == SubSeq(data, 1, a)
           c == BS!write(b, data)
<1>1. /\ b.written \in Nat /\ b.buffer \in Seq(Nat) /\ Len(b.buffer) \in Nat
      /\ b.total_read \in Nat /\ Capacity \in Nat /\ b.capacity = Capacity
      /\ Len(b.buffer) <= Capacity /\ b.written = b.total_read + Len(b.buffer)
      /\ b \in BS!Streams(Nat)
  BY Counters, Constants DEF StreamOK
<1>2. data \in Seq(Nat) /\ Len(data) = n
  BY <1>1
<1>3. a \in 0 .. n
  <2> DEFINE room == Capacity - Len(b.buffer)
  <2>1. BS!remaining_capacity(b) = room /\ room \in Nat
    BY <1>1 DEF BS!remaining_capacity, BS!buffer_size
  <2>2. a = IF n <= room THEN n ELSE room
    BY <1>2, <2>1 DEF BS!accepted
  <2> HIDE DEF room, a
  <2> QED
    BY <2>1, <2>2
<1> HIDE DEF a
<1>4. /\ add \in Seq(Nat) /\ Len(add) = a
      /\ \A i \in 1 .. a : add[i] = b.written + i
  <2>1. \A i \in 1 .. a : i \in 1 .. n /\ data[i] = b.written + i /\ data[i] \in Nat
    BY <1>1, <1>3
  <2> HIDE DEF data
  <2>2. /\ add \in Seq(Nat) /\ Len(add) = IF 1 <= a THEN a - 1 + 1 ELSE 0
        /\ \A i \in 1 .. a - 1 + 1 : add[i] = data[1 + i - 1]
    BY <1>3, <2>1, SubSeqProperties
  <2>3. a - 1 + 1 = a /\ \A i \in 1 .. a : 1 + i - 1 = i
    BY <1>3
  <2> QED
    BY <1>3, <2>1, <2>2, <2>3
<1>5. c.buffer = b.buffer \o add /\ c.total_read = b.total_read
  BY <1>1 DEF BS!write, BS!Streams, a
<1> HIDE DEF data, add, c
<1>6. /\ Len(b.buffer \o add) = Len(b.buffer) + a
      /\ \A i \in 1 .. Len(b.buffer) + a :
           (b.buffer \o add)[i] = IF i <= Len(b.buffer) THEN b.buffer[i] ELSE add[i - Len(b.buffer)]
  <2>1. b.buffer \in Seq(Nat) /\ add \in Seq(Nat)
    BY <1>1, <1>4
  <2>2. /\ Len(b.buffer \o add) = Len(b.buffer) + Len(add)
        /\ \A i \in 1 .. Len(b.buffer) + Len(add) :
             (b.buffer \o add)[i] = IF i <= Len(b.buffer) THEN b.buffer[i] ELSE add[i - Len(b.buffer)]
    BY ONLY <2>1, ConcatProperties
  <2> QED
    BY <1>4, <2>2
<1>7. ASSUME NEW i \in 1 .. Len(b.buffer) + a
      PROVE  (b.buffer \o add)[i] = b.total_read + i
  <2>1. CASE i <= Len(b.buffer)
    BY <1>1, <1>3, <1>6, <2>1 DEF BytesOK
  <2>2. CASE ~(i <= Len(b.buffer))
    <3>1. i - Len(b.buffer) \in 1 .. a
      BY <1>1, <1>3, <2>2
    <3>2. (b.buffer \o add)[i] = b.written + (i - Len(b.buffer))
      BY <1>4, <1>6, <2>2, <3>1
    <3> DEFINE l == Len(b.buffer)
    <3>3. /\ l \in Nat /\ i \in Int /\ b.total_read \in Nat
          /\ b.written = b.total_read + l /\ b.written \in Nat
      BY <1>1, <1>3
    <3> HIDE DEF l
    <3>4. b.written + (i - l) = b.total_read + i
      BY ONLY <3>3
    <3> QED
      BY <3>2, <3>4, Zenon DEF l
  <2> QED
    BY <2>1, <2>2
<1>8. BytesOK(c)
  BY <1>5, <1>6, <1>7 DEF BytesOK
<1> QED
  BY <1>8 DEF c, data

\* Reading takes the first bytes and leaves the others as they are.
LEMMA ReadBytes ==
  ASSUME NEW b, StreamOK(b), BytesOK(b), NEW n \in 0 .. Len(b.buffer)
  PROVE  LET c == BS!read(b, n)
         IN  /\ StreamOK(c) /\ BytesOK(c) /\ c.written = b.written /\ c.end = b.end
             /\ c.total_read = b.total_read + n
             /\ n = Len(b.buffer) => c.buffer = << >>
             /\ b.buffer = << >> => c.buffer = << >>
<1> DEFINE rest == SubSeq(b.buffer, n + 1, Len(b.buffer))
           c == BS!read(b, n)
<1>1. /\ b.written \in Nat /\ b.buffer \in Seq(Nat) /\ Len(b.buffer) \in Nat
      /\ b.total_read \in Nat /\ b.written = b.total_read + Len(b.buffer)
      /\ b \in BS!Streams(Nat) /\ n \in Nat
  BY Counters DEF StreamOK
<1>2. /\ StreamOK(c) /\ c.total_read = b.total_read + n /\ c.end = b.end
      /\ Len(c.buffer) = Len(b.buffer) - n
  BY StreamReadBytes
<1>3. c.buffer = rest
  <2>1. ~(n > BS!buffer_size(b))
    BY <1>1 DEF BS!buffer_size
  <2> QED
    BY <1>1, <2>1 DEF BS!read, BS!pop_output, BS!Streams
<1>4. \A i \in 1 .. Len(b.buffer) - n : rest[i] = b.buffer[n + i]
  BY <1>1
<1> HIDE DEF c, rest
<1>5. BytesOK(c)
  <2> SUFFICES ASSUME NEW i \in 1 .. Len(c.buffer) PROVE c.buffer[i] = c.total_read + i
    BY DEF BytesOK
  <2>1. c.buffer[i] = b.buffer[n + i] /\ n + i \in 1 .. Len(b.buffer) /\ i \in Nat
    <3> DEFINE m == Len(b.buffer)
    <3>1. m \in Nat /\ n \in 0 .. m /\ i \in 1 .. m - n
      BY <1>1, <1>2
    <3>2. c.buffer[i] = b.buffer[n + i]
      BY <1>3, <1>4, <3>1
    <3> HIDE DEF m
    <3>3. n + i \in 1 .. m /\ i \in Nat
      BY <3>1
    <3> QED
      BY <3>2, <3>3 DEF m
  <2>2. b.buffer[n + i] = b.total_read + (n + i)
    BY <2>1 DEF BytesOK
  <2>3. b.total_read + (n + i) = (b.total_read + n) + i
    BY <1>1, <2>1
  <2> QED
    BY <1>2, <2>1, <2>2, <2>3, Zenon
<1>6. c.written = b.written
  <2>1. c.written = c.total_read + Len(c.buffer)
    BY <1>2 DEF StreamOK
  <2> QED
    BY <1>1, <1>2, <2>1
<1>7. c.buffer \in Seq(Nat)
  BY <1>2, Counters
<1>8. n = Len(b.buffer) => c.buffer = << >>
  <2>1. n = Len(b.buffer) => Len(c.buffer) = 0
    BY <1>1, <1>2
  <2> QED
    BY <1>7, <2>1, EmptySeq
<1>9. b.buffer = << >> => c.buffer = << >>
  <2>1. b.buffer = << >> => Len(b.buffer) = 0 /\ n = 0
    BY <1>1
  <2> QED
    BY <1>8, <2>1
<1> QED
  BY <1>2, <1>5, <1>6, <1>8, <1>9 DEF c

--------------------------------------------------------------------------------
\* The segments of fill_window's loop.

\* The loop has something to send.
Filling(s) ==
  /\ SenderOK(s) /\ QueueOK(s)
  /\ s.next_seqno <= s.window_right /\ SegmentCount(s) # 0

\* The loop starts at the next byte of the stream, never after the FIN, and what it
\* sends occupies numbers: a SYN, bytes or the FIN.
LEMMA FillNumbers ==
  ASSUME NEW s, Filling(s)
  PROVE  /\ s.next_seqno \in Nat /\ s.stream.total_read \in Nat /\ Len(s.stream.buffer) \in Nat
         /\ s.next_seqno + One(s.next_seqno = 0) = s.stream.total_read + 1
         /\ Payload(s) \in 0 .. Len(s.stream.buffer)
         /\ ~s.fin_sent
         /\ FinFits(s) => s.stream.end /\ Payload(s) = Len(s.stream.buffer)
         /\ Payload(s) > 0 \/ s.next_seqno = 0 \/ FinFits(s)
<1> DEFINE b == s.stream
           n == s.next_seqno
           p == Payload(s)
<1>1. /\ SenderOK(s) /\ QueueOK(s) /\ n <= s.window_right /\ SegmentCount(s) # 0
      /\ StreamOK(b) /\ n \in Nat /\ s.window_right \in Nat
  BY DEF Filling, SenderOK
<1>2. /\ b.total_read \in Nat /\ b.buffer \in Seq(Nat) /\ Len(b.buffer) \in Nat /\ b.end \in BOOLEAN
      /\ b.written = b.total_read + Len(b.buffer) /\ BS!bytes_written(b) = b.written
      /\ BS!buffer_size(b) = Len(b.buffer) /\ (BS!eof(b) <=> b.end /\ Len(b.buffer) = 0)
  BY <1>1, Counters DEF StreamOK
<1>3. p \in 0 .. Len(b.buffer)
  BY <1>1, PayloadFits
<1>4. FinFits(s) => b.end /\ p = Len(b.buffer)
  BY <1>2 DEF FinFits, BS!input_ended
<1>5. p > 0 \/ n = 0 \/ ReadyToFin(s)
  <2>1. SUFFICES ASSUME ~(p > 0) PROVE n = 0 \/ ReadyToFin(s)
    OBVIOUS
  <2>2. p = 0
    BY <1>2, <1>3, <2>1
  <2> QED
    BY <1>1, <2>2 DEF SegmentCount, One
<1> HIDE DEF p
<1>6. n = 0 \/ n = b.total_read + 1
  <2>1. SUFFICES ASSUME n # 0, n = b.total_read + 2, b.buffer = << >> PROVE FALSE
    BY <1>1 DEF SenderOK, Numbered
  <2>2. Len(b.buffer) = 0
    BY <2>1
  <2>3. ReadyToFin(s)
    BY <1>2, <1>3, <1>5, <2>1, <2>2
  <2>4. n < b.written + 2
    BY <1>2, <2>3 DEF ReadyToFin
  <2> QED
    BY <1>2, <2>1, <2>2, <2>4
<1>7. n + One(n = 0) = b.total_read + 1
  <2>1. n = 0 => b.total_read = 0
    BY <1>1 DEF SenderOK, Numbered
  <2> QED
    BY <1>1, <1>2, <1>6, <2>1 DEF One
<1>8. ~s.fin_sent
  <2>1. SUFFICES ASSUME s.fin_sent PROVE FALSE
    OBVIOUS
  <2>2. b.buffer = << >> /\ n = b.written + 2
    BY <1>1, <2>1 DEF QueueOK
  <2>3. Len(b.buffer) = 0
    BY <2>2
  <2> QED
    BY <1>1, <1>2, <1>6, <2>2, <2>3
<1>9. p > 0 \/ n = 0 \/ FinFits(s)
  <2>1. SUFFICES ASSUME ~(p > 0), n # 0 PROVE FinFits(s)
    OBVIOUS
  <2>2. p = 0 /\ b.end /\ Len(b.buffer) = 0
    BY <1>2, <1>3, <1>5, <2>1 DEF ReadyToFin
  <2>3. s.next_seqno + One(s.next_seqno = 0) + p <= s.window_right
    BY <1>1, <2>1, <2>2 DEF One
  <2> QED
    BY <1>2, <1>8, <2>2, <2>3 DEF FinFits, BS!input_ended, p
<1> QED
  BY <1>1, <1>2, <1>3, <1>4, <1>7, <1>8, <1>9 DEF p

\* Multiples are ordered like what is multiplied.
LEMMA Multiples ==
  ASSUME NEW i \in Nat, NEW j \in Nat, i <= j, NEW m \in Nat
  PROVE  i * m \in Nat /\ j * m \in Nat /\ i * m <= j * m
<1>1. PICK d \in Nat : j = i + d
  BY j - i \in Nat /\ j = i + (j - i)
<1>2. j * m = i * m + d * m /\ d * m \in Nat /\ i * m \in Nat
  BY <1>1, Z3
<1> QED
  BY <1>2

\* The bytes are cut into as few segments as MAX_PAYLOAD_SIZE allows.
LEMMA FillCount ==
  ASSUME NEW s, Filling(s)
  PROVE  LET C == SegmentCount(s)
             M == MAX_PAYLOAD_SIZE
         IN  /\ C \in Nat \ {0} /\ (C - 1) * M \in Nat /\ C * M = (C - 1) * M + M
             /\ Payload(s) <= C * M
             /\ Payload(s) > 0 => (C - 1) * M < Payload(s)
             /\ Payload(s) = 0 => C = 1
<1> DEFINE C == SegmentCount(s)
           M == MAX_PAYLOAD_SIZE
           p == Payload(s)
<1>1. M \in Nat \ {0} /\ p \in Nat /\ C # 0
  BY Constants, FillNumbers DEF Filling
<1>2. /\ p = 0 => C = One(s.next_seqno = 0 \/ ReadyToFin(s))
      /\ p > 0 => C = (p + M - 1) \div M
  BY <1>1 DEF SegmentCount
<1> HIDE DEF C, M, p
<1>3. CASE p = 0
  <2>1. C = 1
    BY <1>1, <1>2, <1>3 DEF One
  <2>2. (C - 1) * M = 0 /\ C * M = M
    BY <1>1, <2>1
  <2> QED
    BY <1>1, <1>3, <2>1, <2>2 DEF C, M, p
<1>4. CASE p > 0
  <2> DEFINE x == p + M - 1
  <2>1. x \in Int /\ C = x \div M
    BY <1>1, <1>2, <1>4
  <2>2. /\ x \div M \in Int /\ x % M \in 0 .. M - 1 /\ x = M * (x \div M) + (x % M)
    <3> HIDE DEF x
    <3> QED
      BY <1>1, <2>1, Division
  <2>3. C \in Int /\ x = C * M + (x % M)
    BY <1>1, <2>1, <2>2, Z3
  <2> DEFINE y == x % M
             z == C * M
  <2>4. y \in 0 .. M - 1 /\ z \in Int /\ p + M - 1 = z + y
    BY <1>1, <2>2, <2>3
  <2> HIDE DEF x, y, z
  <2>5. p <= z /\ z - M < p /\ z > 0
    BY <1>1, <1>4, <2>4
  <2>6. C \in Nat \ {0} /\ (C - 1) * M = z - M
    <3>1. (C - 1) * M = z - M
      BY <1>1, <2>3, Z3 DEF z
    <3>2. ~(C <= 0)
      <4>1. SUFFICES ASSUME C <= 0 PROVE C * M <= 0
        BY <2>3, <2>4, <2>5 DEF z
      <4> QED
        BY <1>1, <2>3, <4>1, Z3
    <3> QED
      BY <2>3, <3>1, <3>2
  <2>7. C - 1 \in Nat /\ (C - 1) * M \in Nat
    BY <1>1, <2>6, Z3
  <2>8. C * M = (C - 1) * M + M
    BY <1>1, <2>4, <2>6 DEF z
  <2> QED
    BY <1>1, <1>4, <2>4, <2>5, <2>6, <2>7, <2>8 DEF C, M, p, z
<1> QED
  BY <1>1, <1>3, <1>4

\* Where the i-th segment starts, and up to which byte of the buffer it goes.
At(s, i) == s.next_seqno + One(i > 1 /\ s.next_seqno = 0) + (i - 1) * MAX_PAYLOAD_SIZE
Upto(s, i) == Min({i * MAX_PAYLOAD_SIZE, Payload(s)})

\* All segments but the last are full, and the last one takes the rest.
LEMMA FillCut ==
  ASSUME NEW s, Filling(s), NEW i \in 1 .. SegmentCount(s)
  PROVE  LET x == (i - 1) * MAX_PAYLOAD_SIZE
             u == Upto(s, i)
         IN  /\ i \in Nat /\ x \in Nat /\ u \in Nat
             /\ x <= u /\ u <= x + MAX_PAYLOAD_SIZE /\ u <= Payload(s)
             /\ i < SegmentCount(s) => u = x + MAX_PAYLOAD_SIZE /\ u = i * MAX_PAYLOAD_SIZE
             /\ i = SegmentCount(s) => u = Payload(s) /\ (Payload(s) > 0 => x < u)
<1> DEFINE C == SegmentCount(s)
           M == MAX_PAYLOAD_SIZE
           p == Payload(s)
           x == (i - 1) * M
           y == i * M
           u == Upto(s, i)
<1>1. /\ C \in Nat \ {0} /\ (C - 1) * M \in Nat /\ C * M = (C - 1) * M + M
      /\ p <= C * M /\ (p > 0 => (C - 1) * M < p) /\ (p = 0 => C = 1)
  BY FillCount
<1>2. M \in Nat \ {0} /\ p \in Nat
  BY Constants, FillNumbers
<1> HIDE DEF C, M, p
<1>3. i \in 1 .. C /\ i \in Nat /\ i - 1 \in Nat /\ i <= C /\ i >= 1
  BY <1>1 DEF C
<1>4. x \in Nat /\ y = x + M
  BY <1>2, <1>3, Z3
<1>5. u \in {y, p} /\ u <= y /\ u <= p
  <2>1. y \in Int /\ p \in Int
    BY <1>2, <1>4
  <2>2. u = Min({y, p})
    BY DEF Upto, M, p
  <2> HIDE DEF u, y
  <2> QED
    BY <2>1, <2>2, MinOfTwo
<1>6. i < C => y <= (C - 1) * M
  BY <1>1, <1>2, <1>3, Multiples
<1>7. i = C => y = C * M
  OBVIOUS
<1>8. (C - 1) * M <= p
  BY <1>1, <1>2
<1> DEFINE z == (C - 1) * M
           w == C * M
<1>9. z \in Nat /\ w = z + M /\ p <= w /\ z <= p /\ (p > 0 => z < p)
      /\ (i < C => y <= z) /\ (i = C => y = w) /\ (i < C \/ i = C)
  BY <1>1, <1>2, <1>3, <1>6, <1>7, <1>8
<1> HIDE DEF z, w, x, y, u
<1>10. /\ x \in Nat /\ u \in Nat /\ x <= u /\ u <= x + M /\ u <= p
       /\ i < C => u = x + M /\ u = y
       /\ i = C => u = p /\ (p > 0 => x < u)
  BY <1>2, <1>4, <1>5, <1>9
<1> QED
  BY <1>3, <1>10 DEF C, M, p, x, y, u

\* Each of them carries its part of the stream, and starts where the one before ends.
LEMMA FillSegment ==
  ASSUME NEW s, Filling(s), NEW i \in 1 .. SegmentCount(s)
  PROVE  LET seg == NewSegment(s, i)
             c == BS!read(s.stream, Payload(s))
         IN  /\ SegmentOK(seg, c)
             /\ Pos(seg) = At(s, i)
             /\ After(seg) = s.stream.total_read + 1 + Upto(s, i) + One(seg.fin)
             /\ seg.fin = (i = SegmentCount(s) /\ FinFits(s))
<1> DEFINE seg == NewSegment(s, i)
           b == s.stream
           r == b.total_read
           n == s.next_seqno
           p == Payload(s)
           c == BS!read(b, p)
           C == SegmentCount(s)
           x == (i - 1) * MAX_PAYLOAD_SIZE
           u == Upto(s, i)
           a == At(s, i)
           syn == (i = 1 /\ n = 0)
           fin == (i = C /\ FinFits(s))
           load == SubSeq(b.buffer, x + 1, u)
<1>1. /\ n \in Nat /\ r \in Nat /\ Len(b.buffer) \in Nat /\ n + One(n = 0) = r + 1
      /\ p \in 0 .. Len(b.buffer) /\ (FinFits(s) => b.end /\ p = Len(b.buffer))
      /\ (p > 0 \/ n = 0 \/ FinFits(s))
  BY FillNumbers
<1>2. /\ i \in Nat /\ x \in Nat /\ u \in Nat
      /\ x <= u /\ u <= x + MAX_PAYLOAD_SIZE /\ u <= p
      /\ i < C => u = x + MAX_PAYLOAD_SIZE
      /\ i = C => u = p /\ (p > 0 => x < u)
  BY FillCut
<1>3. /\ i >= 1 /\ i <= C /\ C \in Nat /\ (p = 0 => C = 1) /\ (i = 1 => x = 0)
  <2>1. C \in Nat \ {0} /\ (p = 0 => C = 1)
    BY FillCount
  <2>2. i = 1 => x = 0
    <3>1. 0 * MAX_PAYLOAD_SIZE = 0
      BY Constants
    <3> QED
      BY <3>1
  <2> HIDE DEF C, x, p
  <2> QED
    BY <2>1, <2>2 DEF C
<1>4. /\ StreamOK(b) /\ BytesOK(b) /\ s.isn = ISN /\ b.buffer \in Seq(Nat)
      /\ b.written = r + Len(b.buffer) /\ b.written <= MaxBytes
  BY Counters DEF Filling, SenderOK, QueueOK, StreamOK
<1>5. /\ c.written = b.written /\ c.end = b.end
      /\ (p = Len(b.buffer) => c.buffer = << >>)
  BY <1>1, <1>4, ReadBytes
<1>6. MAX_PAYLOAD_SIZE \in Nat \ {0} /\ MaxBytes \in Nat
  BY Constants
<1>7. /\ seg.seqno = wrap(a, ISN) /\ seg.syn = syn /\ seg.fin = fin /\ seg.payload = load
      /\ seg.ackno = 0 /\ seg.ack = FALSE /\ seg.rst = FALSE /\ seg.win = 0
      /\ DOMAIN seg = {"seqno", "ackno", "ack", "rst", "syn", "fin", "win", "payload"}
  BY <1>4 DEF NewSegment, Segment, At, Upto
<1>8. seg = [Segment EXCEPT !.seqno = wrap(a, ISN), !.syn = syn, !.fin = fin, !.payload = load]
  BY <1>4, Zenon DEF NewSegment, At, Upto
<1> HIDE DEF seg, c, p, C, b, r, n
<1>9. a \in Nat /\ a + One(syn) = r + 1 + x
  <2>1. a = n + One(i > 1 /\ n = 0) + x
    BY DEF At, n
  <2> HIDE DEF a, x
  <2> QED
    BY <1>1, <1>2, <1>3, <2>1 DEF One
<1>10. syn = (a = 0)
  <2>1. a = n + One(i > 1 /\ n = 0) + x
    BY DEF At, n
  <2> HIDE DEF a, x
  <2> QED
    BY <1>1, <1>2, <1>3, <1>9, <2>1 DEF One
<1>11. /\ load \in Seq(Nat) /\ Len(load) = u - x
       /\ \A j \in 1 .. u - x : load[j] = b.buffer[x + j]
  <2>1. \A j \in x + 1 .. u : b.buffer[j] \in Nat
    <3>1. \A j \in x + 1 .. u : j \in 1 .. Len(b.buffer)
      BY <1>1, <1>2
    <3> QED
      BY <1>4, <3>1, ElementOfSeq
  <2>2. /\ load \in Seq(Nat) /\ Len(load) = IF x + 1 <= u THEN u - (x + 1) + 1 ELSE 0
        /\ \A j \in 1 .. u - (x + 1) + 1 : load[j] = b.buffer[(x + 1) + j - 1]
    <3> HIDE DEF x, u
    <3>1. x + 1 \in Int /\ u \in Int
      BY <1>2
    <3> QED
      BY <2>1, <3>1, SubSeqProperties
  <2> HIDE DEF x, u, load
  <2>3. u - (x + 1) + 1 = u - x /\ (IF x + 1 <= u THEN u - (x + 1) + 1 ELSE 0) = u - x
    BY <1>2
  <2>4. \A j \in 1 .. u - x : (x + 1) + j - 1 = x + j
    BY <1>2
  <2> QED
    BY <2>2, <2>3, <2>4
<1> HIDE DEF a, load, u, x, syn, fin
<1>12. ASSUME NEW j \in 1 .. Len(load) PROVE load[j] = a + One(syn) + j - 1
  <2>1. j \in 1 .. u - x /\ x + j \in 1 .. Len(b.buffer) /\ j \in Nat
    <3> DEFINE l == Len(b.buffer)
    <3>1. j \in 1 .. u - x
      BY <1>11
    <3>2. x \in Nat /\ u \in Nat /\ l \in Nat /\ p \in 0 .. l /\ u <= p
      BY <1>1, <1>2, Zenon
    <3> HIDE DEF l, p
    <3>3. x + j \in 1 .. l /\ j \in Nat
      BY ONLY <3>1, <3>2
    <3> QED
      BY <3>1, <3>3 DEF l
  <2>2. load[j] = r + (x + j)
    BY <1>4, <1>11, <2>1 DEF BytesOK, r
  <2> QED
    BY <1>1, <1>2, <1>9, <2>1, <2>2
<1>13. syn \in BOOLEAN /\ fin \in BOOLEAN /\ One(syn) \in Nat /\ One(fin) \in {0, 1}
  BY DEF syn, fin, One, FinFits
<1>14. length_in_sequence_space(seg) = (u - x) + One(syn) + One(fin)
  BY <1>7, <1>11 DEF length_in_sequence_space
<1>15. fin => i = C /\ b.end /\ p = Len(b.buffer)
  BY <1>1 DEF fin
<1> DEFINE e == r + 1 + u + One(fin)
<1>16. e \in Nat /\ e <= MaxBytes + 2 /\ a + length_in_sequence_space(seg) = e
  <2> DEFINE l == length_in_sequence_space(seg)
             o == One(syn)
             f == One(fin)
  <2>1. l = (u - x) + o + f /\ o \in Nat /\ f \in {0, 1} /\ a + o = r + 1 + x
    BY <1>9, <1>13, <1>14
  <2> HIDE DEF l, o, f
  <2>2. a + l = r + 1 + u + f /\ r + 1 + u + f \in Nat /\ r + 1 + u + f <= MaxBytes + 2
    BY <1>1, <1>2, <1>4, <1>6, <1>9, <2>1
  <2> QED
    BY <2>2 DEF l, f
<1>17. a < e
  <2>1. CASE i < C
    <3>1. x < u
      BY <1>2, <1>6, <2>1
    <3> QED
      BY <1>1, <1>2, <1>9, <1>13, <3>1
  <2>2. CASE i = C /\ p > 0
    <3>1. x < u
      BY <1>2, <2>2
    <3> QED
      BY <1>1, <1>2, <1>9, <1>13, <3>1
  <2>3. CASE i = C /\ ~(p > 0)
    <3>1. p = 0 /\ i = 1 /\ x = 0
      BY <1>1, <1>3, <2>3
    <3>2. One(syn) = 1 \/ One(fin) = 1
      BY <1>1, <2>3, <3>1 DEF syn, fin, One, C
    <3> QED
      BY <1>1, <1>2, <1>9, <1>13, <3>1, <3>2
  <2> QED
    BY <1>2, <1>3, <2>1, <2>2, <2>3
<1>18. Pos(seg) = a
  <2>1. a <= MaxBytes + 2 /\ 0 \in Nat /\ 0 <= MaxBytes + 2
    BY <1>6, <1>9, <1>16, <1>17
  <2>2. unwrap(wrap(a, ISN), ISN, 0) = a
    BY <1>9, <2>1, PosOfWrap
  <2> QED
    BY <1>7, <2>2 DEF Pos
<1>19. After(seg) = e
  BY <1>16, <1>18 DEF After
<1>20. seg \in Segments
  <2>1. wrap(a, ISN) \in Nat
    <3>1. wrap(a, ISN) \in WrappingInt32
      BY <1>9, Constants, OffsetOfWrap
    <3> QED
      BY <3>1, Constants DEF WrappingInt32
  <2> QED
    <3>1. wrap(a, ISN) \in Nat
      BY <2>1
    <3>2. Segment \in Segments
      BY EmptySeq DEF Segment, Segments
    <3>3. [Segment EXCEPT !.seqno = wrap(a, ISN), !.syn = syn, !.fin = fin, !.payload = load]
            \in Segments
      BY <1>11, <1>13, <3>1, <3>2, Zenon DEF Segments
    <3> QED
      BY <1>8, <3>3
<1>21. Len(seg.payload) <= MAX_PAYLOAD_SIZE
  BY <1>2, <1>6, <1>7, <1>11
<1>22. seg.fin => c.end /\ c.buffer = << >> /\ After(seg) = c.written + 2
  <2>1. SUFFICES ASSUME fin PROVE c.end /\ c.buffer = << >> /\ e = c.written + 2
    BY <1>7, <1>19
  <2>2. One(fin) = 1 /\ u = Len(b.buffer)
    BY <1>2, <1>15, <2>1 DEF One
  <2>3. e = b.written + 2
    <3> DEFINE m == Len(b.buffer)
    <3>1. e = r + 1 + m + 1
      BY <2>2
    <3>2. m \in Nat /\ r \in Nat /\ b.written = r + m
      BY <1>1, <1>4
    <3> HIDE DEF m, e
    <3> QED
      BY <3>1, <3>2
  <2> HIDE DEF e
  <2> QED
    BY <1>5, <1>15, <2>1, <2>3
<1>23. SegmentOK(seg, c)
  <2>1. \A j \in 1 .. Len(seg.payload) : seg.payload[j] = Pos(seg) + One(seg.syn) + j - 1
    BY <1>7, <1>12, <1>18
  <2>2. /\ Pos(seg) \in Nat /\ seg.seqno = wrap(Pos(seg), ISN)
        /\ Pos(seg) < After(seg) /\ After(seg) <= MaxBytes + 2 /\ seg.syn = (Pos(seg) = 0)
    BY <1>7, <1>9, <1>10, <1>16, <1>17, <1>18, <1>19
  <2> QED
    BY <1>20, <1>21, <1>22, <2>1, <2>2 DEF SegmentOK
<1> QED
  BY <1>7, <1>18, <1>19, <1>23 DEF seg, c, p, a, u, r, fin, C, b

\* The segments of the loop of fill_window.
Fresh(s) == [i \in 1 .. SegmentCount(s) |-> NewSegment(s, i)]

\* So they are a chain from next_seqno on.
LEMMA FillChain ==
  ASSUME NEW s, Filling(s)
  PROVE  LET segs == Fresh(s)
             size == One(s.next_seqno = 0) + Payload(s) + One(FinFits(s))
         IN  /\ segs \in Seq(Segments) /\ segs # << >> /\ Len(segs) = SegmentCount(s)
             /\ size \in Nat /\ Chain(segs, s.next_seqno + size) /\ Pos(segs[1]) = s.next_seqno
             /\ \A i \in 1 .. Len(segs) : SegmentOK(segs[i], BS!read(s.stream, Payload(s)))
             /\ FinFits(s) => s.next_seqno + size = s.stream.written + 2
<1> DEFINE C == SegmentCount(s)
           segs == [i \in 1 .. C |-> NewSegment(s, i)]
           n == s.next_seqno
           r == s.stream.total_read
           p == Payload(s)
           f == FinFits(s)
           size == One(n = 0) + p + One(f)
           c == BS!read(s.stream, p)
<1>1. /\ n \in Nat /\ r \in Nat /\ n + One(n = 0) = r + 1 /\ p \in Nat
      /\ Len(s.stream.buffer) \in Nat /\ (f => p = Len(s.stream.buffer))
  BY FillNumbers
<1>2. C \in Nat /\ C >= 1
  BY FillCount
<1>3. ASSUME NEW i \in 1 .. C
      PROVE  LET seg == NewSegment(s, i)
             IN  /\ SegmentOK(seg, c) /\ Pos(seg) = At(s, i)
                 /\ After(seg) = r + 1 + Upto(s, i) + One(i = C /\ f)
  BY FillSegment
<1>4. \A i \in 1 .. C : segs[i] = NewSegment(s, i)
  OBVIOUS
<1>5. One(n = 0) \in Nat /\ One(f) \in Nat /\ size \in Nat
  BY <1>1 DEF One
<1>6. n + size = r + 1 + p + One(f)
  <2> DEFINE o == One(n = 0)
             g == One(f)
  <2>1. o \in Nat /\ g \in Nat /\ n + o = r + 1 /\ size = o + p + g
    BY <1>1, <1>5
  <2> HIDE DEF o, g, size, p, n, r
  <2>2. n + size = r + 1 + p + g
    BY <1>1, <2>1
  <2> QED
    BY <2>2 DEF g
<1>7. f => n + size = s.stream.written + 2
  <2>1. SUFFICES ASSUME f PROVE n + size = s.stream.written + 2
    OBVIOUS
  <2>2. s.stream.written = r + Len(s.stream.buffer)
    BY DEF Filling, SenderOK, StreamOK
  <2>3. One(f) = 1
    BY <2>1 DEF One
  <2> DEFINE l == Len(s.stream.buffer)
  <2>4. n + size = r + 1 + l + 1 /\ l \in Nat /\ s.stream.written = r + l
    BY <1>1, <1>6, <2>1, <2>2, <2>3
  <2> HIDE DEF size, l, n, r
  <2> QED
    BY <1>1, <2>4
<1> HIDE DEF C, c, f, p
<1>8. segs \in Seq(Segments) /\ Len(segs) = C
  <2>1. \A i \in 1 .. C : NewSegment(s, i) \in Segments
    BY <1>3 DEF SegmentOK
  <2> QED
    BY <1>2, <2>1
<1> HIDE DEF segs, size, n, r
<1>9. Chain(segs, n + size)
  <2> SUFFICES ASSUME NEW i \in 1 .. C
               PROVE  /\ Pos(segs[i]) \in Nat /\ Pos(segs[i]) < After(segs[i])
                      /\ After(segs[i]) = IF i < C THEN Pos(segs[i + 1]) ELSE n + size
    BY <1>8 DEF Chain
  <2>1. Pos(segs[i]) \in Nat /\ Pos(segs[i]) < After(segs[i])
    BY <1>3, <1>4 DEF SegmentOK
  <2>2. After(segs[i]) = r + 1 + Upto(s, i) + One(i = C /\ f)
    BY <1>3, <1>4
  <2>3. /\ i < C => Upto(s, i) = i * MAX_PAYLOAD_SIZE
        /\ i = C => Upto(s, i) = p
        /\ Upto(s, i) \in Nat
    BY FillCut DEF C, p
  <2>4. CASE i < C
    <3>1. i + 1 \in 1 .. C /\ (i + 1) - 1 = i /\ i # C /\ i + 1 > 1
      BY <1>2, <2>4
    <3>2. Pos(segs[i + 1]) = n + One(n = 0) + i * MAX_PAYLOAD_SIZE
      <4>1. Pos(segs[i + 1]) = At(s, i + 1)
        BY <1>3, <1>4, <3>1
      <4>2. At(s, i + 1) = n + One(n = 0) + i * MAX_PAYLOAD_SIZE
        BY <3>1 DEF At, n, One
      <4> QED
        BY <4>1, <4>2
    <3>3. After(segs[i]) = r + 1 + i * MAX_PAYLOAD_SIZE
      <4>1. One(i = C /\ f) = 0
        BY <3>1 DEF One
      <4>2. After(segs[i]) = r + 1 + Upto(s, i) + 0
        BY <2>2, <4>1
      <4>3. r + 1 + Upto(s, i) + 0 = r + 1 + Upto(s, i)
        BY <1>1, <2>3
      <4> QED
        BY <2>3, <2>4, <4>2, <4>3
    <3> QED
      BY <1>1, <2>1, <2>4, <3>2, <3>3
  <2>5. CASE i = C
    <3>1. One(i = C /\ f) = One(f)
      BY <2>5 DEF One
    <3>2. ~(i < C)
      BY <1>2, <2>5
    <3> QED
      BY <1>6, <2>1, <2>2, <2>3, <2>5, <3>1, <3>2
  <2> QED
    BY <1>2, <2>4, <2>5
<1>10. Pos(segs[1]) = n
  <2>1. 1 \in 1 .. C
    BY <1>2
  <2>2. Pos(segs[1]) = At(s, 1)
    BY <1>3, <1>4, <2>1
  <2>3. At(s, 1) = n
    <3>1. (1 - 1) * MAX_PAYLOAD_SIZE = 0 /\ ~(1 > 1)
      BY Constants
    <3>2. One(1 > 1 /\ s.next_seqno = 0) = 0
      BY <3>1 DEF One
    <3> QED
      BY <1>1, <3>1, <3>2 DEF At, n
  <2> QED
    BY <2>2, <2>3
<1>11. \A i \in 1 .. C : SegmentOK(segs[i], c)
  BY <1>3, <1>4
<1>12. segs # << >>
  BY <1>2, <1>8
<1> QED
  BY <1>5, <1>7, <1>8, <1>9, <1>10, <1>11, <1>12 DEF Fresh, C, segs, size, n, p, f, c

--------------------------------------------------------------------------------
\* What the calls of the sender do to the queue.

\* Sending does not touch the oldest segment, nor the timer.
Grows(s, t) ==
  /\ t.next_seqno >= s.next_seqno
  /\ t.timePassed = s.timePassed
  /\ IF s.outstandings = << >>
     THEN \/ t.outstandings = << >> /\ t.next_seqno = s.next_seqno
          \/ t.outstandings # << >> /\ Pos(t.outstandings[1]) = s.next_seqno
     ELSE t.outstandings # << >> /\ t.outstandings[1] = s.outstandings[1]

\* The stream c is b after a call of read.
ReadFrom(b, c) ==
  /\ BytesOK(c) /\ c.end = b.end /\ c.written = b.written
  /\ b.buffer = << >> => c.buffer = << >>

\* Segments that continue the queue.
Continues(s, segs, m, c) ==
  /\ segs \in Seq(Segments) /\ segs # << >>
  /\ m \in Nat /\ Chain(segs, m) /\ Pos(segs[1]) = s.next_seqno
  /\ \A i \in 1 .. Len(segs) : SegmentOK(segs[i], c)

\* t is s after the segments segs were sent, up to m.
Sent(s, t, segs, m) ==
  /\ t.outstandings = s.outstandings \o segs /\ t.next_seqno = m
  /\ t.in_flights = s.in_flights + (m - s.next_seqno)
  /\ t.timePassed = s.timePassed /\ t.fin_sent \in BOOLEAN
  /\ t.fin_sent => t.stream.end /\ t.stream.buffer = << >> /\ m = t.stream.written + 2

\* Segments that continue the queue keep it in order.
LEMMA SentOK ==
  ASSUME NEW s, SenderOK(s), QueueOK(s), NEW t, NEW segs, NEW m,
         ReadFrom(s.stream, t.stream), Continues(s, segs, m, t.stream), Sent(s, t, segs, m)
  PROVE  QueueOK(t) /\ Grows(s, t) /\ t.outstandings # << >>
<1> DEFINE q == s.outstandings
           o == t.outstandings
           n == s.next_seqno
<1>1. /\ q \in Seq(Segments) /\ n \in Nat /\ Chain(q, n) /\ s.in_flights = Occupied(q, n)
      /\ \A i \in 1 .. Len(q) : SegmentOK(q[i], s.stream)
  BY DEF SenderOK, QueueOK
<1>2. /\ segs \in Seq(Segments) /\ segs # << >> /\ m \in Nat /\ Chain(segs, m) /\ Pos(segs[1]) = n
      /\ \A i \in 1 .. Len(segs) : SegmentOK(segs[i], t.stream)
  BY DEF Continues
<1>3. /\ o = q \o segs /\ t.next_seqno = m /\ t.in_flights = s.in_flights + (m - n)
      /\ t.timePassed = s.timePassed /\ t.fin_sent \in BOOLEAN
      /\ t.fin_sent => t.stream.end /\ t.stream.buffer = << >> /\ m = t.stream.written + 2
  BY DEF Sent
<1> HIDE DEF o
<1>4. /\ o \in Seq(Segments) /\ Chain(o, m) /\ o # << >> /\ Len(o) = Len(q) + Len(segs)
      /\ \A i \in 1 .. Len(q) + Len(segs) : o[i] = IF i <= Len(q) THEN q[i] ELSE segs[i - Len(q)]
  BY <1>1, <1>2, <1>3, ChainConcat
<1>5. Len(q) \in Nat /\ Len(segs) \in Nat /\ Len(segs) >= 1
  BY <1>1, <1>2, LenProperties, EmptySeq
<1>6. ASSUME NEW i \in 1 .. Len(o) PROVE SegmentOK(o[i], t.stream)
  <2>1. CASE i <= Len(q)
    <3>1. i \in 1 .. Len(q) /\ o[i] = q[i]
      BY <1>4, <1>5, <2>1
    <3>2. SegmentOK(q[i], s.stream)
      BY <1>1, <3>1
    <3>3. SegmentOK(q[i], t.stream)
      BY <3>2 DEF SegmentOK, ReadFrom
    <3> QED
      BY <3>1, <3>3
  <2>2. CASE ~(i <= Len(q))
    <3>1. i - Len(q) \in 1 .. Len(segs) /\ o[i] = segs[i - Len(q)]
      BY <1>4, <1>5, <2>2
    <3> QED
      BY <1>2, <3>1
  <2> QED
    BY <2>1, <2>2
<1>7. /\ n < m /\ o[1] = IF q = << >> THEN segs[1] ELSE q[1]
      /\ q # << >> => Pos(q[1]) \in Nat
  <2>1. n < m
    <3>1. 1 \in 1 .. Len(segs)
      BY <1>5
    <3>2. Pos(segs[1]) < After(segs[1]) /\ After(segs[1]) <= m /\ After(segs[1]) \in Nat
      BY <1>2, <3>1, ChainOrder
    <3> QED
      BY <1>1, <1>2, <3>2
  <2>2. CASE q = << >>
    <3>1. Len(q) = 0
      BY <2>2
    <3>2. 1 \in 1 .. Len(q) + Len(segs) /\ ~(1 <= Len(q)) /\ 1 - Len(q) = 1
      BY <1>5, <3>1
    <3>3. o[1] = segs[1]
      BY <1>4, <3>2
    <3> QED
      BY <2>1, <2>2, <3>3
  <2>3. CASE q # << >>
    <3>1. Len(q) >= 1
      BY <1>1, <2>3, EmptySeq
    <3>2. 1 \in 1 .. Len(q) + Len(segs) /\ 1 <= Len(q) /\ 1 \in 1 .. Len(q)
      BY <1>5, <3>1
    <3>3. o[1] = q[1]
      BY <1>4, <3>2
    <3>4. Pos(q[1]) \in Nat
      BY <1>1, <3>2, ChainOrder
    <3> QED
      BY <2>1, <2>3, <3>3, <3>4
  <2> QED
    BY <2>2, <2>3
<1>8. t.in_flights = Occupied(o, m)
  <2>1. Occupied(o, m) = m - Pos(o[1])
    BY <1>4 DEF Occupied
  <2>2. CASE q = << >>
    <3>1. s.in_flights = 0 /\ Pos(o[1]) = n
      BY <1>1, <1>2, <1>7, <2>2 DEF Occupied
    <3>2. 0 + (m - n) = m - n
      BY <1>1, <1>2
    <3> QED
      BY <1>3, <2>1, <3>1, <3>2
  <2>3. CASE q # << >>
    <3>1. s.in_flights = n - Pos(q[1]) /\ Pos(o[1]) = Pos(q[1]) /\ Pos(q[1]) \in Nat
      BY <1>1, <1>7, <2>3 DEF Occupied
    <3>2. (n - Pos(q[1])) + (m - n) = m - Pos(q[1])
      BY <1>1, <1>2, <3>1
    <3> QED
      BY <1>3, <2>1, <3>1, <3>2
  <2> QED
    BY <2>2, <2>3
<1>9. QueueOK(t)
  <2>1. t.timePassed \in Nat /\ BytesOK(t.stream)
    BY <1>3 DEF QueueOK, ReadFrom
  <2>2. Chain(t.outstandings, t.next_seqno) /\ t.in_flights = Occupied(t.outstandings, t.next_seqno)
    BY <1>3, <1>4, <1>8 DEF o
  <2> QED
    BY <1>3, <1>4, <1>6, <2>1, <2>2 DEF QueueOK, o
<1>10. Grows(s, t)
  <2>1. t.next_seqno >= s.next_seqno
    BY <1>1, <1>2, <1>3, <1>7
  <2> QED
    BY <1>2, <1>3, <1>4, <1>7, <2>1 DEF Grows, o
<1> QED
  BY <1>4, <1>9, <1>10 DEF o

\* The loop of fill_window sends segments that continue the queue, or nothing.
LEMMA FillLoopQueue ==
  ASSUME NEW s, SenderOK(s), QueueOK(s)
  PROVE  LET t == FillLoop(s)
         IN  /\ QueueOK(t) /\ Grows(s, t) /\ t.window = s.window /\ t.probing = s.probing
             /\ s.next_seqno > s.window_right => t = s
             /\ t = s \/ t.outstandings # << >>
<1> DEFINE t == FillLoop(s)
           segs == [i \in 1 .. SegmentCount(s) |-> NewSegment(s, i)]
           p == Payload(s)
           f == FinFits(s)
           size == One(s.next_seqno = 0) + p + One(f)
           c == BS!read(s.stream, p)
           sent == [s EXCEPT !.stream = BS!read(@, p), !.fin_sent = @ \/ f]
           m == s.next_seqno + size
<1>1. CASE s.next_seqno > s.window_right \/ SegmentCount(s) = 0
  <2>1. t = s
    BY <1>1, Zenon DEF FillLoop
  <2>2. s.next_seqno \in Nat
    BY DEF SenderOK
  <2>3. Grows(s, s)
    BY <2>2 DEF Grows
  <2> QED
    BY <2>1, <2>3
<1>2. CASE ~(s.next_seqno > s.window_right \/ SegmentCount(s) = 0)
  <2>1. Filling(s)
    <3>1. s.next_seqno \in Nat /\ s.window_right \in Nat
      BY DEF SenderOK
    <3> QED
      BY <1>2, <3>1 DEF Filling
  <2>2. t = Launch(sent, segs, size)
    BY <1>2, Zenon DEF FillLoop
  <2>3. /\ segs \in Seq(Segments) /\ segs # << >> /\ size \in Nat
        /\ Chain(segs, m) /\ Pos(segs[1]) = s.next_seqno
        /\ \A i \in 1 .. Len(segs) : SegmentOK(segs[i], c)
        /\ f => m = s.stream.written + 2
    BY <2>1, FillChain DEF Fresh
  <2>4. /\ s.next_seqno \in Nat /\ p \in 0 .. Len(s.stream.buffer) /\ ~s.fin_sent
        /\ f => s.stream.end /\ p = Len(s.stream.buffer)
    BY <2>1, FillNumbers
  <2>5. ReadFrom(s.stream, c) /\ (f => c.buffer = << >>)
    <3>1. StreamOK(s.stream) /\ BytesOK(s.stream)
      BY DEF SenderOK, QueueOK
    <3> HIDE DEF p, f
    <3>2. /\ BytesOK(c) /\ c.written = s.stream.written /\ c.end = s.stream.end
          /\ (p = Len(s.stream.buffer) => c.buffer = << >>)
          /\ (s.stream.buffer = << >> => c.buffer = << >>)
      BY <2>4, <3>1, ReadBytes
    <3> HIDE DEF c
    <3> QED
      BY <2>4, <3>2 DEF ReadFrom
  <2>6. f \in BOOLEAN /\ DOMAIN s = Fields
    BY DEF FinFits, SenderOK
  <2> HIDE DEF segs, p, f, size
  <2>7. /\ t.stream = c /\ t.next_seqno = m /\ t.in_flights = s.in_flights + size
        /\ t.outstandings = s.outstandings \o segs /\ t.timePassed = s.timePassed
        /\ t.fin_sent = (s.fin_sent \/ f) /\ t.window = s.window /\ t.probing = s.probing
    BY <2>2, <2>6 DEF Launch, Fields
  <2> HIDE DEF t, c
  <2>8. m \in Nat /\ m - s.next_seqno = size
    BY <2>3, <2>4
  <2> HIDE DEF m
  <2>9. Continues(s, segs, m, t.stream)
    BY <2>3, <2>7, <2>8 DEF Continues
  <2>10. Sent(s, t, segs, m)
    <3>1. t.fin_sent = f
      BY <2>4, <2>6, <2>7
    <3>2. f => t.stream.end /\ t.stream.buffer = << >> /\ m = t.stream.written + 2
      BY <2>3, <2>4, <2>5, <2>7 DEF ReadFrom
    <3> QED
      BY <2>6, <2>7, <2>8, <3>1, <3>2 DEF Sent
  <2>11. QueueOK(t) /\ Grows(s, t) /\ t.outstandings # << >>
    BY <2>5, <2>7, <2>9, <2>10, SentOK
  <2> QED
    BY <1>2, <2>7, <2>11 DEF t
<1> QED
  BY <1>1, <1>2

\* The segment of a probe continues the queue by one number.
LEMMA ProbeQueue ==
  ASSUME NEW s, SenderOK(s), QueueOK(s), s.window = 0, ~s.probing,
         ~BS!buffer_empty(s.stream) \/ ReadyToFin(s)
  PROVE  LET t == send_one_byte_segment([s EXCEPT !.probing = TRUE], BS!buffer_empty(s.stream))
         IN  /\ QueueOK(t) /\ Grows(s, t) /\ t.outstandings # << >> /\ t.window = s.window
             /\ t.next_seqno = s.next_seqno + 1
<1> DEFINE b == s.stream
           n == s.next_seqno
           f == BS!buffer_empty(b)
           t == send_one_byte_segment([s EXCEPT !.probing = TRUE], f)
           c == IF f THEN b ELSE BS!read(b, 1)
           load == IF f THEN << >> ELSE BS!peek_output(b, 1)
           seg == [Segment EXCEPT !.seqno = wrap(n, ISN), !.fin = f, !.payload = load]
<1>1. /\ DOMAIN s = Fields /\ StreamOK(b) /\ BytesOK(b) /\ n \in Nat /\ n # 0 /\ s.isn = ISN
  BY DEF SenderOK, QueueOK
<1>2. /\ b.total_read \in Nat /\ b.written = b.total_read + Len(b.buffer) /\ b.written <= MaxBytes
      /\ b.buffer \in Seq(Nat) /\ Len(b.buffer) \in Nat /\ (f <=> Len(b.buffer) = 0)
      /\ BS!bytes_written(b) = b.written /\ BS!buffer_size(b) = Len(b.buffer) /\ f \in BOOLEAN
      /\ (BS!eof(b) <=> b.end /\ Len(b.buffer) = 0)
  BY <1>1, Counters DEF StreamOK, BS!buffer_empty
<1>3. MaxBytes \in Nat /\ MAX_PAYLOAD_SIZE \in Nat \ {0}
  BY Constants
<1>4. f => b.end /\ b.buffer = << >> /\ n < b.written + 2
  <2>1. Len(b.buffer) = 0 => b.buffer = << >>
    BY <1>2, EmptySeq
  <2> QED
    BY <1>2, <2>1 DEF ReadyToFin
<1>5. n = b.total_read + 1
  <2>1. CASE f
    <3>1. n < b.total_read + 2
      BY <1>2, <1>4, <2>1
    <3> QED
      BY <1>1, <1>2, <3>1 DEF SenderOK, Numbered
  <2>2. CASE ~f
    <3>1. b.buffer # << >>
      BY <1>2, <2>2
    <3> QED
      BY <1>1, <3>1 DEF SenderOK, Numbered
  <2> QED
    BY <2>1, <2>2
<1>6. ReadFrom(b, c)
  <2>1. CASE f
    BY <1>1, <2>1 DEF ReadFrom
  <2>2. CASE ~f
    <3>1. 1 \in 0 .. Len(b.buffer)
      BY <1>2, <2>2
    <3>2. /\ BytesOK(BS!read(b, 1)) /\ BS!read(b, 1).written = b.written
          /\ BS!read(b, 1).end = b.end /\ (b.buffer = << >> => BS!read(b, 1).buffer = << >>)
      BY <1>1, <3>1, ReadBytes
    <3> QED
      BY <2>2, <3>2 DEF ReadFrom
  <2> QED
    BY <2>1, <2>2
<1>7. /\ load \in Seq(Nat) /\ Len(load) = (IF f THEN 0 ELSE 1)
      /\ \A j \in 1 .. Len(load) : load[j] = n + j - 1
  <2>1. CASE f
    <3>1. load = << >> /\ Len(load) = 0
      BY <2>1
    <3> QED
      BY <2>1, <3>1, EmptySeq
  <2>2. CASE ~f
    <3>1. Len(b.buffer) >= 1 /\ ~(1 > Len(b.buffer))
      BY <1>2, <2>2
    <3>2. load = SubSeq(b.buffer, 1, 1)
      BY <1>2, <2>2, <3>1 DEF BS!peek_output
    <3>3. 1 \in 1 .. Len(b.buffer) /\ \A i \in 1 .. 1 : i \in 1 .. Len(b.buffer)
      BY <1>2, <3>1
    <3>4. \A i \in 1 .. 1 : b.buffer[i] \in Nat
      BY <1>2, <3>3, ElementOfSeq
    <3>5. /\ load \in Seq(Nat) /\ Len(load) = 1 /\ load[1] = b.buffer[1]
      <4> HIDE DEF load
      <4>1. /\ load \in Seq(Nat) /\ Len(load) = IF 1 <= 1 THEN 1 - 1 + 1 ELSE 0
            /\ \A i \in 1 .. 1 - 1 + 1 : load[i] = b.buffer[1 + i - 1]
        <5> DEFINE e == SubSeq(b.buffer, 1, 1)
        <5>1. /\ e \in Seq(Nat) /\ Len(e) = IF 1 <= 1 THEN 1 - 1 + 1 ELSE 0
              /\ \A i \in 1 .. 1 - 1 + 1 : e[i] = b.buffer[1 + i - 1]
          BY ONLY <3>4, 1 \in Int, SubSeqProperties
        <5> HIDE DEF e
        <5> QED
          BY <3>2, <5>1 DEF e
      <4>2. 1 \in 1 .. 1 - 1 + 1 /\ 1 + 1 - 1 = 1
        OBVIOUS
      <4> QED
        BY <4>1, <4>2
    <3>6. b.buffer[1] = b.total_read + 1
      BY <1>1, <3>3 DEF BytesOK
    <3>7. ASSUME NEW j \in 1 .. Len(load) PROVE load[j] = n + j - 1
      <4> HIDE DEF load, n
      <4>1. j = 1 /\ n + 1 - 1 = n
        BY <1>1, <3>5
      <4> QED
        BY <1>5, <3>5, <3>6, <4>1
    <3> QED
      BY <2>2, <3>5, <3>7
  <2> QED
    BY <2>1, <2>2
<1> HIDE DEF load, f
<1>8. /\ seg.seqno = wrap(n, ISN) /\ seg.syn = FALSE /\ seg.fin = f /\ seg.payload = load
  BY DEF Segment
<1>9. seg \in Segments
  <2>1. wrap(n, ISN) \in WrappingInt32
    BY <1>1, Constants, OffsetOfWrap
  <2>2. wrap(n, ISN) \in Nat
    BY <2>1, Constants DEF WrappingInt32
  <2>3. Segment \in Segments
    BY EmptySeq DEF Segment, Segments
  <2> QED
    BY <1>2, <1>7, <2>2, <2>3, Zenon DEF Segments
<1>10. seg.payload \in Seq(Nat) /\ length_in_sequence_space(seg) = 1
  <2>1. One(seg.syn) = 0 /\ One(seg.fin) = IF f THEN 1 ELSE 0
    BY <1>8 DEF One
  <2>2. Len(seg.payload) = IF f THEN 0 ELSE 1
    BY <1>7, <1>8
  <2>3. length_in_sequence_space(seg) = (IF f THEN 0 ELSE 1) + 0 + (IF f THEN 1 ELSE 0)
    BY <2>1, <2>2 DEF length_in_sequence_space
  <2> HIDE DEF seg
  <2> QED
    BY <1>7, <1>8, <2>3
<1> HIDE DEF seg
<1>11. n <= MaxBytes + 1 /\ (f => n + 1 = b.written + 2)
  <2>1. f => Len(b.buffer) = 0
    BY <1>2
  <2> QED
    BY <1>1, <1>2, <1>3, <1>5, <2>1
<1>12. Pos(seg) = n /\ After(seg) = n + 1
  <2>1. n <= MaxBytes + 2 /\ 0 \in Nat /\ 0 <= MaxBytes + 2
    BY <1>1, <1>3, <1>11
  <2>2. unwrap(wrap(n, ISN), ISN, 0) = n
    BY <1>1, <2>1, PosOfWrap
  <2> QED
    BY <1>8, <1>10, <2>2 DEF Pos, After
<1>13. SegmentOK(seg, c)
  <2>1. \A j \in 1 .. Len(seg.payload) : seg.payload[j] = Pos(seg) + One(seg.syn) + j - 1
    <3>1. One(seg.syn) = 0 /\ n + 0 = n
      BY <1>1, <1>8 DEF One
    <3> QED
      BY <1>7, <1>8, <1>12, <3>1
  <2>2. Len(seg.payload) <= MAX_PAYLOAD_SIZE
    <3>1. Len(load) = 0 \/ Len(load) = 1
      BY <1>7
    <3>2. MAX_PAYLOAD_SIZE \in Nat /\ MAX_PAYLOAD_SIZE # 0
      BY <1>3
    <3>3. Len(load) <= MAX_PAYLOAD_SIZE
      BY ONLY <3>1, <3>2
    <3> QED
      BY <1>8, <3>3
  <2>3. seg.fin => c.end /\ c.buffer = << >> /\ After(seg) = c.written + 2
    BY <1>4, <1>8, <1>11, <1>12
  <2>4. /\ Pos(seg) \in Nat /\ seg.seqno = wrap(Pos(seg), ISN)
        /\ Pos(seg) < After(seg) /\ After(seg) <= MaxBytes + 2
    BY <1>1, <1>3, <1>8, <1>11, <1>12
  <2>5. seg.syn = (Pos(seg) = 0)
    BY <1>1, <1>8, <1>12
  <2> QED
    BY <1>9, <2>1, <2>2, <2>3, <2>4, <2>5 DEF SegmentOK
<1>14. Continues(s, <<seg>>, n + 1, c)
  <2>1. <<seg>> \in Seq(Segments) /\ Len(<<seg>>) = 1 /\ <<seg>>[1] = seg /\ <<seg>> # << >>
    BY <1>9
  <2>2. Chain(<<seg>>, n + 1)
    BY <1>1, <1>12, <2>1 DEF Chain
  <2> QED
    BY <1>1, <1>12, <1>13, <2>1, <2>2 DEF Continues
<1>15. /\ t.stream = c /\ t.next_seqno = n + 1 /\ t.in_flights = s.in_flights + 1
       /\ t.outstandings = s.outstandings \o <<seg>> /\ t.timePassed = s.timePassed
       /\ t.fin_sent = s.fin_sent /\ t.window = s.window
  <2>1. DOMAIN s = Fields /\ s.isn = ISN
    BY <1>1
  <2> QED
    BY <2>1 DEF send_one_byte_segment, Launch, next_seqno, Fields, seg, load
<1> HIDE DEF t, c
<1>16. ~s.fin_sent
  <2>1. SUFFICES ASSUME s.fin_sent PROVE FALSE
    OBVIOUS
  <2>2. b.buffer = << >> /\ n = b.written + 2
    BY <2>1 DEF QueueOK
  <2>3. Len(b.buffer) = 0
    BY <2>2
  <2> QED
    BY <1>2, <1>4, <2>2, <2>3
<1>17. Sent(s, t, <<seg>>, n + 1)
  <2>1. (n + 1) - n = 1 /\ s.fin_sent \in BOOLEAN
    BY <1>1 DEF QueueOK
  <2> QED
    BY <1>15, <1>16, <2>1 DEF Sent
<1>18. QueueOK(t) /\ Grows(s, t) /\ t.outstandings # << >>
  BY <1>6, <1>14, <1>15, <1>17, SentOK
<1> QED
  BY <1>15, <1>18 DEF t, f

\* fill_window keeps the queue in order and leaves a segment in it when it probes.
LEMMA FillWindowQueue ==
  ASSUME NEW s, SenderOK(s), QueueOK(s)
  PROVE  LET t == fill_window(s)
             probe == /\ s.window = 0 /\ ~s.probing
                      /\ ~BS!buffer_empty(s.stream) \/ ReadyToFin(s)
         IN  /\ QueueOK(t) /\ Grows(s, t) /\ t.window = s.window
             /\ probe => t.outstandings # << >> /\ t.next_seqno = s.next_seqno + 1
             /\ ~probe => /\ t.probing = s.probing
                          /\ s.next_seqno > s.window_right => t = s
                          /\ t = s \/ t.outstandings # << >>
<1> DEFINE t == fill_window(s)
           probe == s.window = 0 /\ ~s.probing /\ (~BS!buffer_empty(s.stream) \/ ReadyToFin(s))
<1>1. CASE probe
  <2>1. t = send_one_byte_segment([s EXCEPT !.probing = TRUE], BS!buffer_empty(s.stream))
    BY <1>1, Zenon DEF fill_window
  <2>2. /\ QueueOK(t) /\ Grows(s, t) /\ t.outstandings # << >> /\ t.window = s.window
        /\ t.next_seqno = s.next_seqno + 1
    BY <1>1, <2>1, ProbeQueue
  <2> QED
    BY <1>1, <2>2
<1>2. CASE ~probe
  <2>1. t = FillLoop(s)
    BY <1>2, Zenon DEF fill_window
  <2>2. /\ QueueOK(t) /\ Grows(s, t) /\ t.window = s.window /\ t.probing = s.probing
        /\ s.next_seqno > s.window_right => t = s
        /\ t = s \/ t.outstandings # << >>
    BY <2>1, FillLoopQueue
  <2> QED
    BY <1>2, <2>2
<1> QED
  BY <1>1, <1>2

\* An acknowledgment of everything before a removes segments that end before a.
LEMMA AckedPrefix ==
  ASSUME NEW s, SenderOK(s), QueueOK(s), NEW a \in Nat
  PROVE  /\ Acked(s, a) \in 0 .. Len(s.outstandings)
         /\ \A i \in 1 .. Acked(s, a) : After(s.outstandings[i]) <= a
<1> DEFINE q == s.outstandings
           S == {k \in 0 .. Len(q) : \A i \in 1 .. k : LastSeqno(s, q[i]) < a}
<1>1. q \in Seq(Segments) /\ Len(q) \in Nat /\ \A i \in 1 .. Len(q) : SegmentOK(q[i], s.stream)
  BY LenProperties DEF QueueOK
<1>2. ASSUME NEW i \in 1 .. Len(q)
      PROVE  After(q[i]) \in Nat /\ LastSeqno(s, q[i]) = After(q[i]) - 1
  <2>1. s.isn = ISN /\ StreamOK(s.stream) /\ SegmentOK(q[i], s.stream)
    BY <1>1 DEF SenderOK
  <2> DEFINE l == length_in_sequence_space(q[i])
             e == After(q[i])
             z == Pos(q[i])
  <2>2. /\ unwrap(q[i].seqno, ISN, BS!bytes_read(s.stream)) = z /\ z \in Nat
        /\ l \in Nat /\ l = e - z
    BY <2>1, StartIsPos
  <2>3. z < e /\ e <= MaxBytes + 2 /\ e = z + l
    BY <2>1, <2>2 DEF SegmentOK, After
  <2>4. LastSeqno(s, q[i]) = Size(l + z - 1)
    BY <2>1, <2>2 DEF LastSeqno
  <2> HIDE DEF l, e, z
  <2>5. l + z - 1 = e - 1 /\ e - 1 \in Nat /\ e \in Nat /\ e - 1 < Half32
    BY <2>2, <2>3, Constants
  <2>6. Size(e - 1) = e - 1
    BY <2>5, Constants, SmallConversions
  <2> QED
    BY <2>4, <2>5, <2>6 DEF e
<1>3. S \in SUBSET Nat /\ 0 \in S /\ \A x \in S : x <= Len(q)
  BY <1>1
<1>4. Max(S) \in S
  <2> HIDE DEF S
  <2> QED
    BY <1>1, <1>3, Largest
<1>5. Acked(s, a) = Max(S)
  BY DEF Acked
<1>6. Max(S) \in 0 .. Len(q) /\ \A i \in 1 .. Max(S) : LastSeqno(s, q[i]) < a
  BY <1>4
<1> DEFINE k == Max(S)
<1> HIDE DEF k, S
<1>7. ASSUME NEW i \in 1 .. k PROVE After(q[i]) <= a
  <2>1. i \in 1 .. Len(q) /\ LastSeqno(s, q[i]) < a
    BY <1>1, <1>6 DEF k
  <2>2. After(q[i]) \in Nat /\ After(q[i]) - 1 < a
    BY <1>2, <2>1
  <2> QED
    BY <2>2
<1> QED
  BY <1>5, <1>6, <1>7 DEF k

\* What an acknowledgment of everything before a does: segments that end before a leave the
\* queue; if one does, the timer is restarted or the queue is empty.
Shrinks(s, t, a) ==
  \/ t.outstandings = s.outstandings /\ t.timePassed = s.timePassed
  \/ /\ s.outstandings # << >>
     /\ IF t.outstandings = << >> THEN s.next_seqno <= a
        ELSE /\ t.timePassed = 0 /\ Pos(t.outstandings[1]) <= a
             /\ t.outstandings[1] # s.outstandings[1]

\* It keeps the queue in order, and sets the window, but moves its edge only to the right.
LEMMA AckQueue ==
  ASSUME NEW s, SenderOK(s), QueueOK(s), NEW a \in 1 .. s.next_seqno, NEW w \in 0 .. MaxWindow
  PROVE  LET t == ack_received(s, wrap(a, ISN), w)
         IN  /\ QueueOK(t) /\ Shrinks(s, t, a) /\ t.window = w
             /\ t.window_right = (IF a + w - 1 > s.window_right THEN a + w - 1 ELSE s.window_right)
             /\ t.probing = (s.probing /\ ~(a + w - 1 > s.window_right))
<1> DEFINE t == ack_received(s, wrap(a, ISN), w)
           b == s.stream
           q == s.outstandings
           n == s.next_seqno
           k == Acked(s, a)
           right == a + w - 1
           moved == right > s.window_right
           first == SubSeq(q, 1, k)
           rest == SubSeq(q, k + 1, Len(q))
           popped == [s EXCEPT !.window       = w,
                               !.window_right = IF moved THEN right ELSE @,
                               !.probing      = Probing(s, moved),
                               !.outstandings = SubSeq(@, k + 1, Len(@)),
                               !.in_flights   = @ - TotalLength(SubSeq(s.outstandings, 1, k))]
<1>1. /\ DOMAIN s = Fields /\ s.isn = ISN /\ StreamOK(b) /\ n \in Nat /\ s.window_right \in Nat
      /\ a \in Nat /\ a >= 1 /\ a <= n /\ w \in Nat /\ w <= MaxWindow
  BY Constants DEF SenderOK
<1>2. /\ b.total_read \in Nat /\ b.total_read <= MaxBytes /\ BS!bytes_read(b) = b.total_read
      /\ n <= b.total_read + 2
  <2>1. b.total_read \in Nat /\ b.total_read <= MaxBytes /\ BS!bytes_read(b) = b.total_read
    BY <1>1, Counters, Constants DEF StreamOK
  <2> QED
    BY <1>1, <2>1 DEF SenderOK, Numbered
<1>3. unwrap(wrap(a, ISN), s.isn, BS!bytes_read(b)) = a
  <2>1. a <= MaxBytes + 2 /\ b.total_read <= MaxBytes + 2
    BY <1>1, <1>2, Constants
  <2> QED
    BY <1>1, <1>2, <2>1, PosOfWrap
<1>4. Size(right) = right
  <2>1. right \in Nat /\ right < Half32
    BY <1>1, <1>2, Constants
  <2> HIDE DEF right
  <2> QED
    BY <2>1, Constants, SmallConversions
<1>5. t = Timer(popped, k)
  <2>1. ~(a > n)
    BY <1>1
  <2> QED
    BY <1>3, <1>4, <2>1, Zenon DEF ack_received
<1>6. k \in 0 .. Len(q) /\ \A i \in 1 .. k : After(q[i]) <= a
  BY <1>1, AckedPrefix
<1>7. /\ q \in Seq(Segments) /\ Len(q) \in Nat /\ Chain(q, n) /\ s.in_flights = Occupied(q, n)
      /\ \A i \in 1 .. Len(q) : SegmentOK(q[i], b)
  BY LenProperties DEF QueueOK
<1> HIDE DEF k, right
<1>8. /\ popped.stream = b /\ popped.next_seqno = n /\ popped.window = w
      /\ popped.window_right = (IF moved THEN right ELSE s.window_right)
      /\ popped.probing = (s.probing /\ ~moved) /\ popped.outstandings = rest
      /\ popped.in_flights = s.in_flights - TotalLength(first)
      /\ popped.timePassed = s.timePassed /\ popped.fin_sent = s.fin_sent
      /\ DOMAIN popped = Fields
  BY <1>1 DEF Fields, Probing
<1> HIDE DEF popped, t
<1>9. /\ t.stream = b /\ t.next_seqno = n /\ t.window = w
      /\ t.window_right = (IF moved THEN right ELSE s.window_right)
      /\ t.probing = (s.probing /\ ~moved) /\ t.outstandings = rest
      /\ t.in_flights = s.in_flights - TotalLength(first) /\ t.fin_sent = s.fin_sent
      /\ t.timePassed = IF k # 0 /\ rest # << >> THEN 0 ELSE s.timePassed
  <2> HIDE DEF rest, first, moved
  <2> QED
    BY <1>5, <1>8 DEF Timer, Fields
<1>10. /\ rest \in Seq(Segments) /\ Len(rest) = Len(q) - k /\ Chain(rest, n)
       /\ \A i \in 1 .. Len(rest) : k + i \in 1 .. Len(q) /\ rest[i] = q[k + i]
  BY <1>1, <1>6, <1>7, ChainSuffix
<1> HIDE DEF rest, first, moved
<1>11. CASE k = 0
  <2>1. rest = q
    <3>1. Len(rest) = Len(q)
      BY <1>7, <1>10, <1>11
    <3>2. \A i \in 1 .. Len(q) : rest[i] = q[i]
      <4>1. \A i \in 1 .. Len(q) : 0 + i = i
        BY <1>7
      <4> QED
        BY <1>10, <1>11, <3>1, <4>1
    <3> QED
      BY <1>7, <1>10, <3>1, <3>2, SeqEqual
  <2>2. TotalLength(first) = 0
    <3>1. first = << >>
      <4>1. 0 < 1 /\ 0 \in Int /\ 1 \in Int
        OBVIOUS
      <4>2. SubSeq(q, 1, 0) = << >>
        BY ONLY <4>1, SubSeqEmpty
      <4> QED
        BY <1>11, <4>2 DEF first
    <3>2. << >> \in Seq(Segments) /\ Len(<< >>) = 0
      BY EmptySeq
    <3>3. Chain(<< >>, 0)
      BY <3>2 DEF Chain
    <3>4. TotalLength(<< >>) = Occupied(<< >>, 0)
      BY <3>2, <3>3, ChainLength
    <3> QED
      BY <3>1, <3>4 DEF Occupied
  <2>3. s.in_flights \in Int
    <3>1. CASE q = << >>
      BY <1>7, <3>1 DEF Occupied
    <3>2. CASE q # << >>
      <4>1. 1 \in 1 .. Len(q)
        BY <1>7, <3>2, EmptySeq
      <4>2. Pos(q[1]) \in Nat
        BY <1>1, <1>7, <4>1, ChainOrder
      <4> QED
        BY <1>1, <1>7, <3>2, <4>2 DEF Occupied
    <3> QED
      BY <3>1, <3>2
  <2>4. t.in_flights = s.in_flights /\ t.timePassed = s.timePassed /\ t.outstandings = q
    BY <1>9, <1>11, <2>1, <2>2, <2>3
  <2>5. QueueOK(t)
    BY <1>9, <2>4 DEF QueueOK
  <2> QED
    BY <1>9, <2>4, <2>5 DEF Shrinks, t, moved, right
<1>12. CASE k # 0
  <2>1. k \in 1 .. Len(q) /\ q # << >>
    <3>1. k \in 1 .. Len(q) /\ Len(q) # 0
      BY <1>6, <1>7, <1>12
    <3> QED
      BY <3>1
  <2>2. k \in 1 .. k /\ After(q[k]) <= a
    BY <1>6, <1>7, <2>1
  <2>3. /\ first \in Seq(Segments) /\ first # << >> /\ first[1] = q[1] /\ Chain(first, After(q[k]))
    BY <1>1, <1>7, <2>1, ChainPrefix DEF first
  <2>4. After(q[k]) \in Nat /\ Pos(q[1]) \in Nat /\ 1 \in 1 .. Len(q)
    <3>1. 1 \in 1 .. Len(q)
      BY <1>7, <2>1
    <3> QED
      BY <1>1, <1>7, <2>1, <3>1, ChainOrder
  <2>5. TotalLength(first) = After(q[k]) - Pos(q[1])
    <3>1. TotalLength(first) = Occupied(first, After(q[k]))
      BY <2>3, <2>4, ChainLength
    <3> QED
      BY <2>3, <3>1 DEF Occupied
  <2>6. t.in_flights = n - After(q[k])
    <3>1. s.in_flights = n - Pos(q[1])
      BY <1>7, <2>1 DEF Occupied
    <3>2. t.in_flights = (n - Pos(q[1])) - (After(q[k]) - Pos(q[1]))
      BY <1>9, <2>5, <3>1
    <3> HIDE DEF n, q
    <3> QED
      BY <1>1, <2>4, <3>2
  <2>7. t.in_flights = Occupied(rest, n)
    <3>1. CASE k = Len(q)
      <4>1. Len(rest) = 0
        BY <1>7, <1>10, <3>1
      <4>2. rest = << >>
        BY <1>10, <4>1, EmptySeq
      <4>3. After(q[k]) = n
        BY <1>7, <2>1, <3>1 DEF Chain
      <4> QED
        BY <1>1, <2>6, <4>2, <4>3 DEF Occupied
    <3>2. CASE k < Len(q)
      <4>1. Len(rest) # 0 /\ 1 \in 1 .. Len(rest)
        BY <1>7, <1>10, <2>1, <3>2
      <4>2. rest[1] = q[k + 1] /\ rest # << >>
        BY <1>10, <4>1
      <4>3. After(q[k]) = Pos(q[k + 1])
        BY <1>7, <2>1, <3>2, Zenon DEF Chain
      <4> QED
        BY <2>6, <4>2, <4>3 DEF Occupied
    <3> QED
      BY <1>7, <2>1, <3>1, <3>2
  <2>8. \A i \in 1 .. Len(rest) : SegmentOK(rest[i], b)
    BY <1>7, <1>10
  <2>9. QueueOK(t)
    <3>1. t.timePassed \in Nat
      BY <1>9 DEF QueueOK
    <3> QED
      BY <1>9, <1>10, <2>7, <2>8, <3>1 DEF QueueOK
  <2>10. Shrinks(s, t, a)
    <3>1. CASE rest = << >>
      <4>1. Len(rest) = 0
        BY <3>1
      <4>2. k = Len(q)
        BY <1>7, <1>10, <2>1, <4>1
      <4>3. After(q[k]) = n
        BY <1>7, <2>1, <4>2 DEF Chain
      <4> QED
        BY <1>9, <2>1, <2>2, <3>1, <4>3 DEF Shrinks
    <3>2. CASE rest # << >>
      <4>1. Len(rest) \in Nat \ {0}
        BY <1>10, <3>2, EmptySeq
      <4>2. 1 \in 1 .. Len(rest) /\ k < Len(q)
        BY <1>7, <1>10, <2>1, <4>1
      <4>3. k + 1 \in 1 .. Len(q) /\ rest[1] = q[k + 1] /\ k + 1 # 1
        BY <1>10, <2>1, <4>2
      <4>4. Pos(q[k + 1]) = After(q[k])
        BY <1>7, <2>1, <4>2, Zenon DEF Chain
      <4>5. q[k + 1] # q[1]
        BY <1>1, <1>7, <2>4, <4>3, ChainDistinct
      <4> QED
        BY <1>9, <1>12, <2>1, <2>2, <3>2, <4>3, <4>4, <4>5 DEF Shrinks
    <3> QED
      BY <3>1, <3>2
  <2> QED
    BY <1>9, <2>9, <2>10 DEF t, moved, right
<1> QED
  BY <1>11, <1>12

--------------------------------------------------------------------------------
\* The steps of the system.

\* All members but segments_out are the same in both.
Kept(s, t) ==
  /\ Same(s, t)
  /\ t.outstandings = s.outstandings /\ t.in_flights = s.in_flights
  /\ t.fin_sent = s.fin_sent /\ t.timePassed = s.timePassed

\* Emptying segments_out changes nothing else.
LEMMA DrainedKept ==
  ASSUME NEW s, DOMAIN s = Fields
  PROVE  Kept(s, Drained(s)) /\ Drained(s).segments_out = << >>
  BY DEF Kept, Same, Drained, Fields

\* The invariant does not look at segments_out.
LEMMA KeptOK ==
  ASSUME NEW s, NEW t, Kept(s, t)
  PROVE  /\ QueueOK(s) => QueueOK(t)
         /\ \A new : InStep(s, new) => InStep(t, new)
  BY DEF Kept, Same, QueueOK, InStep

\* A call that sends something or nothing, while no time passes.
LEMMA QInvGrows ==
  ASSUME QInv, Inv', NEW t, DOMAIN t = Fields, QueueOK(t), Grows(snd, t), Becomes(t, 0),
         UNCHANGED <<peer, acks, newest, reordered>>, ~reordered => InStep(t, newest)
  PROVE  QInv'
<1>1. snd' = Drained(t) /\ Kept(t, snd') /\ snd'.segments_out = << >>
  BY DrainedKept DEF Becomes
<1>2. QueueOK(snd')
  BY <1>1, KeptOK
<1>3. ~reordered => InStep(snd', newest)
  BY <1>1, KeptOK
<1>4. /\ snd'.outstandings = t.outstandings /\ snd'.next_seqno = t.next_seqno
      /\ snd'.timePassed = snd.timePassed
  BY <1>1 DEF Kept, Same, Grows
<1>5. /\ peer.ack \in Nat /\ snd.next_seqno \in Nat /\ t.next_seqno \in Nat
      /\ peer.ack <= snd.next_seqno /\ snd.next_seqno <= t.next_seqno
  <2>1. snd'.next_seqno \in Nat /\ snd.next_seqno \in Nat /\ peer.ack \in Nat
    BY DEF QInv, Inv, SenderOK
  <2> QED
    BY <1>4, <2>1 DEF QInv, NotForgotten, Grows
<1>6. NotForgotten'
  <2>1. peer.ack <= t.next_seqno
    BY <1>5
  <2>2. IF t.outstandings = << >> THEN peer.ack = t.next_seqno
        ELSE Pos(t.outstandings[1]) <= peer.ack
    <3>1. CASE snd.outstandings = << >>
      BY <1>5, <3>1 DEF QInv, NotForgotten, Grows
    <3>2. CASE snd.outstandings # << >>
      BY <3>2 DEF QInv, NotForgotten, Grows
    <3> QED
      BY <3>1, <3>2
  <2> QED
    BY <1>4, <2>1, <2>2 DEF QInv, NotForgotten
<1>7. Timely'
  <2>1. waited \in Nat /\ snd.timePassed \in Nat /\ waited + 0 = waited
    BY DEF QInv, Timely, QueueOK
  <2>2. waited' = 0 \/ (waited' = waited /\ snd.outstandings # << >>)
    BY <2>1 DEF Becomes
  <2> QED
    BY <1>4, <2>1, <2>2 DEF QInv, Timely
<1> QED
  BY <1>1, <1>2, <1>3, <1>6, <1>7 DEF QInv

\* The stream c is b after the owner called it: nothing comes after the end.
Later(b, c) ==
  /\ BytesOK(c)
  /\ b.end /\ b.buffer = << >> => c.end /\ c.buffer = << >> /\ c.written = b.written

\* The owner changes the stream only.
LEMMA StreamChange ==
  ASSUME NEW s, SenderOK(s), QueueOK(s), NEW c, Later(s.stream, c)
  PROVE  LET t == [s EXCEPT !.stream = c]
         IN  /\ DOMAIN t = Fields /\ QueueOK(t) /\ Grows(s, t)
             /\ \A new : InStep(s, new) => InStep(t, new)
<1> DEFINE t == [s EXCEPT !.stream = c]
<1>1. DOMAIN s = Fields /\ s.next_seqno \in Nat
  BY DEF SenderOK
<1>2. /\ DOMAIN t = Fields /\ t.stream = c /\ t.outstandings = s.outstandings
      /\ t.next_seqno = s.next_seqno /\ t.in_flights = s.in_flights /\ t.fin_sent = s.fin_sent
      /\ t.timePassed = s.timePassed /\ t.window = s.window /\ t.window_right = s.window_right
      /\ t.probing = s.probing
  BY <1>1 DEF Fields
<1> HIDE DEF t
<1>3. ASSUME NEW seg, SegmentOK(seg, s.stream) PROVE SegmentOK(seg, c)
  BY <1>3 DEF SegmentOK, Later
<1>4. QueueOK(t)
  <2>1. \A i \in 1 .. Len(s.outstandings) : SegmentOK(s.outstandings[i], c)
    BY <1>3 DEF QueueOK
  <2>2. s.fin_sent => c.end /\ c.buffer = << >> /\ s.next_seqno = c.written + 2
    BY DEF QueueOK, Later
  <2> QED
    BY <1>2, <2>1, <2>2 DEF QueueOK, Later
<1>5. Grows(s, t)
  BY <1>1, <1>2 DEF Grows
<1>6. \A new : InStep(s, new) => InStep(t, new)
  BY <1>2 DEF InStep
<1> QED
  BY <1>2, <1>4, <1>5, <1>6 DEF t

\* The owner writes.
LEMMA QInvWrite ==
  ASSUME QInv, Inv', NEW n \in 1 .. Capacity, Write(n)
  PROVE  QInv'
<1> DEFINE b == snd.stream
           data == [i \in 1 .. n |-> BS!bytes_written(b) + i]
           c == BS!write(b, data)
           t == [snd EXCEPT !.stream = c]
<1>1. SenderOK(snd) /\ QueueOK(snd) /\ DOMAIN snd = Fields /\ StreamOK(b) /\ BytesOK(b)
  BY DEF QInv, Inv, SenderOK, QueueOK
<1>2. n \in Nat /\ BS!bytes_written(b) = b.written /\ ~b.end /\ b.written + n <= MaxBytes
  <2>1. BS!bytes_written(b) = b.written
    BY <1>1, Counters
  <2>2. ~b.end /\ BS!bytes_written(b) + n <= MaxBytes
    BY DEF Write, BS!input_ended
  <2> QED
    BY <2>1, <2>2, Constants
<1>3. Later(b, c)
  <2>1. data = [i \in 1 .. n |-> b.written + i]
    BY <1>2
  <2>2. BytesOK(c)
    BY <1>1, <1>2, <2>1, WriteBytes
  <2> HIDE DEF c
  <2> QED
    BY <1>2, <2>2 DEF Later
<1>4. Becomes(t, 0) /\ UNCHANGED <<peer, acks, newest, reordered>>
  <2>1. [snd EXCEPT !.stream = BS!write(@, data)] = t
    BY <1>1 DEF Fields
  <2> HIDE DEF t
  <2> QED
    BY <2>1 DEF Write, data, b
<1> HIDE DEF c
<1>5. /\ DOMAIN t = Fields /\ QueueOK(t) /\ Grows(snd, t)
      /\ \A new : InStep(snd, new) => InStep(t, new)
  BY <1>1, <1>3, StreamChange
<1> HIDE DEF t
<1>6. ~reordered => InStep(t, newest)
  BY <1>5 DEF QInv
<1> QED
  BY <1>4, <1>5, <1>6, QInvGrows

\* The owner ends its stream.
LEMMA QInvEndInput ==
  ASSUME QInv, Inv', EndInput
  PROVE  QInv'
<1> DEFINE b == snd.stream
           c == BS!end_input(b)
           t == [snd EXCEPT !.stream = c]
<1>1. SenderOK(snd) /\ QueueOK(snd) /\ DOMAIN snd = Fields /\ StreamOK(b) /\ BytesOK(b)
  BY DEF QInv, Inv, SenderOK, QueueOK
<1>2. c.end = TRUE /\ c.buffer = b.buffer /\ c.written = b.written /\ c.total_read = b.total_read
  BY <1>1 DEF StreamOK, BS!end_input, BS!Streams
<1>3. Becomes(t, 0) /\ UNCHANGED <<peer, acks, newest, reordered>>
  <2>1. [snd EXCEPT !.stream = BS!end_input(@)] = t
    BY <1>1 DEF Fields
  <2> HIDE DEF t
  <2> QED
    BY <2>1 DEF EndInput
<1> HIDE DEF c
<1>4. Later(b, c)
  BY <1>1, <1>2 DEF Later, BytesOK
<1>5. /\ DOMAIN t = Fields /\ QueueOK(t) /\ Grows(snd, t)
      /\ \A new : InStep(snd, new) => InStep(t, new)
  BY <1>1, <1>4, StreamChange
<1> HIDE DEF t
<1>6. ~reordered => InStep(t, newest)
  BY <1>5 DEF QInv
<1> QED
  BY <1>3, <1>5, <1>6, QInvGrows

\* A segment without sequence numbers is not kept.
LEMMA QInvEmptySegment ==
  ASSUME QInv, Inv', SendEmptySegment \/ SendEmptySegmentRST
  PROVE  QInv'
<1>1. DOMAIN snd = Fields /\ QueueOK(snd) /\ snd.next_seqno \in Nat
  BY DEF QInv, Inv, SenderOK
<1>2. ASSUME NEW t, DOMAIN t = Fields, Kept(snd, t), Becomes(t, 0),
             UNCHANGED <<peer, acks, newest, reordered>>
      PROVE  QInv'
  <2>1. QueueOK(t) /\ (~reordered => InStep(t, newest))
    BY <1>1, <1>2, KeptOK DEF QInv
  <2>2. Grows(snd, t)
    BY <1>1, <1>2 DEF Grows, Kept, Same
  <2> QED
    BY <1>2, <2>1, <2>2, QInvGrows
<1>3. CASE SendEmptySegment
  <2> DEFINE t == send_empty_segment(snd)
  <2>1. DOMAIN t = Fields /\ Kept(snd, t)
    BY <1>1 DEF send_empty_segment, Kept, Same, Fields
  <2>2. Becomes(t, 0) /\ UNCHANGED <<peer, acks, newest, reordered>>
    BY <1>3 DEF SendEmptySegment
  <2> QED
    BY <1>2, <2>1, <2>2
<1>4. CASE SendEmptySegmentRST
  <2> DEFINE t == send_empty_segment_RST(snd)
  <2>1. DOMAIN t = Fields /\ Kept(snd, t)
    BY <1>1 DEF send_empty_segment_RST, Kept, Same, Fields
  <2>2. Becomes(t, 0) /\ UNCHANGED <<peer, acks, newest, reordered>>
    BY <1>4 DEF SendEmptySegmentRST
  <2> QED
    BY <1>2, <2>1, <2>2
<1> QED
  BY <1>3, <1>4

\* fill_window: a probe is one number beyond a window that was filled.
LEMMA QInvFillWindow ==
  ASSUME QInv, Inv', FillWindow
  PROVE  QInv'
<1> DEFINE t == fill_window(snd)
           probe == /\ snd.window = 0 /\ ~snd.probing
                    /\ ~BS!buffer_empty(snd.stream) \/ ReadyToFin(snd)
<1>1. SenderOK(snd) /\ QueueOK(snd)
  BY DEF QInv, Inv
<1>2. SenderOK(t) /\ Advances(snd, t)
  BY <1>1, FillWindowOK
<1>3. /\ QueueOK(t) /\ Grows(snd, t) /\ t.window = snd.window
      /\ probe => t.outstandings # << >> /\ t.next_seqno = snd.next_seqno + 1
      /\ ~probe => /\ t.probing = snd.probing
                   /\ snd.next_seqno > snd.window_right => t = snd
                   /\ t = snd \/ t.outstandings # << >>
  BY <1>1, FillWindowQueue
<1>4. Becomes(t, 0) /\ UNCHANGED <<peer, acks, newest, reordered>>
  BY DEF FillWindow
<1> HIDE DEF t
<1>5. ~reordered => InStep(t, newest)
  <2> SUFFICES ASSUME ~reordered PROVE InStep(t, newest)
    OBVIOUS
  <2> DEFINE n == snd.next_seqno
             r == snd.window_right
             a == newest.ack
             e == newest.edge
  <2>1. /\ n \in Nat /\ r \in Nat /\ a \in Nat /\ e \in Nat /\ snd.window \in Nat
        /\ t.next_seqno \in Nat /\ t.next_seqno >= n /\ t.window_right = r
        /\ n <= r + 1 + One(snd.probing) /\ snd.probing \in BOOLEAN
    BY <1>1, <1>2 DEF QInv, SenderOK, Advances, Obeys
  <2>2. InStep(snd, newest)
    BY DEF QInv
  <2>3. a <= t.next_seqno /\ a <= e
    BY <2>1, <2>2 DEF InStep
  <2>4. CASE t = snd
    BY <2>2, <2>4
  <2>5. CASE t # snd /\ probe
    <3>1. a # 0 /\ e = r + 1 /\ 0 = e - a
      BY <2>2, <2>5 DEF InStep
    <3>2. n <= r + 1
      BY <2>1, <2>5 DEF One
    <3>3. t.next_seqno = n + 1 /\ t.outstandings # << >>
      BY <1>3, <2>5
    <3>4. a <= n
      BY <2>2 DEF InStep
    <3>5. t.next_seqno = r + 2
      BY <2>1, <3>1, <3>2, <3>3, <3>4
    <3> QED
      BY <1>3, <2>1, <2>2, <2>3, <2>5, <3>1, <3>3, <3>5 DEF InStep
  <2>6. CASE t # snd /\ ~probe
    <3>1. t.probing = snd.probing /\ t.outstandings # << >> /\ ~(n > r)
      BY <1>3, <2>6
    <3>2. ~snd.probing
      BY <2>1, <2>2, <3>1 DEF InStep
    <3> QED
      BY <1>3, <2>1, <2>2, <2>3, <3>1, <3>2 DEF InStep
  <2> QED
    BY <2>4, <2>5, <2>6
<1>6. DOMAIN t = Fields
  BY <1>2 DEF SenderOK
<1> QED
  BY <1>3, <1>4, <1>5, <1>6, QInvGrows

\* tick counts the time of the oldest segment, or sends it again.
LEMMA QInvTick ==
  ASSUME QInv, Inv', NEW ms \in 1 .. MaxTick, Tick(ms)
  PROVE  QInv'
<1> DEFINE t == tick(snd, ms)
           q == snd.outstandings
<1>1. /\ DOMAIN snd = Fields /\ QueueOK(snd) /\ waited \in Nat /\ snd.timePassed \in Nat
      /\ ms \in Nat /\ ms > 0
  BY SenderAssumption DEF QInv, Inv, SenderOK, QueueOK, Timely
<1>2. Becomes(t, ms) /\ UNCHANGED <<peer, acks, newest, reordered>>
  BY DEF Tick
<1>3. /\ DOMAIN t = Fields /\ Same(snd, t) /\ t.outstandings = q
      /\ t.in_flights = snd.in_flights /\ t.fin_sent = snd.fin_sent
  BY <1>1 DEF tick, Expire, Same, Fields
<1>4. \/ q = << >> /\ t.timePassed = snd.timePassed
      \/ q # << >> /\ t.timePassed = snd.timePassed + ms
      \/ q # << >> /\ t.timePassed = 0 /\ t.segments_out = Append(snd.segments_out, Head(q))
  BY <1>1 DEF tick, Expire, Fields
<1> HIDE DEF t
<1>5. t.timePassed \in Nat
  BY <1>1, <1>4
<1>6. QueueOK(t) /\ \A new : InStep(snd, new) => InStep(t, new)
  BY <1>1, <1>3, <1>5 DEF QueueOK, Same, InStep
<1>7. snd' = Drained(t) /\ Kept(t, snd') /\ snd'.segments_out = << >>
  BY <1>2, <1>3, DrainedKept DEF Becomes
<1>8. QueueOK(snd') /\ (~reordered => InStep(snd', newest))
  BY <1>6, <1>7, KeptOK DEF QInv
<1>9. NotForgotten'
  BY <1>2, <1>3, <1>7 DEF QInv, NotForgotten, Kept, Same
<1>10. Timely'
  <2>1. snd'.outstandings = q /\ snd'.timePassed = t.timePassed
    BY <1>3, <1>7 DEF Kept
  <2>2. waited' = 0 \/ waited' = waited + ms
    BY <1>2 DEF Becomes
  <2>3. CASE q = << >>
    BY <1>1, <2>1, <2>2, <2>3 DEF Timely
  <2>4. CASE q # << >> /\ t.timePassed = snd.timePassed + ms
    <3>1. waited <= snd.timePassed
      BY <2>4 DEF QInv, Timely
    <3>2. waited' \in Nat /\ waited' <= t.timePassed
      BY <1>1, <2>2, <2>4, <3>1
    <3> QED
      BY <2>1, <3>2 DEF Timely
  <2>5. CASE q # << >> /\ t.timePassed = 0 /\ t.segments_out = Append(snd.segments_out, Head(q))
    <3>1. t.segments_out # << >>
      <4>1. snd.segments_out = << >>
        BY DEF QInv
      <4>2. t.segments_out = <<Head(q)>>
        BY <2>5, <4>1
      <4> QED
        BY <4>2
    <3>2. waited' = 0
      BY <1>1, <1>2, <3>1 DEF Becomes
    <3> QED
      BY <2>1, <2>5, <3>2 DEF Timely
  <2> QED
    BY <1>4, <2>3, <2>4, <2>5
<1> QED
  BY <1>2, <1>7, <1>8, <1>9, <1>10 DEF QInv

\* An acknowledgment removes what the peer has acknowledged, and nothing else.
LEMMA QInvAckReceived ==
  ASSUME QInv, Inv', NEW ack \in acks, AckReceived(ack)
  PROVE  QInv'
<1> DEFINE t == ack_received(snd, ack.ackno, ack.win)
           n == snd.next_seqno
           q == snd.outstandings
           w == ack.win
<1>1. SenderOK(snd) /\ QueueOK(snd) /\ NotForgotten /\ DOMAIN snd = Fields
  BY DEF QInv, Inv, SenderOK
<1>2. PICK a \in 1 .. peer.ack : ack.ackno = wrap(a, ISN)
  BY <1>1 DEF NotForgotten
<1>3. /\ w \in 0 .. MaxWindow /\ n \in Nat /\ peer.ack \in Nat /\ peer.ack <= n
      /\ a \in 1 .. n /\ a \in Nat /\ w \in Nat /\ a >= 1 /\ a <= peer.ack
      /\ newest.ack \in Nat /\ newest.edge \in Nat /\ snd.window_right \in Nat
  <2>1. w \in 0 .. MaxWindow /\ n \in Nat /\ peer.ack \in Nat /\ peer.ack <= n
    BY <1>1 DEF QInv, Inv, AcksOK, SenderOK, NotForgotten
  <2>2. newest.ack \in Nat /\ newest.edge \in Nat /\ snd.window_right \in Nat
    BY <1>1 DEF QInv, SenderOK
  <2> QED
    BY <1>2, <2>1, <2>2, Constants
<1>4. /\ QueueOK(t) /\ Shrinks(snd, t, a) /\ t.window = w
      /\ t.window_right = (IF a + w - 1 > snd.window_right THEN a + w - 1 ELSE snd.window_right)
      /\ t.probing = (snd.probing /\ ~(a + w - 1 > snd.window_right))
  BY <1>1, <1>2, <1>3, AckQueue
<1>5. SenderOK(t) /\ t.next_seqno = n
  BY <1>1, <1>2, <1>3, AckOK
<1>6. unwrap(ack.ackno, ISN, peer.ack) = a
  <2>1. n <= MaxBytes + 2
    <3>1. StreamOK(snd.stream)
      BY <1>1 DEF SenderOK
    <3>2. snd.stream.total_read \in Nat /\ snd.stream.total_read <= MaxBytes
      BY <3>1, Counters, Constants DEF StreamOK
    <3> QED
      BY <1>1, <1>3, <3>2, Constants DEF SenderOK, Numbered
  <2>2. a <= MaxBytes + 2 /\ peer.ack <= MaxBytes + 2
    BY <1>3, <2>1, Constants
  <2> QED
    BY <1>2, <1>3, <2>2, PosOfWrap
<1> DEFINE late == a < newest.ack \/ a + w < newest.edge
<1>7. /\ Becomes(t, 0) /\ UNCHANGED <<peer, acks>>
      /\ newest' = (IF late THEN newest ELSE [ack |-> a, edge |-> a + w])
      /\ reordered' = (reordered \/ late)
  BY <1>6, Zenon DEF AckReceived
<1>8. late \in BOOLEAN /\ reordered \in BOOLEAN
  BY DEF QInv
<1> HIDE DEF t
<1>9. snd' = Drained(t) /\ Kept(t, snd') /\ snd'.segments_out = << >>
  <2>1. DOMAIN t = Fields
    BY <1>5 DEF SenderOK
  <2> QED
    BY <1>7, <2>1, DrainedKept DEF Becomes
<1>10. QueueOK(snd')
  BY <1>4, <1>9, KeptOK
<1>11. /\ snd'.outstandings = t.outstandings /\ snd'.next_seqno = n
       /\ snd'.timePassed = t.timePassed
  BY <1>5, <1>9 DEF Kept, Same
<1>12. NotForgotten'
  <2>1. IF t.outstandings = << >> THEN peer.ack = n ELSE Pos(t.outstandings[1]) <= peer.ack
    <3>1. CASE t.outstandings = q
      BY <1>1, <3>1 DEF NotForgotten
    <3>2. CASE t.outstandings # q /\ t.outstandings = << >>
      <4>1. n <= a
        BY <1>4, <3>2 DEF Shrinks
      <4> QED
        BY <1>3, <3>2, <4>1
    <3>3. CASE t.outstandings # q /\ t.outstandings # << >>
      <4>1. Pos(t.outstandings[1]) <= a
        BY <1>4, <3>3 DEF Shrinks
      <4>2. Pos(t.outstandings[1]) \in Nat
        <5>1. 1 \in 1 .. Len(t.outstandings)
          <6>1. t.outstandings \in Seq(Segments)
            BY <1>4 DEF QueueOK
          <6>2. Len(t.outstandings) \in Nat \ {0}
            BY <3>3, <6>1, EmptySeq
          <6> QED
            BY <6>2
        <5> QED
          BY <1>4, <5>1 DEF QueueOK, SegmentOK
      <4> QED
        BY <1>3, <3>3, <4>1, <4>2
    <3> QED
      BY <3>1, <3>2, <3>3
  <2> QED
    BY <1>1, <1>7, <1>11, <2>1 DEF NotForgotten
<1>13. Timely'
  <2>1. waited \in Nat /\ snd.timePassed \in Nat /\ waited + 0 = waited
    BY <1>1 DEF QInv, Timely, QueueOK
  <2>2. waited' = 0 \/ waited' = waited
    BY <1>7, <2>1 DEF Becomes
  <2>3. CASE t.outstandings = q /\ t.timePassed = snd.timePassed
    <3>1. t.outstandings # << >> => waited' <= t.timePassed
      BY <2>1, <2>2, <2>3 DEF QInv, Timely
    <3> QED
      BY <1>11, <2>1, <2>2, <3>1 DEF Timely
  <2>4. CASE t.outstandings = << >>
    BY <1>11, <2>1, <2>2, <2>4 DEF Timely
  <2>5. CASE t.outstandings # << >> /\ t.timePassed = 0 /\ t.outstandings[1] # q[1] /\ q # << >>
    <3>1. Head(t.outstandings) = t.outstandings[1] /\ Head(q) = q[1]
      <4>1. t.outstandings \in Seq(Segments) /\ q \in Seq(Segments)
        BY <1>1, <1>4 DEF QueueOK
      <4> QED
        BY <4>1, <2>5
    <3>2. waited' = 0
      BY <1>7, <2>5, <3>1 DEF Becomes
    <3> QED
      BY <1>11, <2>5, <3>2 DEF Timely
  <2> QED
    BY <1>4, <2>3, <2>4, <2>5 DEF Shrinks
<1>14. newest' \in [ack : Nat, edge : Nat] /\ reordered' \in BOOLEAN
  <2>1. newest \in [ack : Nat, edge : Nat] /\ a + w \in Nat
    BY <1>3 DEF QInv
  <2> QED
    BY <1>3, <1>7, <1>8, <2>1
<1>15. ~reordered' => InStep(snd', newest')
  <2>1. SUFFICES ASSUME ~reordered, ~late PROVE InStep(t, [ack |-> a, edge |-> a + w])
    BY <1>7, <1>8, <1>9, KeptOK
  <2> DEFINE new == [ack |-> a, edge |-> a + w]
             r == snd.window_right
  <2>2. InStep(snd, newest)
    BY <2>1 DEF QInv
  <2>3. new.ack = a /\ new.edge = a + w
    OBVIOUS
  <2> HIDE DEF new
  <2>4. a >= newest.ack /\ a + w >= newest.edge
    BY <1>3, <2>1
  <2>5. a + w - 1 >= r
    BY <1>3, <2>2, <2>4 DEF InStep
  <2>6. t.window_right = a + w - 1
    BY <1>3, <1>4, <2>5
  <2>7. t.probing => n = t.window_right + 2
    <3>1. SUFFICES ASSUME snd.probing, ~(a + w - 1 > r) PROVE n = t.window_right + 2
      BY <1>4
    <3>2. n = r + 2 /\ t.window_right = r
      BY <1>4, <2>2, <3>1 DEF InStep
    <3> QED
      BY <3>2
  <2>8. t.outstandings = << >> => a = n
    <3>1. CASE t.outstandings = q /\ q = << >>
      <4>1. newest.ack = 0 => n = 0
        BY <2>2, <3>1 DEF InStep
      <4>2. newest.ack # 0 => newest.ack = n
        BY <2>2, <3>1 DEF InStep
      <4> QED
        BY <1>3, <2>4, <4>1, <4>2
    <3>2. CASE t.outstandings = << >> /\ q # << >>
      <4>1. n <= a
        BY <1>4, <3>2 DEF Shrinks
      <4> QED
        BY <1>3, <4>1
    <3> QED
      BY <1>4, <3>1, <3>2 DEF Shrinks
  <2>9. new.ack # 0 /\ new.ack <= n /\ new.ack <= new.edge /\ new.edge = t.window_right + 1
        /\ w = new.edge - new.ack
    BY <1>3, <2>3, <2>6
  <2>10. InStep(t, new)
    BY <1>4, <1>5, <2>3, <2>7, <2>8, <2>9 DEF InStep
  <2> QED
    BY <2>10 DEF new
<1> QED
  BY <1>9, <1>10, <1>12, <1>13, <1>14, <1>15 DEF QInv

\* The peer acknowledges more of what was sent.
LEMMA QInvPeerAcks ==
  ASSUME QInv, Inv', NEW a \in 1 .. snd.next_seqno, NEW edge \in a .. a + MaxWindow, PeerAcks(a, edge)
  PROVE  QInv'
<1> DEFINE n == snd.next_seqno
           new == [ackno |-> wrap(a, ISN), win |-> edge - a]
<1>1. n \in Nat /\ peer.ack \in Nat /\ a \in Nat /\ a >= 1 /\ a <= n
  BY DEF QInv, Inv, SenderOK
<1>2. /\ a >= peer.ack /\ peer' = [ack |-> a, edge |-> edge] /\ acks' = acks \cup {new}
      /\ UNCHANGED <<snd, waited, newest, reordered>>
  BY DEF PeerAcks
<1>3. peer'.ack = a
  BY <1>2
<1>4. NotForgotten'
  <2>1. IF snd.outstandings = << >> THEN a = n ELSE Pos(snd.outstandings[1]) <= a
    <3>1. CASE snd.outstandings = << >>
      BY <1>1, <1>2, <3>1 DEF QInv, NotForgotten
    <3>2. CASE snd.outstandings # << >>
      <4>1. snd.outstandings \in Seq(Segments)
        BY DEF QInv, QueueOK
      <4>2. Len(snd.outstandings) \in Nat \ {0}
        BY <3>2, <4>1, EmptySeq
      <4>3. 1 \in 1 .. Len(snd.outstandings)
        BY <4>2
      <4>4. Pos(snd.outstandings[1]) \in Nat
        BY <4>3 DEF QInv, QueueOK, SegmentOK
      <4>5. Pos(snd.outstandings[1]) <= peer.ack
        BY <3>2 DEF QInv, NotForgotten
      <4> QED
        BY <1>1, <1>2, <3>2, <4>4, <4>5
    <3> QED
      BY <3>1, <3>2
  <2>2. ASSUME NEW ack \in acks' PROVE \E x \in 1 .. a : ack.ackno = wrap(x, ISN)
    <3>1. CASE ack \in acks
      <4>1. PICK x \in 1 .. peer.ack : ack.ackno = wrap(x, ISN)
        BY <3>1 DEF QInv, NotForgotten
      <4>2. x \in 1 .. a
        BY <1>1, <1>2
      <4> QED
        BY <4>1, <4>2
    <3>2. CASE ack = new
      <4>1. a \in 1 .. a /\ ack.ackno = wrap(a, ISN)
        BY <1>1, <3>2
      <4> QED
        BY <4>1
    <3> QED
      BY <1>2, <3>1, <3>2
  <2> QED
    BY <1>1, <1>2, <1>3, <2>1, <2>2 DEF NotForgotten
<1>5. Timely'
  BY <1>2 DEF QInv, Timely
<1> QED
  BY <1>2, <1>4, <1>5 DEF QInv

\* The constructor establishes the invariant.
LEMMA QInvInit == Init => QInv
<1> SUFFICES ASSUME Init PROVE QInv
  OBVIOUS
<1>1. Inv
  BY InvInit
<1>2. /\ snd.segments_out = << >> /\ snd.outstandings = << >> /\ snd.in_flights = 0
      /\ snd.next_seqno = 0 /\ snd.timePassed = 0 /\ snd.window = 1 /\ snd.window_right = 0
      /\ snd.fin_sent = FALSE /\ snd.probing = FALSE /\ snd.stream.buffer = << >>
  BY DEF Init, New, BS!New
<1>3. << >> \in Seq(Segments) /\ Len(<< >>) = 0
  BY EmptySeq
<1>4. QueueOK(snd)
  <2>1. \A i \in 1 .. Len(snd.outstandings) : FALSE
    BY <1>2, <1>3
  <2>2. Chain(snd.outstandings, snd.next_seqno)
    BY <2>1 DEF Chain
  <2>3. \A i \in 1 .. Len(snd.stream.buffer) : FALSE
    BY <1>2, <1>3
  <2>4. BytesOK(snd.stream)
    BY <2>3 DEF BytesOK
  <2>5. snd.in_flights = Occupied(snd.outstandings, snd.next_seqno)
    BY <1>2 DEF Occupied
  <2>6. snd.fin_sent \in BOOLEAN /\ ~snd.fin_sent
    BY <1>2, Zenon
  <2>7. snd.timePassed \in Nat /\ snd.outstandings \in Seq(Segments)
    BY <1>2, <1>3
  <2> QED
    BY <2>1, <2>2, <2>4, <2>5, <2>6, <2>7 DEF QueueOK
<1>5. peer.ack = 0 /\ acks = {} /\ newest = [ack |-> 0, edge |-> 0] /\ reordered = FALSE /\ waited = 0
  BY DEF Init
<1>6. NotForgotten /\ Timely
  BY <1>2, <1>5 DEF NotForgotten, Timely
<1>7. newest \in [ack : Nat, edge : Nat] /\ newest.ack = 0 /\ newest.edge = 0
  BY <1>5
<1>8. InStep(snd, newest)
  BY <1>2, <1>7 DEF InStep
<1>9. reordered \in BOOLEAN
  BY <1>5, Zenon
<1> QED
  BY <1>1, <1>2, <1>4, <1>6, <1>7, <1>8, <1>9 DEF QInv

\* Every step preserves it.
LEMMA QInvNext == QInv /\ [Next]_vars => QInv'
<1> SUFFICES ASSUME QInv, [Next]_vars PROVE QInv'
  OBVIOUS
<1>1. Inv'
  BY InvNext DEF QInv
<1>2. CASE \E n \in 1 .. Capacity : Write(n)
  BY <1>1, <1>2, QInvWrite
<1>3. CASE EndInput
  BY <1>1, <1>3, QInvEndInput
<1>4. CASE FillWindow
  BY <1>1, <1>4, QInvFillWindow
<1>5. CASE SendEmptySegment \/ SendEmptySegmentRST
  BY <1>1, <1>5, QInvEmptySegment
<1>6. CASE \E ms \in 1 .. MaxTick : Tick(ms)
  BY <1>1, <1>6, QInvTick
<1>7. ASSUME NEW ack \in acks, AckReceived(ack) PROVE QInv'
  BY <1>1, <1>7, QInvAckReceived
<1>8. ASSUME NEW ack \in acks, LoseAck(ack) PROVE QInv'
  BY <1>1, <1>8 DEF LoseAck, QInv, NotForgotten, Timely
<1>9. ASSUME NEW a \in 1 .. snd.next_seqno, NEW edge \in a .. a + MaxWindow, PeerAcks(a, edge)
      PROVE  QInv'
  BY <1>1, <1>9, QInvPeerAcks
<1>10. CASE UNCHANGED vars
  BY <1>1, <1>10 DEF vars, QInv, NotForgotten, Timely
<1> QED
  BY <1>2, <1>3, <1>4, <1>5, <1>6, <1>7, <1>8, <1>9, <1>10 DEF Next

\* So the invariant always holds.
LEMMA Invariance == Spec => []QInv
<1>1. Init => QInv
  BY QInvInit
<1>2. QInv /\ [Next]_vars => QInv'
  BY QInvNext
<1> QED
  BY <1>1, <1>2, PTL DEF Spec

--------------------------------------------------------------------------------

\* The positions that the properties speak of.
LEMMA StartEnd ==
  ASSUME QInv, NEW i \in 1 .. Len(snd.outstandings)
  PROVE  LET seg == snd.outstandings[i]
         IN  /\ SegmentOK(seg, snd.stream) /\ Start(seg) = Pos(seg) /\ End(seg) = After(seg)
<1> DEFINE seg == snd.outstandings[i]
<1>1. StreamOK(snd.stream) /\ SegmentOK(seg, snd.stream)
  BY DEF QInv, Inv, SenderOK, QueueOK
<1>2. Start(seg) = Pos(seg)
  BY <1>1, StartIsPos DEF Start
<1>3. End(seg) = After(seg)
  BY <1>2 DEF End, After
<1> QED
  BY <1>1, <1>2, <1>3

\* bytes_in_flight is exactly what is between the oldest outstanding number and next_seqno,
\* and the outstanding segments follow each other without gap or overlap.
THEOREM CountsExactly == Spec => []InFlightExact
<1>1. QInv => InFlightExact
  <2> SUFFICES ASSUME QInv PROVE InFlightExact
    OBVIOUS
  <2> DEFINE q == snd.outstandings
  <2>1. /\ q \in Seq(Segments) /\ Len(q) \in Nat /\ Chain(q, snd.next_seqno) /\ snd.next_seqno \in Nat
        /\ snd.in_flights = Occupied(q, snd.next_seqno)
    BY LenProperties DEF QInv, Inv, SenderOK, QueueOK
  <2>2. snd.in_flights = TotalLength(q)
    BY <2>1, ChainLength
  <2>3. ASSUME NEW i \in 1 .. Len(q)
        PROVE  End(q[i]) = IF i < Len(q) THEN Start(q[i + 1]) ELSE snd.next_seqno
    <3>1. End(q[i]) = After(q[i])
      BY StartEnd
    <3>2. After(q[i]) = IF i < Len(q) THEN Pos(q[i + 1]) ELSE snd.next_seqno
      BY <2>1, Zenon DEF Chain
    <3>3. i < Len(q) => Start(q[i + 1]) = Pos(q[i + 1])
      <4>1. i < Len(q) => i + 1 \in 1 .. Len(q)
        BY <2>1
      <4> QED
        BY <4>1, StartEnd
    <3> QED
      BY <3>1, <3>2, <3>3
  <2> QED
    BY <2>2, <2>3 DEF InFlightExact
<1> QED
  BY <1>1, Invariance, PTL

\* Whatever acknowledgments arrive, ack_received drops no segment that the peer has not
\* acknowledged.
THEOREM ForgetsNothing == Spec => []NothingForgotten
<1>1. QInv => NothingForgotten
  <2> SUFFICES ASSUME QInv, peer.ack < snd.next_seqno
               PROVE  snd.outstandings # << >> /\ Start(Head(snd.outstandings)) <= peer.ack
    BY DEF NothingForgotten
  <2> DEFINE q == snd.outstandings
  <2>1. peer.ack \in Nat /\ snd.next_seqno \in Nat
    BY DEF QInv, Inv, SenderOK
  <2>2. q # << >> /\ Pos(q[1]) <= peer.ack
    BY <2>1 DEF QInv, NotForgotten
  <2>3. q \in Seq(Segments)
    BY DEF QInv, QueueOK
  <2>4. Len(q) \in Nat \ {0}
    BY <2>2, <2>3, EmptySeq
  <2>5. 1 \in 1 .. Len(q) /\ Head(q) = q[1]
    BY <2>3, <2>4
  <2>6. Start(q[1]) = Pos(q[1])
    BY <2>5, StartEnd
  <2> QED
    BY <2>2, <2>5, <2>6
<1> QED
  BY <1>1, Invariance, PTL

\* Every segment that fill_window makes, the probe of a closed window included, carries the
\* bytes of the stream that its sequence number stands for, the SYN and the FIN in their place.
THEOREM SendsTheStream == Spec => []SegmentsFaithful
<1>1. QInv => SegmentsFaithful
  <2> SUFFICES ASSUME QInv, NEW i \in 1 .. Len(snd.outstandings)
               PROVE  LET seg == snd.outstandings[i]
                      IN  /\ seg.syn = (Start(seg) = 0)
                          /\ \A j \in 1 .. Len(seg.payload) :
                               seg.payload[j] = Start(seg) + One(seg.syn) + j - 1
                          /\ Len(seg.payload) <= MAX_PAYLOAD_SIZE
                          /\ seg.fin => BS!eof(snd.stream)
                                        /\ End(seg) = BS!bytes_written(snd.stream) + 2
    BY DEF SegmentsFaithful
  <2> DEFINE seg == snd.outstandings[i]
  <2>1. SegmentOK(seg, snd.stream) /\ Start(seg) = Pos(seg) /\ End(seg) = After(seg)
    BY StartEnd
  <2>2. StreamOK(snd.stream)
    BY DEF QInv, Inv, SenderOK
  <2>3. /\ BS!bytes_written(snd.stream) = snd.stream.written
        /\ BS!eof(snd.stream) <=> snd.stream.end /\ Len(snd.stream.buffer) = 0
    BY <2>2, Counters
  <2> HIDE DEF seg
  <2>4. seg.fin => BS!eof(snd.stream) /\ End(seg) = BS!bytes_written(snd.stream) + 2
    BY <2>1, <2>3 DEF SegmentOK
  <2> QED
    BY <2>1, <2>4 DEF SegmentOK, seg
<1> QED
  BY <1>1, Invariance, PTL

\* The timer has counted all the time that the oldest segment has been waiting, also when
\* acknowledgments restart it and an empty queue leaves it with its old value.
THEOREM RetransmitsInTime == Spec => []NeverLate
<1>1. QInv => NeverLate
  BY DEF QInv, Timely, NeverLate
<1> QED
  BY <1>1, Invariance, PTL

\* As long as acknowledgments are not reordered, a full window and a closed one have a
\* segment in flight whose acknowledgment can open it.
THEOREM AlwaysInFlight == Spec => []NeverStuck
<1>1. QInv => NeverStuck
  <2> SUFFICES ASSUME QInv, ~reordered
               PROVE  /\ (snd.next_seqno = snd.window_right + 1 /\ snd.window # 0)
                           => snd.outstandings # << >>
                      /\ (snd.window = 0 /\ (~BS!buffer_empty(snd.stream) \/ ReadyToFin(snd)))
                           => fill_window(snd).outstandings # << >>
    BY DEF NeverStuck
  <2> DEFINE n == snd.next_seqno
             r == snd.window_right
  <2>1. SenderOK(snd) /\ QueueOK(snd) /\ InStep(snd, newest)
    BY DEF QInv, Inv
  <2>2. /\ n \in Nat /\ r \in Nat /\ newest.ack \in Nat /\ newest.edge \in Nat
        /\ snd.probing \in BOOLEAN
    BY <2>1 DEF QInv, SenderOK
  <2>3. ASSUME n = r + 1, snd.window # 0 PROVE snd.outstandings # << >>
    <3>1. SUFFICES ASSUME snd.outstandings = << >> PROVE FALSE
      OBVIOUS
    <3>2. CASE newest.ack = 0
      BY <2>1, <2>2, <2>3, <3>1, <3>2 DEF InStep
    <3>3. CASE newest.ack # 0
      <4>1. newest.ack = n /\ newest.edge = r + 1 /\ snd.window = newest.edge - newest.ack
        BY <2>1, <3>1, <3>3 DEF InStep
      <4> QED
        BY <2>2, <2>3, <4>1
    <3> QED
      BY <3>2, <3>3
  <2>4. ASSUME snd.window = 0, ~BS!buffer_empty(snd.stream) \/ ReadyToFin(snd)
        PROVE  fill_window(snd).outstandings # << >>
    <3>1. CASE ~snd.probing
      BY <2>1, <2>4, <3>1, FillWindowQueue
    <3>2. CASE snd.probing
      <4>1. /\ newest.ack # 0 /\ newest.edge = r + 1 /\ n = r + 2 /\ newest.ack <= newest.edge
            /\ snd.outstandings = << >> => newest.ack = n
        BY <2>1, <2>4, <3>2 DEF InStep
      <4>2. snd.outstandings # << >> /\ n > r
        BY <2>2, <4>1
      <4>3. fill_window(snd) = snd
        BY <2>1, <3>2, <4>2, FillWindowQueue
      <4> QED
        BY <4>2, <4>3
    <3> QED
      BY <3>1, <3>2
  <2> QED
    BY <2>3, <2>4
<1> QED
  BY <1>1, Invariance, PTL

\* What tick sends again is the segment that the peer is waiting for, or one before it.
THEOREM SendsAgainWhatIsMissing == Spec => RetransmitsOldest
<1> DEFINE A == \A ms \in 1 .. MaxTick : Tick(ms) =>
                  LET out == tick(snd, ms).segments_out
                  IN  \A i \in 1 .. Len(out) : Start(out[i]) <= peer.ack \/ peer.ack = snd.next_seqno
<1>1. QInv /\ [Next]_vars => [A]_vars
  <2> SUFFICES ASSUME QInv, NEW ms \in 1 .. MaxTick, NEW i \in 1 .. Len(tick(snd, ms).segments_out)
               PROVE  Start(tick(snd, ms).segments_out[i]) <= peer.ack
    BY Zenon
  <2> DEFINE q == snd.outstandings
             out == tick(snd, ms).segments_out
  <2>1. DOMAIN snd = Fields /\ snd.segments_out = << >> /\ q \in Seq(Segments)
    BY DEF QInv, Inv, SenderOK, QueueOK
  <2>2. out = << >> \/ (q # << >> /\ out = Append(<< >>, Head(q)))
    BY <2>1 DEF tick, Expire, Fields
  <2> HIDE DEF out
  <2>3. q # << >> /\ out = <<Head(q)>>
    <3>1. i \in 1 .. Len(out)
      BY DEF out
    <3>2. out # << >>
      BY <3>1
    <3> QED
      BY <2>2, <3>2
  <2>4. Len(q) \in Nat \ {0}
    BY <2>1, <2>3, EmptySeq
  <2>5. 1 \in 1 .. Len(q) /\ Head(q) = q[1]
    BY <2>1, <2>4
  <2>6. out[i] = q[1]
    <3>1. i \in 1 .. Len(out)
      BY DEF out
    <3> QED
      BY <2>3, <2>5, <3>1
  <2>7. Start(q[1]) = Pos(q[1])
    BY <2>5, StartEnd
  <2>8. Pos(q[1]) <= peer.ack
    BY <2>3 DEF QInv, NotForgotten
  <2> QED
    BY <2>6, <2>7, <2>8 DEF out
<1>2. Spec => [][A]_vars
  BY <1>1, Invariance, PTL DEF Spec
<1> QED
  BY <1>2 DEF RetransmitsOldest

--------------------------------------------------------------------------------
\* What goes out to the peer, for the composition of two endpoints (ConnectionProofs).

\* A segment without sequence numbers: an acknowledgment or a RST.
Bare(seg, n) ==
  /\ seg.payload = << >> /\ ~seg.syn /\ ~seg.fin
  /\ \E a \in 0 .. n : seg.seqno = wrap(a, ISN)

\* A segment that the sender s can have sent: of what it has read from the stream, or none.
Sendable(s, seg) ==
  /\ seg \in Segments
  /\ \/ /\ SegmentOK(seg, s.stream) /\ After(seg) <= s.next_seqno
        /\ After(seg) <= s.stream.total_read + 1 + One(seg.fin)
     \/ Bare(seg, s.next_seqno)

\* Once the FIN was sent, it is the last of the outstanding segments.
FinLast(s) ==
  (s.outstandings # << >> /\ s.next_seqno = s.stream.total_read + 2)
    => s.outstandings[Len(s.outstandings)].fin

\* Nothing in the queues acknowledges anything yet: the connection stamps what it sends.
WireOK(s) ==
  /\ s.segments_out \in Seq(Segments)
  /\ \A i \in 1 .. Len(s.segments_out) : Sendable(s, s.segments_out[i]) /\ ~s.segments_out[i].ack
  /\ \A i \in 1 .. Len(s.outstandings) : ~s.outstandings[i].ack
  /\ FinLast(s)

Endpoint(s) == SenderOK(s) /\ QueueOK(s) /\ WireOK(s)

\* t is s some calls later: nothing that was sent or ended is taken back.
Onward(s, t) ==
  /\ s.next_seqno <= t.next_seqno /\ s.stream.total_read <= t.stream.total_read
  /\ (s.stream.end /\ s.stream.buffer = << >>)
       => t.stream.end /\ t.stream.buffer = << >> /\ t.stream.written = s.stream.written

\* The numbers of a sender.
LEMMA SenderNumbers ==
  ASSUME NEW s, SenderOK(s)
  PROVE  /\ s.next_seqno \in Nat /\ s.stream.total_read \in Nat /\ s.stream.written \in Nat
         /\ s.stream.total_read <= s.stream.written /\ s.stream.written <= MaxBytes
         /\ s.next_seqno <= s.stream.total_read + 2 /\ DOMAIN s = Fields
         /\ StreamOK(s.stream) /\ s.isn = ISN
         /\ s.stream.buffer \in Seq(Nat) /\ Len(s.stream.buffer) \in Nat
         /\ s.stream.buffer = << >> => s.stream.total_read = s.stream.written
<1>1. StreamOK(s.stream) /\ s.next_seqno \in Nat /\ Numbered(s) /\ DOMAIN s = Fields /\ s.isn = ISN
  BY DEF SenderOK
<1>2. /\ s.stream.total_read \in Nat /\ s.stream.written = s.stream.total_read + Len(s.stream.buffer)
      /\ s.stream.buffer \in Seq(Nat) /\ Len(s.stream.buffer) \in Nat
      /\ s.stream.written <= MaxBytes
  BY <1>1, Counters DEF StreamOK
<1>3. s.stream.buffer = << >> => Len(s.stream.buffer) = 0
  OBVIOUS
<1>4. s.next_seqno <= s.stream.total_read + 2
  BY <1>1, <1>2 DEF Numbered
<1> QED
  BY <1>1, <1>2, <1>3, <1>4

\* What could be sent remains so.
LEMMA SendableLater ==
  ASSUME NEW s, NEW t, SenderOK(s), SenderOK(t), Onward(s, t), NEW seg, Sendable(s, seg)
  PROVE  Sendable(t, seg)
<1>1. /\ s.next_seqno \in Nat /\ t.next_seqno \in Nat
      /\ s.stream.total_read \in Nat /\ t.stream.total_read \in Nat
      /\ s.next_seqno <= t.next_seqno /\ s.stream.total_read <= t.stream.total_read
  BY SenderNumbers DEF Onward
<1>2. CASE /\ SegmentOK(seg, s.stream) /\ After(seg) <= s.next_seqno
           /\ After(seg) <= s.stream.total_read + 1 + One(seg.fin)
  <2>1. SegmentOK(seg, t.stream)
    BY <1>2 DEF SegmentOK, Onward
  <2>2. After(seg) \in Nat /\ One(seg.fin) \in Nat
    BY <1>2, SegmentLength DEF SegmentOK, After, One
  <2>3. After(seg) <= t.stream.total_read + 1 + One(seg.fin) /\ After(seg) <= t.next_seqno
    BY <1>1, <1>2, <2>2
  <2> QED
    BY <2>1, <2>3 DEF Sendable
<1>3. CASE Bare(seg, s.next_seqno)
  <2>1. \A a \in 0 .. s.next_seqno : a \in 0 .. t.next_seqno
    BY <1>1
  <2>2. Bare(seg, t.next_seqno)
    BY <1>3, <2>1 DEF Bare
  <2> QED
    BY <2>2 DEF Sendable
<1> QED
  BY <1>2, <1>3 DEF Sendable

\* What is outstanding can be sent again.
LEMMA QueueSendable ==
  ASSUME NEW s, SenderOK(s), QueueOK(s), FinLast(s), NEW i \in 1 .. Len(s.outstandings)
  PROVE  Sendable(s, s.outstandings[i])
<1> DEFINE q == s.outstandings
           n == s.next_seqno
           r == s.stream.total_read
           l == Len(q)
<1>1. n \in Nat /\ r \in Nat /\ n <= r + 2
  BY SenderNumbers
<1>2. q \in Seq(Segments) /\ Chain(q, n) /\ SegmentOK(q[i], s.stream)
  BY DEF QueueOK
<1>3. /\ l \in Nat /\ q[i] \in Segments /\ After(q[i]) \in Nat /\ After(q[i]) <= n
      /\ i < l => After(q[i]) < n
  <2>1. /\ l \in Nat /\ q[i] \in Segments /\ After(q[i]) \in Nat /\ After(q[i]) <= n
    BY <1>1, <1>2, ChainOrder
  <2>2. ASSUME i < l PROVE After(q[i]) < n
    <3>1. l \in 1 .. l
      BY <2>1, <2>2
    <3>2. After(q[i]) <= Pos(q[l]) /\ Pos(q[l]) < After(q[l]) /\ After(q[l]) <= n
          /\ Pos(q[l]) \in Nat /\ After(q[l]) \in Nat
      BY <1>1, <1>2, <2>2, <3>1, ChainOrder
    <3> QED
      BY <1>1, <2>1, <3>2
  <2> QED
    BY <2>1, <2>2
<1>4. n = r + 2 => q[l].fin
  <2>1. q # << >>
    BY <1>3
  <2> QED
    BY <2>1 DEF FinLast
<1>5. One(q[i].fin) \in Nat /\ (q[i].fin => One(q[i].fin) = 1)
  BY DEF One
<1> HIDE DEF q, n, r, l
<1>6. After(q[i]) <= r + 1 + One(q[i].fin)
  <2>1. CASE i < l
    BY <1>1, <1>3, <1>5, <2>1
  <2>2. CASE i = l
    BY <1>1, <1>3, <1>4, <1>5, <2>2
  <2>3. i <= l
    BY <1>3 DEF l, q
  <2> QED
    BY <1>3, <2>1, <2>2, <2>3
<1> QED
  BY <1>2, <1>3, <1>6 DEF Sendable, q, r, n

\* t is s after the segments segs were launched.
Launched(s, t, segs) ==
  /\ segs \in Seq(Segments) /\ segs # << >>
  /\ t.outstandings = s.outstandings \o segs
  /\ t.segments_out = s.segments_out \o segs
  /\ \A i \in 1 .. Len(segs) : ~segs[i].ack
  /\ t.next_seqno = t.stream.total_read + 2 => segs[Len(segs)].fin

\* Then it is in order as well.
LEMMA LaunchedOK ==
  ASSUME NEW s, Endpoint(s), NEW t, SenderOK(t), QueueOK(t), Onward(s, t),
         NEW segs, Launched(s, t, segs)
  PROVE  Endpoint(t)
<1> DEFINE q == s.outstandings
           o == s.segments_out
<1>1. /\ q \in Seq(Segments) /\ o \in Seq(Segments) /\ segs \in Seq(Segments)
      /\ Len(q) \in Nat /\ Len(o) \in Nat /\ Len(segs) \in Nat /\ Len(segs) >= 1
      /\ t.outstandings = q \o segs /\ t.segments_out = o \o segs
      /\ SenderOK(s) /\ QueueOK(s)
  BY LenProperties, EmptySeq DEF Launched, Endpoint, WireOK, QueueOK
<1>2. ASSUME NEW x \in Seq(Segments)
      PROVE  /\ x \o segs \in Seq(Segments) /\ Len(x \o segs) = Len(x) + Len(segs)
             /\ \A i \in 1 .. Len(x) + Len(segs) :
                  \/ i \in 1 .. Len(x) /\ (x \o segs)[i] = x[i]
                  \/ i - Len(x) \in 1 .. Len(segs) /\ (x \o segs)[i] = segs[i - Len(x)]
  <2>1. /\ x \o segs \in Seq(Segments) /\ Len(x \o segs) = Len(x) + Len(segs)
        /\ \A i \in 1 .. Len(x) + Len(segs) :
             (x \o segs)[i] = IF i <= Len(x) THEN x[i] ELSE segs[i - Len(x)]
    BY <1>1, ConcatProperties
  <2>2. Len(x) \in Nat
    BY LenProperties
  <2> QED
    BY <1>1, <2>1, <2>2
<1>3. ASSUME NEW i \in 1 .. Len(t.outstandings) PROVE ~t.outstandings[i].ack
  <2>1. \/ i \in 1 .. Len(q) /\ t.outstandings[i] = q[i]
        \/ i - Len(q) \in 1 .. Len(segs) /\ t.outstandings[i] = segs[i - Len(q)]
    BY <1>1, <1>2
  <2> QED
    BY <2>1 DEF Launched, Endpoint, WireOK
<1>4. FinLast(t)
  <2> SUFFICES ASSUME t.next_seqno = t.stream.total_read + 2
               PROVE  t.outstandings[Len(t.outstandings)].fin
    BY DEF FinLast
  <2>1. Len(t.outstandings) = Len(q) + Len(segs) /\ Len(q) + Len(segs) \in 1 .. Len(q) + Len(segs)
        /\ ~(Len(q) + Len(segs) <= Len(q)) /\ Len(q) + Len(segs) - Len(q) = Len(segs)
    BY <1>1, <1>2
  <2>2. t.outstandings[Len(t.outstandings)] = segs[Len(segs)]
    BY <1>1, <2>1, ConcatProperties
  <2> QED
    BY <2>2 DEF Launched
<1>5. ASSUME NEW i \in 1 .. Len(t.segments_out)
      PROVE  Sendable(t, t.segments_out[i]) /\ ~t.segments_out[i].ack
  <2>1. CASE i \in 1 .. Len(o) /\ t.segments_out[i] = o[i]
    <3>1. Sendable(s, o[i]) /\ ~o[i].ack
      BY <2>1 DEF Endpoint, WireOK
    <3> QED
      BY <1>1, <2>1, <3>1, SendableLater
  <2>2. CASE i - Len(o) \in 1 .. Len(segs) /\ t.segments_out[i] = segs[i - Len(o)]
    <3> DEFINE j == i - Len(o)
               k == Len(q) + j
    <3>1. j \in 1 .. Len(segs) /\ k \in 1 .. Len(q) + Len(segs) /\ ~(k <= Len(q)) /\ k - Len(q) = j
      <4> DEFINE x == Len(q)
                 y == Len(segs)
      <4>1. x \in Nat /\ y \in Nat /\ j \in 1 .. y /\ k = x + j
        BY <1>1, <2>2
      <4> HIDE DEF x, y, j, k
      <4>2. j \in 1 .. y /\ k \in 1 .. x + y /\ ~(k <= x) /\ k - x = j
        BY ONLY <4>1
      <4> QED
        BY <4>2 DEF x, y
    <3> HIDE DEF j, k
    <3>2. k \in 1 .. Len(t.outstandings) /\ t.outstandings[k] = segs[j]
      <4>1. q \in Seq(Segments) /\ segs \in Seq(Segments) /\ t.outstandings = q \o segs
        BY <1>1
      <4> HIDE DEF q
      <4>2. /\ Len(q \o segs) = Len(q) + Len(segs)
            /\ k \in 1 .. Len(q) + Len(segs) =>
                 (q \o segs)[k] = IF k <= Len(q) THEN q[k] ELSE segs[k - Len(q)]
        BY <4>1, ConcatProperties
      <4> QED
        BY <3>1, <4>1, <4>2
    <3>3. Sendable(t, segs[j])
      BY <1>4, <3>2, QueueSendable
    <3>4. ~segs[j].ack
      BY <3>1 DEF Launched
    <3> QED
      BY <2>2, <3>3, <3>4 DEF j
  <2> QED
    BY <1>1, <1>2, <2>1, <2>2
<1>6. t.segments_out \in Seq(Segments)
  BY <1>1, <1>2
<1> QED
  BY <1>3, <1>4, <1>5, <1>6 DEF Endpoint, WireOK

\* The loop of fill_window launches segments, the FIN last.
LEMMA FillLoopSends ==
  ASSUME NEW s, SenderOK(s), QueueOK(s)
  PROVE  LET t == FillLoop(s)
         IN  \/ t = s
             \/ /\ \E segs : Launched(s, t, segs)
                /\ Onward(s, t) /\ t.stream.error = s.stream.error
                /\ t.next_seqno - t.in_flights = s.next_seqno - s.in_flights
<1> DEFINE t == FillLoop(s)
           C == SegmentCount(s)
           segs == [i \in 1 .. C |-> NewSegment(s, i)]
           p == Payload(s)
           f == FinFits(s)
           size == One(s.next_seqno = 0) + p + One(f)
           c == BS!read(s.stream, p)
           sent == [s EXCEPT !.stream = BS!read(@, p), !.fin_sent = @ \/ f]
<1>1. CASE s.next_seqno > s.window_right \/ SegmentCount(s) = 0
  BY <1>1, Zenon DEF FillLoop
<1>2. CASE ~(s.next_seqno > s.window_right \/ SegmentCount(s) = 0)
  <2>1. Filling(s)
    <3>1. s.next_seqno \in Nat /\ s.window_right \in Nat
      BY DEF SenderOK
    <3> QED
      BY <1>2, <3>1 DEF Filling
  <2>2. t = Launch(sent, segs, size)
    BY <1>2, Zenon DEF FillLoop
  <2>3. /\ segs \in Seq(Segments) /\ segs # << >> /\ Len(segs) = C /\ size \in Nat
    BY <2>1, FillChain DEF Fresh
  <2>4. /\ s.next_seqno \in Nat /\ p \in 0 .. Len(s.stream.buffer) /\ f \in BOOLEAN
        /\ s.next_seqno + One(s.next_seqno = 0) = s.stream.total_read + 1
        /\ One(s.next_seqno = 0) \in Nat /\ One(f) \in Nat /\ (One(f) = 1 => f)
    BY <2>1, FillNumbers DEF One, FinFits
  <2>5. /\ s.stream.total_read \in Nat /\ Len(s.stream.buffer) \in Nat /\ DOMAIN s = Fields
        /\ StreamOK(s.stream) /\ BytesOK(s.stream)
        /\ s.in_flights \in Int
    <3>1. s.in_flights = Occupied(s.outstandings, s.next_seqno) /\ s.outstandings \in Seq(Segments)
          /\ Chain(s.outstandings, s.next_seqno) /\ BytesOK(s.stream)
      BY DEF QueueOK
    <3>2. s.outstandings # << >> => 1 \in 1 .. Len(s.outstandings)
      BY <3>1, EmptySeq, LenProperties
    <3>3. s.in_flights \in Int
      BY <2>4, <3>1, <3>2 DEF Occupied, Chain
    <3> QED
      BY <3>1, <3>3, SenderNumbers
  <2>6. \A i \in 1 .. C : ~NewSegment(s, i).ack
    BY DEF NewSegment, Segment
  <2>7. f => segs[Len(segs)].fin
    <3> HIDE DEF f, C
    <3>1. C \in 1 .. C
      <4> HIDE DEF segs
      <4>1. Len(segs) # 0 /\ Len(segs) \in Nat
        BY <2>3, EmptySeq, LenProperties
      <4> QED
        BY <2>3, <4>1
    <3>2. NewSegment(s, C).fin = (C = C /\ f)
      BY <2>1, <3>1, FillSegment, Zenon DEF C, f
    <3>3. segs[C] = NewSegment(s, C)
      BY <3>1
    <3> QED
      BY <2>3, <3>2, <3>3
  <2>8. /\ c.end = s.stream.end /\ c.written = s.stream.written
        /\ c.total_read = s.stream.total_read + p
        /\ (s.stream.buffer = << >> => c.buffer = << >>)
    <3> HIDE DEF p
    <3> QED
      BY <2>4, <2>5, ReadBytes
  <2>9. c.error = s.stream.error
    BY <2>5 DEF BS!read, BS!pop_output, StreamOK, BS!Streams
  <2>10. \A i \in 1 .. Len(segs) : ~segs[i].ack
    BY <2>3, <2>6
  <2> HIDE DEF segs, p, f, size, C
  <2>11. /\ t.stream = c /\ t.next_seqno = s.next_seqno + size /\ t.in_flights = s.in_flights + size
         /\ t.outstandings = s.outstandings \o segs /\ t.segments_out = s.segments_out \o segs
    BY <2>2, <2>5 DEF Launch, Fields
  <2> HIDE DEF t, c
  <2>12. t.next_seqno = t.stream.total_read + 2 => f
    <3>1. t.next_seqno = s.stream.total_read + 1 + p + One(f)
      <4> DEFINE n == s.next_seqno
                 x == One(n = 0)
                 y == One(f)
                 r == s.stream.total_read
      <4>1. /\ t.next_seqno = n + (x + p + y) /\ n + x = r + 1
            /\ n \in Nat /\ x \in Nat /\ y \in Nat /\ r \in Nat /\ p \in Nat
        BY <2>4, <2>5, <2>11 DEF size
      <4> HIDE DEF n, x, y, r
      <4>2. t.next_seqno = r + 1 + p + y
        BY ONLY <4>1
      <4> QED
        BY <4>2 DEF r, y
    <3>2. t.stream.total_read = s.stream.total_read + p
      BY <2>8, <2>11
    <3> DEFINE z == t.next_seqno
               x == t.stream.total_read
               r == s.stream.total_read
               y == One(f)
    <3>3. z = r + 1 + p + y /\ x = r + p /\ r \in Nat /\ p \in Nat /\ y \in Nat
      BY <2>4, <2>5, <3>1, <3>2
    <3>4. y = 1 => f
      BY <2>4
    <3> HIDE DEF z, x, r, y
    <3>5. z = x + 2 => y = 1
      BY ONLY <3>3
    <3> QED
      BY <3>4, <3>5 DEF z, x
  <2>13. Launched(s, t, segs)
    BY <2>3, <2>7, <2>10, <2>11, <2>12 DEF Launched
  <2>14. Onward(s, t)
    <3>1. s.next_seqno <= t.next_seqno
      BY <2>3, <2>4, <2>11
    <3>2. s.stream.total_read <= t.stream.total_read
      BY <2>4, <2>5, <2>8, <2>11
    <3> QED
      BY <2>8, <2>11, <3>1, <3>2 DEF Onward
  <2>15. t.next_seqno - t.in_flights = s.next_seqno - s.in_flights
    BY <2>3, <2>4, <2>5, <2>11
  <2> QED
    BY <2>9, <2>11, <2>13, <2>14, <2>15 DEF t
<1> QED
  BY <1>1, <1>2

\* The probe of a closed window launches one.
LEMMA ProbeSends ==
  ASSUME NEW s, SenderOK(s), QueueOK(s), s.window = 0, ~s.probing,
         ~BS!buffer_empty(s.stream) \/ ReadyToFin(s)
  PROVE  LET t == send_one_byte_segment([s EXCEPT !.probing = TRUE], BS!buffer_empty(s.stream))
         IN  /\ \E segs : Launched(s, t, segs)
             /\ Onward(s, t) /\ t.stream.error = s.stream.error
             /\ t.next_seqno - t.in_flights = s.next_seqno - s.in_flights
<1> DEFINE b == s.stream
           n == s.next_seqno
           f == BS!buffer_empty(b)
           t == send_one_byte_segment([s EXCEPT !.probing = TRUE], f)
           c == IF f THEN b ELSE BS!read(b, 1)
           seg == [Segment EXCEPT !.seqno = wrap(n, ISN), !.fin = f,
                                  !.payload = IF f THEN << >> ELSE BS!peek_output(b, 1)]
           q == s.outstandings
<1>1. /\ DOMAIN s = Fields /\ StreamOK(b) /\ BytesOK(b) /\ n \in Nat /\ n # 0 /\ s.isn = ISN
      /\ q \in Seq(Segments) /\ Numbered(s) /\ b.buffer \in Seq(Nat) /\ Len(b.buffer) \in Nat
      /\ b.total_read \in Nat
  BY SenderNumbers DEF SenderOK, QueueOK
<1>2. f \in BOOLEAN /\ (f <=> Len(b.buffer) = 0)
  BY <1>1 DEF BS!buffer_empty, BS!buffer_size
<1>3. ~f => b.buffer # << >> /\ n = b.total_read + 1
  BY <1>1, <1>2 DEF Numbered
<1>4. QueueOK(t) /\ t.next_seqno = n + 1
  BY ProbeQueue
<1>5. /\ seg.ack = FALSE /\ seg.fin = f
  BY DEF Segment
<1>6. /\ c.end = b.end /\ c.written = b.written /\ c.error = b.error
      /\ c.total_read = b.total_read + (IF f THEN 0 ELSE 1)
      /\ (b.buffer = << >> => c.buffer = << >>)
  <2>1. CASE f
    BY <1>1, <2>1
  <2>2. CASE ~f
    <3>1. 1 \in 0 .. Len(b.buffer)
      BY <1>1, <1>2, <2>2
    <3>2. BS!read(b, 1).error = b.error
      BY <1>1 DEF BS!read, BS!pop_output, StreamOK, BS!Streams
    <3>3. /\ BS!read(b, 1).end = b.end /\ BS!read(b, 1).written = b.written
          /\ BS!read(b, 1).total_read = b.total_read + 1
          /\ (b.buffer = << >> => BS!read(b, 1).buffer = << >>)
      BY <1>1, <3>1, ReadBytes
    <3> QED
      BY <2>2, <3>2, <3>3
  <2> QED
    BY <2>1, <2>2
<1>7. /\ t.stream = c /\ t.in_flights = s.in_flights + 1
      /\ t.outstandings = q \o <<seg>> /\ t.segments_out = s.segments_out \o <<seg>>
  BY <1>1 DEF send_one_byte_segment, Launch, next_seqno, Fields
<1> HIDE DEF t, c, seg, f
<1>8. seg \in Segments
  <2>1. /\ Len(q) \in Nat /\ t.outstandings \in Seq(Segments)
    BY <1>1, <1>4, LenProperties DEF QueueOK
  <2>2. t.outstandings = Append(q, seg)
    BY <1>1, <1>7
  <2>3. Len(Append(q, seg)) = Len(q) + 1 /\ Append(q, seg)[Len(q) + 1] = seg
    BY <1>1, AppendProperties
  <2>4. Len(q) + 1 \in 1 .. Len(q) + 1
    BY <2>1
  <2> QED
    BY <2>1, <2>2, <2>3, <2>4, ElementOfSeq
<1>9. /\ <<seg>> \in Seq(Segments) /\ <<seg>> # << >> /\ Len(<<seg>>) = 1 /\ <<seg>>[1] = seg
  BY <1>8
<1>10. t.next_seqno = t.stream.total_read + 2 => seg.fin
  BY <1>1, <1>2, <1>3, <1>4, <1>5, <1>6, <1>7
<1>11. Launched(s, t, <<seg>>)
  BY <1>5, <1>7, <1>9, <1>10 DEF Launched
<1>12. Onward(s, t)
  <2>1. n <= t.next_seqno /\ b.total_read <= t.stream.total_read
    BY <1>1, <1>4, <1>6, <1>7
  <2> QED
    BY <1>6, <1>7, <2>1 DEF Onward
<1>13. t.next_seqno - t.in_flights = n - s.in_flights
  <2>1. s.in_flights \in Int
    <3>1. s.in_flights = Occupied(q, n) /\ Chain(q, n)
      BY DEF QueueOK
    <3>2. q # << >> => 1 \in 1 .. Len(q)
      BY <1>1, EmptySeq, LenProperties
    <3> QED
      BY <1>1, <3>1, <3>2 DEF Occupied, Chain
  <2>2. /\ t.next_seqno = n + 1 /\ t.in_flights = s.in_flights + 1 /\ n \in Nat
    BY <1>1, <1>4, <1>7
  <2> HIDE DEF n
  <2> QED
    BY ONLY <2>1, <2>2
<1> QED
  BY <1>6, <1>7, <1>11, <1>12, <1>13 DEF t, f

\* The numbers before the oldest outstanding segment have been acknowledged.
Acknowledged(s) == s.next_seqno - s.in_flights

\* fill_window keeps the endpoint in order and forgets nothing.
LEMMA EndpointFill ==
  ASSUME NEW s, Endpoint(s)
  PROVE  LET t == fill_window(s)
         IN  /\ Endpoint(t) /\ Onward(s, t) /\ t.stream.error = s.stream.error
             /\ Acknowledged(t) = Acknowledged(s)
<1> DEFINE t == fill_window(s)
           probe == s.window = 0 /\ ~s.probing /\ (~BS!buffer_empty(s.stream) \/ ReadyToFin(s))
<1>1. SenderOK(s) /\ QueueOK(s)
  BY DEF Endpoint
<1>2. SenderOK(t) /\ QueueOK(t)
  BY <1>1, FillWindowOK, FillWindowQueue
<1>3. \/ t = s
      \/ /\ \E segs : Launched(s, t, segs)
         /\ Onward(s, t) /\ t.stream.error = s.stream.error
         /\ t.next_seqno - t.in_flights = s.next_seqno - s.in_flights
  <2>1. CASE probe
    <3>1. t = send_one_byte_segment([s EXCEPT !.probing = TRUE], BS!buffer_empty(s.stream))
      BY <2>1, Zenon DEF fill_window
    <3> QED
      BY <1>1, <2>1, <3>1, ProbeSends
  <2>2. CASE ~probe
    <3>1. t = FillLoop(s)
      BY <2>2, Zenon DEF fill_window
    <3> QED
      BY <1>1, <3>1, FillLoopSends
  <2> QED
    BY <2>1, <2>2
<1> HIDE DEF t
<1>4. CASE t = s
  <2>1. s.next_seqno <= s.next_seqno /\ s.stream.total_read <= s.stream.total_read
    BY <1>1, SenderNumbers
  <2>2. Onward(s, s)
    BY <2>1 DEF Onward
  <2> QED
    BY <1>4, <2>2 DEF t
<1>5. CASE t # s
  <2>1. PICK segs : Launched(s, t, segs)
    BY <1>3, <1>5
  <2>2. Endpoint(t)
    BY <1>2, <1>3, <1>5, <2>1, LaunchedOK
  <2> QED
    BY <1>3, <1>5, <2>2 DEF Acknowledged, t
<1> QED
  BY <1>4, <1>5

\* An acknowledgment of what was sent keeps it in order, and makes it forget nothing else.
LEMMA EndpointAck ==
  ASSUME NEW s, Endpoint(s), NEW a \in 1 .. s.next_seqno, NEW w \in 0 .. MaxWindow
  PROVE  LET t == ack_received(s, wrap(a, ISN), w)
         IN  /\ Endpoint(t) /\ Onward(s, t) /\ t.stream = s.stream
             /\ t.next_seqno = s.next_seqno
             /\ Acknowledged(t) = Acknowledged(s) \/ Acknowledged(t) <= a
<1> DEFINE t == ack_received(s, wrap(a, ISN), w)
           b == s.stream
           q == s.outstandings
           n == s.next_seqno
           k == Acked(s, a)
           right == Size(a + w - 1)
           moved == right > s.window_right
           popped == [s EXCEPT !.window       = w,
                               !.window_right = IF moved THEN right ELSE @,
                               !.probing      = Probing(s, moved),
                               !.outstandings = SubSeq(@, k + 1, Len(@)),
                               !.in_flights   = @ - TotalLength(SubSeq(s.outstandings, 1, k))]
           rest == SubSeq(q, k + 1, Len(q))
<1>1. /\ SenderOK(s) /\ QueueOK(s) /\ DOMAIN s = Fields /\ s.isn = ISN /\ StreamOK(b)
      /\ n \in Nat /\ a \in Nat /\ a >= 1 /\ a <= n /\ n <= b.total_read + 2
      /\ b.total_read \in Nat /\ b.total_read <= MaxBytes
      /\ q \in Seq(Segments) /\ Len(q) \in Nat
  BY SenderNumbers, Constants, LenProperties DEF Endpoint, QueueOK
<1>2. SenderOK(t) /\ t.next_seqno = n
  BY <1>1, AckOK
<1>3. QueueOK(t) /\ Shrinks(s, t, a)
  BY <1>1, AckQueue
<1>4. unwrap(wrap(a, ISN), s.isn, BS!bytes_read(b)) = a
  <2>1. BS!bytes_read(b) = b.total_read
    BY <1>1, Counters
  <2>2. a <= MaxBytes + 2 /\ b.total_read <= MaxBytes + 2
    BY <1>1, Constants
  <2> QED
    BY <1>1, <2>1, <2>2, PosOfWrap
<1>5. t = Timer(popped, k)
  <2>1. ~(a > n)
    BY <1>1
  <2> QED
    BY <1>4, <2>1, Zenon DEF ack_received
<1>6. k \in 0 .. Len(q)
  BY <1>1, AckedPrefix
<1> HIDE DEF k, moved, right
<1>7. /\ t.stream = b /\ t.segments_out = s.segments_out /\ t.outstandings = rest
  <2>1. /\ DOMAIN popped = Fields /\ popped.stream = b /\ popped.segments_out = s.segments_out
        /\ popped.outstandings = rest
    BY <1>1 DEF Fields
  <2> HIDE DEF popped, rest
  <2> QED
    BY <1>5, <2>1 DEF Timer, Fields
<1> HIDE DEF t, popped
<1>8. /\ Len(rest) = Len(q) - k
      /\ \A i \in 1 .. Len(q) - k : rest[i] = q[k + i]
  <2> DEFINE l == Len(q)
  <2>1. \A i \in 1 .. l : q[i] \in Segments
    BY <1>1, ElementOfSeq
  <2>2. l \in Nat /\ k \in 0 .. l /\ (\A i \in k + 1 .. l : q[i] \in Segments)
    BY <1>1, <1>6, <2>1
  <2>3. /\ Len(rest) = IF k + 1 <= l THEN l - (k + 1) + 1 ELSE 0
        /\ \A i \in 1 .. l - (k + 1) + 1 : rest[i] = q[(k + 1) + i - 1]
    BY <2>2, SubSeqProperties
  <2>4. /\ l - (k + 1) + 1 = l - k /\ (IF k + 1 <= l THEN l - k ELSE 0) = l - k
        /\ \A i \in Int : (k + 1) + i - 1 = k + i
    BY <2>2
  <2> HIDE DEF rest, l
  <2> QED
    BY <2>2, <2>3, <2>4 DEF l
<1>9. Onward(s, t)
  BY <1>1, <1>2, <1>7 DEF Onward
<1>10. \A i \in 1 .. Len(rest) : ~rest[i].ack
  <2>1. \A i \in 1 .. Len(q) - k : k + i \in 1 .. Len(q)
    BY <1>1, <1>6
  <2> HIDE DEF rest
  <2> QED
    BY <1>8, <2>1 DEF Endpoint, WireOK
<1>11. FinLast(t)
  <2> SUFFICES ASSUME rest # << >>, n = b.total_read + 2 PROVE rest[Len(rest)].fin
    BY <1>2, <1>7 DEF FinLast
  <2>1. Len(rest) # 0
    BY <1>1, <1>6, EmptySeq
  <2>2. Len(q) - k \in 1 .. Len(q) - k /\ k + (Len(q) - k) = Len(q) /\ Len(q) # 0
    BY <1>1, <1>6, <1>8, <2>1
  <2>3. q # << >>
    BY <2>2
  <2> HIDE DEF rest
  <2>4. rest[Len(rest)] = q[Len(q)]
    BY <1>8, <2>2
  <2> QED
    BY <2>3, <2>4 DEF Endpoint, WireOK, FinLast
<1>12. ASSUME NEW seg, Sendable(s, seg) PROVE Sendable(t, seg)
  BY <1>1, <1>2, <1>9, <1>12, SendableLater
<1>13. Endpoint(t)
  BY <1>2, <1>3, <1>7, <1>10, <1>11, <1>12 DEF Endpoint, WireOK
<1>14. Acknowledged(t) = Acknowledged(s) \/ Acknowledged(t) <= a
  <2>1. /\ s.in_flights = Occupied(q, n) /\ t.in_flights = Occupied(rest, n)
        /\ rest \in Seq(Segments) /\ Chain(rest, n)
    BY <1>2, <1>3, <1>7 DEF QueueOK, Endpoint
  <2>2. CASE rest = q
    BY <1>2, <2>1, <2>2 DEF Acknowledged
  <2>3. CASE rest # q /\ rest = << >>
    <3>1. n <= a
      BY <1>3, <1>7, <2>3 DEF Shrinks
    <3>2. Acknowledged(t) = n
      BY <1>1, <1>2, <2>1, <2>3 DEF Acknowledged, Occupied
    <3> QED
      BY <3>1, <3>2
  <2>4. CASE rest # q /\ rest # << >>
    <3>1. Pos(rest[1]) <= a
      BY <1>3, <1>7, <2>4 DEF Shrinks
    <3>2. 1 \in 1 .. Len(rest)
      BY <2>1, <2>4, EmptySeq, LenProperties
    <3>3. Pos(rest[1]) \in Nat
      BY <2>1, <3>2 DEF Chain
    <3>4. Acknowledged(t) = Pos(rest[1])
      <4> DEFINE z == Pos(rest[1])
      <4>1. Acknowledged(t) = n - (n - z) /\ n \in Nat /\ z \in Nat
        BY <1>1, <1>2, <2>1, <2>4, <3>3 DEF Acknowledged, Occupied
      <4> HIDE DEF z, n
      <4>2. Acknowledged(t) = z
        BY ONLY <4>1
      <4> QED
        BY <4>2 DEF z
    <3> QED
      BY <3>1, <3>4
  <2> QED
    BY <2>2, <2>3, <2>4
<1> QED
  BY <1>2, <1>7, <1>9, <1>13, <1>14 DEF t

\* A call that changes only the timer and appends at most one sendable segment to
\* segments_out keeps it in order.
LEMMA EndpointAppends ==
  ASSUME NEW s, Endpoint(s), NEW t, Same(s, t), t.outstandings = s.outstandings,
         t.in_flights = s.in_flights, t.fin_sent = s.fin_sent, t.timePassed \in Nat,
         \/ t.segments_out = s.segments_out
         \/ t.segments_out = << >>
         \/ \E seg : /\ t.segments_out = Append(s.segments_out, seg)
                     /\ Sendable(s, seg) /\ ~seg.ack
  PROVE  /\ Endpoint(t) /\ Onward(s, t) /\ t.stream = s.stream
         /\ Acknowledged(t) = Acknowledged(s)
<1> DEFINE o == s.segments_out
<1>1. SenderOK(s) /\ SenderOK(t) /\ QueueOK(s)
  BY SameOK DEF Endpoint
<1>2. t.stream = s.stream /\ t.next_seqno = s.next_seqno
  BY DEF Same
<1>3. QueueOK(t)
  BY <1>1, <1>2 DEF QueueOK
<1>4. Onward(s, t)
  <2>1. s.next_seqno \in Nat /\ s.stream.total_read \in Nat
    BY <1>1, SenderNumbers
  <2> QED
    BY <1>2, <2>1 DEF Onward
<1>5. ASSUME NEW seg, Sendable(s, seg) PROVE Sendable(t, seg)
  BY <1>2, <1>5 DEF Sendable
<1>6. o \in Seq(Segments) /\ Len(o) \in Nat
  BY LenProperties DEF Endpoint, WireOK
<1>7. /\ t.segments_out \in Seq(Segments)
      /\ \A i \in 1 .. Len(t.segments_out) :
           Sendable(t, t.segments_out[i]) /\ ~t.segments_out[i].ack
  <2>1. CASE t.segments_out = o
    BY <1>5, <2>1 DEF Endpoint, WireOK
  <2>2. CASE t.segments_out = << >>
    BY <2>2, EmptySeq
  <2>3. CASE \E seg : t.segments_out = Append(o, seg) /\ Sendable(s, seg) /\ ~seg.ack
    <3>1. PICK seg : t.segments_out = Append(o, seg) /\ Sendable(s, seg) /\ ~seg.ack
      BY <2>3
    <3>2. seg \in Segments
      BY <3>1 DEF Sendable
    <3>3. /\ Append(o, seg) \in Seq(Segments) /\ Len(Append(o, seg)) = Len(o) + 1
          /\ Append(o, seg)[Len(o) + 1] = seg
          /\ \A i \in 1 .. Len(o) : Append(o, seg)[i] = o[i]
      BY <1>6, <3>2, AppendProperties
    <3>4. \A i \in 1 .. Len(o) + 1 : i \in 1 .. Len(o) \/ i = Len(o) + 1
      BY <1>6
    <3> QED
      BY <1>5, <3>1, <3>3, <3>4 DEF Endpoint, WireOK
  <2> QED
    BY <2>1, <2>2, <2>3
<1>8. Endpoint(t)
  BY <1>1, <1>2, <1>3, <1>7 DEF Endpoint, WireOK, FinLast
<1> QED
  BY <1>2, <1>4, <1>8 DEF Acknowledged

\* An empty segment, with RST or without, is one.
LEMMA EmptySendable ==
  ASSUME NEW s, SenderOK(s), NEW f \in BOOLEAN
  PROVE  LET seg == [Segment EXCEPT !.seqno = next_seqno(s), !.rst = f]
         IN  Sendable(s, seg) /\ ~seg.ack
<1> DEFINE seg == [Segment EXCEPT !.seqno = next_seqno(s), !.rst = f]
<1>1. s.next_seqno \in Nat /\ next_seqno(s) = wrap(s.next_seqno, ISN)
  BY SenderNumbers DEF next_seqno
<1>2. wrap(s.next_seqno, ISN) \in Nat
  <2>1. wrap(s.next_seqno, ISN) \in WrappingInt32
    BY <1>1, Constants, OffsetOfWrap
  <2> QED
    BY <2>1, Constants DEF WrappingInt32
<1>3. seg \in Segments
  <2>1. Segment \in Segments
    BY EmptySeq DEF Segment, Segments
  <2> QED
    BY <1>1, <1>2, <2>1, Zenon DEF Segments
<1>4. /\ seg.payload = << >> /\ seg.syn = FALSE /\ seg.fin = FALSE /\ seg.ack = FALSE
      /\ seg.seqno = wrap(s.next_seqno, ISN)
  BY <1>1 DEF Segment
<1> HIDE DEF seg
<1>5. s.next_seqno \in 0 .. s.next_seqno
  BY <1>1
<1>6. Bare(seg, s.next_seqno)
  BY <1>4, <1>5 DEF Bare
<1> QED
  BY <1>3, <1>4, <1>6 DEF Sendable, seg

\* So sending one keeps the endpoint in order.
LEMMA EndpointEmpty ==
  ASSUME NEW s, Endpoint(s), NEW t, t \in {send_empty_segment(s), send_empty_segment_RST(s)}
  PROVE  /\ Endpoint(t) /\ Onward(s, t) /\ t.stream = s.stream
         /\ Acknowledged(t) = Acknowledged(s)
<1>1. DOMAIN s = Fields /\ SenderOK(s) /\ s.timePassed \in Nat
  BY SenderNumbers DEF Endpoint, QueueOK
<1>2. PICK f \in BOOLEAN :
        t = [s EXCEPT !.segments_out = Append(@, [Segment EXCEPT !.seqno = next_seqno(s), !.rst = f])]
  <2>1. CASE t = send_empty_segment(s)
    <3>1. [Segment EXCEPT !.seqno = next_seqno(s), !.rst = FALSE]
            = [Segment EXCEPT !.seqno = next_seqno(s)]
      <4> DEFINE n == next_seqno(s)
                 e == [Segment EXCEPT !.seqno = n]
      <4>1. DOMAIN e = DOMAIN Segment /\ e.rst = FALSE /\ "rst" \in DOMAIN e
        BY DEF Segment
      <4>2. [Segment EXCEPT !.seqno = n, !.rst = FALSE] = [e EXCEPT !.rst = FALSE]
        BY Zenon
      <4>3. e = [x \in DOMAIN e |-> e[x]]
        BY DEF Segment
      <4>4. [e EXCEPT !.rst = FALSE] = [x \in DOMAIN e |-> IF x = "rst" THEN FALSE ELSE e[x]]
        OBVIOUS
      <4> HIDE DEF e, n
      <4>5. [x \in DOMAIN e |-> IF x = "rst" THEN FALSE ELSE e[x]] = [x \in DOMAIN e |-> e[x]]
        BY <4>1
      <4> QED
        BY <4>2, <4>3, <4>4, <4>5 DEF e, n
    <3> QED
      BY <2>1, <3>1 DEF send_empty_segment
  <2>2. CASE t = send_empty_segment_RST(s)
    BY <2>2 DEF send_empty_segment_RST
  <2> QED
    BY <2>1, <2>2
<1> DEFINE seg == [Segment EXCEPT !.seqno = next_seqno(s), !.rst = f]
<1>3. Sendable(s, seg) /\ ~seg.ack
  BY <1>1, EmptySendable
<1> HIDE DEF seg
<1>4. /\ Same(s, t) /\ t.outstandings = s.outstandings /\ t.in_flights = s.in_flights
      /\ t.fin_sent = s.fin_sent /\ t.timePassed = s.timePassed
      /\ t.segments_out = Append(s.segments_out, seg)
  BY <1>1, <1>2 DEF Same, Fields, seg
<1> QED
  BY <1>1, <1>3, <1>4, EndpointAppends

\* A tick retransmits the oldest segment or nothing.
LEMMA EndpointTick ==
  ASSUME NEW s, Endpoint(s), NEW ms \in Nat
  PROVE  LET t == tick(s, ms)
         IN  /\ Endpoint(t) /\ Onward(s, t) /\ t.stream = s.stream
             /\ Acknowledged(t) = Acknowledged(s)
<1> DEFINE t == tick(s, ms)
           passed == s.timePassed + ms
<1>1. /\ DOMAIN s = Fields /\ SenderOK(s) /\ QueueOK(s) /\ FinLast(s) /\ s.timePassed \in Nat
      /\ s.outstandings \in Seq(Segments) /\ s.segments_out \in Seq(Segments)
  BY SenderNumbers DEF Endpoint, QueueOK, WireOK
<1>2. Same(s, t)
  BY <1>1, TickSame
<1>3. CASE s.outstandings = << >>
  <2>1. t = s
    BY <1>3 DEF tick
  <2> QED
    BY <1>1, <1>2, <2>1, EndpointAppends
<1>4. CASE s.outstandings # << >> /\ passed >= s.RTO
  <2>1. t = Expire(s)
    BY <1>4 DEF tick
  <2>2. /\ t.outstandings = s.outstandings /\ t.in_flights = s.in_flights
        /\ t.fin_sent = s.fin_sent /\ t.timePassed = 0
        /\ t.segments_out = Append(s.segments_out, Head(s.outstandings))
    BY <1>1, <2>1 DEF Expire, Fields
  <2>3. 1 \in 1 .. Len(s.outstandings) /\ Head(s.outstandings) = s.outstandings[1]
    BY <1>1, <1>4, EmptySeq, LenProperties
  <2>4. Sendable(s, Head(s.outstandings)) /\ ~Head(s.outstandings).ack
    BY <1>1, <2>3, QueueSendable DEF Endpoint, WireOK
  <2> HIDE DEF t
  <2> QED
    BY <1>2, <2>2, <2>4, EndpointAppends DEF t
<1>5. CASE s.outstandings # << >> /\ ~(passed >= s.RTO)
  <2>1. t = [s EXCEPT !.timePassed = passed]
    BY <1>5 DEF tick
  <2>2. /\ t.outstandings = s.outstandings /\ t.in_flights = s.in_flights
        /\ t.fin_sent = s.fin_sent /\ t.timePassed = passed /\ t.segments_out = s.segments_out
    BY <1>1, <2>1 DEF Fields
  <2>3. passed \in Nat
    BY <1>1
  <2> HIDE DEF t
  <2> QED
    BY <1>2, <2>2, <2>3, EndpointAppends DEF t
<1> QED
  BY <1>3, <1>4, <1>5

\* The connection takes what is to be sent.
LEMMA EndpointDrained ==
  ASSUME NEW s, Endpoint(s)
  PROVE  LET t == [s EXCEPT !.segments_out = << >>]
         IN  /\ Endpoint(t) /\ Onward(s, t) /\ t.stream = s.stream
             /\ Acknowledged(t) = Acknowledged(s)
<1> DEFINE t == [s EXCEPT !.segments_out = << >>]
<1>1. DOMAIN s = Fields /\ s.timePassed \in Nat
  BY SenderNumbers DEF Endpoint, QueueOK
<1>2. /\ Same(s, t) /\ t.outstandings = s.outstandings /\ t.in_flights = s.in_flights
      /\ t.fin_sent = s.fin_sent /\ t.timePassed = s.timePassed /\ t.segments_out = << >>
  BY <1>1 DEF Same, Fields
<1> HIDE DEF t
<1> QED
  BY <1>1, <1>2, EndpointAppends DEF t

\* A call of the owner changes only the stream, and not what was read from it.
LEMMA EndpointStream ==
  ASSUME NEW s, Endpoint(s), NEW c, Later(s.stream, c), StreamOK(c),
         c.total_read = s.stream.total_read
  PROVE  LET t == [s EXCEPT !.stream = c]
         IN  /\ Endpoint(t) /\ Onward(s, t) /\ t.stream = c
             /\ t.next_seqno = s.next_seqno /\ Acknowledged(t) = Acknowledged(s)
<1> DEFINE t == [s EXCEPT !.stream = c]
<1>1. SenderOK(s) /\ QueueOK(s) /\ DOMAIN s = Fields
  BY SenderNumbers DEF Endpoint
<1>2. DOMAIN t = Fields /\ QueueOK(t)
  BY <1>1, StreamChange
<1>3. /\ t.isn = s.isn /\ t.stream = c /\ t.next_seqno = s.next_seqno /\ t.window = s.window
      /\ t.window_right = s.window_right /\ t.probing = s.probing
      /\ t.in_flights = s.in_flights /\ t.outstandings = s.outstandings
      /\ t.segments_out = s.segments_out
  BY <1>1 DEF Fields
<1> HIDE DEF t
<1>4. SenderOK(t)
  <2>1. Numbered(t)
    BY <1>1, <1>3 DEF SenderOK, Numbered, Later
  <2>2. Obeys(t)
    BY <1>1, <1>3 DEF SenderOK, Obeys
  <2> QED
    BY <1>1, <1>2, <1>3, <2>1, <2>2 DEF SenderOK
<1>5. Onward(s, t)
  <2>1. s.next_seqno \in Nat /\ s.stream.total_read \in Nat
    BY <1>1, SenderNumbers
  <2> QED
    BY <1>3, <2>1 DEF Onward, Later
<1>6. \A i \in 1 .. Len(t.segments_out) : Sendable(t, t.segments_out[i]) /\ ~t.segments_out[i].ack
  BY <1>1, <1>3, <1>4, <1>5, SendableLater DEF Endpoint, WireOK
<1>7. WireOK(t)
  BY <1>3, <1>6 DEF Endpoint, WireOK, FinLast
<1> QED
  BY <1>2, <1>3, <1>4, <1>5, <1>7 DEF Endpoint, Acknowledged, t

\* The owner writes.
LEMMA EndpointWrite ==
  ASSUME NEW s, Endpoint(s), ~s.stream.end, NEW n \in Nat, s.stream.written + n <= MaxBytes
  PROVE  LET c == BS!write(s.stream, [i \in 1 .. n |-> s.stream.written + i])
             t == [s EXCEPT !.stream = c]
         IN  /\ Endpoint(t) /\ Onward(s, t) /\ t.stream.error = s.stream.error
             /\ t.next_seqno = s.next_seqno /\ Acknowledged(t) = Acknowledged(s)
<1> DEFINE b == s.stream
           data == [i \in 1 .. n |-> b.written + i]
           c == BS!write(b, data)
<1>1. StreamOK(b) /\ BytesOK(b) /\ b.written \in Nat
  BY SenderNumbers DEF Endpoint, QueueOK
<1>2. BytesOK(c)
  BY <1>1, WriteBytes
<1>3. data \in Seq(Nat) /\ Len(data) = n
  BY <1>1
<1>4. c.error = b.error
  BY <1>1 DEF StreamOK, BS!write, BS!Streams
<1> HIDE DEF data
<1>5. StreamOK(c) /\ c.total_read = b.total_read
  BY <1>1, <1>3, StreamWrite
<1> HIDE DEF c
<1>6. Later(b, c)
  BY <1>2 DEF Later
<1> QED
  BY <1>4, <1>5, <1>6, EndpointStream DEF c, data

\* The owner ends the stream.
LEMMA EndpointEnd ==
  ASSUME NEW s, Endpoint(s)
  PROVE  LET t == [s EXCEPT !.stream = BS!end_input(s.stream)]
         IN  /\ Endpoint(t) /\ Onward(s, t) /\ t.stream.error = s.stream.error
             /\ t.next_seqno = s.next_seqno /\ Acknowledged(t) = Acknowledged(s)
<1> DEFINE b == s.stream
           c == BS!end_input(b)
<1>1. StreamOK(b) /\ BytesOK(b)
  BY SenderNumbers DEF Endpoint, QueueOK
<1>2. /\ c.end = TRUE /\ c.buffer = b.buffer /\ c.written = b.written
      /\ c.total_read = b.total_read /\ c.error = b.error
  BY <1>1 DEF StreamOK, BS!end_input, BS!Streams
<1>3. StreamOK(c)
  BY <1>1 DEF StreamOK, BS!end_input, BS!Streams
<1> HIDE DEF c
<1>4. Later(b, c)
  BY <1>1, <1>2 DEF Later, BytesOK
<1> QED
  BY <1>2, <1>3, <1>4, EndpointStream DEF c

\* The stream has failed.
LEMMA EndpointError ==
  ASSUME NEW s, Endpoint(s)
  PROVE  LET t == [s EXCEPT !.stream = BS!set_error(s.stream)]
         IN  /\ Endpoint(t) /\ Onward(s, t) /\ t.stream.error = TRUE
             /\ t.next_seqno = s.next_seqno /\ Acknowledged(t) = Acknowledged(s)
<1> DEFINE b == s.stream
           c == BS!set_error(b)
<1>1. StreamOK(b) /\ BytesOK(b)
  BY SenderNumbers DEF Endpoint, QueueOK
<1>2. /\ c.end = b.end /\ c.buffer = b.buffer /\ c.written = b.written
      /\ c.total_read = b.total_read /\ c.error = TRUE
  BY <1>1 DEF StreamOK, BS!set_error, BS!Streams
<1>3. StreamOK(c)
  BY <1>1 DEF StreamOK, BS!set_error, BS!Streams
<1> HIDE DEF c
<1>4. Later(b, c)
  BY <1>1, <1>2 DEF Later, BytesOK
<1> QED
  BY <1>2, <1>3, <1>4, EndpointStream DEF c

\* A new sender.
LEMMA EndpointNew ==
  LET s == New(Capacity, RetxTimeout, ISN)
  IN  /\ Endpoint(s) /\ s.next_seqno = 0 /\ Acknowledged(s) = 0 /\ s.stream.error = FALSE
<1> DEFINE s == New(Capacity, RetxTimeout, ISN)
<1>1. Capacity \in Nat /\ MaxBytes \in Nat /\ BS!Int32(Capacity) = Capacity
  <2>1. /\ Capacity \in Nat /\ Capacity < Half32 /\ MaxBytes \in Nat
        /\ Pow32 \in Nat \ {0} /\ Pow32 % 2 = 0
    BY SenderAssumption
  <2>2. Int32(Capacity) = Capacity
    BY <2>1, SmallConversions
  <2> QED
    BY <2>1, <2>2 DEF BS!Int32, Int32, BS!Half32, Half32
<1>2. /\ << >> \in Seq(Nat) /\ << >> \in Seq(Segments) /\ Len(<< >>) = 0
      /\ \A i \in 1 .. 0 : FALSE
  BY EmptySeq
<1>3. /\ DOMAIN s = Fields /\ s.isn = ISN /\ s.next_seqno = 0 /\ s.window_right = 0
      /\ s.window = 1 /\ s.probing = FALSE /\ s.stream = BS!New(Capacity)
      /\ s.segments_out = << >> /\ s.outstandings = << >> /\ s.in_flights = 0
      /\ s.timePassed = 0 /\ s.fin_sent = FALSE
  BY DEF New, Fields
<1>4. /\ BS!New(Capacity).capacity = Capacity /\ BS!New(Capacity).total_read = 0
      /\ BS!New(Capacity).written = 0 /\ BS!New(Capacity).buffer = << >>
      /\ BS!New(Capacity).error = FALSE
      /\ BS!New(Capacity) \in BS!Streams(Nat)
  BY <1>1, <1>2 DEF BS!New, BS!Streams
<1>5. StreamOK(BS!New(Capacity))
  BY <1>1, <1>2, <1>4 DEF StreamOK
<1> HIDE DEF s
<1>6. SenderOK(s)
  <2>1. Numbered(s) /\ Obeys(s)
    BY <1>3, <1>4 DEF Numbered, Obeys, One
  <2>2. /\ s.next_seqno \in Nat /\ s.window_right \in Nat /\ s.window \in Nat /\ s.window # 0
    BY <1>3
  <2>3. s.probing \in BOOLEAN
    BY <1>3, Zenon
  <2> QED
    BY <1>3, <1>5, <2>1, <2>2, <2>3, Zenon DEF SenderOK
<1>7. QueueOK(s)
  <2>1. Chain(s.outstandings, s.next_seqno) /\ BytesOK(s.stream)
    BY <1>2, <1>3, <1>4 DEF Chain, BytesOK
  <2>2. s.in_flights = Occupied(s.outstandings, s.next_seqno)
    BY <1>3 DEF Occupied
  <2>3. s.fin_sent \in BOOLEAN /\ ~s.fin_sent
    BY <1>3, Zenon
  <2>4. s.timePassed \in Nat /\ s.outstandings \in Seq(Segments) /\ Len(s.outstandings) = 0
    BY <1>2, <1>3
  <2> QED
    BY <1>2, <2>1, <2>2, <2>3, <2>4 DEF QueueOK
<1>8. WireOK(s)
  BY <1>2, <1>3 DEF WireOK, FinLast
<1> QED
  BY <1>3, <1>4, <1>6, <1>7, <1>8 DEF Endpoint, Acknowledged, s

================================================================================
