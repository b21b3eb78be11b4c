---------------------------- MODULE ConnectionProofs ---------------------------
(***************************************************************************)
(* EndToEnd, AckedIsReceived, CleanCloseIsComplete and, where no owner     *)
(* drops an open connection, FailsTogether, for every capacity, payload    *)
(* size, timeout, ISN and length of the two streams, over a network that   *)
(* loses, reorders and repeats.  The senders are those of QueueProofs, the *)
(* reassemblers those of ReassemblerProofs, whose lemmas are used through  *)
(* instances.                                                              *)
(***************************************************************************)
EXTENDS ConnectionSystem, WrappingProofs, SequenceTheorems

Isn(p) == Config(p).isn

\* The longer of the two streams bounds both; the i-th byte of either is the number i.
Longest == IF MaxBytes[Client] <= MaxBytes[Server] THEN MaxBytes[Server] ELSE MaxBytes[Client]
Numbers == [i \in 1 .. Longest |-> i]

\* The sender of the client and the one of the server.  Only lemmas about operators are
\* used, so what the variables stand for does not matter.
QC == INSTANCE QueueProofs WITH ISN <- ClientISN, MaxBytes <- Longest, MaxWindow <- Capacity,
        MaxAcks <- 0, MaxRetx <- 0, snd <- conn, peer <- conn, acks <- conn,
        waited <- conn, newest <- conn, reordered <- conn
QS == INSTANCE QueueProofs WITH ISN <- ServerISN, MaxBytes <- Longest, MaxWindow <- Capacity,
        MaxAcks <- 0, MaxRetx <- 0, snd <- conn, peer <- conn, acks <- conn,
        waited <- conn, newest <- conn, reordered <- conn

\* The reassembler of either.
RP == INSTANCE ReassemblerProofs WITH Byte <- Nat, Stream <- Numbers, r <- conn, received <- conn

--------------------------------------------------------------------------------
\* What is kept.

\* The sender of p between two calls.
Ready(p, s) == IF p = Client THEN QC!Endpoint(s) ELSE QS!Endpoint(s)

\* The numbers before the first outstanding one.
Acknowledged(s) == s.next_seqno - s.in_flights

\* Everything was written, read and sent, the FIN included.
Finished(s) ==
  s.stream.end /\ s.stream.buffer = << >> /\ s.next_seqno = s.stream.written + 2

\* Where the payload of a segment with sequence number n lies in the stream.
From(n) == IF n = 0 THEN 0 ELSE n - 1

\* seg is from the sender s of p: an empty one, or one of the numbers from n on, with SYN
\* only at 0, the bytes that belong there, and FIN only after the last one.
Carries(p, s, seg) ==
  \/ /\ seg.payload = << >> /\ ~seg.syn /\ ~seg.fin
     /\ \E n \in 0 .. s.next_seqno : seg.seqno = wrap(n, Isn(p))
  \/ \E n \in 0 .. s.next_seqno : \E hi \in From(n) .. s.stream.total_read :
       /\ seg.seqno = wrap(n, Isn(p)) /\ seg.syn = (n = 0)
       /\ seg.payload = SubSeq(Numbers, From(n) + 1, hi)
       /\ n = 0 => s.next_seqno > 0
       /\ seg.fin => Finished(s) /\ hi = s.stream.written

\* What the receiver r acknowledges: nothing before the SYN.
Acks(r) == IF r.syned THEN R!AbsAckno(r) ELSE 0

\* What a segment of the endpoint with the receiver r acknowledges was received.
Truthful(r, seg) ==
  seg.ack => /\ r.syned /\ seg.win \in 0 .. Capacity
             /\ \E a \in 1 .. R!AbsAckno(r) : seg.ackno = wrap(a, r.isn)

\* The receiver r of what the sender s of p sends, g being what its owner has read: it
\* holds only what was sent, and knows of no other end than that of a finished stream.
InOrder(p, s, r, g) ==
  LET re == r.reassembler
  IN  /\ DOMAIN r = {"reassembler", "isn", "syned"} /\ r.syned \in BOOLEAN
      /\ RP!ReassemblerOK(re) /\ RP!Reader(re, g)
      /\ r.syned => r.isn = Isn(p) /\ s.next_seqno > 0
      /\ RP!Held(re) \subseteq 0 .. s.stream.total_read - 1
      /\ re.endIdx # RP!SIZE_MAX => Finished(s) /\ re.endIdx = s.stream.written
      /\ re.output.end <=> re.output.written = re.endIdx
      /\ ~r.syned => re.output.written = 0 /\ ~re.output.end

ConnFields == {"sender", "receiver", "segments_out", "linger", "active", "since_time_wait",
               "rt_timeout"}

\* A connection that is over without an error has nothing left to do.
Closed(p) ==
  (~conn[p].active /\ ~Failed(p)) =>
    /\ Finished(Snd(p))
    /\ Rcv(p).reassembler.output.end /\ Rcv(Other(p)).reassembler.output.end

\* The inductive invariant.
Inv ==
  /\ DOMAIN conn = Peers /\ DOMAIN net = Peers /\ DOMAIN got = Peers
  /\ \A p \in Peers :
       /\ DOMAIN conn[p] = ConnFields /\ conn[p].segments_out = << >>
       /\ Ready(p, Snd(p))
       /\ InOrder(p, Snd(p), Rcv(Other(p)), got[Other(p)])
       /\ \A seg \in net[Other(p)] : Carries(p, Snd(p), seg) /\ Truthful(Rcv(p), seg)
       /\ Acknowledged(Snd(p)) <= Acks(Rcv(Other(p)))
       /\ Closed(p)

--------------------------------------------------------------------------------
\* What the instances assume.

\* What the constants are assumed to be.
LEMMA Constants ==
  /\ Client # Server /\ Client \in Peers /\ Server \in Peers
  /\ Longest \in Nat /\ Capacity \in Nat /\ Half32 \in Nat /\ Longest + Capacity + 2 < Half32
  /\ Pow32 \in Nat \ {0} /\ Pow32 % 2 = 0 /\ Pow16 \in Nat \ {0}
  /\ ClientISN \in WrappingInt32 /\ ServerISN \in WrappingInt32
  /\ \A p \in Peers : MaxBytes[p] \in Nat /\ MaxBytes[p] <= Longest
<1>1. /\ Client # Server /\ Client \in Peers /\ Server \in Peers
      /\ \A p \in Peers : MaxBytes[p] \in Nat /\ MaxBytes[p] + Capacity + 2 < Half32
      /\ Capacity \in Nat /\ Pow32 \in Nat \ {0} /\ Pow32 % 2 = 0 /\ Pow16 \in Nat \ {0}
      /\ ClientISN \in WrappingInt32 /\ ServerISN \in WrappingInt32
  BY ConnectionAssumption DEF Peers
<1>2. Half32 \in Nat
  BY <1>1, TwoHalves
<1>3. Longest \in {MaxBytes[Client], MaxBytes[Server]}
      /\ MaxBytes[Client] <= Longest /\ MaxBytes[Server] <= Longest
  <2>1. MaxBytes[Client] \in Nat /\ MaxBytes[Server] \in Nat
    BY <1>1
  <2> QED
    BY <2>1 DEF Longest
<1> QED
  BY <1>1, <1>2, <1>3 DEF Peers

\* The stream of all numbers that can be written.
LEMMA NumbersOK ==
  /\ Numbers \in Seq(Nat) /\ Len(Numbers) = Longest
  /\ \A i \in 1 .. Longest : Numbers[i] = i
<1>1. Longest \in Nat
  BY Constants
<1>2. \A i \in 1 .. Longest : i \in Nat
  BY <1>1
<1> QED
  BY <1>1, <1>2 DEF Numbers

\* What QueueProofs assumes of its constants.
LEMMA SenderAssumed == QC!SenderAssumption /\ QS!SenderAssumption
<1>1. QC!Half32 = Half32 /\ QS!Half32 = Half32
  BY DEF QC!Half32, QS!Half32, Half32
<1>2. QC!WrappingInt32 = WrappingInt32 /\ QS!WrappingInt32 = WrappingInt32
  BY DEF QC!WrappingInt32, QS!WrappingInt32, WrappingInt32
<1>3. /\ RetxTimeout \in Nat \ {0} /\ MAX_PAYLOAD_SIZE \in Nat \ {0} /\ MaxTick \in Nat
  BY ConnectionAssumption
<1>4. Capacity < Half32
  BY Constants
<1> QED
  BY <1>1, <1>2, <1>3, <1>4, Constants DEF QC!SenderAssumption, QS!SenderAssumption

\* What ReassemblerProofs assumes of its constants.
LEMMA ReassemblerAssumed == RP!ReassemblerAssumption /\ RP!NoOverflow /\ RP!N = Longest
<1>1. RP!Half32 = Half32
  BY DEF RP!Half32, Half32
<1>2. RP!N = Longest
  BY NumbersOK DEF RP!N
<1>3. Capacity < Half32 /\ Longest + Capacity < Half32
  BY Constants
<1> QED
  BY <1>1, <1>2, <1>3, Constants, NumbersOK DEF RP!ReassemblerAssumption, RP!NoOverflow

--------------------------------------------------------------------------------
\* Each operator that TCPConnection instantiates is the one of the same name that the
\* lemmas of QueueProofs and ReassemblerProofs are about.

\* Converting and reading counters.
LEMMA SameCounters ==
  ASSUME NEW b
  PROVE  /\ S!BS!bytes_written(b) = BS!bytes_written(b) /\ S!BS!bytes_read(b) = BS!bytes_read(b)
         /\ QC!BS!bytes_written(b) = BS!bytes_written(b) /\ QC!BS!bytes_read(b) = BS!bytes_read(b)
         /\ QS!BS!bytes_written(b) = BS!bytes_written(b) /\ QS!BS!bytes_read(b) = BS!bytes_read(b)
         /\ R!BS!bytes_written(b) = BS!bytes_written(b) /\ R!BS!bytes_read(b) = BS!bytes_read(b)
         /\ RP!BS!bytes_written(b) = BS!bytes_written(b) /\ RP!BS!bytes_read(b) = BS!bytes_read(b)
  BY DEF S!BS!bytes_written, S!BS!bytes_read, S!BS!Size, BS!bytes_written, BS!bytes_read, BS!Size,
         QC!BS!bytes_written, QC!BS!bytes_read, QC!BS!Size,
         QS!BS!bytes_written, QS!BS!bytes_read, QS!BS!Size,
         R!BS!bytes_written, R!BS!bytes_read, R!BS!Size,
         RP!BS!bytes_written, RP!BS!bytes_read, RP!BS!Size

\* Sequence numbers.
LEMMA SameWrap ==
  ASSUME NEW n, NEW i, NEW k
  PROVE  /\ S!wrap(n, i) = wrap(n, i) /\ QC!wrap(n, i) = wrap(n, i) /\ QS!wrap(n, i) = wrap(n, i)
         /\ R!wrap(n, i) = wrap(n, i)
         /\ S!unwrap(n, i, k) = unwrap(n, i, k) /\ QC!unwrap(n, i, k) = unwrap(n, i, k)
         /\ QS!unwrap(n, i, k) = unwrap(n, i, k) /\ R!unwrap(n, i, k) = unwrap(n, i, k)
  BY DEF S!wrap, QC!wrap, QS!wrap, R!wrap, wrap, unwrap, Offset, LastBelow,
         S!unwrap, S!Offset, S!LastBelow, QC!unwrap, QC!Offset, QC!LastBelow,
         QS!unwrap, QS!Offset, QS!LastBelow, R!unwrap, R!Offset, R!LastBelow

\* The constructor.
LEMMA SameNew ==
  ASSUME NEW c, NEW r, NEW i
  PROVE  /\ S!New(c, r, i) = QC!New(c, r, i) /\ S!New(c, r, i) = QS!New(c, r, i)
  BY DEF S!New, S!BS!New, S!BS!Int32, S!BS!Half32, QC!New, QC!BS!New, QC!BS!Int32, QC!BS!Half32,
         QS!New, QS!BS!New, QS!BS!Int32, QS!BS!Half32

\* Sending.
LEMMA SameFill ==
  ASSUME NEW s
  PROVE  /\ S!fill_window(s) = QC!fill_window(s) /\ S!fill_window(s) = QS!fill_window(s)
  BY DEF S!fill_window, S!send_one_byte_segment, S!FillLoop, S!Launch, S!NewSegment, S!Segment,
         S!next_seqno, S!wrap, S!One, S!Payload, S!Min, S!FinFits, S!SegmentCount, S!ReadyToFin,
         S!BS!peek_output, S!BS!read, S!BS!pop_output, S!BS!Int32, S!BS!Half32, S!BS!buffer_size,
         S!BS!buffer_empty, S!BS!input_ended, S!BS!eof, S!BS!bytes_written, S!BS!Size,
         QC!fill_window, QC!send_one_byte_segment, QC!FillLoop, QC!Launch, QC!NewSegment,
         QC!Segment, QC!next_seqno, QC!wrap, QC!One, QC!Payload, QC!Min, QC!FinFits,
         QC!SegmentCount, QC!ReadyToFin, QC!BS!peek_output, QC!BS!read, QC!BS!pop_output,
         QC!BS!Int32, QC!BS!Half32, QC!BS!buffer_size, QC!BS!buffer_empty, QC!BS!input_ended,
         QC!BS!eof, QC!BS!bytes_written, QC!BS!Size, QS!fill_window, QS!send_one_byte_segment,
         QS!FillLoop, QS!Launch, QS!NewSegment, QS!Segment, QS!next_seqno, QS!wrap, QS!One,
         QS!Payload, QS!Min, QS!FinFits, QS!SegmentCount, QS!ReadyToFin, QS!BS!peek_output,
         QS!BS!read, QS!BS!pop_output, QS!BS!Int32, QS!BS!Half32, QS!BS!buffer_size,
         QS!BS!buffer_empty, QS!BS!input_ended, QS!BS!eof, QS!BS!bytes_written, QS!BS!Size

\* What an acknowledgment takes from the queue.
LEMMA SameAcked ==
  ASSUME NEW s, NEW a
  PROVE  /\ S!Acked(s, a) = QC!Acked(s, a) /\ S!Acked(s, a) = QS!Acked(s, a)
  BY DEF S!Acked, S!Max, S!LastSeqno, S!unwrap, S!Offset, S!LastBelow, S!Size,
         S!length_in_sequence_space, S!One, S!BS!bytes_read, S!BS!Size, QC!Acked, QC!Max,
         QC!LastSeqno, QC!unwrap, QC!Offset, QC!LastBelow, QC!Size, QC!length_in_sequence_space,
         QC!One, QC!BS!bytes_read, QC!BS!Size, QS!Acked, QS!Max, QS!LastSeqno, QS!unwrap,
         QS!Offset, QS!LastBelow, QS!Size, QS!length_in_sequence_space, QS!One, QS!BS!bytes_read,
         QS!BS!Size

\* The numbers it occupied.
LEMMA SameTotalLength ==
  ASSUME NEW q
  PROVE  /\ S!TotalLength(q) = QC!TotalLength(q) /\ S!TotalLength(q) = QS!TotalLength(q)
  BY Zenon DEF S!TotalLength, S!Cardinality, S!length_in_sequence_space, S!One, QC!TotalLength,
         QC!Cardinality, QC!length_in_sequence_space, QC!One, QS!TotalLength, QS!Cardinality,
         QS!length_in_sequence_space, QS!One

\* The timer and the probe.
LEMMA SameTimer ==
  ASSUME NEW s, NEW n
  PROVE  /\ S!Timer(s, n) = QC!Timer(s, n) /\ S!Timer(s, n) = QS!Timer(s, n)
         /\ S!Probing(s, n) = QC!Probing(s, n) /\ S!Probing(s, n) = QS!Probing(s, n)
         /\ S!Size(n) = QC!Size(n) /\ S!Size(n) = QS!Size(n)
  BY DEF S!Timer, S!Probing, S!Size, QC!Timer, QC!Probing, QC!Size, QS!Timer, QS!Probing, QS!Size

\* Acknowledgments.
LEMMA SameAck ==
  ASSUME NEW s, NEW a, NEW w
  PROVE  /\ S!ack_received(s, a, w) = QC!ack_received(s, a, w)
         /\ S!ack_received(s, a, w) = QS!ack_received(s, a, w)
<1> DEFINE u == S!unwrap(a, s.isn, S!BS!bytes_read(s.stream))
           v == QC!unwrap(a, s.isn, QC!BS!bytes_read(s.stream))
           x == QS!unwrap(a, s.isn, QS!BS!bytes_read(s.stream))
<1>1. u = v /\ u = x
  BY SameWrap, SameCounters
<1> DEFINE r == S!Size(u + w - 1)
           k == S!Acked(s, u)
           n == S!TotalLength(SubSeq(s.outstandings, 1, k))
           popped == [s EXCEPT !.window       = w,
                               !.window_right = IF r > s.window_right THEN r ELSE s.window_right,
                               !.probing      = S!Probing(s, r > s.window_right),
                               !.outstandings = SubSeq(s.outstandings, k + 1, Len(s.outstandings)),
                               !.in_flights   = s.in_flights - n]
<1>2. /\ r = QC!Size(v + w - 1) /\ r = QS!Size(x + w - 1)
      /\ k = QC!Acked(s, v) /\ k = QS!Acked(s, x)
  BY <1>1, SameTimer, SameAcked
<1>3. /\ n = QC!TotalLength(SubSeq(s.outstandings, 1, QC!Acked(s, v)))
      /\ n = QS!TotalLength(SubSeq(s.outstandings, 1, QS!Acked(s, x)))
  BY <1>2, SameTotalLength
<1>4. /\ S!Probing(s, r > s.window_right) = QC!Probing(s, r > s.window_right)
      /\ S!Probing(s, r > s.window_right) = QS!Probing(s, r > s.window_right)
      /\ S!Timer(popped, k) = QC!Timer(popped, k) /\ S!Timer(popped, k) = QS!Timer(popped, k)
  BY SameTimer
<1>5. S!ack_received(s, a, w) = IF u > s.next_seqno THEN s ELSE S!Timer(popped, k)
  BY Zenon DEF S!ack_received
<1> DEFINE rc == QC!Size(v + w - 1)
           kc == QC!Acked(s, v)
           nc == QC!TotalLength(SubSeq(s.outstandings, 1, kc))
           pc == [s EXCEPT !.window       = w,
                           !.window_right = IF rc > s.window_right THEN rc ELSE s.window_right,
                           !.probing      = QC!Probing(s, rc > s.window_right),
                           !.outstandings = SubSeq(s.outstandings, kc + 1, Len(s.outstandings)),
                           !.in_flights   = s.in_flights - nc]
           rs == QS!Size(x + w - 1)
           ks == QS!Acked(s, x)
           ns == QS!TotalLength(SubSeq(s.outstandings, 1, ks))
           ps == [s EXCEPT !.window       = w,
                           !.window_right = IF rs > s.window_right THEN rs ELSE s.window_right,
                           !.probing      = QS!Probing(s, rs > s.window_right),
                           !.outstandings = SubSeq(s.outstandings, ks + 1, Len(s.outstandings)),
                           !.in_flights   = s.in_flights - ns]
<1>6. QC!ack_received(s, a, w) = IF v > s.next_seqno THEN s ELSE QC!Timer(pc, kc)
  BY Zenon DEF QC!ack_received
<1>7. QS!ack_received(s, a, w) = IF x > s.next_seqno THEN s ELSE QS!Timer(ps, ks)
  BY Zenon DEF QS!ack_received
<1>8. r = rc /\ r = rs /\ k = kc /\ k = ks /\ n = nc /\ n = ns
  BY <1>2, <1>3
<1> HIDE DEF u, v, x, r, k, n, rc, kc, nc, rs, ks, ns
<1>9. popped = pc /\ popped = ps
  BY <1>4, <1>8, Zenon
<1> HIDE DEF popped, pc, ps
<1> QED
  BY <1>1, <1>4, <1>5, <1>6, <1>7, <1>8, <1>9, Zenon

\* The timer and empty segments.
LEMMA SameTick ==
  ASSUME NEW s, NEW ms
  PROVE  /\ S!tick(s, ms) = QC!tick(s, ms) /\ S!tick(s, ms) = QS!tick(s, ms)
         /\ S!send_empty_segment(s) = QC!send_empty_segment(s)
         /\ S!send_empty_segment(s) = QS!send_empty_segment(s)
         /\ S!send_empty_segment_RST(s) = QC!send_empty_segment_RST(s)
         /\ S!send_empty_segment_RST(s) = QS!send_empty_segment_RST(s)
  BY DEF S!tick, S!Expire, S!send_empty_segment, S!send_empty_segment_RST, S!next_seqno, S!wrap,
         S!Segment, QC!tick, QC!Expire, QC!send_empty_segment, QC!send_empty_segment_RST,
         QC!next_seqno, QC!wrap, QC!Segment, QS!tick, QS!Expire, QS!send_empty_segment,
         QS!send_empty_segment_RST, QS!next_seqno, QS!wrap, QS!Segment

\* The calls of the owner on the stream of the sender.
LEMMA SameOwner ==
  ASSUME NEW b, NEW d
  PROVE  /\ BS!write(b, d) = QC!BS!write(b, d) /\ BS!write(b, d) = QS!BS!write(b, d)
         /\ BS!end_input(b) = QC!BS!end_input(b) /\ BS!end_input(b) = QS!BS!end_input(b)
         /\ BS!set_error(b) = QC!BS!set_error(b) /\ BS!set_error(b) = QS!BS!set_error(b)
  BY DEF BS!write, BS!accepted, BS!remaining_capacity, BS!buffer_size, BS!Int32, BS!Half32,
         BS!end_input, BS!set_error,
         QC!BS!write, QC!BS!accepted, QC!BS!remaining_capacity, QC!BS!buffer_size, QC!BS!Int32,
         QC!BS!Half32, QC!BS!end_input, QC!BS!set_error,
         QS!BS!write, QS!BS!accepted, QS!BS!remaining_capacity, QS!BS!buffer_size, QS!BS!Int32,
         QS!BS!Half32, QS!BS!end_input, QS!BS!set_error

\* The calls of the owner on the output of the receiver.
LEMMA SameReader ==
  ASSUME NEW b, NEW n
  PROVE  /\ BS!read(b, n) = RP!BS!read(b, n) /\ BS!peek_output(b, n) = RP!BS!peek_output(b, n)
         /\ BS!set_error(b) = RP!BS!set_error(b)
  BY DEF BS!read, BS!pop_output, BS!peek_output, BS!buffer_size, BS!Int32, BS!Half32, BS!set_error,
         RP!BS!read, RP!BS!pop_output, RP!BS!peek_output, RP!BS!buffer_size, RP!BS!Int32,
         RP!BS!Half32, RP!BS!set_error

\* A new reassembler.
LEMMA SameReassembler == ASSUME NEW c PROVE R!SR!New(c) = RP!New(c)
  BY DEF R!SR!New, RP!New, R!SR!BS!New, RP!BS!New, R!SR!BS!Int32, RP!BS!Int32,
         R!SR!BS!Half32, RP!BS!Half32, R!SR!SIZE_MAX, RP!SIZE_MAX

\* bytes_written reads the same counter.
LEMMA SameWritten == ASSUME NEW s PROVE R!SR!bytes_written(s) = RP!bytes_written(s)
  BY DEF R!SR!bytes_written, RP!bytes_written, R!SR!BS!bytes_written, RP!BS!bytes_written,
         R!SR!BS!Size, RP!BS!Size

\* Writing to the output.
LEMMA SameWrite == ASSUME NEW s, NEW d PROVE R!SR!BS!write(s, d) = RP!BS!write(s, d)
  BY DEF R!SR!BS!write, RP!BS!write, R!SR!BS!accepted, RP!BS!accepted,
         R!SR!BS!remaining_capacity, RP!BS!remaining_capacity,
         R!SR!BS!buffer_size, RP!BS!buffer_size, R!SR!BS!Int32, RP!BS!Int32,
         R!SR!BS!Half32, RP!BS!Half32

\* The places, bytes and overlaps of the stored substrings, and extremes.
LEMMA SameSets ==
  ASSUME NEW m, NEW a, NEW b
  PROVE  /\ R!SR!Left(m, a) = RP!Left(m, a)
         /\ R!SR!Stored(m, a) = RP!Stored(m, a)
         /\ R!SR!Touched(m, a, b) = RP!Touched(m, a, b)
         /\ R!SR!Max(a) = RP!Max(a) /\ R!SR!Min(a) = RP!Min(a)
<1>1. R!SR!Left(m, a) = RP!Left(m, a)
  BY DEF R!SR!Left, RP!Left
<1>2. R!SR!Stored(m, a) = RP!Stored(m, a)
  BY DEF R!SR!Stored, RP!Stored, R!SR!Left, RP!Left
<1>3. R!SR!Touched(m, a, b) = RP!Touched(m, a, b)
  BY DEF R!SR!Touched, RP!Touched, R!SR!Left, RP!Left
<1>4. R!SR!Max(a) = RP!Max(a) /\ R!SR!Min(a) = RP!Min(a)
  BY DEF R!SR!Max, RP!Max, R!SR!Min, RP!Min
<1> QED
  BY <1>1, <1>2, <1>3, <1>4

\* The count of the bytes under keys.
LEMMA SameBytes == ASSUME NEW m, NEW keys PROVE R!SR!Bytes(m, keys) = RP!Bytes(m, keys)
  BY Zenon DEF R!SR!Bytes, RP!Bytes, R!SR!Cardinality, RP!Cardinality

\* The substrings that continue the output.
LEMMA SameReady == ASSUME NEW s PROVE R!SR!Ready(s) = RP!Ready(s)
  BY SameWritten DEF R!SR!Ready, RP!Ready, R!SR!Left, RP!Left

\* Merging two substrings.
LEMMA SameCombine ==
  ASSUME NEW a, NEW b, NEW c, NEW d
  PROVE  R!SR!combine(a, b, c, d) = RP!combine(a, b, c, d)
  BY DEF R!SR!combine, RP!combine, R!SR!Join, RP!Join

\* Storing a substring.
LEMMA SameInsert ==
  ASSUME NEW s, NEW d, NEW a, NEW b
  PROVE  R!SR!Insert(s, d, a, b) = RP!Insert(s, d, a, b)
  BY SameSets, SameCombine, SameBytes, Zenon DEF R!SR!Insert, RP!Insert

\* Moving substrings to the output.
LEMMA SameFlush == ASSUME NEW s PROVE R!SR!Flush(s) = RP!Flush(s)
<1> DEFINE Y == RP!Ready(s)
           K == RP!Max(Y)
           w == RP!bytes_written(s)
           c == [i \in 1 .. K - w + 1 |-> RP!Stored(s.m, w + i - 1)]
           Z == R!SR!Ready(s)
           J == R!SR!Max(Z)
           v == R!SR!bytes_written(s)
           d == [i \in 1 .. J - v + 1 |-> R!SR!Stored(s.m, v + i - 1)]
<1>1. Y = Z /\ K = J /\ w = v
  BY SameReady, SameSets, SameWritten
<1>2. R!SR!Flush(s) = IF Z = {} THEN s
                    ELSE [s EXCEPT !.output = R!SR!BS!write(s.output, d),
                                   !.m = [k \in DOMAIN s.m \ Z |-> s.m[k]],
                                   !.unassembled = s.unassembled - R!SR!Bytes(s.m, Z)]
  BY Zenon DEF R!SR!Flush
<1>3. RP!Flush(s) = IF Y = {} THEN s
                    ELSE [s EXCEPT !.output = RP!BS!write(s.output, c),
                                   !.m = [k \in DOMAIN s.m \ Y |-> s.m[k]],
                                   !.unassembled = s.unassembled - RP!Bytes(s.m, Y)]
  BY Zenon DEF RP!Flush
<1> HIDE DEF Y, K, w, Z, J, v
<1>4. c = d
  BY <1>1, SameSets
<1> HIDE DEF c, d
<1> QED
  BY <1>1, <1>2, <1>3, <1>4, SameBytes, SameWrite, Zenon

\* Cutting, storing and moving.
LEMMA SameAddTempCash ==
  ASSUME NEW s, NEW d, NEW i
  PROVE  R!SR!AddTempCash(s, d, i) = RP!AddTempCash(s, d, i)
<1>1. \A x : R!SR!overflow(s, x) = RP!overflow(s, x) /\ R!SR!Edge(s) = RP!Edge(s)
  BY DEF R!SR!Edge, RP!Edge, R!SR!BS!bytes_read, RP!BS!bytes_read, R!SR!BS!Size, RP!BS!Size,
         R!SR!overflow, RP!overflow, R!SR!Int32, RP!Int32, R!SR!Half32, RP!Half32
<1> QED
  BY <1>1, SameWritten, SameFlush, SameInsert, Zenon DEF R!SR!AddTempCash, RP!AddTempCash

\* And so push_substring.
LEMMA SamePush ==
  ASSUME NEW s, NEW d, NEW i, NEW e
  PROVE  R!SR!push_substring(s, d, i, e) = RP!push_substring(s, d, i, e)
  BY SameAddTempCash, SameWritten, Zenon
  DEF R!SR!push_substring, RP!push_substring, R!SR!BS!end_input, RP!BS!end_input

--------------------------------------------------------------------------------
\* The sender of an endpoint, whichever it is.

\* The two endpoints.
LEMMA Sides ==
  ASSUME NEW p \in Peers
  PROVE  /\ \/ p = Client /\ Other(p) = Server /\ Isn(p) = ClientISN
            \/ p = Server /\ p # Client /\ Other(p) = Client /\ Isn(p) = ServerISN
         /\ Other(p) \in Peers /\ Other(Other(p)) = p /\ Other(p) # p
         /\ \A q \in Peers : q = p \/ q = Other(p)
         /\ Isn(p) \in WrappingInt32
<1>1. Client # Server /\ ClientISN \in WrappingInt32 /\ ServerISN \in WrappingInt32
  BY Constants
<1> QED
  BY <1>1 DEF Peers, Other, Isn, Config

\* t is s some calls later: nothing that was sent or ended is taken back.
Onward(s, t) ==
  /\ s.next_seqno <= t.next_seqno /\ s.stream.total_read <= t.stream.total_read
  /\ (s.stream.end /\ s.stream.buffer = << >>)
       => t.stream.end /\ t.stream.buffer = << >> /\ t.stream.written = s.stream.written

\* t is s, the sender of p, after calls that forgot nothing from n on.
Moves(p, s, t, n) ==
  /\ Ready(p, t) /\ Onward(s, t)
  /\ Acknowledged(s) <= n => Acknowledged(t) <= n

\* What the numbers of a sender are.
LEMMA ReadyFacts ==
  ASSUME NEW p \in Peers, NEW s, Ready(p, s)
  PROVE  /\ DOMAIN s = QC!Fields /\ s.isn = Isn(p)
         /\ s.next_seqno \in Nat /\ s.in_flights \in Int
         /\ s.stream.total_read \in Nat /\ s.stream.written \in Nat
         /\ s.stream.total_read <= s.stream.written /\ s.stream.written <= Longest
         /\ s.next_seqno <= s.stream.total_read + 2
         /\ s.next_seqno # 0 => s.stream.total_read + 1 <= s.next_seqno
         /\ s.next_seqno = 0 => s.stream.total_read = 0
         /\ s.next_seqno = s.stream.total_read + 2 => s.stream.end /\ s.stream.buffer = << >>
         /\ s.stream.buffer = << >> => s.stream.total_read = s.stream.written
         /\ s.stream.buffer \in Seq(Nat)
         /\ BS!bytes_written(s.stream) = s.stream.written
         /\ BS!bytes_read(s.stream) = s.stream.total_read
<1>1. CASE p = Client
  <2>1. QC!SenderOK(s) /\ QC!QueueOK(s)
    BY <1>1 DEF Ready, QC!Endpoint
  <2>2. /\ s.next_seqno \in Nat /\ s.stream.total_read \in Nat /\ s.stream.written \in Nat
        /\ s.stream.total_read <= s.stream.written /\ s.stream.written <= Longest
        /\ s.next_seqno <= s.stream.total_read + 2 /\ DOMAIN s = QC!Fields
        /\ QC!StreamOK(s.stream) /\ s.isn = ClientISN
        /\ s.stream.buffer \in Seq(Nat)
        /\ s.stream.buffer = << >> => s.stream.total_read = s.stream.written
    BY <2>1, SenderAssumed, QC!SenderNumbers
  <2>3. /\ QC!BS!bytes_written(s.stream) = s.stream.written
        /\ QC!BS!bytes_read(s.stream) = s.stream.total_read
    BY <2>2, SenderAssumed, QC!Counters
  <2>4. QC!Numbered(s)
    BY <2>1 DEF QC!SenderOK
  <2>5. s.in_flights \in Int
    <3>1. /\ s.in_flights = QC!Occupied(s.outstandings, s.next_seqno)
          /\ QC!Chain(s.outstandings, s.next_seqno) /\ s.outstandings \in Seq(QC!Segments)
      BY <2>1 DEF QC!QueueOK
    <3>2. s.outstandings # << >> => 1 \in 1 .. Len(s.outstandings)
      BY <3>1, EmptySeq, LenProperties
    <3> QED
      BY <2>2, <3>1, <3>2 DEF QC!Occupied, QC!Chain
  <2> QED
    BY <1>1, <2>2, <2>3, <2>4, <2>5, Sides, SameCounters DEF QC!Numbered
<1>2. CASE p = Server /\ p # Client
  <2>1. QS!SenderOK(s) /\ QS!QueueOK(s)
    BY <1>2 DEF Ready, QS!Endpoint
  <2>2. /\ s.next_seqno \in Nat /\ s.stream.total_read \in Nat /\ s.stream.written \in Nat
        /\ s.stream.total_read <= s.stream.written /\ s.stream.written <= Longest
        /\ s.next_seqno <= s.stream.total_read + 2 /\ DOMAIN s = QS!Fields
        /\ QS!StreamOK(s.stream) /\ s.isn = ServerISN
        /\ s.stream.buffer \in Seq(Nat)
        /\ s.stream.buffer = << >> => s.stream.total_read = s.stream.written
    BY <2>1, SenderAssumed, QS!SenderNumbers
  <2>3. /\ QS!BS!bytes_written(s.stream) = s.stream.written
        /\ QS!BS!bytes_read(s.stream) = s.stream.total_read
    BY <2>2, SenderAssumed, QS!Counters
  <2>4. QS!Numbered(s)
    BY <2>1 DEF QS!SenderOK
  <2>5. s.in_flights \in Int
    <3>1. /\ s.in_flights = QS!Occupied(s.outstandings, s.next_seqno)
          /\ QS!Chain(s.outstandings, s.next_seqno) /\ s.outstandings \in Seq(QS!Segments)
      BY <2>1 DEF QS!QueueOK
    <3>2. s.outstandings # << >> => 1 \in 1 .. Len(s.outstandings)
      BY <3>1, EmptySeq, LenProperties
    <3> QED
      BY <2>2, <3>1, <3>2 DEF QS!Occupied, QS!Chain
  <2>6. DOMAIN s = QC!Fields
    BY <2>2 DEF QC!Fields, QS!Fields
  <2> QED
    BY <1>2, <2>2, <2>3, <2>4, <2>5, <2>6, Sides, SameCounters DEF QS!Numbered
<1> QED
  BY <1>1, <1>2, Sides

\* Two moves are one.
LEMMA MovesOn ==
  ASSUME NEW p \in Peers, NEW s, NEW t, NEW u, NEW n,
         Ready(p, s), Moves(p, s, t, n), Moves(p, t, u, n)
  PROVE  Moves(p, s, u, n)
<1>1. /\ s.next_seqno \in Nat /\ t.next_seqno \in Nat /\ u.next_seqno \in Nat
      /\ s.stream.total_read \in Nat /\ t.stream.total_read \in Nat /\ u.stream.total_read \in Nat
  BY ReadyFacts DEF Moves
<1> QED
  BY <1>1 DEF Moves, Onward

\* A call that leaves what is acknowledged alone is a move.
LEMMA MovesBy ==
  ASSUME NEW p \in Peers, NEW s, NEW t, NEW n,
         \/ /\ p = Client /\ QC!Endpoint(t) /\ QC!Onward(s, t)
            /\ QC!Acknowledged(t) = QC!Acknowledged(s)
         \/ /\ p = Server /\ QS!Endpoint(t) /\ QS!Onward(s, t)
            /\ QS!Acknowledged(t) = QS!Acknowledged(s)
  PROVE  Moves(p, s, t, n)
<1>1. Client # Server
  BY Constants
<1> QED
  BY <1>1 DEF Moves, Ready, Onward, Acknowledged, QC!Onward, QS!Onward,
              QC!Acknowledged, QS!Acknowledged

\* Sending.
LEMMA FillMoves ==
  ASSUME NEW p \in Peers, NEW s, NEW n, Ready(p, s)
  PROVE  LET t == S!fill_window(s)
         IN  Moves(p, s, t, n) /\ t.stream.error = s.stream.error
<1>1. CASE p = Client
  BY <1>1, SameFill, SenderAssumed, MovesBy, QC!EndpointFill DEF Ready
<1>2. CASE p = Server /\ p # Client
  BY <1>2, SameFill, SenderAssumed, MovesBy, QS!EndpointFill DEF Ready
<1> QED
  BY <1>1, <1>2, Sides

\* An acknowledgment of what the peer has.
LEMMA AckMoves ==
  ASSUME NEW p \in Peers, NEW s, NEW n \in Nat, Ready(p, s),
         NEW a \in 1 .. s.next_seqno, a <= n, NEW w \in 0 .. Capacity
  PROVE  LET t == S!ack_received(s, wrap(a, Isn(p)), w)
         IN  Moves(p, s, t, n) /\ t.stream = s.stream
<1> DEFINE t == S!ack_received(s, wrap(a, Isn(p)), w)
<1>1. s.next_seqno \in Nat
  BY ReadyFacts
<1>2. CASE p = Client
  <2>1. t = QC!ack_received(s, QC!wrap(a, ClientISN), w)
    BY <1>2, Sides, SameAck, SameWrap
  <2>2. /\ QC!Endpoint(t) /\ QC!Onward(s, t) /\ t.stream = s.stream
        /\ QC!Acknowledged(t) = QC!Acknowledged(s) \/ QC!Acknowledged(t) <= a
    BY <1>2, <2>1, SenderAssumed, QC!EndpointAck DEF Ready
  <2> HIDE DEF t
  <2>3. Ready(p, t) /\ Onward(s, t) /\ (Acknowledged(t) = Acknowledged(s) \/ Acknowledged(t) <= a)
    BY <1>2, <2>2 DEF Ready, Onward, Acknowledged, QC!Onward, QC!Acknowledged
  <2>4. Acknowledged(t) \in Int
    BY <2>3, ReadyFacts DEF Acknowledged
  <2> QED
    BY <1>1, <2>2, <2>3, <2>4 DEF Moves, t
<1>3. CASE p = Server /\ p # Client
  <2>1. t = QS!ack_received(s, QS!wrap(a, ServerISN), w)
    BY <1>3, Sides, SameAck, SameWrap
  <2>2. /\ QS!Endpoint(t) /\ QS!Onward(s, t) /\ t.stream = s.stream
        /\ QS!Acknowledged(t) = QS!Acknowledged(s) \/ QS!Acknowledged(t) <= a
    BY <1>3, <2>1, SenderAssumed, QS!EndpointAck DEF Ready
  <2> HIDE DEF t
  <2>3. Ready(p, t) /\ Onward(s, t) /\ (Acknowledged(t) = Acknowledged(s) \/ Acknowledged(t) <= a)
    BY <1>3, <2>2 DEF Ready, Onward, Acknowledged, QS!Onward, QS!Acknowledged
  <2>4. Acknowledged(t) \in Int
    BY <2>3, ReadyFacts DEF Acknowledged
  <2> QED
    BY <1>1, <2>2, <2>3, <2>4 DEF Moves, t
<1> QED
  BY <1>2, <1>3, Sides

\* An empty segment, with RST or without.
LEMMA EmptyMoves ==
  ASSUME NEW p \in Peers, NEW s, NEW n, Ready(p, s),
         NEW t, t \in {S!send_empty_segment(s), S!send_empty_segment_RST(s)}
  PROVE  Moves(p, s, t, n) /\ t.stream = s.stream
<1>1. CASE p = Client
  <2>1. t \in {QC!send_empty_segment(s), QC!send_empty_segment_RST(s)}
    BY SameTick
  <2> QED
    BY <1>1, <2>1, SenderAssumed, MovesBy, QC!EndpointEmpty DEF Ready
<1>2. CASE p = Server /\ p # Client
  <2>1. t \in {QS!send_empty_segment(s), QS!send_empty_segment_RST(s)}
    BY SameTick
  <2> QED
    BY <1>2, <2>1, SenderAssumed, MovesBy, QS!EndpointEmpty DEF Ready
<1> QED
  BY <1>1, <1>2, Sides

\* A tick.
LEMMA TickMoves ==
  ASSUME NEW p \in Peers, NEW s, NEW n, Ready(p, s), NEW ms \in Nat
  PROVE  LET t == S!tick(s, ms)
         IN  Moves(p, s, t, n) /\ t.stream = s.stream
<1>1. CASE p = Client
  <2> DEFINE t == QC!tick(s, ms)
  <2>1. S!tick(s, ms) = t
    BY SameTick
  <2>2. /\ QC!Endpoint(t) /\ QC!Onward(s, t) /\ t.stream = s.stream
        /\ QC!Acknowledged(t) = QC!Acknowledged(s)
    BY <1>1, SenderAssumed, QC!EndpointTick DEF Ready
  <2> HIDE DEF t
  <2> QED
    BY <1>1, <2>1, <2>2, MovesBy
<1>2. CASE p = Server /\ p # Client
  <2> DEFINE t == QS!tick(s, ms)
  <2>1. S!tick(s, ms) = t
    BY SameTick
  <2>2. /\ QS!Endpoint(t) /\ QS!Onward(s, t) /\ t.stream = s.stream
        /\ QS!Acknowledged(t) = QS!Acknowledged(s)
    BY <1>2, SenderAssumed, QS!EndpointTick DEF Ready
  <2> HIDE DEF t
  <2> QED
    BY <1>2, <2>1, <2>2, MovesBy
<1> QED
  BY <1>1, <1>2, Sides

\* The connection takes what is to be sent.
LEMMA DrainMoves ==
  ASSUME NEW p \in Peers, NEW s, NEW n, Ready(p, s)
  PROVE  LET t == [s EXCEPT !.segments_out = << >>]
         IN  Moves(p, s, t, n) /\ t.stream = s.stream
<1>1. CASE p = Client
  BY <1>1, SenderAssumed, MovesBy, QC!EndpointDrained DEF Ready
<1>2. CASE p = Server /\ p # Client
  BY <1>2, SenderAssumed, MovesBy, QS!EndpointDrained DEF Ready
<1> QED
  BY <1>1, <1>2, Sides

\* The owner writes.
LEMMA WriteMoves ==
  ASSUME NEW p \in Peers, NEW s, NEW n, Ready(p, s), ~s.stream.end, NEW k \in Nat,
         s.stream.written + k <= Longest
  PROVE  LET t == [s EXCEPT !.stream =
                     BS!write(s.stream, [i \in 1 .. k |-> s.stream.written + i])]
         IN  Moves(p, s, t, n) /\ t.stream.error = s.stream.error
<1> DEFINE data == [i \in 1 .. k |-> s.stream.written + i]
<1>1. BS!write(s.stream, data) = QC!BS!write(s.stream, data)
      /\ BS!write(s.stream, data) = QS!BS!write(s.stream, data)
  BY SameOwner
<1>2. CASE p = Client
  <2> DEFINE t == [s EXCEPT !.stream = QC!BS!write(s.stream, data)]
  <2>1. [s EXCEPT !.stream = BS!write(s.stream, data)] = t
    BY <1>1
  <2>2. /\ QC!Endpoint(t) /\ QC!Onward(s, t) /\ t.stream.error = s.stream.error
        /\ QC!Acknowledged(t) = QC!Acknowledged(s)
    BY <1>2, SenderAssumed, QC!EndpointWrite DEF Ready
  <2> HIDE DEF t
  <2> QED
    BY <1>2, <2>1, <2>2, MovesBy
<1>3. CASE p = Server /\ p # Client
  <2> DEFINE t == [s EXCEPT !.stream = QS!BS!write(s.stream, data)]
  <2>1. [s EXCEPT !.stream = BS!write(s.stream, data)] = t
    BY <1>1
  <2>2. /\ QS!Endpoint(t) /\ QS!Onward(s, t) /\ t.stream.error = s.stream.error
        /\ QS!Acknowledged(t) = QS!Acknowledged(s)
    BY <1>3, SenderAssumed, QS!EndpointWrite DEF Ready
  <2> HIDE DEF t
  <2> QED
    BY <1>3, <2>1, <2>2, MovesBy
<1> QED
  BY <1>2, <1>3, Sides

\* The owner ends the stream.
LEMMA EndMoves ==
  ASSUME NEW p \in Peers, NEW s, NEW n, Ready(p, s)
  PROVE  LET t == [s EXCEPT !.stream = BS!end_input(s.stream)]
         IN  Moves(p, s, t, n) /\ t.stream.error = s.stream.error
<1>1. CASE p = Client
  BY <1>1, SameOwner, SenderAssumed, MovesBy, QC!EndpointEnd DEF Ready
<1>2. CASE p = Server /\ p # Client
  BY <1>2, SameOwner, SenderAssumed, MovesBy, QS!EndpointEnd DEF Ready
<1> QED
  BY <1>1, <1>2, Sides

\* The stream has failed.
LEMMA ErrorMoves ==
  ASSUME NEW p \in Peers, NEW s, NEW n, Ready(p, s)
  PROVE  LET t == [s EXCEPT !.stream = BS!set_error(s.stream)]
         IN  Moves(p, s, t, n) /\ t.stream.error = TRUE
<1>1. CASE p = Client
  BY <1>1, SameOwner, SenderAssumed, MovesBy, QC!EndpointError DEF Ready
<1>2. CASE p = Server /\ p # Client
  BY <1>2, SameOwner, SenderAssumed, MovesBy, QS!EndpointError DEF Ready
<1> QED
  BY <1>1, <1>2, Sides

\* A new sender.
LEMMA NewReady ==
  ASSUME NEW p \in Peers
  PROVE  LET s == S!New(Capacity, RetxTimeout, Isn(p))
         IN  /\ Ready(p, s) /\ s.next_seqno = 0 /\ Acknowledged(s) = 0
             /\ s.stream.error = FALSE
<1>1. CASE p = Client
  <2> DEFINE s == QC!New(Capacity, RetxTimeout, ClientISN)
  <2>1. S!New(Capacity, RetxTimeout, Isn(p)) = s
    BY <1>1, Sides, SameNew
  <2>2. /\ QC!Endpoint(s) /\ s.next_seqno = 0 /\ QC!Acknowledged(s) = 0
        /\ s.stream.error = FALSE
    BY SenderAssumed, QC!EndpointNew
  <2> HIDE DEF s
  <2> QED
    BY <1>1, <2>1, <2>2 DEF Ready, Acknowledged, QC!Acknowledged
<1>2. CASE p = Server /\ p # Client
  <2> DEFINE s == QS!New(Capacity, RetxTimeout, ServerISN)
  <2>1. S!New(Capacity, RetxTimeout, Isn(p)) = s
    BY <1>2, Sides, SameNew
  <2>2. /\ QS!Endpoint(s) /\ s.next_seqno = 0 /\ QS!Acknowledged(s) = 0
        /\ s.stream.error = FALSE
    BY SenderAssumed, QS!EndpointNew
  <2> HIDE DEF s
  <2> QED
    BY <1>2, <2>1, <2>2 DEF Ready, Acknowledged, QS!Acknowledged
<1> QED
  BY <1>1, <1>2, Sides

\* A segment of the numbers from n on.
LEMMA CarriesBy ==
  ASSUME NEW p \in Peers, NEW s, Ready(p, s), NEW seg, NEW n \in Nat, NEW after \in Nat,
         seg.payload \in Seq(Nat), seg.seqno = wrap(n, Isn(p)), seg.syn = (n = 0),
         \A j \in 1 .. Len(seg.payload) : seg.payload[j] = n + One(seg.syn) + j - 1,
         after = n + (Len(seg.payload) + One(seg.syn) + One(seg.fin)),
         n < after, after <= s.next_seqno, after <= s.stream.total_read + 1 + One(seg.fin),
         seg.fin => s.stream.end /\ s.stream.buffer = << >> /\ after = s.stream.written + 2
  PROVE  Carries(p, s, seg)
<1> DEFINE l == Len(seg.payload)
           x == One(seg.syn)
           y == One(seg.fin)
           lo == From(n)
           hi == lo + l
           r == s.stream.total_read
           w == s.stream.written
           m == s.next_seqno
           piece == SubSeq(Numbers, lo + 1, hi)
<1>1. /\ l \in Nat /\ x \in Nat /\ y \in {0, 1} /\ m \in Nat /\ r \in Nat /\ w \in Nat
      /\ r <= w /\ w <= Longest /\ Longest \in Nat /\ m <= r + 2
      /\ (seg.fin => y = 1) /\ lo \in Nat /\ lo + 1 = n + x
  <2>1. x \in Nat /\ y \in {0, 1} /\ (seg.fin => y = 1) /\ lo \in Nat /\ lo + 1 = n + x
    <3>1. x = IF n = 0 THEN 1 ELSE 0
      BY DEF One
    <3>2. y \in {0, 1} /\ (seg.fin => y = 1)
      BY DEF One
    <3>3. lo = IF n = 0 THEN 0 ELSE n - 1
      BY DEF From
    <3> HIDE DEF x, y, lo
    <3> QED
      BY ONLY <3>1, <3>2, <3>3, n \in Nat
  <2>2. l \in Nat
    BY LenProperties
  <2> QED
    BY <2>1, <2>2, ReadyFacts, Constants
<1>2. after = n + (l + x + y) /\ n < after /\ after <= m /\ after <= r + 1 + y
  OBVIOUS
<1>3. seg.fin => s.stream.end /\ s.stream.buffer = << >> /\ after = w + 2
  OBVIOUS
<1>4. \A j \in 1 .. l : seg.payload[j] = n + x + j - 1
  OBVIOUS
<1>5. hi = lo + l
  OBVIOUS
<1> HIDE DEF l, x, y, lo, hi, r, w, m
<1>6. /\ n \in 0 .. m /\ m > 0 /\ hi \in lo .. r /\ hi <= Longest /\ hi \in Nat
      /\ hi - (lo + 1) + 1 = l /\ (seg.fin => hi = w /\ m = w + 2)
  BY ONLY <1>1, <1>2, <1>3, <1>5, n \in Nat, after \in Nat
<1>7. \A i \in lo + 1 .. hi : i \in 1 .. Longest /\ Numbers[i] = i /\ Numbers[i] \in Nat
  BY <1>1, <1>6, NumbersOK
<1>8. /\ piece \in Seq(Nat) /\ Len(piece) = l
      /\ \A i \in 1 .. l : piece[i] = Numbers[lo + i]
  <2>1. /\ piece \in Seq(Nat)
        /\ Len(piece) = IF lo + 1 <= hi THEN hi - (lo + 1) + 1 ELSE 0
        /\ \A i \in 1 .. hi - (lo + 1) + 1 : piece[i] = Numbers[(lo + 1) + i - 1]
    <3>1. \A i \in lo + 1 .. hi : Numbers[i] \in Nat
      BY <1>7
    <3> HIDE DEF piece
    <3>2. lo + 1 \in Int /\ hi \in Int
      BY <1>1, <1>6
    <3> QED
      BY <3>1, <3>2, SubSeqProperties DEF piece
  <2>2. (IF lo + 1 <= hi THEN hi - (lo + 1) + 1 ELSE 0) = l
    BY ONLY <1>1, <1>5, <1>6
  <2>3. \A i \in Int : (lo + 1) + i - 1 = lo + i
    BY <1>1
  <2> HIDE DEF piece
  <2> QED
    BY <1>1, <1>6, <2>1, <2>2, <2>3
<1>9. \A i \in 1 .. l : piece[i] = seg.payload[i]
  <2> SUFFICES ASSUME NEW i \in 1 .. l PROVE piece[i] = seg.payload[i]
    OBVIOUS
  <2>1. lo + i \in lo + 1 .. hi /\ lo + i = n + x + i - 1
    BY <1>1, <1>5
  <2> HIDE DEF piece
  <2> QED
    BY <1>4, <1>7, <1>8, <2>1
<1>10. seg.payload = piece
  <2> HIDE DEF piece
  <2> QED
    BY <1>8, <1>9, SeqEqual DEF l
<1>11. seg.fin => Finished(s) /\ hi = s.stream.written
  BY <1>3, <1>6 DEF Finished, w, m
<1>12. /\ n \in 0 .. s.next_seqno /\ hi \in From(n) .. s.stream.total_read /\ s.next_seqno > 0
       /\ seg.payload = SubSeq(Numbers, From(n) + 1, hi)
  BY <1>6, <1>10 DEF m, r, lo, piece
<1> QED
  BY <1>11, <1>12 DEF Carries

\* What goes out is of the stream, and acknowledges nothing yet.
LEMMA OutCarries ==
  ASSUME NEW p \in Peers, NEW s, Ready(p, s)
  PROVE  /\ s.segments_out \in Seq(QC!Segments)
         /\ \A i \in 1 .. Len(s.segments_out) :
              Carries(p, s, s.segments_out[i]) /\ ~s.segments_out[i].ack
<1>1. CASE p = Client
  <2>1. /\ s.segments_out \in Seq(QC!Segments)
        /\ \A i \in 1 .. Len(s.segments_out) :
             QC!Sendable(s, s.segments_out[i]) /\ ~s.segments_out[i].ack
    BY <1>1 DEF Ready, QC!Endpoint, QC!WireOK
  <2>2. ASSUME NEW seg, QC!Sendable(s, seg) PROVE Carries(p, s, seg)
    <3>1. CASE QC!Bare(seg, s.next_seqno)
      BY <1>1, <3>1, Sides, SameWrap DEF QC!Bare, Carries
    <3>2. CASE /\ QC!SegmentOK(seg, s.stream) /\ QC!After(seg) <= s.next_seqno
               /\ QC!After(seg) <= s.stream.total_read + 1 + QC!One(seg.fin)
      <4> DEFINE n == QC!Pos(seg)
                 after == QC!After(seg)
      <4>1. /\ \A f : QC!One(f) = One(f)
            /\ after = n + (Len(seg.payload) + One(seg.syn) + One(seg.fin))
        BY DEF QC!One, One, QC!After, QC!length_in_sequence_space
      <4>2. /\ seg \in QC!Segments /\ n \in Nat /\ seg.seqno = QC!wrap(n, ClientISN) /\ n < after
            /\ seg.syn = (n = 0)
            /\ \A j \in 1 .. Len(seg.payload) : seg.payload[j] = n + QC!One(seg.syn) + j - 1
            /\ seg.fin => s.stream.end /\ s.stream.buffer = << >> /\ after = s.stream.written + 2
        BY <3>2 DEF QC!SegmentOK
      <4>3. seg.payload \in Seq(Nat) /\ Len(seg.payload) \in Nat
        BY <4>2, LenProperties DEF QC!Segments
      <4>4. after \in Nat
        <5>1. One(seg.syn) \in Nat /\ One(seg.fin) \in Nat
          BY DEF One
        <5> QED
          BY ONLY <4>1, <4>2, <4>3, <5>1
      <4> HIDE DEF n, after
      <4>5. seg.seqno = wrap(n, Isn(p))
        BY <1>1, <4>2, Sides, SameWrap
      <4> QED
        BY <3>2, <4>1, <4>2, <4>3, <4>4, <4>5, CarriesBy DEF after
    <3> QED
      BY <2>2, <3>1, <3>2 DEF QC!Sendable
  <2> QED
    BY <2>1, <2>2
<1>2. CASE p = Server /\ p # Client
  <2>1. /\ s.segments_out \in Seq(QS!Segments)
        /\ \A i \in 1 .. Len(s.segments_out) :
             QS!Sendable(s, s.segments_out[i]) /\ ~s.segments_out[i].ack
    BY <1>2 DEF Ready, QS!Endpoint, QS!WireOK
  <2>2. ASSUME NEW seg, QS!Sendable(s, seg) PROVE Carries(p, s, seg)
    <3>1. CASE QS!Bare(seg, s.next_seqno)
      BY <1>2, <3>1, Sides, SameWrap DEF QS!Bare, Carries
    <3>2. CASE /\ QS!SegmentOK(seg, s.stream) /\ QS!After(seg) <= s.next_seqno
               /\ QS!After(seg) <= s.stream.total_read + 1 + QS!One(seg.fin)
      <4> DEFINE n == QS!Pos(seg)
                 after == QS!After(seg)
      <4>1. /\ \A f : QS!One(f) = One(f)
            /\ after = n + (Len(seg.payload) + One(seg.syn) + One(seg.fin))
        BY DEF QS!One, One, QS!After, QS!length_in_sequence_space
      <4>2. /\ seg \in QS!Segments /\ n \in Nat /\ seg.seqno = QS!wrap(n, ServerISN) /\ n < after
            /\ seg.syn = (n = 0)
            /\ \A j \in 1 .. Len(seg.payload) : seg.payload[j] = n + QS!One(seg.syn) + j - 1
            /\ seg.fin => s.stream.end /\ s.stream.buffer = << >> /\ after = s.stream.written + 2
        BY <3>2 DEF QS!SegmentOK
      <4>3. seg.payload \in Seq(Nat) /\ Len(seg.payload) \in Nat
        BY <4>2, LenProperties DEF QS!Segments
      <4>4. after \in Nat
        <5>1. One(seg.syn) \in Nat /\ One(seg.fin) \in Nat
          BY DEF One
        <5> QED
          BY ONLY <4>1, <4>2, <4>3, <5>1
      <4> HIDE DEF n, after
      <4>5. seg.seqno = wrap(n, Isn(p))
        BY <1>2, <4>2, Sides, SameWrap
      <4> QED
        BY <3>2, <4>1, <4>2, <4>3, <4>4, <4>5, CarriesBy DEF after
    <3> QED
      BY <2>2, <3>1, <3>2 DEF QS!Sendable
  <2>3. QS!Segments = QC!Segments
    BY DEF QS!Segments, QC!Segments
  <2> QED
    BY <2>1, <2>2, <2>3
<1> QED
  BY <1>1, <1>2, Sides

\* What a sender can have sent it can have sent later.
LEMMA CarriesLater ==
  ASSUME NEW p \in Peers, NEW s, NEW t, Ready(p, s), Ready(p, t), Onward(s, t),
         NEW seg, Carries(p, s, seg)
  PROVE  Carries(p, t, seg)
<1>1. /\ s.next_seqno \in Nat /\ t.next_seqno \in Nat /\ s.next_seqno <= t.next_seqno
      /\ s.stream.total_read \in Nat /\ t.stream.total_read \in Nat
      /\ s.stream.total_read <= t.stream.total_read
  BY ReadyFacts DEF Onward
<1>2. Finished(s) => Finished(t) /\ t.stream.written = s.stream.written
  <2>1. /\ t.next_seqno <= t.stream.total_read + 2 /\ t.stream.total_read <= t.stream.written
        /\ t.stream.written \in Nat
    BY ReadyFacts
  <2> QED
    BY <1>1, <2>1 DEF Finished, Onward
<1>3. \A n \in 0 .. s.next_seqno : n \in 0 .. t.next_seqno
  BY <1>1
<1>4. \A n \in 0 .. s.next_seqno : \A hi \in From(n) .. s.stream.total_read :
        hi \in From(n) .. t.stream.total_read
  BY <1>1 DEF From
<1>5. s.next_seqno > 0 => t.next_seqno > 0
  BY <1>1
<1> QED
  BY <1>2, <1>3, <1>4, <1>5 DEF Carries

--------------------------------------------------------------------------------
\* The receiver of an endpoint.

\* What the numbers of a receiver are, and that they are not beyond those of the sender.
LEMMA ReceiverFacts ==
  ASSUME NEW p \in Peers, NEW s, NEW r, NEW g, Ready(p, s), InOrder(p, s, r, g)
  PROVE  LET b == r.reassembler.output
         IN  /\ b.written \in Nat /\ b.end \in BOOLEAN /\ b.written <= s.stream.total_read
             /\ b.written <= Longest
             /\ R!BS!bytes_written(b) = b.written
             /\ R!AbsAckno(r) = b.written + 1 + One(b.end) /\ R!AbsAckno(r) \in Nat \ {0}
             /\ R!window_size(r) \in 0 .. Capacity
             /\ b.end => Finished(s) /\ b.written = s.stream.written
             /\ r.syned => R!AbsAckno(r) <= s.next_seqno
             /\ Acks(r) \in Nat /\ Acks(r) <= s.next_seqno
             /\ s.stream.written + 2 <= Acks(r) => b.end
<1> DEFINE re == r.reassembler
           b == re.output
           m == s.next_seqno
           k == s.stream.total_read
           w == s.stream.written
           v == b.written
<1>1. /\ RP!ReassemblerOK(re) /\ (r.syned => m > 0)
      /\ RP!Held(re) \subseteq 0 .. k - 1
      /\ re.endIdx # RP!SIZE_MAX => Finished(s) /\ re.endIdx = w
      /\ b.end <=> v = re.endIdx
  BY DEF InOrder
<1>2. RP!OutputOK(b)
  BY <1>1 DEF RP!ReassemblerOK
<1>3. /\ RP!BS!bytes_written(b) = v /\ v \in Nat /\ b.buffer \in Seq(Nat)
      /\ Len(b.buffer) \in Nat /\ b.end \in BOOLEAN
  BY <1>2, ReassemblerAssumed, RP!Counters
<1>4. b.capacity = Capacity /\ v <= Longest /\ Len(b.buffer) <= Capacity
  BY <1>2, ReassemblerAssumed DEF RP!OutputOK
<1>5. /\ m \in Nat /\ k \in Nat /\ w \in Nat /\ k <= w /\ w <= Longest
      /\ m <= k + 2 /\ (m # 0 => k + 1 <= m)
  BY ReadyFacts
<1>6. RP!SIZE_MAX \in Int /\ Longest < RP!SIZE_MAX
  BY ReassemblerAssumed, RP!NoIndex
<1>7. R!BS!bytes_written(b) = v
  BY <1>3, SameCounters
<1>8. R!AbsAckno(r) = v + 1 + One(b.end)
  BY <1>7 DEF R!AbsAckno, R!stream_out, R!BS!input_ended, R!One, One
<1>9. R!window_size(r) \in 0 .. Capacity
  <2>1. R!window_size(r) = Capacity - Len(b.buffer)
    BY <1>4 DEF R!window_size, R!stream_out, R!BS!remaining_capacity, R!BS!buffer_size
  <2> DEFINE l == Len(b.buffer)
  <2>2. l \in Nat /\ l <= Capacity /\ Capacity \in Nat /\ R!window_size(r) = Capacity - l
    BY <1>3, <1>4, <2>1, Constants
  <2> HIDE DEF l
  <2> QED
    BY ONLY <2>2
<1>10. v <= k
  <2>1. 0 .. v - 1 \subseteq 0 .. k - 1
    BY <1>1 DEF RP!Held
  <2>2. v # 0 => v - 1 \in 0 .. v - 1
    BY <1>3
  <2> HIDE DEF v, k
  <2> QED
    BY <1>3, <1>5, <2>1, <2>2
<1>11. b.end => Finished(s) /\ v = w
  BY <1>1, <1>3, <1>4, <1>5, <1>6, Constants
<1>12. One(b.end) = IF b.end THEN 1 ELSE 0
  BY DEF One
<1>13. b.end => m = w + 2
  BY <1>11 DEF Finished
<1>14. Acks(r) = IF r.syned THEN R!AbsAckno(r) ELSE 0
  BY DEF Acks
<1> DEFINE a == R!AbsAckno(r)
           e == b.end
<1>15. /\ a = v + 1 + (IF e THEN 1 ELSE 0) /\ (e => v = w /\ m = w + 2)
  BY <1>8, <1>11, <1>12, <1>13
<1>16. r.syned => m > 0
  BY <1>1
<1> HIDE DEF a, e, b, m, k, w, v
<1>17. /\ a \in Nat \ {0} /\ (r.syned => a <= m)
       /\ w + 2 <= a => e
  BY ONLY <1>3, <1>5, <1>10, <1>15, <1>16
<1>18. /\ Acks(r) \in Nat /\ Acks(r) <= m /\ (w + 2 <= Acks(r) => e)
  <2>1. 0 \in Nat /\ 0 <= m /\ ~(w + 2 <= 0)
    BY ONLY <1>5
  <2> QED
    BY <1>14, <1>17, <2>1 DEF a
<1> QED
  BY <1>3, <1>4, <1>7, <1>8, <1>9, <1>10, <1>11, <1>17, <1>18 DEF a, e, b, m, k, w, v

\* t is r some segments later: it acknowledges no less.
RcvLater(r, t) ==
  /\ r.syned => t.syned /\ t.isn = r.isn
  /\ Acks(r) <= Acks(t)
  /\ r.reassembler.output.end => t.reassembler.output.end

\* The flag of a push is used as a condition only.
LEMMA PushFlag ==
  ASSUME NEW s, NEW d, NEW i, NEW e
  PROVE  \E f \in BOOLEAN :
           (f <=> e) /\ R!SR!push_substring(s, d, i, e) = RP!push_substring(s, d, i, f)
<1>1. CASE e
  <2>1. R!SR!push_substring(s, d, i, e) = R!SR!push_substring(s, d, i, TRUE)
    BY <1>1, Zenon DEF R!SR!push_substring
  <2> QED
    BY <1>1, <2>1, SamePush
<1>2. CASE ~e
  <2>1. R!SR!push_substring(s, d, i, e) = R!SR!push_substring(s, d, i, FALSE)
    BY <1>2, Zenon DEF R!SR!push_substring
  <2> QED
    BY <1>2, <2>1, SamePush
<1> QED
  BY <1>1, <1>2

\* A piece of what was sent, with the end of the stream only after all of it, keeps the
\* receiver in order.
LEMMA PushedInOrder ==
  ASSUME NEW p \in Peers, NEW s, NEW r, NEW g, Ready(p, s), InOrder(p, s, r, g), r.syned,
         NEW lo \in Nat, NEW hi \in Nat, NEW f \in BOOLEAN, NEW t,
         RP!PushedTo(r.reassembler, t, lo, hi, f), hi <= s.stream.total_read,
         f => Finished(s) /\ hi = s.stream.written
  PROVE  LET q == [r EXCEPT !.reassembler = t]
         IN  InOrder(p, s, q, g) /\ RcvLater(r, q)
<1> DEFINE q == [r EXCEPT !.reassembler = t]
           re == r.reassembler
           k == s.stream.total_read
           w == s.stream.written
           v == re.output.written
           u == t.output.written
<1>1. /\ RP!ReassemblerOK(t) /\ t.endIdx = (IF f THEN hi ELSE re.endIdx)
      /\ RP!Held(t) = RP!Held(re) \cup RP!Fitting(re, lo, hi)
      /\ t.output.end <=> re.output.end \/ u = t.endIdx
      /\ t.output.total_read = re.output.total_read /\ v <= u
      /\ t.output.buffer = re.output.buffer \o RP!Piece(v, u - 1)
  BY DEF RP!PushedTo
<1>2. /\ DOMAIN r = {"reassembler", "isn", "syned"} /\ r.syned \in BOOLEAN
      /\ RP!ReassemblerOK(re) /\ RP!Reader(re, g)
      /\ r.isn = Isn(p) /\ s.next_seqno > 0
      /\ RP!Held(re) \subseteq 0 .. k - 1
      /\ re.endIdx # RP!SIZE_MAX => Finished(s) /\ re.endIdx = w
      /\ re.output.end <=> v = re.endIdx
  BY DEF InOrder
<1>3. /\ DOMAIN q = {"reassembler", "isn", "syned"} /\ q.reassembler = t /\ q.syned = r.syned
      /\ q.isn = r.isn
  BY <1>2
<1> HIDE DEF q
<1>4. RP!Reader(t, g)
  BY <1>1, <1>2, ReassemblerAssumed, RP!PushedReader
<1>5. k \in Nat /\ w \in Nat /\ k <= w /\ w <= Longest
  BY ReadyFacts
<1>6. RP!Held(t) \subseteq 0 .. k - 1
  <2>1. RP!Fitting(re, lo, hi) \subseteq lo .. hi - 1
    BY DEF RP!Fitting
  <2>2. lo .. hi - 1 \subseteq 0 .. k - 1
    BY <1>5
  <2> QED
    BY <1>1, <1>2, <2>1, <2>2
<1>7. t.endIdx # RP!SIZE_MAX => Finished(s) /\ t.endIdx = w
  BY <1>1, <1>2
<1>8. /\ v \in Nat /\ v <= Longest /\ re.output.end \in BOOLEAN
      /\ re.output.end => Finished(s) /\ v = w
  BY ReceiverFacts
<1>9. u \in Nat /\ u <= k /\ t.output.end \in BOOLEAN
  <2>1. RP!OutputOK(t.output)
    BY <1>1 DEF RP!ReassemblerOK
  <2>2. u \in Nat /\ t.output.end \in BOOLEAN
    BY <2>1, ReassemblerAssumed, RP!Counters
  <2>3. 0 .. u - 1 \subseteq 0 .. k - 1
    BY <1>6 DEF RP!Held
  <2>4. u # 0 => u - 1 \in 0 .. u - 1
    BY <2>2
  <2> HIDE DEF u, k
  <2> QED
    BY <1>5, <2>2, <2>3, <2>4
<1>10. re.output.end => u = t.endIdx /\ u = v
  <2> SUFFICES ASSUME re.output.end PROVE u = t.endIdx /\ u = v
    OBVIOUS
  <2>1. Finished(s) /\ v = w
    BY <1>8
  <2>2. u = w
    BY <1>1, <1>5, <1>8, <1>9, <2>1
  <2>3. v = re.endIdx
    BY <1>2
  <2>4. t.endIdx = w
    BY <1>1, <2>1, <2>3
  <2> QED
    BY <2>1, <2>2, <2>4
<1>11. t.output.end <=> u = t.endIdx
  BY <1>1, <1>10
<1>12. InOrder(p, s, q, g)
  BY <1>1, <1>2, <1>3, <1>4, <1>6, <1>7, <1>11 DEF InOrder
<1>13. Acks(r) <= Acks(q)
  <2>1. Acks(r) = v + 1 + One(re.output.end)
    BY ReceiverFacts DEF Acks
  <2>2. Acks(q) = u + 1 + One(t.output.end)
    BY <1>3, <1>12, ReceiverFacts DEF Acks
  <2>3. /\ One(re.output.end) \in {0, 1} /\ One(t.output.end) \in {0, 1}
        /\ re.output.end => One(re.output.end) = 1 /\ One(t.output.end) = 1
        /\ ~re.output.end => One(re.output.end) = 0
    BY <1>1 DEF One
  <2> DEFINE x == One(re.output.end)
             y == One(t.output.end)
  <2>4. x \in {0, 1} /\ y \in {0, 1} /\ (x = 0 \/ y = 1) /\ v <= u
    BY <1>1, <1>8, <2>3
  <2>5. Acks(r) = v + 1 + x /\ Acks(q) = u + 1 + y /\ v \in Nat /\ u \in Nat
    BY <1>8, <1>9, <2>1, <2>2
  <2> HIDE DEF u, v, x, y
  <2> QED
    BY ONLY <2>4, <2>5
<1> QED
  BY <1>1, <1>3, <1>12, <1>13 DEF RcvLater, q

\* A SYN sets the ISN, once and for all.
LEMMA SyncedInOrder ==
  ASSUME NEW p \in Peers, NEW s, NEW r, NEW g, Ready(p, s), InOrder(p, s, r, g),
         s.next_seqno > 0
  PROVE  LET q == [r EXCEPT !.isn = wrap(0, Isn(p)), !.syned = TRUE]
         IN  InOrder(p, s, q, g) /\ RcvLater(r, q)
<1> DEFINE q == [r EXCEPT !.isn = wrap(0, Isn(p)), !.syned = TRUE]
<1>1. wrap(0, Isn(p)) = Isn(p)
  <2>1. Isn(p) \in Nat /\ Isn(p) < Pow32 /\ Pow32 \in Nat \ {0} /\ 0 + Isn(p) = Isn(p)
    BY Sides, Constants DEF WrappingInt32
  <2> QED
    BY <2>1, ModSmall DEF wrap
<1>2. /\ DOMAIN r = {"reassembler", "isn", "syned"}
  BY DEF InOrder
<1>3. /\ DOMAIN q = DOMAIN r /\ q.reassembler = r.reassembler /\ q.isn = Isn(p) /\ q.syned = TRUE
  BY <1>1, <1>2
<1> HIDE DEF q
<1>4. InOrder(p, s, q, g)
  BY <1>2, <1>3 DEF InOrder
<1>5. R!AbsAckno(q) = R!AbsAckno(r) /\ R!AbsAckno(r) \in Nat
  BY <1>3, <1>4, ReceiverFacts
<1>6. Acks(r) <= Acks(q)
  BY <1>3, <1>5 DEF Acks
<1>7. r.syned => r.isn = Isn(p)
  BY DEF InOrder
<1> QED
  BY <1>3, <1>4, <1>6, <1>7 DEF RcvLater, q

\* Nothing changes.
LEMMA RcvSame ==
  ASSUME NEW p \in Peers, NEW s, NEW r, NEW g, Ready(p, s), InOrder(p, s, r, g)
  PROVE  RcvLater(r, r)
<1>1. Acks(r) \in Nat
  BY ReceiverFacts
<1> QED
  BY <1>1 DEF RcvLater

\* What a segment of the sender is pushed as.
LEMMA PushedAs ==
  ASSUME NEW p \in Peers, NEW s, NEW r, NEW g, Ready(p, s), InOrder(p, s, r, g), r.syned,
         NEW seg, Carries(p, s, seg), R!Position(r, seg) # 0
  PROVE  \E lo \in Nat : \E hi \in Nat : \E f \in BOOLEAN :
           /\ RP!PushedTo(r.reassembler,
                R!SR!push_substring(r.reassembler, seg.payload, R!Position(r, seg) - 1, seg.fin),
                lo, hi, f)
           /\ hi <= s.stream.total_read
           /\ f => Finished(s) /\ hi = s.stream.written
<1> DEFINE re == r.reassembler
           pos == R!Position(r, seg)
           k == s.stream.total_read
           m == s.next_seqno
           v == re.output.written
<1>1. PICK f \in BOOLEAN : (f <=> seg.fin)
        /\ R!SR!push_substring(re, seg.payload, pos - 1, seg.fin)
             = RP!push_substring(re, seg.payload, pos - 1, f)
  BY PushFlag
<1>2. RP!ReassemblerOK(re) /\ r.isn = Isn(p) /\ m > 0
  BY DEF InOrder
<1>3. /\ m \in Nat /\ k \in Nat /\ m <= k + 2 /\ k <= Longest /\ Longest \in Nat
      /\ v \in Nat /\ v <= k /\ R!BS!bytes_written(re.output) = v
  <2>1. /\ m \in Nat /\ k \in Nat /\ m <= k + 2 /\ k <= s.stream.written
        /\ s.stream.written <= Longest /\ s.stream.written \in Nat
    BY ReadyFacts
  <2>2. v \in Nat /\ v <= k /\ R!BS!bytes_written(re.output) = v
    BY ReceiverFacts
  <2> HIDE DEF m, k, v
  <2> QED
    BY <2>1, <2>2, Constants
<1>4. CASE seg.payload = << >> /\ ~seg.syn /\ ~seg.fin
  <2>1. f = FALSE
    BY <1>1, <1>4
  <2>2. RP!PushedTo(re, RP!push_substring(re, << >>, pos - 1, FALSE), 0, 0, FALSE)
    BY <1>2, ReassemblerAssumed, RP!PushNothing
  <2> DEFINE x == R!SR!push_substring(re, seg.payload, pos - 1, seg.fin)
  <2>3. RP!PushedTo(re, x, 0, 0, FALSE)
    <3> HIDE DEF pos
    <3> QED
      BY <1>1, <1>4, <2>1, <2>2
  <2>4. 0 \in Nat /\ 0 <= k /\ FALSE \in BOOLEAN
    BY <1>3
  <2> HIDE DEF x
  <2> QED
    BY <2>3, <2>4, Zenon DEF x
<1>5. ASSUME NEW n \in 0 .. m, NEW hi \in From(n) .. k,
             seg.seqno = wrap(n, Isn(p)), seg.syn = (n = 0),
             seg.payload = SubSeq(Numbers, From(n) + 1, hi),
             seg.fin => Finished(s) /\ hi = s.stream.written
      PROVE  /\ RP!PushedTo(re, R!SR!push_substring(re, seg.payload, pos - 1, seg.fin),
                              From(n), hi, f)
             /\ From(n) \in Nat /\ hi \in Nat /\ hi <= k
             /\ f => Finished(s) /\ hi = s.stream.written
  <2>1. n \in Nat /\ From(n) \in Nat /\ hi \in Nat /\ From(n) <= hi /\ hi <= k
    BY <1>3, <1>5 DEF From
  <2>2. pos - 1 = From(n)
    <3>1. CASE n = 0
      <4>1. seg.syn
        BY <1>5, <3>1
      <4>2. pos = 1
        BY <4>1 DEF R!Position
      <4> HIDE DEF pos
      <4> QED
        BY <3>1, <4>2 DEF From
    <3>2. CASE n # 0
      <4>1. pos = R!unwrap(wrap(n, Isn(p)), Isn(p), v)
        BY <1>2, <1>3, <1>5, <3>2 DEF R!Position, R!stream_out
      <4>2. Distance(n, v) < Half32
        <5>1. n <= Longest + 2 /\ v <= Longest /\ Longest + 2 < Half32 /\ Half32 \in Nat
          BY <1>3, <2>1, Constants
        <5> HIDE DEF v
        <5> QED
          BY <1>3, <2>1, <5>1 DEF Distance
      <4>3. unwrap(wrap(n, Isn(p)), Isn(p), v) = n
        BY <1>3, <2>1, <4>2, Sides, Constants, UnwrapOfWrap
      <4> HIDE DEF pos, v
      <4> QED
        BY <3>2, <4>1, <4>3, SameWrap DEF From
    <3> QED
      BY <3>1, <3>2
  <2>3. From(n) \in 0 .. RP!N /\ hi \in From(n) .. RP!N
    BY <1>3, <2>1, ReassemblerAssumed
  <2>4. RP!PushedTo(re, RP!push_substring(re, SubSeq(Numbers, From(n) + 1, hi), From(n), f),
                      From(n), hi, f)
    BY <1>2, <2>3, ReassemblerAssumed, RP!PushAny
  <2> HIDE DEF pos
  <2> QED
    BY <1>1, <1>5, <2>1, <2>2, <2>4
<1>6. \/ seg.payload = << >> /\ ~seg.syn /\ ~seg.fin
      \/ \E n \in 0 .. m : \E hi \in From(n) .. k :
           /\ seg.seqno = wrap(n, Isn(p)) /\ seg.syn = (n = 0)
           /\ seg.payload = SubSeq(Numbers, From(n) + 1, hi)
           /\ seg.fin => Finished(s) /\ hi = s.stream.written
  BY DEF Carries
<1>7. CASE ~(seg.payload = << >> /\ ~seg.syn /\ ~seg.fin)
  <2>1. PICK n \in 0 .. m : \E hi \in From(n) .. k :
           /\ seg.seqno = wrap(n, Isn(p)) /\ seg.syn = (n = 0)
           /\ seg.payload = SubSeq(Numbers, From(n) + 1, hi)
           /\ seg.fin => Finished(s) /\ hi = s.stream.written
    BY <1>6, <1>7
  <2>2. PICK hi \in From(n) .. k :
           /\ seg.seqno = wrap(n, Isn(p)) /\ seg.syn = (n = 0)
           /\ seg.payload = SubSeq(Numbers, From(n) + 1, hi)
           /\ seg.fin => Finished(s) /\ hi = s.stream.written
    BY <2>1
  <2>3. /\ RP!PushedTo(re, R!SR!push_substring(re, seg.payload, pos - 1, seg.fin), From(n), hi, f)
        /\ From(n) \in Nat /\ hi \in Nat /\ hi <= k
        /\ f => Finished(s) /\ hi = s.stream.written
    BY <1>5, <2>2
  <2> QED
    BY <2>3
<1> QED
  BY <1>4, <1>7

\* A segment of the sender, new or old, in order or not, keeps the receiver in order.
LEMMA Receives ==
  ASSUME NEW p \in Peers, NEW s, NEW r, NEW g, Ready(p, s), InOrder(p, s, r, g),
         NEW seg, Carries(p, s, seg)
  PROVE  LET t == R!segment_received(r, seg)
         IN  InOrder(p, s, t, g) /\ RcvLater(r, t)
<1> DEFINE q == IF seg.syn THEN [r EXCEPT !.isn = seg.seqno, !.syned = TRUE] ELSE r
           pos == R!Position(q, seg)
           u == R!SR!push_substring(q.reassembler, seg.payload, pos - 1, seg.fin)
<1>1. R!segment_received(r, seg)
        = IF ~q.syned \/ pos = 0 THEN q ELSE [q EXCEPT !.reassembler = u]
  BY Zenon DEF R!segment_received
<1>2. InOrder(p, s, q, g) /\ RcvLater(r, q)
  <2>1. CASE ~seg.syn
    BY <2>1, RcvSame
  <2>2. CASE seg.syn
    <3>1. seg.seqno = wrap(0, Isn(p)) /\ s.next_seqno > 0
      BY <2>2 DEF Carries
    <3> QED
      BY <2>2, <3>1, SyncedInOrder
  <2> QED
    BY <2>1, <2>2
<1> HIDE DEF q
<1>3. CASE q.syned /\ pos # 0
  <2>1. PICK lo \in Nat, hi \in Nat, f \in BOOLEAN :
          /\ RP!PushedTo(q.reassembler, u, lo, hi, f)
          /\ hi <= s.stream.total_read
          /\ f => Finished(s) /\ hi = s.stream.written
    BY <1>2, <1>3, PushedAs
  <2> DEFINE t == [q EXCEPT !.reassembler = u]
  <2>2. InOrder(p, s, t, g) /\ RcvLater(q, t)
    BY <1>2, <1>3, <2>1, PushedInOrder
  <2>3. Acks(r) \in Nat /\ Acks(q) \in Nat /\ Acks(t) \in Nat
    BY <1>2, <2>2, ReceiverFacts
  <2>4. R!segment_received(r, seg) = t
    BY <1>1, <1>3
  <2> HIDE DEF t, u, pos
  <2>5. RcvLater(r, t)
    BY <1>2, <2>2, <2>3 DEF RcvLater
  <2> QED
    BY <2>2, <2>4, <2>5
<1>4. CASE ~q.syned \/ pos = 0
  BY <1>1, <1>2, <1>4
<1> QED
  BY <1>3, <1>4

\* What is in order stays so while the sender goes on.
LEMMA InOrderOn ==
  ASSUME NEW p \in Peers, NEW s, NEW t, Ready(p, s), Ready(p, t), Onward(s, t),
         NEW r, NEW g, InOrder(p, s, r, g)
  PROVE  InOrder(p, t, r, g)
<1>1. /\ s.next_seqno \in Nat /\ t.next_seqno \in Nat /\ s.next_seqno <= t.next_seqno
      /\ s.stream.total_read \in Nat /\ t.stream.total_read \in Nat
      /\ s.stream.total_read <= t.stream.total_read
  BY ReadyFacts DEF Onward
<1>2. Finished(s) => Finished(t) /\ t.stream.written = s.stream.written
  <2>1. /\ t.next_seqno <= t.stream.total_read + 2 /\ t.stream.total_read <= t.stream.written
        /\ t.stream.written \in Nat
    BY ReadyFacts
  <2> QED
    BY <1>1, <2>1 DEF Finished, Onward
<1>3. s.next_seqno > 0 => t.next_seqno > 0
  BY <1>1
<1>4. 0 .. s.stream.total_read - 1 \subseteq 0 .. t.stream.total_read - 1
  BY <1>1
<1> QED
  BY <1>2, <1>3, <1>4 DEF InOrder

\* A new receiver.
LEMMA InOrderNew ==
  ASSUME NEW p \in Peers, NEW s, Ready(p, s)
  PROVE  InOrder(p, s, R!New(Capacity), << >>) /\ Acks(R!New(Capacity)) = 0
<1> DEFINE r == R!New(Capacity)
           re == RP!New(Capacity)
<1>1. /\ DOMAIN r = {"reassembler", "isn", "syned"} /\ r.syned = FALSE /\ r.reassembler = re
  BY SameReassembler DEF R!New
<1>2. /\ RP!ReassemblerOK(re) /\ RP!Reader(re, << >>) /\ RP!Held(re) = {}
      /\ re.endIdx = RP!SIZE_MAX /\ re.output.written = 0 /\ re.output.end = FALSE
  BY ReassemblerAssumed, RP!NewOK
<1>3. RP!SIZE_MAX # 0
  <2>1. RP!SIZE_MAX \in Int /\ Longest < RP!SIZE_MAX /\ Longest \in Nat
    BY ReassemblerAssumed, Constants, RP!NoIndex
  <2> QED
    BY <2>1
<1> HIDE DEF r, re
<1>4. InOrder(p, s, r, << >>)
  BY <1>1, <1>2, <1>3 DEF InOrder
<1> QED
  BY <1>1, <1>4 DEF Acks, r

\* The receiver with another output that has ended or not, and acknowledges, the same.
LEMMA InOrderSame ==
  ASSUME NEW p \in Peers, NEW s, NEW r, NEW g, Ready(p, s), InOrder(p, s, r, g), NEW h, NEW re,
         RP!ReassemblerOK(re), RP!Reader(re, h), RP!Held(re) = RP!Held(r.reassembler),
         re.endIdx = r.reassembler.endIdx, re.output.end = r.reassembler.output.end,
         re.output.written = r.reassembler.output.written
  PROVE  LET t == [r EXCEPT !.reassembler = re]
         IN  InOrder(p, s, t, h) /\ RcvLater(r, t)
<1> DEFINE t == [r EXCEPT !.reassembler = re]
<1>1. DOMAIN r = {"reassembler", "isn", "syned"}
  BY DEF InOrder
<1>2. /\ DOMAIN t = DOMAIN r /\ t.reassembler = re /\ t.isn = r.isn /\ t.syned = r.syned
  BY <1>1
<1> HIDE DEF t
<1>3. InOrder(p, s, t, h)
  BY <1>1, <1>2 DEF InOrder
<1>4. R!AbsAckno(t) = R!AbsAckno(r) /\ R!AbsAckno(r) \in Nat
  BY <1>2, <1>3, ReceiverFacts
<1>5. Acks(r) <= Acks(t)
  BY <1>2, <1>4 DEF Acks
<1> QED
  BY <1>2, <1>3, <1>5 DEF RcvLater, t

\* The owner reads.
LEMMA InOrderRead ==
  ASSUME NEW p \in Peers, NEW s, NEW r, NEW g, Ready(p, s), InOrder(p, s, r, g), NEW len \in Nat
  PROVE  LET b == r.reassembler.output
             t == [r EXCEPT !.reassembler = [r.reassembler EXCEPT !.output = BS!read(b, len)]]
         IN  InOrder(p, s, t, g \o BS!peek_output(b, len)) /\ RcvLater(r, t)
<1> DEFINE re == r.reassembler
           b == re.output
           x == [re EXCEPT !.output = RP!BS!read(b, len)]
           h == g \o RP!BS!peek_output(b, len)
<1>1. RP!ReassemblerOK(re) /\ RP!Reader(re, g)
  BY DEF InOrder
<1>2. /\ RP!ReassemblerOK(x) /\ RP!Reader(x, h) /\ RP!Held(x) = RP!Held(re)
      /\ x.endIdx = re.endIdx /\ x.output.end = re.output.end
      /\ x.output.written = re.output.written
  BY <1>1, ReassemblerAssumed, RP!ReadAny
<1>3. BS!read(b, len) = RP!BS!read(b, len) /\ BS!peek_output(b, len) = RP!BS!peek_output(b, len)
  BY SameReader
<1> HIDE DEF x, h
<1>4. InOrder(p, s, [r EXCEPT !.reassembler = x], h) /\ RcvLater(r, [r EXCEPT !.reassembler = x])
  BY <1>2, InOrderSame
<1> QED
  BY <1>3, <1>4, Zenon DEF x, h

\* The inbound stream has failed.
LEMMA InOrderError ==
  ASSUME NEW p \in Peers, NEW s, NEW r, NEW g, Ready(p, s), InOrder(p, s, r, g)
  PROVE  LET b == r.reassembler.output
             t == [r EXCEPT !.reassembler = [r.reassembler EXCEPT !.output = BS!set_error(b)]]
         IN  InOrder(p, s, t, g) /\ RcvLater(r, t)
<1> DEFINE re == r.reassembler
           b == re.output
           x == [re EXCEPT !.output = RP!BS!set_error(b)]
<1>1. RP!ReassemblerOK(re) /\ RP!Reader(re, g)
  BY DEF InOrder
<1>2. /\ RP!ReassemblerOK(x) /\ RP!Reader(x, g) /\ RP!Held(x) = RP!Held(re)
      /\ x.endIdx = re.endIdx /\ x.output.end = re.output.end
      /\ x.output.written = re.output.written
  BY <1>1, ReassemblerAssumed, RP!ErrorOK
<1>3. BS!set_error(b) = RP!BS!set_error(b)
  BY SameReader
<1> HIDE DEF x
<1>4. InOrder(p, s, [r EXCEPT !.reassembler = x], g) /\ RcvLater(r, [r EXCEPT !.reassembler = x])
  BY <1>2, InOrderSame
<1> QED
  BY <1>3, <1>4, Zenon DEF x

\* What was truthfully acknowledged still is when more has been received.
LEMMA TruthfulLater ==
  ASSUME NEW p \in Peers, NEW s, NEW r, NEW g, NEW t, NEW h, Ready(p, s),
         InOrder(p, s, r, g), InOrder(p, s, t, h), RcvLater(r, t), NEW seg, Truthful(r, seg)
  PROVE  Truthful(t, seg)
<1>1. R!AbsAckno(r) \in Nat /\ R!AbsAckno(t) \in Nat
  BY ReceiverFacts
<1>2. r.syned => R!AbsAckno(r) <= R!AbsAckno(t) /\ t.syned /\ t.isn = r.isn
  BY DEF RcvLater, Acks
<1>3. r.syned => 1 .. R!AbsAckno(r) \subseteq 1 .. R!AbsAckno(t)
  BY <1>1, <1>2
<1> QED
  BY <1>2, <1>3 DEF Truthful

--------------------------------------------------------------------------------
\* A connection within a call.

\* c is the connection of p within a call that found the sender s and the receiver r.  The
\* peer has received the numbers before n, o is its sender, g is what p's owner has read.
Within(p, c, s, r, n, o, g) ==
  /\ DOMAIN c = ConnFields
  /\ Moves(p, s, c.sender, n)
  /\ InOrder(Other(p), o, c.receiver, g) /\ RcvLater(r, c.receiver)

\* What the connection c of p has to send is its own, and acknowledges what it has.
Sent(p, c) ==
  \A i \in DOMAIN c.segments_out :
    Carries(p, c.sender, c.segments_out[i]) /\ Truthful(c.receiver, c.segments_out[i])

\* A part of a call.
LEMMA WithinStep ==
  ASSUME NEW p \in Peers, NEW c, NEW s, NEW r, NEW n, NEW o, NEW g, NEW d, NEW h,
         Ready(p, s), Ready(Other(p), o), InOrder(Other(p), o, r, h),
         Within(p, c, s, r, n, o, g),
         DOMAIN d = ConnFields, Moves(p, c.sender, d.sender, n),
         InOrder(Other(p), o, d.receiver, g), RcvLater(c.receiver, d.receiver)
  PROVE  /\ Within(p, d, s, r, n, o, g)
         /\ Sent(p, c) /\ d.segments_out = c.segments_out => Sent(p, d)
<1>1. Moves(p, s, d.sender, n)
  BY MovesOn DEF Within
<1>2. /\ InOrder(Other(p), o, c.receiver, g) /\ RcvLater(r, c.receiver) /\ Other(p) \in Peers
  BY Sides DEF Within
<1>3. Acks(r) \in Nat /\ Acks(c.receiver) \in Nat /\ Acks(d.receiver) \in Nat
  BY <1>2, ReceiverFacts
<1>4. RcvLater(r, d.receiver)
  BY <1>2, <1>3 DEF RcvLater
<1>5. ASSUME NEW seg, Carries(p, c.sender, seg), Truthful(c.receiver, seg)
      PROVE  Carries(p, d.sender, seg) /\ Truthful(d.receiver, seg)
  <2>1. Ready(p, c.sender) /\ Ready(p, d.sender) /\ Onward(c.sender, d.sender)
    BY DEF Within, Moves
  <2>2. Carries(p, d.sender, seg)
    BY <1>5, <2>1, CarriesLater
  <2>3. Truthful(d.receiver, seg)
    BY <1>2, <1>5, TruthfulLater
  <2> QED
    BY <2>2, <2>3
<1>6. Sent(p, c) /\ d.segments_out = c.segments_out => Sent(p, d)
  BY <1>5 DEF Sent
<1> QED
  BY <1>1, <1>4, <1>6 DEF Within

\* Nothing moves.
LEMMA MovesNot ==
  ASSUME NEW p \in Peers, NEW s, NEW n, Ready(p, s)
  PROVE  Moves(p, s, s, n)
<1>1. s.next_seqno \in Nat /\ s.stream.total_read \in Nat
  BY ReadyFacts
<1> QED
  BY <1>1 DEF Moves, Onward

\* A call begins.
LEMMA WithinStart ==
  ASSUME Inv, NEW p \in Peers
  PROVE  /\ Within(p, conn[p], Snd(p), Rcv(p), Acks(Rcv(Other(p))), Snd(Other(p)), got[p])
         /\ Ready(p, Snd(p)) /\ Ready(Other(p), Snd(Other(p)))
         /\ InOrder(Other(p), Snd(Other(p)), Rcv(p), got[p])
         /\ InOrder(p, Snd(p), Rcv(Other(p)), got[Other(p)])
         /\ Acks(Rcv(Other(p))) \in Nat /\ Acks(Rcv(Other(p))) <= Snd(p).next_seqno
         /\ Acknowledged(Snd(p)) <= Acks(Rcv(Other(p)))
         /\ DOMAIN conn[p] = ConnFields /\ conn[p].segments_out = << >>
         /\ conn[p].sender = Snd(p) /\ conn[p].receiver = Rcv(p)
<1>1. Other(p) \in Peers /\ Other(Other(p)) = p
  BY Sides
<1>2. /\ DOMAIN conn[p] = ConnFields /\ conn[p].segments_out = << >>
      /\ Ready(p, Snd(p)) /\ Ready(Other(p), Snd(Other(p)))
      /\ InOrder(p, Snd(p), Rcv(Other(p)), got[Other(p)])
      /\ InOrder(Other(p), Snd(Other(p)), Rcv(p), got[p])
      /\ Acknowledged(Snd(p)) <= Acks(Rcv(Other(p)))
  BY <1>1 DEF Inv
<1>3. Acks(Rcv(Other(p))) \in Nat /\ Acks(Rcv(Other(p))) <= Snd(p).next_seqno
  BY <1>2, ReceiverFacts
<1>4. Moves(p, Snd(p), Snd(p), Acks(Rcv(Other(p)))) /\ RcvLater(Rcv(p), Rcv(p))
  BY <1>1, <1>2, MovesNot, RcvSame
<1>5. conn[p].sender = Snd(p) /\ conn[p].receiver = Rcv(p)
  BY DEF Snd, Rcv
<1> QED
  BY <1>2, <1>3, <1>4, <1>5 DEF Within

\* b has the segments of a, and a RST where a has one.
SameResets(a, b) == DOMAIN b = DOMAIN a /\ \A i \in DOMAIN b : b[i].rst = a[i].rst

\* seg_2_seg stamps what the sender sends with what the receiver acknowledges.
LEMMA SegmentsMove ==
  ASSUME NEW p \in Peers, NEW c, NEW s, NEW r, NEW n, NEW o, NEW g, NEW h,
         Ready(p, s), Ready(Other(p), o), InOrder(Other(p), o, r, h),
         Within(p, c, s, r, n, o, g), c.segments_out = << >>
  PROVE  LET d == seg_2_seg(c)
         IN  /\ Within(p, d, s, r, n, o, g) /\ Sent(p, d)
             /\ d.sender = [c.sender EXCEPT !.segments_out = << >>]
             /\ d.sender.stream = c.sender.stream /\ d.receiver = c.receiver
             /\ d.sender.in_flights = c.sender.in_flights
             /\ d.sender.next_seqno = c.sender.next_seqno
             /\ d.active = c.active /\ d.linger = c.linger
             /\ SameResets(c.sender.segments_out, d.segments_out)
<1> DEFINE out == c.sender.segments_out
           f == [i \in DOMAIN out |-> Stamped(c, out[i])]
           d == seg_2_seg(c)
           rc == c.receiver
           t == [c.sender EXCEPT !.segments_out = << >>]
<1>1. DOMAIN c = ConnFields /\ Ready(p, c.sender) /\ Moves(p, s, c.sender, n)
      /\ InOrder(Other(p), o, rc, g) /\ RcvLater(r, rc) /\ Other(p) \in Peers
  BY Sides DEF Within, Moves
<1>2. /\ out \in Seq(QC!Segments)
      /\ \A i \in 1 .. Len(out) : Carries(p, c.sender, out[i]) /\ ~out[i].ack
  BY <1>1, OutCarries
<1>3. DOMAIN c.sender = QC!Fields
  BY <1>1, ReadyFacts
<1>4. DOMAIN out = 1 .. Len(out) /\ \A i \in DOMAIN out : out[i] \in QC!Segments
  BY <1>2, LenProperties, ElementOfSeq
<1>5. << >> \o f = f
  <2>1. Len(out) \in Nat
    BY <1>2, LenProperties
  <2>2. f \in Seq({f[i] : i \in 1 .. Len(out)})
    <3>1. DOMAIN f = 1 .. Len(out)
      BY <1>4
    <3> HIDE DEF out
    <3> QED
      BY <1>4, <2>1, <3>1
  <2> HIDE DEF f
  <2> QED
    BY <2>2, ConcatEmptySeq
<1>6. d = [c EXCEPT !.segments_out = << >> \o f, !.sender.segments_out = << >>]
  BY DEF seg_2_seg
<1> HIDE DEF f
<1>7. /\ DOMAIN d = ConnFields /\ d.segments_out = f /\ d.sender = t /\ d.receiver = rc
      /\ d.active = c.active /\ d.linger = c.linger
  BY <1>1, <1>5, <1>6 DEF ConnFields
<1> HIDE DEF d
<1>8. /\ t.stream = c.sender.stream /\ t.in_flights = c.sender.in_flights
      /\ t.next_seqno = c.sender.next_seqno
  BY <1>3 DEF QC!Fields
<1>9. Moves(p, c.sender, t, n)
  BY <1>1, DrainMoves
<1>10. RcvLater(rc, rc)
  BY <1>1, RcvSame
<1>11. Within(p, d, s, r, n, o, g)
  <2>1. /\ Moves(p, c.sender, d.sender, n)
        /\ InOrder(Other(p), o, d.receiver, g)
        /\ RcvLater(c.receiver, d.receiver)
    BY <1>1, <1>7, <1>9, <1>10
  <2> HIDE DEF t
  <2> QED
    BY <1>7, <2>1, WithinStep
<1>12. ASSUME NEW i \in DOMAIN out
       PROVE  /\ f[i].rst = out[i].rst
              /\ Carries(p, t, f[i]) /\ Truthful(rc, f[i])
  <2> DEFINE x == out[i]
             y == Stamped(c, x)
  <2>1. x \in QC!Segments /\ Carries(p, c.sender, x) /\ ~x.ack
    BY <1>2, <1>4, <1>12
  <2>2. Carries(p, t, x)
    BY <1>1, <1>9, <2>1, CarriesLater DEF Moves
  <2>3. /\ R!AbsAckno(rc) \in Nat \ {0} /\ R!window_size(rc) \in 0 .. Capacity
    BY <1>1, ReceiverFacts
  <2>4. R!window_size(rc) % Pow16 \in 0 .. Capacity
    <3> DEFINE z == R!window_size(rc)
    <3>1. z \in 0 .. Capacity /\ Capacity \in Nat /\ Pow16 \in Nat \ {0}
      BY <2>3, Constants
    <3> HIDE DEF z
    <3>2. z % Pow16 \in 0 .. Pow16 - 1 /\ z % Pow16 <= z
      BY ONLY <3>1, Z3
    <3> QED
      BY <3>1, <3>2 DEF z
  <2>5. /\ y.payload = x.payload /\ y.seqno = x.seqno /\ y.syn = x.syn /\ y.fin = x.fin
        /\ y.rst = x.rst
        /\ y.ack => /\ rc.syned /\ y.ackno = R!ackno(rc) /\ y.win = R!window_size(rc) % Pow16
    BY <2>1 DEF Stamped, QC!Segments
  <2>6. Truthful(rc, y)
    <3>1. R!AbsAckno(rc) \in 1 .. R!AbsAckno(rc)
      BY <2>3
    <3>2. R!ackno(rc) = wrap(R!AbsAckno(rc), rc.isn)
      BY SameWrap DEF R!ackno
    <3> HIDE DEF y
    <3> QED
      BY <2>4, <2>5, <3>1, <3>2 DEF Truthful
  <2>7. f[i] = y
    BY DEF f
  <2> HIDE DEF x, y, t
  <2> QED
    BY <2>2, <2>5, <2>6, <2>7 DEF Carries, x
<1>13. DOMAIN f = DOMAIN out
  BY DEF f
<1>14. Sent(p, d)
  BY <1>7, <1>12, <1>13 DEF Sent
<1>15. SameResets(out, f)
  BY <1>12, <1>13 DEF SameResets
<1> QED
  BY <1>7, <1>8, <1>11, <1>14, <1>15 DEF d

\* A connection that is over without an error is done.
Complete(p, c) ==
  (~c.active /\ ~c.sender.stream.error) =>
    /\ Finished(c.sender)
    /\ c.receiver.reassembler.output.end /\ Rcv(Other(p)).reassembler.output.end

\* A call of p that ends as d keeps the invariant, whatever of what was sent is lost.
LEMMA StepOK ==
  ASSUME Inv, NEW p \in Peers, NEW d,
         Within(p, d, Snd(p), Rcv(p), Acks(Rcv(Other(p))), Snd(Other(p)), got'[p]),
         Sent(p, d), Complete(p, d),
         conn' = [conn EXCEPT ![p] = [d EXCEPT !.segments_out = << >>]],
         DOMAIN net' = Peers, net'[p] \subseteq net[p],
         net'[Other(p)] \subseteq net[Other(p)]
                              \cup {d.segments_out[i] : i \in DOMAIN d.segments_out},
         DOMAIN got' = Peers, got'[Other(p)] = got[Other(p)]
  PROVE  Inv'
<1> DEFINE q == Other(p)
           s == Snd(p)
           r == Rcv(p)
           n == Acks(Rcv(q))
<1>1. /\ q \in Peers /\ Other(q) = p /\ q # p /\ \A x \in Peers : x = p \/ x = q
  BY Sides
<1>2. DOMAIN conn = Peers
  BY DEF Inv
<1>3. /\ Ready(p, s) /\ Ready(q, Snd(q))
      /\ InOrder(q, Snd(q), r, got[p]) /\ InOrder(p, s, Rcv(q), got[q])
      /\ n \in Nat /\ Acknowledged(s) <= n
  BY WithinStart
<1>4. /\ DOMAIN d = ConnFields /\ Moves(p, s, d.sender, n)
      /\ InOrder(q, Snd(q), d.receiver, got'[p]) /\ RcvLater(r, d.receiver)
  BY DEF Within
<1>5. /\ DOMAIN conn' = Peers /\ conn'[q] = conn[q]
      /\ DOMAIN conn'[p] = ConnFields /\ conn'[p].segments_out = << >>
      /\ conn'[p].sender = d.sender /\ conn'[p].receiver = d.receiver /\ conn'[p].active = d.active
  BY <1>1, <1>2, <1>4 DEF ConnFields
<1>6. /\ Snd(p)' = d.sender /\ Rcv(p)' = d.receiver /\ Failed(p)' = d.sender.stream.error
      /\ Snd(q)' = Snd(q) /\ Rcv(q)' = Rcv(q) /\ Failed(q)' = Failed(q)
  BY <1>5 DEF Snd, Rcv, Failed
<1>7. Ready(p, d.sender) /\ Onward(s, d.sender) /\ Acknowledged(d.sender) <= n
  BY <1>3, <1>4 DEF Moves
<1>8. InOrder(p, d.sender, Rcv(q), got[q])
  BY <1>3, <1>7, InOrderOn
<1>9. ASSUME NEW seg \in net'[q] PROVE Carries(p, d.sender, seg) /\ Truthful(d.receiver, seg)
  <2>1. CASE seg \in net[q]
    <3>1. Carries(p, s, seg) /\ Truthful(r, seg)
      BY <2>1 DEF Inv
    <3>2. Carries(p, d.sender, seg)
      BY <1>3, <1>7, <3>1, CarriesLater
    <3>3. Truthful(d.receiver, seg)
      BY <1>1, <1>3, <1>4, <3>1, TruthfulLater
    <3> QED
      BY <3>2, <3>3
  <2>2. CASE \E i \in DOMAIN d.segments_out : seg = d.segments_out[i]
    BY <2>2 DEF Sent
  <2> QED
    BY <1>9, <2>1, <2>2
<1>10. Acks(r) \in Nat /\ Acks(d.receiver) \in Nat /\ Acks(r) <= Acks(d.receiver)
  BY <1>1, <1>3, <1>4, ReceiverFacts DEF RcvLater
<1>11. Acknowledged(Snd(q)) <= Acks(d.receiver)
  <2>1. Acknowledged(Snd(q)) <= Acks(r)
    BY <1>1 DEF Inv
  <2>2. Acknowledged(Snd(q)) \in Int
    BY <1>1, <1>3, ReadyFacts DEF Acknowledged
  <2> QED
    BY <1>10, <2>1, <2>2
<1>12. ASSUME NEW seg \in net'[p] PROVE Carries(q, Snd(q), seg) /\ Truthful(Rcv(q), seg)
  BY <1>1, <1>12 DEF Inv
<1>13. Closed(p)'
  BY <1>5, <1>6 DEF Closed, Complete
<1>14. Closed(q)'
  <2>1. Closed(q)
    BY <1>1 DEF Inv
  <2>2. r.reassembler.output.end => d.receiver.reassembler.output.end
    BY <1>4 DEF RcvLater
  <2> QED
    BY <1>1, <1>5, <1>6, <2>1, <2>2 DEF Closed
<1>15. /\ DOMAIN conn'[p] = ConnFields /\ conn'[p].segments_out = << >>
       /\ Ready(p, Snd(p)')
       /\ InOrder(p, Snd(p)', Rcv(q)', got'[q])
       /\ \A seg \in net'[q] : Carries(p, Snd(p)', seg) /\ Truthful(Rcv(p)', seg)
       /\ Acknowledged(Snd(p)') <= Acks(Rcv(q)')
  BY <1>5, <1>6, <1>7, <1>8, <1>9
<1>16. /\ DOMAIN conn'[q] = ConnFields /\ conn'[q].segments_out = << >>
       /\ Ready(q, Snd(q)')
       /\ InOrder(q, Snd(q)', Rcv(p)', got'[p])
       /\ \A seg \in net'[p] : Carries(q, Snd(q)', seg) /\ Truthful(Rcv(q)', seg)
       /\ Acknowledged(Snd(q)') <= Acks(Rcv(p)')
  <2>1. DOMAIN conn[q] = ConnFields /\ conn[q].segments_out = << >>
    BY <1>1 DEF Inv
  <2> QED
    BY <1>3, <1>4, <1>5, <1>6, <1>11, <1>12, <2>1
<1> QED
  BY <1>1, <1>5, <1>13, <1>14, <1>15, <1>16 DEF Inv

--------------------------------------------------------------------------------
\* The calls.

\* What a call of p that finds the connection c leaves as d, with nothing to send yet.
Keeps(c, d) ==
  /\ d.segments_out = c.segments_out /\ d.active = c.active
  /\ d.sender.stream.error = c.sender.stream.error

\* The sender has moved.
LEMMA SenderWithin ==
  ASSUME NEW p \in Peers, NEW c, NEW s, NEW r, NEW n, NEW o, NEW g,
         Ready(p, s), Ready(Other(p), o), InOrder(Other(p), o, r, g),
         Within(p, c, s, r, n, o, g), NEW t, Moves(p, c.sender, t, n)
  PROVE  LET d == [c EXCEPT !.sender = t]
         IN  /\ Within(p, d, s, r, n, o, g) /\ (Sent(p, c) => Sent(p, d))
             /\ d.segments_out = c.segments_out /\ d.active = c.active /\ d.linger = c.linger
             /\ d.sender = t /\ d.receiver = c.receiver
             /\ t.stream.error = c.sender.stream.error => Keeps(c, d)
<1> DEFINE d == [c EXCEPT !.sender = t]
<1>1. DOMAIN c = ConnFields /\ InOrder(Other(p), o, c.receiver, g) /\ Other(p) \in Peers
  BY Sides DEF Within
<1>2. /\ DOMAIN d = ConnFields /\ d.sender = t /\ d.receiver = c.receiver
      /\ d.segments_out = c.segments_out /\ d.active = c.active /\ d.linger = c.linger
  BY <1>1 DEF ConnFields
<1> HIDE DEF d
<1>3. RcvLater(c.receiver, c.receiver)
  BY <1>1, RcvSame
<1>4. Within(p, d, s, r, n, o, g) /\ (Sent(p, c) => Sent(p, d))
  BY <1>1, <1>2, <1>3, WithinStep
<1> QED
  BY <1>2, <1>4 DEF d, Keeps

\* Sending what the window allows.
LEMMA FillWithin ==
  ASSUME NEW p \in Peers, NEW c, NEW s, NEW r, NEW n, NEW o, NEW g,
         Ready(p, s), Ready(Other(p), o), InOrder(Other(p), o, r, g),
         Within(p, c, s, r, n, o, g)
  PROVE  Within(p, Fill(c), s, r, n, o, g) /\ Keeps(c, Fill(c)) /\ Fill(c).receiver = c.receiver
<1> DEFINE t == S!fill_window(c.sender)
<1>1. Ready(p, c.sender)
  BY DEF Within, Moves
<1>2. Moves(p, c.sender, t, n) /\ t.stream.error = c.sender.stream.error
  BY <1>1, FillMoves
<1>3. Fill(c) = [c EXCEPT !.sender = t]
  BY DEF Fill
<1> HIDE DEF t
<1>4. LET d == [c EXCEPT !.sender = t]
      IN  Within(p, d, s, r, n, o, g) /\ Keeps(c, d) /\ d.receiver = c.receiver
  BY <1>2, SenderWithin
<1> QED
  BY <1>3, <1>4

\* connect, and the end of write and end_input_stream.
LEMMA SendsAll ==
  ASSUME NEW p \in Peers, NEW c, NEW s, NEW r, NEW n, NEW o, NEW g,
         Ready(p, s), Ready(Other(p), o), InOrder(Other(p), o, r, g),
         Within(p, c, s, r, n, o, g), c.segments_out = << >>
  PROVE  LET d == seg_2_seg(Fill(c))
         IN  /\ Within(p, d, s, r, n, o, g) /\ Sent(p, d)
             /\ d.active = c.active /\ d.sender.stream.error = c.sender.stream.error
<1> DEFINE x == Fill(c)
<1>1. Within(p, x, s, r, n, o, g) /\ Keeps(c, x)
  BY FillWithin
<1> HIDE DEF x
<1>2. x.segments_out = << >>
  BY <1>1 DEF Keeps
<1>3. LET d == seg_2_seg(x)
      IN  /\ Within(p, d, s, r, n, o, g) /\ Sent(p, d)
          /\ d.active = x.active /\ d.sender.stream = x.sender.stream
  BY <1>1, <1>2, SegmentsMove
<1> QED
  BY <1>1, <1>3 DEF x, Keeps

\* The owner writes.
LEMMA WriteWithin ==
  ASSUME NEW p \in Peers, NEW c, NEW r, NEW n, NEW o, NEW g,
         Ready(p, c.sender), Ready(Other(p), o), InOrder(Other(p), o, r, g),
         Within(p, c, c.sender, r, n, o, g), c.segments_out = << >>,
         ~c.sender.stream.end, NEW k \in Nat, c.sender.stream.written + k <= Longest
  PROVE  LET d == write(c, [i \in 1 .. k |-> c.sender.stream.written + i])
         IN  /\ Within(p, d, c.sender, r, n, o, g) /\ Sent(p, d)
             /\ d.active = c.active /\ d.sender.stream.error = c.sender.stream.error
<1> DEFINE data == [i \in 1 .. k |-> c.sender.stream.written + i]
           t == [c.sender EXCEPT !.stream = BS!write(c.sender.stream, data)]
           x == [c EXCEPT !.sender = t]
<1>1. Moves(p, c.sender, t, n) /\ t.stream.error = c.sender.stream.error
  BY WriteMoves
<1>2. write(c, data) = seg_2_seg(Fill(x))
  <2>1. [c EXCEPT !.sender.stream = BS!write(@, data)] = x
    BY Zenon
  <2> HIDE DEF x, data
  <2> QED
    BY <2>1 DEF write
<1> HIDE DEF t, data
<1>3. Within(p, x, c.sender, r, n, o, g) /\ Keeps(c, x)
  BY <1>1, SenderWithin
<1> HIDE DEF x
<1>4. x.segments_out = << >>
  BY <1>3 DEF Keeps
<1>5. LET d == seg_2_seg(Fill(x))
      IN  /\ Within(p, d, c.sender, r, n, o, g) /\ Sent(p, d)
          /\ d.active = x.active /\ d.sender.stream.error = x.sender.stream.error
  BY <1>3, <1>4, SendsAll
<1> QED
  BY <1>2, <1>3, <1>5 DEF data, Keeps

\* The owner ends the stream.
LEMMA EndWithin ==
  ASSUME NEW p \in Peers, NEW c, NEW r, NEW n, NEW o, NEW g,
         Ready(p, c.sender), Ready(Other(p), o), InOrder(Other(p), o, r, g),
         Within(p, c, c.sender, r, n, o, g), c.segments_out = << >>
  PROVE  LET d == end_input_stream(c)
         IN  /\ Within(p, d, c.sender, r, n, o, g) /\ Sent(p, d)
             /\ d.active = c.active /\ d.sender.stream.error = c.sender.stream.error
<1> DEFINE t == [c.sender EXCEPT !.stream = BS!end_input(c.sender.stream)]
           x == [c EXCEPT !.sender = t]
<1>1. Moves(p, c.sender, t, n) /\ t.stream.error = c.sender.stream.error
  BY EndMoves
<1>2. end_input_stream(c) = seg_2_seg(Fill(x))
  <2>1. [c EXCEPT !.sender.stream = BS!end_input(@)] = x
    BY Zenon
  <2> HIDE DEF x
  <2> QED
    BY <2>1 DEF end_input_stream
<1> HIDE DEF t
<1>3. Within(p, x, c.sender, r, n, o, g) /\ Keeps(c, x)
  BY <1>1, SenderWithin
<1> HIDE DEF x
<1>4. x.segments_out = << >>
  BY <1>3 DEF Keeps
<1>5. LET d == seg_2_seg(Fill(x))
      IN  /\ Within(p, d, c.sender, r, n, o, g) /\ Sent(p, d)
          /\ d.active = x.active /\ d.sender.stream.error = x.sender.stream.error
  BY <1>3, <1>4, SendsAll
<1> QED
  BY <1>2, <1>3, <1>5 DEF Keeps

\* Both streams fail: nothing else changes.
LEMMA ErrorsWithin ==
  ASSUME NEW p \in Peers, NEW c, NEW s, NEW r, NEW n, NEW o, NEW g,
         Ready(p, s), Ready(Other(p), o), InOrder(Other(p), o, r, g),
         Within(p, c, s, r, n, o, g)
  PROVE  LET d == SetErrors(c)
         IN  /\ Within(p, d, s, r, n, o, g) /\ (Sent(p, c) => Sent(p, d))
             /\ d.segments_out = c.segments_out /\ d.sender.stream.error = TRUE
<1> DEFINE t == [c.sender EXCEPT !.stream = BS!set_error(c.sender.stream)]
           b == c.receiver.reassembler.output
           u == [c.receiver EXCEPT !.reassembler =
                  [c.receiver.reassembler EXCEPT !.output = BS!set_error(b)]]
           d == SetErrors(c)
<1>1. /\ DOMAIN c = ConnFields /\ InOrder(Other(p), o, c.receiver, g) /\ Ready(p, c.sender)
      /\ Other(p) \in Peers
  BY Sides DEF Within, Moves
<1>2. Moves(p, c.sender, t, n) /\ t.stream.error = TRUE
  BY <1>1, ErrorMoves
<1>3. InOrder(Other(p), o, u, g) /\ RcvLater(c.receiver, u)
  BY <1>1, InOrderError
<1>4. d = [[c EXCEPT !.sender = t] EXCEPT !.receiver = u]
  BY <1>1 DEF SetErrors, ConnFields
<1> HIDE DEF t, u
<1>5. /\ DOMAIN d = ConnFields /\ d.sender = t /\ d.receiver = u /\ d.segments_out = c.segments_out
  BY <1>1, <1>4 DEF ConnFields
<1> HIDE DEF d
<1>6. Within(p, d, s, r, n, o, g) /\ (Sent(p, c) => Sent(p, d))
  BY <1>1, <1>2, <1>3, <1>5, WithinStep
<1> QED
  BY <1>2, <1>5, <1>6 DEF d

\* A flag or the time in TIME_WAIT changes.
LEMMA FlagsWithin ==
  ASSUME NEW p \in Peers, NEW c, NEW s, NEW r, NEW n, NEW o, NEW g, NEW d,
         Within(p, c, s, r, n, o, g),
         DOMAIN d = ConnFields, d.sender = c.sender, d.receiver = c.receiver
  PROVE  /\ Within(p, d, s, r, n, o, g)
         /\ d.segments_out = c.segments_out /\ Sent(p, c) => Sent(p, d)
  BY DEF Within, Sent

\* The acknowledgment a segment carries.
LEMMA AckWithin ==
  ASSUME NEW p \in Peers, NEW c, NEW s, NEW r, NEW n \in Nat, NEW o, NEW g,
         Ready(p, s), Ready(Other(p), o), InOrder(Other(p), o, r, g),
         Within(p, c, s, r, n, o, g), NEW seg, n <= s.next_seqno,
         seg.ack => /\ seg.win \in 0 .. Capacity
                    /\ \E a \in 1 .. n : seg.ackno = wrap(a, Isn(p))
  PROVE  LET d == HandleAck(c, seg)
         IN  Within(p, d, s, r, n, o, g) /\ Keeps(c, d) /\ d.receiver = c.receiver
<1>1. CASE ~seg.ack
  BY <1>1 DEF HandleAck, Keeps
<1>2. CASE seg.ack
  <2>1. PICK a \in 1 .. n : seg.ackno = wrap(a, Isn(p))
    BY <1>2
  <2> DEFINE t == S!ack_received(c.sender, seg.ackno, seg.win)
             x == [c EXCEPT !.sender = t]
  <2>2. Ready(p, c.sender) /\ s.next_seqno <= c.sender.next_seqno
    BY DEF Within, Moves, Onward
  <2>3. a \in 1 .. c.sender.next_seqno /\ a <= n
    <3>1. s.next_seqno \in Nat /\ c.sender.next_seqno \in Nat
      BY <2>2, ReadyFacts
    <3> QED
      BY <2>2, <3>1
  <2>4. Moves(p, c.sender, t, n) /\ t.stream = c.sender.stream
    BY <1>2, <2>1, <2>2, <2>3, AckMoves
  <2>5. HandleAck(c, seg) = Fill(x)
    BY <1>2 DEF HandleAck
  <2> HIDE DEF t
  <2>6. Within(p, x, s, r, n, o, g) /\ Keeps(c, x) /\ x.receiver = c.receiver
    BY <2>4, SenderWithin
  <2> HIDE DEF x
  <2>7. Within(p, Fill(x), s, r, n, o, g) /\ Keeps(x, Fill(x)) /\ Fill(x).receiver = x.receiver
    BY <2>6, FillWithin
  <2> QED
    BY <2>5, <2>6, <2>7 DEF Keeps
<1> QED
  BY <1>1, <1>2

\* The answers to a segment: the SYN and an empty segment.
LEMMA AnswersWithin ==
  ASSUME NEW p \in Peers, NEW c, NEW s, NEW r, NEW n, NEW o, NEW g,
         Ready(p, s), Ready(Other(p), o), InOrder(Other(p), o, r, g),
         Within(p, c, s, r, n, o, g), NEW seg
  PROVE  LET d == Acknowledge(AnswerSyn(c), seg)
         IN  Within(p, d, s, r, n, o, g) /\ Keeps(c, d)
<1> DEFINE x == AnswerSyn(c)
           t == S!send_empty_segment(x.sender)
           y == [x EXCEPT !.sender = t]
<1>1. Within(p, x, s, r, n, o, g) /\ Keeps(c, x)
  BY FillWithin DEF AnswerSyn, Keeps
<1>2. Ready(p, x.sender)
  BY <1>1 DEF Within, Moves
<1>3. Moves(p, x.sender, t, n) /\ t.stream = x.sender.stream
  BY <1>2, EmptyMoves
<1>4. Acknowledge(x, seg) \in {x, y}
  BY DEF Acknowledge
<1> HIDE DEF x, t
<1>5. Within(p, y, s, r, n, o, g) /\ Keeps(x, y)
  BY <1>1, <1>3, SenderWithin
<1> QED
  BY <1>1, <1>4, <1>5 DEF x, Keeps

\* A segment arrives.
LEMMA SegmentWithin ==
  ASSUME NEW p \in Peers, NEW c, NEW n \in Nat, NEW o, NEW g,
         Ready(p, c.sender), Ready(Other(p), o), InOrder(Other(p), o, c.receiver, g),
         Within(p, c, c.sender, c.receiver, n, o, g), c.segments_out = << >>, c.active,
         n <= c.sender.next_seqno, NEW seg, Carries(Other(p), o, seg),
         seg.ack => /\ seg.win \in 0 .. Capacity
                    /\ \E a \in 1 .. n : seg.ackno = wrap(a, Isn(p))
  PROVE  LET d == segment_received(c, seg)
         IN  /\ Within(p, d, c.sender, c.receiver, n, o, g) /\ Sent(p, d)
             /\ d.active \/ d.sender.stream.error
             /\ seg.rst \/ d.sender.stream.error = c.sender.stream.error
<1> DEFINE s == c.sender
           r == c.receiver
           W(x) == Within(p, x, s, r, n, o, g)
<1>1. Sent(p, c)
  BY DEF Sent
<1>2. DOMAIN c = ConnFields
  BY DEF Within
<1>3. CASE c.sender.next_seqno = 0 /\ seg.ack
  <2>1. segment_received(c, seg) = c
    BY <1>3 DEF segment_received
  <2> QED
    BY <1>1, <2>1
<1>4. CASE ~(c.sender.next_seqno = 0 /\ seg.ack) /\ seg.rst
  <2> DEFINE x == [c EXCEPT !.active = FALSE, !.linger = FALSE]
  <2>1. segment_received(c, seg) = SetErrors(x)
    BY <1>4 DEF segment_received
  <2>2. /\ DOMAIN x = ConnFields /\ x.sender = s /\ x.receiver = r
        /\ x.segments_out = c.segments_out
    BY <1>2 DEF ConnFields
  <2> HIDE DEF x
  <2>3. W(x) /\ Sent(p, x)
    BY <1>1, <2>2, FlagsWithin
  <2>4. W(SetErrors(x)) /\ Sent(p, SetErrors(x)) /\ SetErrors(x).sender.stream.error = TRUE
    BY <2>3, ErrorsWithin
  <2> QED
    BY <1>4, <2>1, <2>4
<1>5. CASE ~(c.sender.next_seqno = 0 /\ seg.ack) /\ ~seg.rst
  <2> DEFINE x == NoteFin(c, seg)
             u == R!segment_received(x.receiver, seg)
             heard == [x EXCEPT !.receiver = u]
             y == HandleAck(heard, seg)
             z == Acknowledge(AnswerSyn(y), seg)
  <2>1. segment_received(c, seg) = seg_2_seg(z)
    BY <1>5 DEF segment_received
  <2>2. /\ DOMAIN x = ConnFields /\ x.sender = s /\ x.receiver = r
        /\ x.segments_out = << >> /\ x.active = c.active
    BY <1>2 DEF NoteFin, ConnFields
  <2>3. Other(p) \in Peers
    BY Sides
  <2>4. InOrder(Other(p), o, u, g) /\ RcvLater(r, u)
    BY <2>2, <2>3, Receives
  <2> HIDE DEF x, u
  <2>5. /\ DOMAIN heard = ConnFields /\ heard.sender = s /\ heard.receiver = u
        /\ heard.segments_out = << >> /\ heard.active = c.active
    BY <2>2 DEF ConnFields
  <2> HIDE DEF heard
  <2>6. Moves(p, s, heard.sender, n)
    BY <2>5, MovesNot
  <2>7. W(heard)
    BY <2>4, <2>5, <2>6 DEF Within
  <2>8. W(y) /\ Keeps(heard, y)
    BY <2>7, AckWithin
  <2> HIDE DEF y
  <2>9. W(z) /\ Keeps(y, z)
    BY <2>8, AnswersWithin
  <2> HIDE DEF z
  <2>10. z.segments_out = << >> /\ z.active /\ z.sender.stream.error = s.stream.error
    BY <2>5, <2>8, <2>9 DEF Keeps
  <2>11. LET d == seg_2_seg(z)
         IN  W(d) /\ Sent(p, d) /\ d.active = z.active /\ d.sender.stream = z.sender.stream
    BY <2>9, <2>10, SegmentsMove
  <2> QED
    BY <2>1, <2>10, <2>11
<1> QED
  BY <1>3, <1>4, <1>5

\* When the FIN of t, the sender of p, is acknowledged, the peer has everything.
LEMMA PeerHasAll ==
  ASSUME NEW p \in Peers, NEW t, NEW ro, NEW h, Ready(p, t), InOrder(p, t, ro, h),
         t.stream.end, t.stream.buffer = << >>, t.stream.written + 2 <= t.next_seqno,
         t.in_flights <= 0, Acknowledged(t) <= Acks(ro)
  PROVE  Finished(t) /\ ro.reassembler.output.end
<1>1. /\ t.next_seqno \in Nat /\ t.in_flights \in Int /\ t.stream.written \in Nat
      /\ t.stream.total_read \in Nat /\ t.stream.total_read <= t.stream.written
      /\ t.next_seqno <= t.stream.total_read + 2
  BY ReadyFacts
<1>2. /\ Acks(ro) \in Nat
      /\ t.stream.written + 2 <= Acks(ro) => ro.reassembler.output.end
  BY ReceiverFacts
<1>3. t.next_seqno = t.stream.written + 2
  BY <1>1
<1>4. t.stream.written + 2 <= Acks(ro)
  BY <1>1, <1>2 DEF Acknowledged
<1> QED
  BY <1>2, <1>3, <1>4 DEF Finished

\* The conditions of the code in terms of the members.
LEMMA StreamOver ==
  ASSUME NEW p \in Peers, NEW c, Ready(p, c.sender)
  PROVE  /\ BS!eof(c.sender.stream) <=> c.sender.stream.end /\ c.sender.stream.buffer = << >>
         /\ FinSent(c) <=> /\ c.sender.stream.end /\ c.sender.stream.buffer = << >>
                           /\ c.sender.next_seqno = c.sender.stream.written + 2
         /\ state(c) = T!Official.TIME_WAIT =>
              /\ c.sender.stream.end /\ c.sender.stream.buffer = << >>
              /\ c.sender.stream.written + 2 <= c.sender.next_seqno
              /\ c.sender.in_flights <= 0 /\ c.receiver.reassembler.output.end
<1> DEFINE s == c.sender
           b == s.stream
<1>1. /\ b.buffer \in Seq(Nat) /\ BS!bytes_written(b) = b.written
      /\ s.next_seqno \in Nat /\ s.in_flights \in Int /\ b.written \in Nat
  BY ReadyFacts
<1>2. Len(b.buffer) = 0 <=> b.buffer = << >>
  BY <1>1, EmptySeq
<1>3. BS!eof(b) <=> b.end /\ b.buffer = << >>
  BY <1>2 DEF BS!eof, BS!input_ended, BS!buffer_empty, BS!buffer_size
<1>4. FinSent(c) <=> b.end /\ b.buffer = << >> /\ s.next_seqno = b.written + 2
  BY <1>1, <1>3 DEF FinSent
<1>5. ASSUME state(c) = T!Official.TIME_WAIT
      PROVE  /\ b.end /\ b.buffer = << >> /\ b.written + 2 <= s.next_seqno
             /\ s.in_flights <= 0 /\ c.receiver.reassembler.output.end
  <2>1. T!SenderSummary(s) = "FIN_ACKED" /\ T!ReceiverSummary(c.receiver) = "FIN_RECV"
    BY <1>5 DEF state, T!Summary, T!Official, T!Open
  <2>2. c.receiver.reassembler.output.end
    BY <2>1 DEF T!ReceiverSummary, T!BS!input_ended
  <2>3. T!BS!eof(b) /\ ~(s.next_seqno < T!BS!bytes_written(b) + 2) /\ ~(s.in_flights > 0)
    BY <2>1 DEF T!SenderSummary
  <2>4. T!BS!eof(b) = BS!eof(b) /\ T!BS!bytes_written(b) = BS!bytes_written(b)
    BY DEF T!BS!eof, BS!eof, T!BS!input_ended, BS!input_ended, T!BS!buffer_empty,
           BS!buffer_empty, T!BS!buffer_size, BS!buffer_size, T!BS!bytes_written,
           BS!bytes_written, T!BS!Size, BS!Size
  <2> QED
    BY <1>1, <1>3, <2>2, <2>3, <2>4
<1> QED
  BY <1>3, <1>4, <1>5

\* The connection c of p tells the peer that it has failed.
Resets(c) == \E i \in DOMAIN c.segments_out : c.segments_out[i].rst

\* A RST goes out: whatever the rest of the sender's queue holds, it is the last one.
LEMMA ResetWithin ==
  ASSUME NEW p \in Peers, NEW c, NEW s, NEW r, NEW n, NEW o, NEW g,
         Ready(p, s), Ready(Other(p), o), InOrder(Other(p), o, r, g),
         Within(p, c, s, r, n, o, g), c.segments_out = << >>
  PROVE  LET d == seg_2_seg([c EXCEPT !.sender = S!send_empty_segment_RST(c.sender)])
         IN  Within(p, d, s, r, n, o, g) /\ Sent(p, d) /\ Resets(d)
<1> DEFINE t == S!send_empty_segment_RST(c.sender)
           x == [c EXCEPT !.sender = t]
           d == seg_2_seg(x)
           out == c.sender.segments_out
           rst == [S!Segment EXCEPT !.seqno = S!next_seqno(c.sender), !.rst = TRUE]
<1>1. Ready(p, c.sender)
  BY DEF Within, Moves
<1>2. Moves(p, c.sender, t, n)
  BY <1>1, EmptyMoves
<1>3. Within(p, x, s, r, n, o, g) /\ x.segments_out = << >> /\ x.sender = t
  <2> HIDE DEF t
  <2> QED
    BY <1>2, SenderWithin
<1>4. out \in Seq(QC!Segments) /\ DOMAIN c.sender = QC!Fields
  BY <1>1, OutCarries, ReadyFacts
<1>5. t.segments_out = Append(out, rst)
  BY <1>4 DEF S!send_empty_segment_RST, QC!Fields
<1>6. rst.rst = TRUE
  BY DEF S!Segment
<1> HIDE DEF rst
<1>7. /\ Len(out) \in Nat
      /\ DOMAIN Append(out, rst) = 1 .. Len(out) + 1
      /\ Append(out, rst)[Len(out) + 1] = rst
  <2>1. Len(out) \in Nat /\ DOMAIN out = 1 .. Len(out)
    BY <1>4, LenProperties
  <2> DEFINE any == {out[i] : i \in DOMAIN out} \cup {rst}
  <2>2. out \in Seq(any) /\ rst \in any
    BY <1>4, <2>1
  <2> HIDE DEF any, out
  <2> QED
    BY <2>1, <2>2, AppendProperties
<1> HIDE DEF t, x
<1>8. /\ Within(p, d, s, r, n, o, g) /\ Sent(p, d)
      /\ SameResets(x.sender.segments_out, d.segments_out)
  BY <1>3, SegmentsMove
<1>9. Len(out) + 1 \in 1 .. Len(out) + 1
  BY <1>7
<1> HIDE DEF d, out
<1>10. Resets(d)
  BY <1>3, <1>5, <1>6, <1>7, <1>8, <1>9 DEF Resets, SameResets
<1> QED
  BY <1>8, <1>10 DEF d, x, t

\* Too many retransmissions.
LEMMA GiveUpWithin ==
  ASSUME NEW p \in Peers, NEW c, NEW s, NEW r, NEW n, NEW o, NEW g,
         Ready(p, s), Ready(Other(p), o), InOrder(Other(p), o, r, g),
         Within(p, c, s, r, n, o, g)
  PROVE  LET d == GiveUp(c)
         IN  Within(p, d, s, r, n, o, g) /\ Sent(p, d) /\ Resets(d) /\ d.sender.stream.error = TRUE
<1> DEFINE W(x) == Within(p, x, s, r, n, o, g)
           t == [c.sender EXCEPT !.segments_out = << >>]
           u == [c EXCEPT !.active = FALSE, !.segments_out = << >>]
           quiet == [c EXCEPT !.active = FALSE, !.segments_out = << >>,
                           !.sender.segments_out = << >>]
           rst == seg_2_seg([quiet EXCEPT !.sender = S!send_empty_segment_RST(quiet.sender)])
           y == [rst EXCEPT !.linger = FALSE]
<1>1. DOMAIN c = ConnFields /\ Ready(p, c.sender)
  BY DEF Within, Moves
<1>2. GiveUp(c) = SetErrors(y)
  BY DEF GiveUp
<1>3. /\ DOMAIN u = ConnFields /\ u.sender = c.sender /\ u.receiver = c.receiver
      /\ u.segments_out = << >>
  BY <1>1 DEF ConnFields
<1>4. W(u)
  <2> HIDE DEF u
  <2> QED
    BY <1>3, FlagsWithin
<1>5. Moves(p, u.sender, t, n)
  BY <1>1, <1>3, DrainMoves
<1>6. quiet = [u EXCEPT !.sender = t]
  BY <1>1 DEF ConnFields
<1>7. W(quiet) /\ quiet.segments_out = << >>
  <2> DEFINE z == [u EXCEPT !.sender = t]
  <2> HIDE DEF u, t, quiet
  <2>1. W(z) /\ z.segments_out = u.segments_out
    BY <1>4, <1>5, SenderWithin
  <2> QED
    BY <1>3, <1>6, <2>1
<1> HIDE DEF quiet
<1>8. W(rst) /\ Sent(p, rst) /\ Resets(rst)
  BY <1>7, ResetWithin
<1> HIDE DEF rst
<1>9. DOMAIN rst = ConnFields
  BY <1>8 DEF Within
<1>10. /\ DOMAIN y = ConnFields /\ y.sender = rst.sender /\ y.receiver = rst.receiver
       /\ y.segments_out = rst.segments_out
  BY <1>9 DEF ConnFields
<1> HIDE DEF y
<1>11. W(y) /\ Sent(p, y)
  BY <1>8, <1>10, FlagsWithin
<1>12. LET d == SetErrors(y)
       IN  W(d) /\ Sent(p, d) /\ d.segments_out = y.segments_out /\ d.sender.stream.error = TRUE
  BY <1>11, ErrorsWithin
<1> QED
  BY <1>2, <1>8, <1>10, <1>12 DEF Resets

\* The destructor.
LEMMA DestroyWithin ==
  ASSUME NEW p \in Peers, NEW c, NEW s, NEW r, NEW n, NEW o, NEW g,
         Ready(p, s), Ready(Other(p), o), InOrder(Other(p), o, r, g),
         Within(p, c, s, r, n, o, g), c.segments_out = << >>, c.active
  PROVE  LET d == Destroy(c)
         IN  Within(p, d, s, r, n, o, g) /\ Sent(p, d) /\ d.sender.stream.error = TRUE
<1> DEFINE W(x) == Within(p, x, s, r, n, o, g)
           u == [c EXCEPT !.active = FALSE, !.linger = FALSE]
           rst == seg_2_seg([u EXCEPT !.sender = S!send_empty_segment_RST(u.sender)])
<1>1. DOMAIN c = ConnFields
  BY DEF Within
<1>2. Destroy(c) = SetErrors(rst)
  <2>1. [c EXCEPT !.active = FALSE, !.linger = FALSE, !.sender = S!send_empty_segment_RST(@)]
          = [u EXCEPT !.sender = S!send_empty_segment_RST(u.sender)]
    BY <1>1 DEF ConnFields
  <2> HIDE DEF u
  <2> QED
    BY <2>1 DEF Destroy
<1>3. /\ DOMAIN u = ConnFields /\ u.sender = c.sender /\ u.receiver = c.receiver
      /\ u.segments_out = << >>
  BY <1>1 DEF ConnFields
<1> HIDE DEF u
<1>4. W(u)
  BY <1>3, FlagsWithin
<1>5. W(rst) /\ Sent(p, rst)
  BY <1>3, <1>4, ResetWithin
<1> HIDE DEF rst
<1> QED
  BY <1>2, <1>5, ErrorsWithin

\* A tick: ro is the receiver of the peer, h what its owner has read.
LEMMA TickWithin ==
  ASSUME NEW p \in Peers, NEW c, NEW o, NEW g, NEW ro, NEW h, NEW ms \in Nat,
         Ready(p, c.sender), Ready(Other(p), o), InOrder(Other(p), o, c.receiver, g),
         InOrder(p, c.sender, ro, h), Acknowledged(c.sender) <= Acks(ro),
         Within(p, c, c.sender, c.receiver, Acks(ro), o, g), c.segments_out = << >>, c.active
  PROVE  LET d == tick(c, ms)
         IN  /\ Within(p, d, c.sender, c.receiver, Acks(ro), o, g) /\ Sent(p, d)
             /\ (~d.active /\ ~d.sender.stream.error) =>
                  /\ Finished(d.sender)
                  /\ d.receiver.reassembler.output.end /\ ro.reassembler.output.end
             /\ Resets(d) \/ d.sender.stream.error = c.sender.stream.error
<1> DEFINE s == c.sender
           r == c.receiver
           n == Acks(ro)
           W(x) == Within(p, x, s, r, n, o, g)
           t == S!tick(s, ms)
           ticked == [c EXCEPT !.sender = t]
           waited == c.since_time_wait + ms
           sent == seg_2_seg(ticked)
           d == tick(c, ms)
           over == [ticked EXCEPT !.since_time_wait = waited, !.linger = FALSE, !.active = FALSE]
           waits == [ticked EXCEPT !.since_time_wait = waited]
           shut == [sent EXCEPT !.active = FALSE]
<1>1. Moves(p, s, t, n) /\ t.stream = s.stream
  BY TickMoves
<1>2. \/ state(ticked) = T!Official.TIME_WAIT /\ d \in {over, waits}
      \/ d = GiveUp(ticked)
      \/ CleanShutdown(sent) /\ d = shut
      \/ d = sent
  BY DEF tick
<1> HIDE DEF t, d
<1>3. /\ W(ticked) /\ ticked.segments_out = << >> /\ ticked.active = c.active
      /\ ticked.sender = t
  <2> DEFINE e == [c EXCEPT !.sender = t]
  <2>1. /\ p \in Peers /\ Ready(p, s) /\ Ready(Other(p), o) /\ InOrder(Other(p), o, r, g)
        /\ Within(p, c, s, r, n, o, g)
    OBVIOUS
  <2> HIDE DEF s, r, n
  <2>2. W(e) /\ e.segments_out = c.segments_out /\ e.active = c.active /\ e.sender = t
    <3>1. Moves(p, c.sender, t, n)
      BY <1>1 DEF s
    <3>2. /\ Within(p, e, s, r, n, o, g)
          /\ e.segments_out = c.segments_out /\ e.active = c.active /\ e.sender = t
      BY ONLY <2>1, <3>1, SenderWithin
    <3> QED
      BY <3>2
  <2> QED
    BY <2>2
<1> HIDE DEF ticked
<1>4. /\ W(sent) /\ Sent(p, sent) /\ sent.active = c.active
      /\ sent.sender.stream = s.stream
  <2>1. LET e == seg_2_seg(ticked)
        IN  W(e) /\ Sent(p, e) /\ e.sender.stream = ticked.sender.stream /\ e.active = ticked.active
    BY <1>3, SegmentsMove
  <2> QED
    BY <1>1, <1>3, <2>1
<1> HIDE DEF sent
<1>5. ASSUME NEW x, W(x), x.sender.stream.end, x.sender.stream.buffer = << >>,
             x.sender.stream.written + 2 <= x.sender.next_seqno, x.sender.in_flights <= 0
      PROVE  Finished(x.sender) /\ ro.reassembler.output.end
  <2>1. Ready(p, x.sender) /\ Onward(s, x.sender) /\ Acknowledged(x.sender) <= n
    BY <1>5 DEF Within, Moves
  <2>2. InOrder(p, x.sender, ro, h)
    BY <2>1, InOrderOn
  <2> QED
    BY <1>5, <2>1, <2>2, PeerHasAll
<1>6. CASE state(ticked) = T!Official.TIME_WAIT /\ d \in {over, waits}
  <2>1. DOMAIN ticked = ConnFields /\ Ready(p, ticked.sender)
    BY <1>3 DEF Within, Moves
  <2>2. /\ DOMAIN d = ConnFields /\ d.sender = ticked.sender /\ d.receiver = ticked.receiver
        /\ d.segments_out = ticked.segments_out
    BY <1>6, <2>1 DEF ConnFields
  <2>3. Sent(p, ticked)
    BY <1>3 DEF Sent
  <2>4. W(d) /\ Sent(p, d)
    BY <1>3, <2>2, <2>3, FlagsWithin
  <2>5. /\ ticked.sender.stream.end /\ ticked.sender.stream.buffer = << >>
        /\ ticked.sender.stream.written + 2 <= ticked.sender.next_seqno
        /\ ticked.sender.in_flights <= 0 /\ ticked.receiver.reassembler.output.end
    BY <1>6, <2>1, StreamOver
  <2>6. Finished(ticked.sender) /\ ro.reassembler.output.end
    BY <1>3, <1>5, <2>5
  <2> QED
    BY <1>1, <1>3, <2>2, <2>4, <2>5, <2>6 DEF d
<1>7. CASE d = GiveUp(ticked)
  <2>1. LET e == GiveUp(ticked)
        IN  W(e) /\ Sent(p, e) /\ Resets(e) /\ e.sender.stream.error = TRUE
    BY <1>3, GiveUpWithin
  <2> QED
    BY <1>7, <2>1 DEF d
<1>8. CASE CleanShutdown(sent) /\ d = shut
  <2>1. DOMAIN sent = ConnFields /\ Ready(p, sent.sender)
    BY <1>4 DEF Within, Moves
  <2>2. /\ DOMAIN d = ConnFields /\ d.sender = sent.sender /\ d.receiver = sent.receiver
        /\ d.segments_out = sent.segments_out
    BY <1>8, <2>1 DEF ConnFields
  <2>3. W(d) /\ Sent(p, d)
    BY <1>4, <2>2, FlagsWithin
  <2>4. /\ sent.receiver.reassembler.output.end /\ FinSent(sent) /\ sent.sender.in_flights = 0
    BY <1>8 DEF CleanShutdown, inbound_stream, R!stream_out, BS!input_ended
  <2>5. /\ sent.sender.stream.end /\ sent.sender.stream.buffer = << >>
        /\ sent.sender.next_seqno = sent.sender.stream.written + 2
    BY <2>1, <2>4, StreamOver
  <2>6. sent.sender.stream.written + 2 <= sent.sender.next_seqno /\ sent.sender.in_flights <= 0
    <3>1. sent.sender.stream.written \in Nat
      BY <2>1, ReadyFacts
    <3> QED
      BY <2>4, <2>5, <3>1
  <2>7. Finished(sent.sender) /\ ro.reassembler.output.end
    BY <1>4, <1>5, <2>5, <2>6
  <2> QED
    BY <1>4, <2>2, <2>3, <2>4, <2>7 DEF d
<1>9. CASE d = sent
  BY <1>4, <1>9 DEF d
<1> QED
  BY <1>2, <1>6, <1>7, <1>8, <1>9

--------------------------------------------------------------------------------
\* The system.

\* The two constructors establish the invariant.
LEMMA InvInit == Init => Inv
<1> SUFFICES ASSUME Init PROVE Inv
  OBVIOUS
<1>1. /\ DOMAIN conn = Peers /\ DOMAIN net = Peers /\ DOMAIN got = Peers
      /\ \A p \in Peers : conn[p] = New(Config(p)) /\ net[p] = {} /\ got[p] = << >>
  BY DEF Init
<1>2. ASSUME NEW p \in Peers
      PROVE  /\ DOMAIN conn[p] = ConnFields /\ conn[p].segments_out = << >> /\ conn[p].active = TRUE
             /\ Snd(p) = S!New(Capacity, RetxTimeout, Isn(p)) /\ Rcv(p) = R!New(Capacity)
  BY <1>1 DEF New, Config, Isn, ConnFields, Snd, Rcv
<1>3. ASSUME NEW p \in Peers
      PROVE  /\ DOMAIN conn[p] = ConnFields /\ conn[p].segments_out = << >>
             /\ Ready(p, Snd(p))
             /\ InOrder(p, Snd(p), Rcv(Other(p)), got[Other(p)])
             /\ \A seg \in net[Other(p)] : Carries(p, Snd(p), seg) /\ Truthful(Rcv(p), seg)
             /\ Acknowledged(Snd(p)) <= Acks(Rcv(Other(p)))
             /\ Closed(p)
  <2>1. Other(p) \in Peers
    BY Sides
  <2>2. Ready(p, Snd(p)) /\ Acknowledged(Snd(p)) = 0
    BY <1>2, NewReady
  <2>3. Rcv(Other(p)) = R!New(Capacity) /\ got[Other(p)] = << >> /\ net[Other(p)] = {}
    BY <1>1, <1>2, <2>1
  <2>4. InOrder(p, Snd(p), Rcv(Other(p)), got[Other(p)]) /\ Acks(Rcv(Other(p))) = 0
    BY <2>2, <2>3, InOrderNew
  <2>5. Closed(p)
    BY <1>2 DEF Closed
  <2>6. Acknowledged(Snd(p)) <= Acks(Rcv(Other(p)))
    BY <2>2, <2>4
  <2>7. \A seg \in net[Other(p)] : Carries(p, Snd(p), seg) /\ Truthful(Rcv(p), seg)
    BY <2>3
  <2> QED
    BY <1>2, <2>2, <2>4, <2>5, <2>6, <2>7
<1> QED
  BY <1>1, <1>3 DEF Inv

\* What Becomes does to the network and the histories.
LEMMA BecomesOK ==
  ASSUME Inv, NEW p \in Peers, NEW d, NEW consumed, Becomes(p, d, consumed), UNCHANGED got,
         Within(p, d, Snd(p), Rcv(p), Acks(Rcv(Other(p))), Snd(Other(p)), got[p]),
         Sent(p, d), Complete(p, d)
  PROVE  /\ Inv' /\ Failed(p)' = d.sender.stream.error /\ Failed(Other(p))' = Failed(Other(p))
         /\ Resets(d) => \E seg \in net'[Other(p)] : seg.rst
<1>1. Other(p) \in Peers /\ Other(p) # p
  BY Sides
<1>2. DOMAIN conn = Peers /\ DOMAIN net = Peers /\ DOMAIN got = Peers
  BY DEF Inv
<1> DEFINE sent == {d.segments_out[i] : i \in DOMAIN d.segments_out}
<1>3. /\ conn' = [conn EXCEPT ![p] = [d EXCEPT !.segments_out = << >>]]
      /\ net' = [net EXCEPT ![Other(p)] = @ \cup sent, ![p] = @ \ consumed]
  BY DEF Becomes
<1> HIDE DEF sent
<1>4. DOMAIN net' = Peers /\ net'[p] = net[p] \ consumed /\ net'[Other(p)] = net[Other(p)] \cup sent
  BY <1>1, <1>2, <1>3
<1>5. Inv'
  <2>1. /\ net'[p] \subseteq net[p] /\ DOMAIN got' = Peers /\ got'[p] = got[p]
        /\ got'[Other(p)] = got[Other(p)]
        /\ net'[Other(p)] \subseteq net[Other(p)]
                              \cup {d.segments_out[i] : i \in DOMAIN d.segments_out}
    BY <1>2, <1>4 DEF sent
  <2> QED
    BY <1>3, <1>4, <2>1, StepOK
<1>6. DOMAIN d = ConnFields
  BY DEF Within
<1>7. Failed(p)' = d.sender.stream.error /\ Failed(Other(p))' = Failed(Other(p))
  BY <1>1, <1>2, <1>3, <1>6 DEF Failed, Snd, ConnFields
<1>8. Resets(d) => \E seg \in net'[Other(p)] : seg.rst
  BY <1>4 DEF Resets, sent
<1> QED
  BY <1>5, <1>7, <1>8

\* Who has failed is told.
Told ==
  \A p \in Peers : (~Failed(p) /\ Failed(p)') =>
    (\E seg \in net[p] : seg.rst) \/ (\E seg \in net'[Other(p)] : seg.rst)

\* Only p can have failed.
LEMMA ToldBy ==
  ASSUME NEW p \in Peers, Failed(Other(p))' = Failed(Other(p)),
         \/ Failed(p)' = Failed(p)
         \/ \E seg \in net[p] : seg.rst
         \/ \E seg \in net'[Other(p)] : seg.rst
  PROVE  Told
<1>1. \A q \in Peers : q = p \/ q = Other(p)
  BY Sides
<1> QED
  BY <1>1 DEF Told

\* A call that neither ends the connection nor fails.
LEMMA CalmStep ==
  ASSUME Inv, NEW p \in Peers, NEW d, Becomes(p, d, {}), UNCHANGED got, conn[p].active,
         Within(p, d, Snd(p), Rcv(p), Acks(Rcv(Other(p))), Snd(Other(p)), got[p]), Sent(p, d),
         d.active = conn[p].active, d.sender.stream.error = conn[p].sender.stream.error
  PROVE  Inv' /\ Told
<1>1. Complete(p, d)
  BY DEF Complete
<1>2. Inv' /\ Failed(p)' = d.sender.stream.error /\ Failed(Other(p))' = Failed(Other(p))
  BY <1>1, BecomesOK
<1>3. Failed(p)' = Failed(p)
  BY <1>2 DEF Failed, Snd
<1> QED
  BY <1>2, <1>3, ToldBy

\* connect.
LEMMA InvConnect ==
  ASSUME Inv, Connect
  PROVE  Inv' /\ Told
<1> DEFINE p == Client
           d == connect(conn[p])
<1>1. p \in Peers /\ conn[p].active /\ Becomes(p, d, {}) /\ UNCHANGED got
  BY Constants DEF Connect
<1> HIDE DEF p
<1>2. /\ Within(p, d, Snd(p), Rcv(p), Acks(Rcv(Other(p))), Snd(Other(p)), got[p]) /\ Sent(p, d)
      /\ d.active = conn[p].active /\ d.sender.stream.error = conn[p].sender.stream.error
  <2>1. d = seg_2_seg(Fill(conn[p]))
    BY DEF connect
  <2>2. /\ Within(p, conn[p], Snd(p), Rcv(p), Acks(Rcv(Other(p))), Snd(Other(p)), got[p])
        /\ Ready(p, Snd(p)) /\ Ready(Other(p), Snd(Other(p)))
        /\ InOrder(Other(p), Snd(Other(p)), Rcv(p), got[p]) /\ conn[p].segments_out = << >>
    BY <1>1, WithinStart
  <2> DEFINE e == seg_2_seg(Fill(conn[p]))
  <2>3. /\ Within(p, e, Snd(p), Rcv(p), Acks(Rcv(Other(p))), Snd(Other(p)), got[p]) /\ Sent(p, e)
        /\ e.active = conn[p].active /\ e.sender.stream.error = conn[p].sender.stream.error
    BY <1>1, <2>2, SendsAll
  <2> HIDE DEF d, e
  <2> QED
    BY <2>1, <2>3 DEF e
<1> HIDE DEF d
<1> QED
  BY <1>1, <1>2, CalmStep

\* write.
LEMMA InvWrite ==
  ASSUME Inv, NEW p \in Peers, NEW n \in 1 .. Capacity, Write(p, n)
  PROVE  Inv' /\ Told
<1> DEFINE c == conn[p]
           k == BS!bytes_written(c.sender.stream)
           d == write(c, [i \in 1 .. n |-> k + i])
<1>1. /\ c.active /\ ~BS!input_ended(c.sender.stream) /\ k + n <= MaxBytes[p]
      /\ Becomes(p, d, {}) /\ UNCHANGED got
  BY DEF Write, Started
<1>2. ~c.sender.stream.end
  BY <1>1 DEF BS!input_ended
<1>3. /\ Within(p, c, c.sender, c.receiver, Acks(Rcv(Other(p))), Snd(Other(p)), got[p])
      /\ Ready(p, c.sender) /\ Ready(Other(p), Snd(Other(p)))
      /\ InOrder(Other(p), Snd(Other(p)), c.receiver, got[p]) /\ c.segments_out = << >>
      /\ c.sender = Snd(p) /\ c.receiver = Rcv(p)
  BY WithinStart
<1>4. k = c.sender.stream.written /\ k \in Nat
  BY <1>3, ReadyFacts
<1>5. n \in Nat /\ c.sender.stream.written + n <= Longest
  <2>1. MaxBytes[p] \in Nat /\ MaxBytes[p] <= Longest /\ Longest \in Nat /\ Capacity \in Nat
    BY Constants
  <2> HIDE DEF k, c
  <2>2. n \in Nat /\ k + n <= Longest
    BY <1>1, <1>4, <2>1
  <2> QED
    BY <1>4, <2>2
<1> HIDE DEF k
<1>6. /\ Within(p, d, c.sender, c.receiver, Acks(Rcv(Other(p))), Snd(Other(p)), got[p])
      /\ Sent(p, d)
      /\ d.active = c.active /\ d.sender.stream.error = c.sender.stream.error
  <2> DEFINE e == write(c, [i \in 1 .. n |-> c.sender.stream.written + i])
  <2>1. d = e
    BY <1>4
  <2>2. /\ Within(p, e, c.sender, c.receiver, Acks(Rcv(Other(p))), Snd(Other(p)), got[p])
        /\ Sent(p, e) /\ e.active = c.active /\ e.sender.stream.error = c.sender.stream.error
    BY <1>2, <1>3, <1>5, WriteWithin
  <2> HIDE DEF d, e
  <2> QED
    BY <2>1, <2>2
<1> HIDE DEF d
<1> QED
  BY <1>1, <1>3, <1>6, CalmStep

\* end_input_stream.
LEMMA InvEnd ==
  ASSUME Inv, NEW p \in Peers, EndInputStream(p)
  PROVE  Inv' /\ Told
<1> DEFINE c == conn[p]
           d == end_input_stream(c)
<1>1. c.active /\ Becomes(p, d, {}) /\ UNCHANGED got
  BY DEF EndInputStream, Started
<1>2. /\ Within(p, c, c.sender, c.receiver, Acks(Rcv(Other(p))), Snd(Other(p)), got[p])
      /\ Ready(p, c.sender) /\ Ready(Other(p), Snd(Other(p)))
      /\ InOrder(Other(p), Snd(Other(p)), c.receiver, got[p]) /\ c.segments_out = << >>
      /\ c.sender = Snd(p) /\ c.receiver = Rcv(p)
  BY WithinStart
<1>3. /\ Within(p, d, c.sender, c.receiver, Acks(Rcv(Other(p))), Snd(Other(p)), got[p])
      /\ Sent(p, d)
      /\ d.active = c.active /\ d.sender.stream.error = c.sender.stream.error
  BY <1>2, EndWithin
<1> HIDE DEF d
<1> QED
  BY <1>1, <1>2, <1>3, CalmStep

\* The owner reads.
LEMMA InvRead ==
  ASSUME Inv, NEW p \in Peers, NEW len \in 1 .. Capacity, Read(p, len)
  PROVE  Inv' /\ Told
<1> DEFINE q == Other(p)
           c == conn[p]
           b == c.receiver.reassembler.output
           t == [c.receiver EXCEPT !.reassembler =
                   [c.receiver.reassembler EXCEPT !.output = BS!read(b, len)]]
           d == [c EXCEPT !.receiver = t]
           h == got[p] \o BS!peek_output(b, len)
<1>1. /\ q \in Peers /\ Other(q) = p /\ q # p /\ \A x \in Peers : x = p \/ x = q
  BY Sides
<1>2. DOMAIN conn = Peers /\ DOMAIN net = Peers /\ DOMAIN got = Peers /\ Closed(p)
  BY DEF Inv
<1>3. /\ Within(p, c, Snd(p), Rcv(p), Acks(Rcv(q)), Snd(q), got[p])
      /\ Ready(p, Snd(p)) /\ Ready(q, Snd(q))
      /\ InOrder(q, Snd(q), c.receiver, got[p])
      /\ DOMAIN c = ConnFields /\ c.segments_out = << >>
      /\ c.sender = Snd(p) /\ c.receiver = Rcv(p)
  BY WithinStart
<1>4. /\ conn' = [conn EXCEPT ![p].receiver.reassembler.output = BS!read(@, len)]
      /\ got' = [got EXCEPT ![p] = h] /\ net' = net
  BY DEF Read, inbound_stream, R!stream_out
<1>5. conn' = [conn EXCEPT ![p] = d]
  BY <1>4, Zenon
<1>6. InOrder(q, Snd(q), t, h) /\ RcvLater(c.receiver, t)
  <2>1. len \in Nat
    BY Constants
  <2> QED
    BY <1>1, <1>3, <2>1, InOrderRead
<1> HIDE DEF t, h
<1>7. /\ DOMAIN d = ConnFields /\ d.segments_out = << >> /\ d.sender = Snd(p)
      /\ d.receiver = t /\ d.active = c.active
  BY <1>3 DEF ConnFields
<1>8. [d EXCEPT !.segments_out = << >>] = d
  <2>1. \A f \in DOMAIN d : [d EXCEPT !.segments_out = << >>][f] = d[f]
    BY <1>7
  <2> QED
    BY <1>3, <2>1
<1> HIDE DEF d
<1>9. /\ conn' = [conn EXCEPT ![p] = [d EXCEPT !.segments_out = << >>]]
      /\ got'[p] = h /\ DOMAIN got' = Peers /\ got'[q] = got[q]
  BY <1>1, <1>2, <1>4, <1>5, <1>8
<1>10. Within(p, d, Snd(p), Rcv(p), Acks(Rcv(q)), Snd(q), got'[p]) /\ Sent(p, d)
  <2>1. Moves(p, Snd(p), d.sender, Acks(Rcv(q)))
    BY <1>3, <1>7, MovesNot
  <2> QED
    BY <1>3, <1>6, <1>7, <1>9, <2>1 DEF Within, Sent
<1>11. Complete(p, d)
  BY <1>2, <1>3, <1>6, <1>7 DEF Complete, Closed, RcvLater, Failed
<1>12. Inv'
  <2>1. DOMAIN net' = Peers /\ net'[p] \subseteq net[p]
        /\ net'[q] \subseteq net[q] \cup {d.segments_out[i] : i \in DOMAIN d.segments_out}
    BY <1>2, <1>4
  <2> QED
    BY <1>9, <1>10, <1>11, <2>1, StepOK
<1>13. Failed(p)' = Failed(p) /\ Failed(q)' = Failed(q)
  BY <1>1, <1>2, <1>5, <1>7 DEF Failed, Snd
<1> QED
  BY <1>12, <1>13, ToldBy

\* segment_received.
LEMMA InvSegment ==
  ASSUME Inv, NEW p \in Peers, NEW seg \in net[p], SegmentReceived(p, seg)
  PROVE  Inv' /\ Told
<1> DEFINE q == Other(p)
           c == conn[p]
           n == Acks(Rcv(q))
           d == segment_received(c, seg)
           used == IF Duplicating THEN {} ELSE {seg}
<1>1. c.active /\ Becomes(p, d, used) /\ UNCHANGED got
  BY DEF SegmentReceived
<1>2. /\ Within(p, c, c.sender, c.receiver, n, Snd(q), got[p])
      /\ Ready(p, c.sender) /\ Ready(q, Snd(q))
      /\ InOrder(q, Snd(q), c.receiver, got[p]) /\ c.segments_out = << >>
      /\ InOrder(p, c.sender, Rcv(q), got[q])
      /\ n \in Nat /\ n <= c.sender.next_seqno
      /\ c.sender = Snd(p) /\ c.receiver = Rcv(p)
  BY WithinStart
<1>3. q \in Peers /\ Other(q) = p
  BY Sides
<1>4. Carries(q, Snd(q), seg) /\ Truthful(Rcv(q), seg)
  BY <1>3 DEF Inv
<1>5. seg.ack => /\ seg.win \in 0 .. Capacity
                 /\ \E a \in 1 .. n : seg.ackno = wrap(a, Isn(p))
  <2>1. Rcv(q).syned => Rcv(q).isn = Isn(p) /\ n = R!AbsAckno(Rcv(q))
    BY <1>2 DEF InOrder, Acks
  <2> HIDE DEF n
  <2> QED
    BY <1>4, <2>1 DEF Truthful
<1>6. /\ Within(p, d, c.sender, c.receiver, n, Snd(q), got[p]) /\ Sent(p, d)
      /\ d.active \/ d.sender.stream.error
      /\ seg.rst \/ d.sender.stream.error = c.sender.stream.error
  <2> HIDE DEF n
  <2> QED
    BY <1>1, <1>2, <1>4, <1>5, SegmentWithin
<1> HIDE DEF d, used
<1>7. Complete(p, d)
  BY <1>6 DEF Complete
<1>8. Inv' /\ Failed(p)' = d.sender.stream.error /\ Failed(q)' = Failed(q)
  BY <1>1, <1>2, <1>6, <1>7, BecomesOK
<1>9. Failed(p)' = Failed(p) \/ \E x \in net[p] : x.rst
  BY <1>6, <1>8 DEF Failed, Snd
<1> QED
  BY <1>8, <1>9, ToldBy

\* tick.
LEMMA InvTick ==
  ASSUME Inv, NEW p \in Peers, NEW ms \in 1 .. MaxTick, Tick(p, ms)
  PROVE  Inv' /\ Told
<1> DEFINE q == Other(p)
           c == conn[p]
           ro == Rcv(q)
           d == tick(c, ms)
<1>1. c.active /\ Becomes(p, d, {}) /\ UNCHANGED got
  BY DEF Tick
<1>2. /\ Within(p, c, c.sender, c.receiver, Acks(ro), Snd(q), got[p])
      /\ Ready(p, c.sender) /\ Ready(q, Snd(q))
      /\ InOrder(q, Snd(q), c.receiver, got[p]) /\ c.segments_out = << >>
      /\ InOrder(p, c.sender, ro, got[q]) /\ Acknowledged(c.sender) <= Acks(ro)
      /\ c.sender = Snd(p) /\ c.receiver = Rcv(p)
  BY WithinStart
<1>3. ms \in Nat
  BY ConnectionAssumption
<1>4. /\ Within(p, d, c.sender, c.receiver, Acks(ro), Snd(q), got[p]) /\ Sent(p, d)
      /\ (~d.active /\ ~d.sender.stream.error) =>
           /\ Finished(d.sender)
           /\ d.receiver.reassembler.output.end /\ ro.reassembler.output.end
      /\ Resets(d) \/ d.sender.stream.error = c.sender.stream.error
  <2> DEFINE o == Snd(q)
             g == got[p]
             h == got[q]
  <2>1. /\ Within(p, c, c.sender, c.receiver, Acks(ro), o, g)
        /\ Ready(p, c.sender) /\ Ready(Other(p), o)
        /\ InOrder(Other(p), o, c.receiver, g) /\ c.segments_out = << >> /\ c.active
        /\ InOrder(p, c.sender, ro, h) /\ Acknowledged(c.sender) <= Acks(ro)
    BY <1>1, <1>2
  <2> HIDE DEF o, g, h, c, ro
  <2>2. LET e == tick(c, ms)
        IN  /\ Within(p, e, c.sender, c.receiver, Acks(ro), o, g) /\ Sent(p, e)
            /\ (~e.active /\ ~e.sender.stream.error) =>
                 /\ Finished(e.sender)
                 /\ e.receiver.reassembler.output.end /\ ro.reassembler.output.end
            /\ Resets(e) \/ e.sender.stream.error = c.sender.stream.error
    BY ONLY <1>3, <2>1, TickWithin, p \in Peers
  <2> QED
    BY <2>2 DEF o, g
<1> HIDE DEF d
<1>5. Complete(p, d)
  BY <1>4 DEF Complete
<1>6. /\ Inv' /\ Failed(p)' = d.sender.stream.error /\ Failed(q)' = Failed(q)
      /\ Resets(d) => \E seg \in net'[q] : seg.rst
  BY <1>1, <1>2, <1>4, <1>5, BecomesOK
<1>7. Failed(p)' = Failed(p) \/ \E seg \in net'[q] : seg.rst
  BY <1>4, <1>6 DEF Failed, Snd
<1> QED
  BY <1>6, <1>7, ToldBy

\* The destructor.
LEMMA InvAbandon ==
  ASSUME Inv, NEW p \in Peers, Abandon(p)
  PROVE  Inv' /\ Impatient # {}
<1> DEFINE q == Other(p)
           c == conn[p]
           d == Destroy(c)
<1>1. /\ p \in Impatient /\ c.active /\ net' = net /\ got' = got
      /\ conn' = [conn EXCEPT ![p] = [d EXCEPT !.segments_out = << >>]]
  BY DEF Abandon, Started
<1>2. /\ Within(p, c, Snd(p), Rcv(p), Acks(Rcv(q)), Snd(q), got[p])
      /\ Ready(p, Snd(p)) /\ Ready(q, Snd(q))
      /\ InOrder(q, Snd(q), Rcv(p), got[p]) /\ c.segments_out = << >>
  BY WithinStart
<1>3. /\ Within(p, d, Snd(p), Rcv(p), Acks(Rcv(q)), Snd(q), got[p]) /\ Sent(p, d)
      /\ d.sender.stream.error = TRUE
  BY <1>1, <1>2, DestroyWithin
<1> HIDE DEF d
<1>4. Complete(p, d)
  BY <1>3 DEF Complete
<1>5. DOMAIN net = Peers /\ DOMAIN got = Peers
  BY DEF Inv
<1>6. /\ DOMAIN net' = Peers /\ net'[p] \subseteq net[p] /\ DOMAIN got' = Peers
      /\ got'[p] = got[p] /\ got'[q] = got[q]
      /\ net'[q] \subseteq net[q] \cup {d.segments_out[i] : i \in DOMAIN d.segments_out}
  BY <1>1, <1>5
<1>7. Inv'
  BY <1>1, <1>3, <1>4, <1>6, StepOK
<1> QED
  BY <1>1, <1>7

\* Every step keeps the invariant, and a failure is told unless an owner drops the connection.
LEMMA InvNext ==
  ASSUME Inv, [Next]_vars
  PROVE  Inv' /\ (Impatient = {} => [Told]_vars)
<1>1. CASE Connect
  BY <1>1, InvConnect
<1>2. ASSUME NEW p \in Peers, NEW n \in 1 .. Capacity, Write(p, n)
      PROVE  Inv' /\ Told
  BY <1>2, InvWrite
<1>3. ASSUME NEW p \in Peers, EndInputStream(p)
      PROVE  Inv' /\ Told
  BY <1>3, InvEnd
<1>4. ASSUME NEW p \in Peers, NEW len \in 1 .. Capacity, Read(p, len)
      PROVE  Inv' /\ Told
  BY <1>4, InvRead
<1>5. ASSUME NEW p \in Peers, NEW seg \in net[p], SegmentReceived(p, seg)
      PROVE  Inv' /\ Told
  BY <1>5, InvSegment
<1>6. ASSUME NEW p \in Peers, NEW ms \in 1 .. MaxTick, Tick(p, ms)
      PROVE  Inv' /\ Told
  BY <1>6, InvTick
<1>7. ASSUME NEW p \in Peers, Abandon(p)
      PROVE  Inv' /\ Impatient # {}
  BY <1>7, InvAbandon
<1>8. CASE UNCHANGED vars
  <2>1. Inv'
    BY <1>8 DEF vars, Inv, Closed, Snd, Rcv, Failed
  <2> QED
    BY <1>8, <2>1
<1> QED
  BY <1>1, <1>2, <1>3, <1>4, <1>5, <1>6, <1>7, <1>8 DEF Next

\* The invariant holds in every reachable state.
LEMMA InvAlways == Spec => []Inv
<1>1. Inv /\ [Next]_vars => Inv'
  BY InvNext
<1> QED
  BY <1>1, InvInit, PTL DEF Spec

--------------------------------------------------------------------------------
\* The theorems.

\* What the owner of p has read and can read is the beginning of what the other wrote.
LEMMA InOrderDelivers ==
  ASSUME Inv, NEW p \in Peers
  PROVE  LET in   == got[p] \o inbound_stream(conn[p]).buffer
             sent == Snd(Other(p)).stream
         IN  /\ in = [i \in 1 .. Len(in) |-> i]
             /\ Len(in) <= BS!bytes_read(sent)
             /\ BS!input_ended(inbound_stream(conn[p])) =>
                  BS!eof(sent) /\ Len(in) = BS!bytes_written(sent)
<1> DEFINE q == Other(p)
           s == Snd(q)
           r == Rcv(p)
           b == r.reassembler.output
           in == got[p] \o b.buffer
           v == b.written
<1>1. q \in Peers
  BY Sides
<1>2. Ready(q, s) /\ InOrder(q, s, r, got[p])
  BY WithinStart
<1>3. inbound_stream(conn[p]) = b
  BY DEF inbound_stream, R!stream_out, Rcv
<1>4. in = RP!Piece(0, v - 1)
  BY <1>2 DEF InOrder, RP!Reader
<1>5. /\ v \in Nat /\ v <= s.stream.total_read /\ v <= Longest
      /\ b.end => Finished(s) /\ v = s.stream.written
  BY <1>1, <1>2, ReceiverFacts
<1>6. /\ BS!bytes_written(s.stream) = s.stream.written
      /\ BS!bytes_read(s.stream) = s.stream.total_read
  BY <1>1, <1>2, ReadyFacts
<1>7. b.end => BS!eof(s.stream)
  <2>1. s = conn[q].sender
    BY DEF Snd
  <2>2. s.stream.end /\ s.stream.buffer = << >> => BS!eof(s.stream)
    BY <1>1, <1>2, <2>1, StreamOver
  <2> QED
    BY <1>5, <2>2 DEF Finished
<1> HIDE DEF in, v
<1>8. in \in Seq(Nat) /\ Len(in) = v /\ \A i \in 1 .. v : in[i] = Numbers[i]
  <2>1. 0 \in Nat /\ v - 1 \in Int /\ 0 <= (v - 1) + 1 /\ v - 1 < RP!N /\ (v - 1) - 0 + 1 = v
    BY <1>5, ReassemblerAssumed, Constants
  <2>2. /\ RP!Piece(0, v - 1) \in Seq(Nat) /\ Len(RP!Piece(0, v - 1)) = (v - 1) - 0 + 1
        /\ \A i \in 1 .. (v - 1) - 0 + 1 : RP!Piece(0, v - 1)[i] = Numbers[0 + i]
    BY <2>1, ReassemblerAssumed, RP!PieceProperties
  <2>3. \A i \in 1 .. v : 0 + i = i
    BY <1>5
  <2> QED
    BY <1>4, <2>1, <2>2, <2>3
<1>9. in = [i \in 1 .. Len(in) |-> i]
  <2>1. \A i \in 1 .. v : in[i] = i
    <3>1. \A i \in 1 .. v : i \in 1 .. Longest
      BY <1>5, Constants
    <3> QED
      BY <1>8, <3>1, NumbersOK
  <2>2. DOMAIN in = 1 .. v /\ in = [i \in DOMAIN in |-> in[i]]
    BY <1>8, LenProperties
  <2> QED
    BY <1>8, <2>1, <2>2
<1> QED
  BY <1>3, <1>5, <1>6, <1>7, <1>8, <1>9 DEF in, v, BS!input_ended

\* End to end, over a network that loses, reorders and repeats segments: what an owner reads
\* from its TCPConnection is a prefix of what the peer's owner wrote, and the end of the
\* stream is only reported after all of it.
THEOREM DeliversInOrder == Spec => []EndToEnd
<1>1. Inv => EndToEnd
  BY InOrderDelivers DEF EndToEnd
<1> QED
  BY <1>1, InvAlways, PTL

\* ack_received takes nothing off the sender's queue that the peer's receiver does not have:
\* the first unacknowledged number is never beyond its ackno, which is never beyond what was
\* sent, however old or often repeated the acknowledgments are.
THEOREM ForgetsOnlyReceived == Spec => []AckedIsReceived
<1>1. ASSUME Inv PROVE AckedIsReceived
  <2>1. ASSUME NEW p \in Peers
        PROVE  /\ Acknowledged(Snd(p)) <= Acks(Rcv(Other(p)))
               /\ Acks(Rcv(Other(p))) <= Snd(p).next_seqno
    BY <1>1, WithinStart
  <2> QED
    BY <2>1 DEF AckedIsReceived, Acknowledged, Acks
<1> QED
  BY <1>1, InvAlways, PTL

\* tick ends a connection without an error (clean shutdown or TIME_WAIT) only when the FIN is
\* sent and both endpoints have the whole stream of the other.
THEOREM ClosesWhenComplete == Spec => []CleanCloseIsComplete
<1>1. ASSUME Inv PROVE CleanCloseIsComplete
  <2> SUFFICES ASSUME NEW p \in Peers, ~conn[p].active, ~Failed(p)
               PROVE  /\ BS!input_ended(inbound_stream(conn[p]))
                      /\ BS!input_ended(inbound_stream(conn[Other(p)]))
                      /\ FinSent(conn[p])
    BY DEF CleanCloseIsComplete
  <2>1. /\ Finished(Snd(p)) /\ Ready(p, conn[p].sender)
        /\ Rcv(p).reassembler.output.end /\ Rcv(Other(p)).reassembler.output.end
    BY <1>1 DEF Inv, Closed, Snd
  <2>2. FinSent(conn[p])
    BY <2>1, StreamOver DEF Finished, Snd
  <2> QED
    BY <2>1, <2>2 DEF inbound_stream, R!stream_out, BS!input_ended, Rcv
<1> QED
  BY <1>1, InvAlways, PTL

\* Unless an owner destroys a connection that is open, an endpoint that fails was told so by
\* a RST of the other (segment_received) or sends one (tick, after too many retransmissions).
THEOREM FailsByReset == Impatient = {} /\ Spec => FailsTogether
<1> SUFFICES ASSUME Impatient = {} PROVE Spec => FailsTogether
  OBVIOUS
<1>1. Inv /\ [Next]_vars =>
        [\A p \in Peers : (~Failed(p) /\ Failed(p)') =>
           (\E seg \in net[p] : seg.rst) \/ (\E seg \in net'[Other(p)] : seg.rst)]_vars
  BY InvNext DEF Told
<1> QED
  BY <1>1, InvAlways, PTL DEF Spec, FailsTogether

================================================================================
