---------------------------- MODULE ReceiverProofs -----------------------------
(***************************************************************************)
(* AckIsFirstMissing and NeverTakesBack for every stream, capacity and     *)
(* initial sequence number.  The receiver's reassembler is the one of      *)
(* ReassemblerProofs, whose lemmas are used through the instance RP.       *)
(***************************************************************************)
EXTENDS ReceiverSystem, WrappingProofs, SequenceTheorems

RP == INSTANCE ReassemblerProofs WITH r <- rcv.reassembler

\* What the constants are assumed to be; the reassembler's counters cannot overflow.
LEMMA Constants ==
  /\ Capacity \in Nat /\ N \in Nat /\ Half32 \in Nat /\ Stream \in Seq(Byte)
  /\ Pow32 \in Nat \ {0} /\ Pow32 % 2 = 0 /\ Pow32 = Half32 + Half32
  /\ N + Capacity + 2 < Half32
  /\ RP!N = N /\ RP!NoOverflow
<1>1. /\ Capacity \in Nat /\ N \in Nat /\ Half32 \in Nat /\ Stream \in Seq(Byte)
      /\ Pow32 \in Nat \ {0} /\ Pow32 % 2 = 0 /\ Pow32 = Half32 + Half32
      /\ N + Capacity + 2 < Half32
  BY ReceiverAssumption, TwoHalves, LenProperties DEF N
<1>2. RP!N = N /\ RP!Half32 = Half32
  BY DEF RP!N, N, RP!Half32, Half32
<1> QED
  BY <1>1, <1>2 DEF RP!NoOverflow

\* The reassembler's assumption follows from the receiver's.
LEMMA ReassemblerAssumed == RP!ReassemblerAssumption
<1>1. RP!Half32 = Half32
  BY DEF RP!Half32, Half32
<1> QED
  BY <1>1, Constants DEF RP!ReassemblerAssumption

--------------------------------------------------------------------------------
\* Each operator of the reassembler that TCPReceiver instantiates as SR is the one
\* of the same name that ReassemblerProofs is about.

\* bytes_written reads the same counter.
LEMMA SameWritten == ASSUME NEW s PROVE SR!bytes_written(s) = RP!bytes_written(s)
  BY DEF SR!bytes_written, RP!bytes_written, SR!BS!bytes_written, RP!BS!bytes_written,
         SR!BS!Size, RP!BS!Size

\* Writing to the output.
LEMMA SameWrite == ASSUME NEW s, NEW d PROVE SR!BS!write(s, d) = RP!BS!write(s, d)
  BY DEF SR!BS!write, RP!BS!write, SR!BS!accepted, RP!BS!accepted,
         SR!BS!remaining_capacity, RP!BS!remaining_capacity,
         SR!BS!buffer_size, RP!BS!buffer_size, SR!BS!Int32, RP!BS!Int32,
         SR!BS!Half32, RP!BS!Half32

\* The places, bytes and overlaps of the stored substrings, and extremes.
LEMMA SameSets ==
  ASSUME NEW m, NEW a, NEW b
  PROVE  /\ SR!Left(m, a) = RP!Left(m, a)
         /\ SR!Stored(m, a) = RP!Stored(m, a)
         /\ SR!Touched(m, a, b) = RP!Touched(m, a, b)
         /\ SR!Max(a) = RP!Max(a) /\ SR!Min(a) = RP!Min(a)
<1>1. SR!Left(m, a) = RP!Left(m, a)
  BY DEF SR!Left, RP!Left
<1>2. SR!Stored(m, a) = RP!Stored(m, a)
  BY DEF SR!Stored, RP!Stored, SR!Left, RP!Left
<1>3. SR!Touched(m, a, b) = RP!Touched(m, a, b)
  BY DEF SR!Touched, RP!Touched, SR!Left, RP!Left
<1>4. SR!Max(a) = RP!Max(a) /\ SR!Min(a) = RP!Min(a)
  BY DEF SR!Max, RP!Max, SR!Min, RP!Min
<1> QED
  BY <1>1, <1>2, <1>3, <1>4

\* The count of the bytes under keys.
LEMMA SameBytes == ASSUME NEW m, NEW keys PROVE SR!Bytes(m, keys) = RP!Bytes(m, keys)
  BY Zenon DEF SR!Bytes, RP!Bytes, SR!Cardinality, RP!Cardinality

\* The substrings that continue the output.
LEMMA SameReady == ASSUME NEW s PROVE SR!Ready(s) = RP!Ready(s)
  BY SameWritten DEF SR!Ready, RP!Ready, SR!Left, RP!Left

\* Merging two substrings.
LEMMA SameCombine ==
  ASSUME NEW a, NEW b, NEW c, NEW d
  PROVE  SR!combine(a, b, c, d) = RP!combine(a, b, c, d)
  BY DEF SR!combine, RP!combine, SR!Join, RP!Join

\* Storing a substring.
LEMMA SameInsert ==
  ASSUME NEW s, NEW d, NEW a, NEW b
  PROVE  SR!Insert(s, d, a, b) = RP!Insert(s, d, a, b)
  BY SameSets, SameCombine, SameBytes, Zenon DEF SR!Insert, RP!Insert

\* Moving substrings to the output.
LEMMA SameFlush == ASSUME NEW s PROVE SR!Flush(s) = RP!Flush(s)
<1> DEFINE R == RP!Ready(s)
           K == RP!Max(R)
           w == RP!bytes_written(s)
           c == [i \in 1 .. K - w + 1 |-> RP!Stored(s.m, w + i - 1)]
           S == SR!Ready(s)
           J == SR!Max(S)
           v == SR!bytes_written(s)
           d == [i \in 1 .. J - v + 1 |-> SR!Stored(s.m, v + i - 1)]
<1>1. R = S /\ K = J /\ w = v
  BY SameReady, SameSets, SameWritten
<1>2. SR!Flush(s) = IF S = {} THEN s
                    ELSE [s EXCEPT !.output = SR!BS!write(s.output, d),
                                   !.m = [k \in DOMAIN s.m \ S |-> s.m[k]],
                                   !.unassembled = s.unassembled - SR!Bytes(s.m, S)]
  BY Zenon DEF SR!Flush
<1>3. RP!Flush(s) = IF R = {} THEN s
                    ELSE [s EXCEPT !.output = RP!BS!write(s.output, c),
                                   !.m = [k \in DOMAIN s.m \ R |-> s.m[k]],
                                   !.unassembled = s.unassembled - RP!Bytes(s.m, R)]
  BY Zenon DEF RP!Flush
<1> HIDE DEF R, K, w, S, J, v
<1>4. c = d
  BY <1>1, SameSets
<1> HIDE DEF c, d
<1> QED
  BY <1>1, <1>2, <1>3, <1>4, SameBytes, SameWrite, Zenon

\* Cutting, storing and moving.
LEMMA SameAddTempCash ==
  ASSUME NEW s, NEW d, NEW i
  PROVE  SR!AddTempCash(s, d, i) = RP!AddTempCash(s, d, i)
<1>1. \A x : SR!overflow(s, x) = RP!overflow(s, x) /\ SR!Edge(s) = RP!Edge(s)
  BY DEF SR!Edge, RP!Edge, SR!BS!bytes_read, RP!BS!bytes_read, SR!BS!Size, RP!BS!Size,
         SR!overflow, RP!overflow, SR!Int32, RP!Int32, SR!Half32, RP!Half32
<1> QED
  BY <1>1, SameWritten, SameFlush, SameInsert, Zenon DEF SR!AddTempCash, RP!AddTempCash

\* And so push_substring.
LEMMA SamePush ==
  ASSUME NEW s, NEW d, NEW i, NEW e
  PROVE  SR!push_substring(s, d, i, e) = RP!push_substring(s, d, i, e)
  BY SameAddTempCash, SameWritten, Zenon
  DEF SR!push_substring, RP!push_substring, SR!BS!end_input, RP!BS!end_input

--------------------------------------------------------------------------------

\* The indices the reassembler holds or has handed on.
HeldIndices == RP!Held(rcv.reassembler)

EndKnown == rcv.reassembler.endIdx = N

\* arrived is the SYN, the bytes held, shifted by the SYN, and the FIN.
ArrivedOK ==
  \A x \in Int : x \in arrived <=>
    rcv.syned /\ (x = 0 \/ x - 1 \in HeldIndices \/ (x = N + 1 /\ EndKnown))

\* The output has ended exactly if the end is known and nothing is missing; before
\* the SYN nothing has come.
Inv ==
  /\ DOMAIN rcv = {"reassembler", "isn", "syned"}
  /\ rcv.syned \in BOOLEAN
  /\ isn \in WrappingInt32
  /\ rcv.syned => rcv.isn = isn
  /\ ~rcv.syned => HeldIndices = {} /\ ~EndKnown
  /\ RP!Inv
  /\ rcv.reassembler.output.end <=> EndKnown /\ HeldIndices = 0 .. N - 1
  /\ ArrivedOK

\* What the accessors report.
LEMMA Accessors ==
  ASSUME NEW s, RP!ReassemblerOK(s.reassembler)
  PROVE  LET b == s.reassembler.output
         IN  /\ b.written \in Nat /\ b.total_read \in Nat /\ b.end \in BOOLEAN
             /\ b.written <= N
             /\ BS!bytes_written(stream_out(s)) = b.written
             /\ BS!bytes_read(stream_out(s)) = b.total_read
             /\ AbsAckno(s) = b.written + 1 + One(b.end)
             /\ AbsAckno(s) + window_size(s) = b.total_read + 1 + One(b.end) + Capacity
<1> DEFINE b == s.reassembler.output
<1>1. RP!OutputOK(b)
  BY DEF RP!ReassemblerOK
<1>2. /\ RP!BS!bytes_written(b) = b.written /\ RP!BS!bytes_read(b) = b.total_read
      /\ b.written \in Nat /\ b.total_read \in Nat
      /\ Len(b.buffer) \in Nat /\ b.end \in BOOLEAN
  BY <1>1, Constants, ReassemblerAssumed, RP!Counters
<1>3. b.written <= N /\ b.written = b.total_read + Len(b.buffer) /\ b.capacity = Capacity
  BY <1>1, Constants DEF RP!OutputOK
<1>4. BS!bytes_written(b) = b.written /\ BS!bytes_read(b) = b.total_read
  BY <1>2 DEF BS!bytes_written, BS!bytes_read, RP!BS!bytes_written, RP!BS!bytes_read,
              BS!Size, RP!BS!Size
<1> HIDE DEF b
<1>5. stream_out(s) = b
  BY DEF stream_out, b
<1>6. AbsAckno(s) = b.written + 1 + One(b.end)
  BY <1>4, <1>5 DEF AbsAckno, BS!input_ended
<1>7. window_size(s) = Capacity - Len(b.buffer)
  BY <1>3, <1>5 DEF window_size, BS!remaining_capacity, BS!buffer_size
<1>8. One(b.end) \in Nat
  BY DEF One
<1>9. AbsAckno(s) + window_size(s) = b.total_read + 1 + One(b.end) + Capacity
  <2> DEFINE o == One(b.end)
             l == Len(b.buffer)
  <2>1. o \in Nat /\ l \in Nat /\ b.total_read \in Nat /\ Capacity \in Nat
    BY <1>2, <1>8, Constants
  <2>2. AbsAckno(s) = b.total_read + l + 1 + o
    BY <1>3, <1>6
  <2>3. window_size(s) = Capacity - l
    BY <1>7
  <2> HIDE DEF o, l
  <2> QED
    BY <2>1, <2>2, <2>3 DEF o
<1> QED
  BY <1>2, <1>3, <1>4, <1>5, <1>6, <1>9, Zenon DEF b

\* The constructor establishes the invariant.
LEMMA InvInit == Init => Inv
<1> SUFFICES ASSUME Init PROVE Inv
  OBVIOUS
<1> DEFINE re == rcv.reassembler
<1>1. /\ DOMAIN rcv = {"reassembler", "isn", "syned"} /\ rcv.syned = FALSE
      /\ re = SR!New(Capacity) /\ isn \in WrappingInt32 /\ arrived = {} /\ received = << >>
  BY DEF Init, New
<1>2. SR!New(Capacity) = RP!New(Capacity)
  BY DEF SR!New, RP!New, SR!BS!New, RP!BS!New, SR!BS!Int32, RP!BS!Int32,
         SR!BS!Half32, RP!BS!Half32, SR!SIZE_MAX, RP!SIZE_MAX
<1>3. RP!Init
  BY <1>1, <1>2 DEF RP!Init
<1>4. RP!Inv
  BY <1>3, Constants, ReassemblerAssumed, RP!InvInit
<1>5. /\ re.output.written = 0 /\ re.m = << >> /\ re.endIdx = RP!SIZE_MAX
      /\ re.output.end = FALSE
  BY <1>1, <1>2 DEF RP!New, RP!BS!New
<1>6. HeldIndices = {}
  BY <1>5 DEF HeldIndices, RP!Held, RP!Span
<1>7. ~EndKnown
  <2>1. RP!SIZE_MAX \in Int /\ N < RP!SIZE_MAX
    BY Constants, ReassemblerAssumed, RP!NoIndex
  <2> QED
    BY <1>5, <2>1, Constants DEF EndKnown
<1>8. ArrivedOK
  BY <1>1 DEF ArrivedOK
<1> QED
  BY <1>1, <1>4, <1>5, <1>6, <1>7, <1>8 DEF Inv

--------------------------------------------------------------------------------

\* What segment_received hands on of the peer's segment for from .. to: the bytes of
\* the stream from index First(from) on, up to index Last(to) exclusively.
First(from) == IF from = 0 THEN 0 ELSE from - 1
Last(to) == IF to > N THEN N ELSE to

\* A segment is dropped before the SYN; otherwise the initial sequence number is the
\* peer's, and its bytes are pushed at their place in the stream.
LEMMA SegmentStep ==
  ASSUME Inv, NEW from \in 0 .. N + 1, NEW to \in from .. N + 1,
         SegmentReceived(from, to)
  PROVE  IF ~rcv.syned /\ from > 0 THEN rcv' = rcv
         ELSE /\ DOMAIN rcv' = {"reassembler", "isn", "syned"}
              /\ rcv'.syned = TRUE /\ rcv'.isn = isn
              /\ rcv'.reassembler = RP!push_substring(rcv.reassembler,
                   SubSeq(Stream, First(from) + 1, Last(to)), First(from), to = N + 1)
<1> DEFINE seg == PeerSegment(from, to)
           synced == IF seg.syn THEN [rcv EXCEPT !.isn = seg.seqno, !.syned = TRUE] ELSE rcv
           pos == Position(synced, seg)
           re == rcv.reassembler
           next == RP!push_substring(re, SubSeq(Stream, First(from) + 1, Last(to)),
                                     First(from), to = N + 1)
<1>1. /\ seg.syn = (from = 0) /\ seg.fin = (to = N + 1) /\ seg.seqno = wrap(from, isn)
      /\ seg.payload = SubSeq(Stream, First(from) + 1, Last(to))
  <2>1. (IF from = 0 THEN 1 ELSE from) = First(from) + 1
    BY Constants DEF First
  <2>2. /\ seg.syn = (from = 0) /\ seg.fin = (to = N + 1) /\ seg.seqno = wrap(from, isn)
        /\ seg.payload = SubSeq(Stream, IF from = 0 THEN 1 ELSE from, IF to > N THEN N ELSE to)
    BY Zenon DEF PeerSegment, Segment
  <2> QED
    BY <2>1, <2>2, Zenon DEF Last
<1>2. rcv' = IF ~synced.syned \/ pos = 0 THEN synced
             ELSE [synced EXCEPT !.reassembler =
                     SR!push_substring(@, seg.payload, pos - 1, seg.fin)]
  BY Zenon DEF SegmentReceived, segment_received
<1>3. DOMAIN rcv = {"reassembler", "isn", "syned"} /\ isn \in WrappingInt32
  BY DEF Inv
<1>4. DOMAIN synced = {"reassembler", "isn", "syned"} /\ synced.reassembler = re
  BY <1>3
<1>5. CASE from = 0
  <2>1. seg.syn /\ wrap(from, isn) = isn
    <3>1. isn \in Nat /\ isn < Pow32
      BY <1>3, Constants DEF WrappingInt32
    <3>2. 0 + isn = isn
      BY <3>1
    <3> QED
      BY <1>1, <1>5, <3>1, <3>2, ModSmall, Constants DEF wrap
  <2>2. pos = 1
    BY <2>1 DEF Position
  <2>3. synced.syned = TRUE /\ synced.isn = isn
    BY <1>1, <1>3, <2>1
  <2>4. First(from) = 0 /\ pos - 1 = 0
    BY <1>5, <2>2 DEF First
  <2> HIDE DEF synced, pos, seg
  <2>5. rcv' = [synced EXCEPT !.reassembler = next]
    BY <1>1, <1>2, <1>4, <2>2, <2>3, <2>4, SamePush
  <2> HIDE DEF next
  <2>6. /\ DOMAIN rcv' = {"reassembler", "isn", "syned"}
        /\ rcv'.syned = TRUE /\ rcv'.isn = isn /\ rcv'.reassembler = next
    BY <1>4, <2>3, <2>5
  <2> QED
    BY <1>5, <2>6 DEF next
<1>6. CASE from # 0 /\ rcv.syned
  <2>1. synced = rcv /\ ~seg.syn
    BY <1>1, <1>6
  <2>2. rcv.syned = TRUE /\ rcv.isn = isn
    BY <1>6 DEF Inv
  <2>3. pos = from
    <3>1. RP!ReassemblerOK(re)
      BY DEF Inv, RP!Inv
    <3>2. re.output.written \in Nat /\ re.output.written <= N
          /\ BS!bytes_written(stream_out(rcv)) = re.output.written
      BY <3>1, Accessors
    <3>3. pos = unwrap(wrap(from, isn), isn, re.output.written)
      BY <1>1, <2>1, <2>2, <3>2 DEF Position
    <3>4. from \in Nat /\ from <= N + 1
      BY Constants
    <3>5. Distance(from, re.output.written) < Half32
      <4>1. N \in Nat /\ Half32 \in Nat /\ N + 2 < Half32
        BY Constants
      <4> QED
        BY <3>2, <3>4, <4>1 DEF Distance
    <3> QED
      BY <1>3, <3>2, <3>3, <3>4, <3>5, Constants, UnwrapOfWrap
  <2>4. First(from) = from - 1 /\ from # 0
    BY <1>6 DEF First
  <2> HIDE DEF synced, pos, seg
  <2>5. rcv' = [rcv EXCEPT !.reassembler = next]
    BY <1>1, <1>2, <2>1, <2>2, <2>3, <2>4, SamePush
  <2> HIDE DEF next
  <2>6. /\ DOMAIN rcv' = {"reassembler", "isn", "syned"}
        /\ rcv'.syned = TRUE /\ rcv'.isn = isn /\ rcv'.reassembler = next
    BY <1>3, <2>2, <2>5
  <2> QED
    BY <1>6, <2>6 DEF next
<1>7. CASE from # 0 /\ ~rcv.syned
  <2>1. synced = rcv
    BY <1>1, <1>7
  <2>2. rcv' = rcv
    BY <1>2, <1>7, <2>1
  <2> QED
    BY <1>7, <2>1, <2>2
<1> QED
  BY <1>5, <1>6, <1>7

\* The receiver's part of Inv', without the history of what arrived, after a segment.
\* Stated for what is pushed, so that the reassembler can be left as it is.
LEMMA SegmentPushed ==
  ASSUME Inv, NEW from \in 0 .. N + 1, NEW to \in from .. N + 1,
         SegmentReceived(from, to), rcv.syned \/ from = 0
  PROVE  /\ RP!Pushed(rcv.reassembler, rcv'.reassembler, First(from), Last(to), to = N + 1)
         /\ RP!Inv'
<1> DEFINE lo == First(from)
           hi == Last(to)
           eof == (to = N + 1)
           re == rcv.reassembler
<1>1. rcv'.reassembler = RP!push_substring(re, SubSeq(Stream, lo + 1, hi), lo, eof)
  <2>1. ~(~rcv.syned /\ from > 0)
    BY Constants
  <2> QED
    BY <2>1, SegmentStep, Zenon
<1>2. lo \in 0 .. N /\ hi \in lo .. N
  BY Constants DEF First, Last
<1>3. eof \in BOOLEAN /\ (eof => hi = N)
  BY Constants DEF Last
<1>4. eof \in {FALSE, hi = N}
  BY <1>3
<1>5. RP!ReassemblerOK(re) /\ RP!EndOK(re) /\ RP!Inv
  BY DEF Inv, RP!Inv
<1> HIDE DEF lo, hi, eof
<1>6. RP!Pushed(re, rcv'.reassembler, lo, hi, eof)
  BY <1>1, <1>2, <1>3, <1>5, Constants, ReassemblerAssumed, RP!PushOK
<1>7. RP!Push(lo, hi, eof)
  BY <1>1 DEF RP!Push, SegmentReceived
<1>8. RP!Inv'
  BY <1>2, <1>4, <1>5, <1>7, Constants, ReassemblerAssumed, RP!InvPush
<1> QED
  BY <1>6, <1>8 DEF lo, hi, eof

\* A segment preserves the invariant.
LEMMA InvSegment ==
  ASSUME Inv, NEW from \in 0 .. N + 1, NEW to \in from .. N + 1,
         SegmentReceived(from, to)
  PROVE  Inv'
<1>1. isn' = isn /\ received' = received /\ arrived' = arrived \cup Kept(from, to)
  BY DEF SegmentReceived
<1>2. CASE ~rcv.syned /\ from > 0
  <2>1. rcv' = rcv
    BY <1>2, SegmentStep
  <2>2. arrived' = arrived
    BY <1>1, <1>2 DEF Kept
  <2> QED
    BY <1>1, <2>1, <2>2
    DEF Inv, ArrivedOK, HeldIndices, EndKnown, RP!Inv, RP!ReassemblerOK, RP!EndOK, RP!Held
<1>3. CASE rcv.syned \/ from = 0
  <2> DEFINE lo == First(from)
             hi == Last(to)
             re == rcv.reassembler
  <2>1. /\ RP!Pushed(re, re', lo, hi, to = N + 1)
        /\ RP!Inv'
    BY <1>3, SegmentPushed
  <2>2. /\ DOMAIN rcv' = {"reassembler", "isn", "syned"}
        /\ rcv'.syned = TRUE /\ rcv'.isn = isn
    <3>1. ~(~rcv.syned /\ from > 0)
      BY <1>3, Constants
    <3> QED
      BY <3>1, SegmentStep, Zenon
  <2>3. /\ HeldIndices' = HeldIndices \cup RP!Fitting(re, lo, hi)
        /\ EndKnown' <=> EndKnown \/ to = N + 1
        /\ re'.output.end <=> re.output.end \/ (EndKnown' /\ HeldIndices' = 0 .. N - 1)
    BY <2>1, Constants DEF RP!Pushed, HeldIndices, EndKnown
  <2>4. re'.output.end <=> EndKnown' /\ HeldIndices' = 0 .. N - 1
    <3>1. RP!Fitting(re, lo, hi) \subseteq 0 .. N - 1
      BY Constants DEF RP!Fitting, First, Last
    <3>2. re.output.end => EndKnown' /\ HeldIndices' = 0 .. N - 1
      BY <2>3, <3>1 DEF Inv
    <3> QED
      BY <2>3, <3>2
  <2>5. ArrivedOK'
    <3>1. /\ RP!ReassemblerOK(re) /\ re.output.total_read \in Nat
          /\ Edge = re.output.total_read + Capacity + 1
      BY Accessors, Constants DEF Inv, RP!Inv, Edge
    <3>2. ASSUME NEW x \in Int
          PROVE  x \in Kept(from, to) <=>
                   \/ x = 0 /\ from = 0
                   \/ x - 1 \in RP!Fitting(re, lo, hi)
                   \/ x = N + 1 /\ to = N + 1
      <4>1. x \in Kept(from, to) <=>
              x \in from .. to /\ (x < re.output.total_read + Capacity + 1 \/ x \in {0, N + 1})
        BY <1>3, <3>1 DEF Kept
      <4>2. x - 1 \in RP!Fitting(re, lo, hi) <=>
              x - 1 \in lo .. hi - 1 /\ x - 1 < re.output.total_read + Capacity
        BY Constants DEF RP!Fitting
      <4> HIDE DEF re
      <4> QED
        BY <3>1, <4>1, <4>2, Constants, SMTT(30) DEF First, Last
    <3>3. ASSUME NEW x \in Int
          PROVE  x \in arrived' <=> x = 0 \/ x - 1 \in HeldIndices' \/ (x = N + 1 /\ EndKnown')
      <4>1. x \in arrived <=>
              rcv.syned /\ (x = 0 \/ x - 1 \in HeldIndices \/ (x = N + 1 /\ EndKnown))
        BY DEF Inv, ArrivedOK
      <4>2. ~rcv.syned => HeldIndices = {} /\ ~EndKnown
        BY DEF Inv
      <4>3. x \in arrived' <=> x \in arrived \/ x \in Kept(from, to)
        BY <1>1
      <4>4. from = 0 \/ rcv.syned
        BY <1>3
      <4> HIDE DEF lo, hi, re
      <4> QED
        BY <2>3, <3>2, <4>1, <4>2, <4>3, <4>4
    <3> QED
      BY <1>1, <2>2, <3>3, Constants DEF ArrivedOK
  <2>6. isn' \in WrappingInt32
    BY <1>1 DEF Inv
  <2> QED
    BY <1>1, <2>1, <2>2, <2>4, <2>5, <2>6 DEF Inv
<1> QED
  BY <1>2, <1>3

\* A read preserves it.
LEMMA InvRead ==
  ASSUME Inv, NEW len \in 1 .. Capacity, Read(len)
  PROVE  /\ Inv'
         /\ rcv'.reassembler.output.written = rcv.reassembler.output.written
         /\ rcv'.reassembler.output.end = rcv.reassembler.output.end
         /\ rcv.reassembler.output.total_read <= rcv'.reassembler.output.total_read
<1> DEFINE re == rcv.reassembler
           b == re.output
           n == IF len > Len(b.buffer) THEN Len(b.buffer) ELSE len
           c == RP!BS!pop_output(b, n)
<1>1. DOMAIN rcv = {"reassembler", "isn", "syned"} /\ RP!Inv /\ RP!ReassemblerOK(re)
  BY DEF Inv, RP!Inv
<1>2. DOMAIN re = RP!Fields /\ RP!OutputOK(b)
  BY <1>1 DEF RP!ReassemblerOK, RP!StoreOK
<1>3. Len(b.buffer) \in Nat /\ b.total_read \in Nat
  BY <1>2, Constants, ReassemblerAssumed, RP!Counters
<1>4. n \in 0 .. Len(b.buffer)
  BY <1>3, Constants
<1>5. /\ rcv' = [rcv EXCEPT !.reassembler.output = c]
      /\ received' = received \o SubSeq(b.buffer, 1, n)
  BY DEF Read, stream_out, BS!read, BS!peek_output, BS!buffer_size, BS!pop_output,
         RP!BS!pop_output, BS!Int32, RP!BS!Int32, BS!Half32, RP!BS!Half32
<1>6. c.written = b.written /\ c.total_read = b.total_read + n /\ c.end = b.end
  BY <1>2, <1>4, Constants, ReassemblerAssumed, RP!ReadOK
<1>7. /\ re' = [re EXCEPT !.output = c]
      /\ DOMAIN rcv' = {"reassembler", "isn", "syned"}
      /\ rcv'.syned = rcv.syned /\ rcv'.isn = rcv.isn
  BY <1>1, <1>5
<1>8. RP!Read(len)
  BY <1>5, <1>7 DEF RP!Read, RP!BS!read, RP!BS!peek_output, RP!BS!buffer_size
<1>9. RP!Inv'
  BY <1>1, <1>8, Constants, ReassemblerAssumed, RP!InvRead
<1>10. re'.output = c /\ re'.m = re.m /\ re'.endIdx = re.endIdx
  BY <1>2, <1>7 DEF RP!Fields
<1>11. HeldIndices' = HeldIndices /\ EndKnown' = EndKnown
  BY <1>6, <1>10 DEF HeldIndices, EndKnown, RP!Held
<1>12. isn' = isn /\ arrived' = arrived
  BY DEF Read
<1>13. Inv'
  BY <1>6, <1>7, <1>9, <1>10, <1>11, <1>12 DEF Inv, ArrivedOK
<1> QED
  BY <1>3, <1>4, <1>6, <1>10, <1>13

--------------------------------------------------------------------------------

\* Neither counter of the output moves back, and an ended output stays ended.
Onward ==
  LET b == rcv.reassembler.output
      c == rcv'.reassembler.output
  IN  /\ b.written <= c.written
      /\ b.total_read <= c.total_read
      /\ b.end => c.end

\* Every step preserves the invariant and moves the output onward.
LEMMA InvNext == Inv /\ [Next]_vars => Inv' /\ Onward
<1> SUFFICES ASSUME Inv, [Next]_vars PROVE Inv' /\ Onward
  OBVIOUS
<1> DEFINE b == rcv.reassembler.output
<1>1. b.written \in Nat /\ b.total_read \in Nat /\ b.end \in BOOLEAN
  BY Accessors DEF Inv, RP!Inv
<1>2. ASSUME NEW from \in 0 .. N + 1, NEW to \in from .. N + 1, SegmentReceived(from, to)
      PROVE  Inv' /\ Onward
  <2>1. Inv'
    BY <1>2, InvSegment
  <2>2. CASE rcv.syned \/ from = 0
    <3>1. RP!Pushed(rcv.reassembler, rcv'.reassembler, First(from), Last(to), to = N + 1)
      BY <1>2, <2>2, SegmentPushed
    <3> QED
      BY <1>1, <2>1, <3>1 DEF RP!Pushed, Onward
  <2>3. CASE ~(rcv.syned \/ from = 0)
    <3>1. from > 0
      BY <2>3, Constants
    <3>2. rcv' = rcv
      BY <1>2, <2>3, <3>1, SegmentStep
    <3> QED
      BY <1>1, <2>1, <3>2 DEF Onward
  <2> QED
    BY <2>2, <2>3
<1>3. ASSUME NEW len \in 1 .. Capacity, Read(len)
      PROVE  Inv' /\ Onward
  BY <1>1, <1>3, InvRead DEF Onward
<1>4. CASE UNCHANGED vars
  <2>1. rcv' = rcv /\ isn' = isn /\ arrived' = arrived /\ received' = received
    BY <1>4 DEF vars
  <2> QED
    BY <1>1, <2>1
    DEF Onward, Inv, ArrivedOK, HeldIndices, EndKnown, RP!Inv, RP!ReassemblerOK, RP!EndOK,
        RP!Held
<1> QED
  BY <1>2, <1>3, <1>4 DEF Next

\* The invariant always holds.
LEMMA InvAlways == Spec => []Inv
  BY InvInit, InvNext, PTL DEF Spec

\* The first number that is missing, read off the reassembler.
LEMMA FirstMissing ==
  ASSUME Inv, rcv.syned
  PROVE  Min({x \in 0 .. N + 2 : x \notin arrived}) = AbsAckno(rcv)
<1> DEFINE re == rcv.reassembler
           w == re.output.written
           a == AbsAckno(rcv)
           S == {x \in 0 .. N + 2 : x \notin arrived}
<1>1. RP!ReassemblerOK(re)
  BY DEF Inv, RP!Inv
<1>2. /\ w \in Nat /\ w <= N /\ re.output.end \in BOOLEAN
      /\ a = w + 1 + One(re.output.end)
  BY <1>1, Accessors
<1>3. /\ HeldIndices = (0 .. w - 1) \cup RP!Span(re.m, DOMAIN re.m)
      /\ RP!Span(re.m, DOMAIN re.m) \subseteq w + 1 .. N - 1
  <2>1. ASSUME NEW k \in DOMAIN re.m
        PROVE  /\ k \in Nat /\ k < N /\ RP!Left(re.m, k) \in Nat
               /\ w + 1 <= RP!Left(re.m, k)
    BY <1>1, Constants DEF RP!ReassemblerOK, RP!StoreOK, RP!PiecesOK, RP!StoredFrom
  <2> QED
    BY <1>2, <2>1, Constants DEF HeldIndices, RP!Held, RP!Span
<1>4. \A x \in Int : x \in arrived <=> x = 0 \/ x - 1 \in HeldIndices \/ (x = N + 1 /\ EndKnown)
  BY DEF Inv, ArrivedOK
<1>5. re.output.end <=> EndKnown /\ w = N
  <2>1. HeldIndices = 0 .. N - 1 <=> w = N
    BY <1>1, Constants, ReassemblerAssumed, RP!CompleteOK DEF HeldIndices
  <2> QED
    BY <2>1 DEF Inv
<1> HIDE DEF w, a
<1>6. a \in S /\ \A x \in S : a <= x
  <2>1. \A x \in Int : x - 1 \in HeldIndices => 0 <= x - 1 /\ x - 1 <= N - 1 /\ x - 1 # w
    BY <1>2, <1>3, Constants
  <2>2. \A x \in Int : 0 <= x - 1 /\ x - 1 <= w - 1 => x - 1 \in HeldIndices
    BY <1>2, <1>3
  <2>3. CASE re.output.end
    <3>1. a = N + 2 /\ w = N /\ EndKnown
      BY <1>2, <1>5, <2>3, Constants DEF One
    <3> HIDE DEF re
    <3> QED
      BY <1>2, <1>4, <2>1, <2>2, <3>1, Constants
  <2>4. CASE ~re.output.end
    <3>1. a = w + 1 /\ ~(EndKnown /\ w = N)
      BY <1>2, <1>5, <2>4 DEF One
    <3> HIDE DEF re
    <3> QED
      BY <1>2, <1>4, <2>1, <2>2, <3>1, Constants
  <2> QED
    BY <1>2, <2>3, <2>4
<1> HIDE DEF S
<1>7. a \in Int /\ \A x \in S : x \in Int
  BY <1>2, Constants DEF S, One
<1>8. \A x \in S : (\A y \in S : x <= y) => x = a
  BY <1>6, <1>7
<1> QED
  BY <1>6, <1>8, Zenon DEF Min, S, a

\* The acknowledgment number is always the first number that has not come, whatever
\* the order, the repetition, the windows and the initial sequence number.
THEOREM AcksFirstMissing == Spec => []AckIsFirstMissing
<1>1. Inv => AckIsFirstMissing
  <2> SUFFICES ASSUME Inv, rcv.syned PROVE AckIsFirstMissing
    BY DEF AckIsFirstMissing
  <2>1. rcv.isn = isn
    BY DEF Inv
  <2> QED
    BY <2>1, FirstMissing, Zenon DEF AckIsFirstMissing, ackno
<1> QED
  BY <1>1, InvAlways, PTL

\* What is added up from counts that do not shrink does not shrink.
LEMMA AddOnward ==
  ASSUME NEW v \in Nat, NEW w \in Nat, NEW t \in Nat, NEW u \in Nat,
         NEW o \in Nat, NEW p \in Nat, NEW c \in Nat, v <= w, t <= u, o <= p
  PROVE  w + 1 + p >= v + 1 + o /\ u + 1 + p + c >= t + 1 + o + c
  OBVIOUS

\* Neither the acknowledgment number nor the right edge of the window ever moves back.
THEOREM TakesNothingBack == Spec => NeverTakesBack
<1> DEFINE b == rcv.reassembler.output
           NothingBack == /\ AbsAckno(rcv)' >= AbsAckno(rcv)
                          /\ AbsAckno(rcv)' + window_size(rcv)' >= AbsAckno(rcv) + window_size(rcv)
<1>1. Inv /\ [Next]_vars => NothingBack
  <2> SUFFICES ASSUME Inv, [Next]_vars PROVE NothingBack
    OBVIOUS
  <2>1. Inv' /\ Onward
    BY InvNext
  <2>2. RP!ReassemblerOK(rcv.reassembler) /\ RP!ReassemblerOK(rcv'.reassembler)
    BY <2>1 DEF Inv, RP!Inv, RP!ReassemblerOK
  <2>3. /\ b.written \in Nat /\ b.total_read \in Nat /\ b.end \in BOOLEAN
        /\ AbsAckno(rcv) = b.written + 1 + One(b.end)
        /\ AbsAckno(rcv) + window_size(rcv) = b.total_read + 1 + One(b.end) + Capacity
    BY <2>2, Accessors
  <2>4. /\ b'.written \in Nat /\ b'.total_read \in Nat /\ b'.end \in BOOLEAN
        /\ AbsAckno(rcv') = b'.written + 1 + One(b'.end)
        /\ AbsAckno(rcv') + window_size(rcv') = b'.total_read + 1 + One(b'.end) + Capacity
    BY <2>2, Accessors
  <2>5. /\ b.written <= b'.written /\ b.total_read <= b'.total_read
        /\ One(b.end) <= One(b'.end) /\ One(b.end) \in Nat /\ One(b'.end) \in Nat
    BY <2>1, <2>3, <2>4 DEF Onward, One
  <2>6. AbsAckno(rcv)' = AbsAckno(rcv') /\ window_size(rcv)' = window_size(rcv')
    BY DEF AbsAckno, window_size, stream_out
  <2>7. Capacity \in Nat
    BY Constants
  <2>8. /\ b'.written + 1 + One(b'.end) >= b.written + 1 + One(b.end)
        /\ b'.total_read + 1 + One(b'.end) + Capacity
             >= b.total_read + 1 + One(b.end) + Capacity
    BY ONLY <2>3, <2>4, <2>5, <2>7, AddOnward
  <2>9. /\ AbsAckno(rcv') >= AbsAckno(rcv)
        /\ AbsAckno(rcv') + window_size(rcv') >= AbsAckno(rcv) + window_size(rcv)
    BY ONLY <2>3, <2>4, <2>8, Zenon
  <2> QED
    BY <2>6, <2>9
<1>2. Inv /\ [Next]_vars => [rcv.syned => NothingBack]_vars
  BY <1>1
<1> QED
  BY <1>2, InvAlways, PTL DEF Spec, NeverTakesBack

================================================================================
