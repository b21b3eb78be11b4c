---------------------------- MODULE ByteStreamProofs ---------------------------
(***************************************************************************)
(* ByteStreamSystem's invariants, for every set of bytes, capacity and     *)
(* length of the strings written, as long as the ints that count bytes do  *)
(* not overflow (NoOverflow).                                              *)
(***************************************************************************)
EXTENDS ByteStreamSystem, WrappingProofs, SequenceTheorems

\* A buffer cut in two is its two parts.
LEMMA CutInTwo ==
  ASSUME NEW S, NEW s \in Seq(S), NEW n \in 0 .. Len(s)
  PROVE  /\ SubSeq(s, 1, n) \in Seq(S) /\ Len(SubSeq(s, 1, n)) = n
         /\ SubSeq(s, n + 1, Len(s)) \in Seq(S) /\ Len(SubSeq(s, n + 1, Len(s))) = Len(s) - n
         /\ s = SubSeq(s, 1, n) \o SubSeq(s, n + 1, Len(s))
<1>1. Len(s) \in Nat /\ \A i \in 1 .. Len(s) : s[i] \in S
  BY LenProperties, ElementOfSeq
<1>2. /\ SubSeq(s, 1, n) \in Seq(S) /\ Len(SubSeq(s, 1, n)) = n
  BY <1>1, SubSeqProperties
<1>3. /\ SubSeq(s, n + 1, Len(s)) \in Seq(S)
      /\ Len(SubSeq(s, n + 1, Len(s))) = Len(s) - n
  BY <1>1, SubSeqProperties
<1>4. SubSeq(s, 1, n) \o SubSeq(s, n + 1, Len(s)) = SubSeq(s, 1, Len(s))
  <2>1. 1 \in 1 .. Len(s) + 1 /\ n \in 1 - 1 .. Len(s) /\ Len(s) \in n .. Len(s)
    BY <1>1
  <2> QED
    BY <2>1, ConcatAdjacentSubSeq
<1>5. SubSeq(s, 1, Len(s)) = s
  BY SubSeqFull
<1> QED
  BY <1>2, <1>3, <1>4, <1>5

\* A stream with another buffer and another count of written bytes.
LEMMA StreamWritten ==
  ASSUME NEW s \in Streams(Byte), NEW b \in Seq(Byte), NEW w \in Int
  PROVE  [s EXCEPT !.buffer = b, !.written = w] \in Streams(Byte)
  BY Zenon DEF Streams

\* A stream with another buffer and another count of bytes read.
LEMMA StreamRead ==
  ASSUME NEW s \in Streams(Byte), NEW b \in Seq(Byte), NEW w \in Int
  PROVE  [s EXCEPT !.buffer = b, !.total_read = w] \in Streams(Byte)
  BY Zenon DEF Streams

\* What the queue invariants come to together: the types, the queue, the capacity
\* and, in the members themselves, the counters.
Inv ==
  /\ TypeOK
  /\ FIFO
  /\ WithinCapacity
  /\ stream.written = Len(sent)
  /\ stream.total_read = Len(received)
  /\ Len(sent) <= MaxSent

\* The constructor establishes the invariant.
LEMMA InvInit == Init => Inv
<1> SUFFICES ASSUME Init PROVE Inv
  OBVIOUS
<1> USE ByteStreamAssumption DEF Init
<1>1. Int32(Capacity) = Capacity
  BY SmallConversions
<1>2. << >> \in Seq(Byte) /\ Len(<< >>) = 0
  BY EmptySeq
<1>3. TypeOK
  BY <1>1, <1>2 DEF TypeOK, New, Streams
<1>4. FIFO
  BY <1>2, ConcatEmptySeq DEF FIFO, New
<1> QED
  BY <1>2, <1>3, <1>4 DEF Inv, New, WithinCapacity, buffer_size

\* write preserves it: what fits is appended to the buffer and to the history.
LEMMA InvWrite ==
  ASSUME NoOverflow, Inv, NEW data \in Chunk, Write(data)
  PROVE  Inv'
<1> DEFINE n == accepted(stream, data)
           add == SubSeq(data, 1, n)
<1>0. Capacity \in Nat /\ MaxSent \in Nat /\ Half32 \in Nat
  BY ByteStreamAssumption, TwoHalves
<1>1. data \in Seq(Byte) /\ Len(data) \in Nat
  BY DEF Chunk
<1>2. /\ stream \in Streams(Byte) /\ stream.capacity = Capacity
      /\ stream.buffer \in Seq(Byte) /\ Len(stream.buffer) \in Nat
      /\ Len(stream.buffer) <= Capacity
      /\ sent \in Seq(Byte) /\ Len(sent) \in Nat
      /\ received \in Seq(Byte) /\ Len(received) \in Nat
  BY LenProperties DEF Inv, TypeOK, Streams, WithinCapacity, buffer_size
<1>3. n \in 0 .. Len(data) /\ n <= Capacity - Len(stream.buffer)
  <2>1. remaining_capacity(stream) = Capacity - Len(stream.buffer)
    BY <1>2 DEF remaining_capacity, buffer_size
  <2>2. Capacity - Len(stream.buffer) \in Nat
    BY <1>0, <1>2
  <2> QED
    BY <1>1, <2>1, <2>2 DEF accepted
<1> HIDE DEF n
<1>4. add \in Seq(Byte) /\ Len(add) = n
  BY <1>1, <1>3, CutInTwo
<1>5. /\ stream.buffer \o add \in Seq(Byte)
      /\ Len(stream.buffer \o add) = Len(stream.buffer) + n
      /\ sent \o add \in Seq(Byte)
      /\ Len(sent \o add) = Len(sent) + n
  BY <1>2, <1>4, ConcatProperties
<1>6. Len(sent) + n <= MaxSent
  BY <1>0, <1>1, <1>2, <1>3 DEF Write
<1>7. Int32(stream.written + n) = Len(sent) + n
  <2>1. Len(sent) + n \in Nat /\ Len(sent) + n < Half32
    BY <1>0, <1>1, <1>2, <1>3, <1>6 DEF NoOverflow
  <2>2. Int32(Len(sent) + n) = Len(sent) + n
    BY <2>1, SmallConversions, ByteStreamAssumption
  <2> QED
    BY <2>2 DEF Inv
<1>8. /\ stream' = [stream EXCEPT !.buffer = stream.buffer \o add, !.written = Len(sent) + n]
      /\ sent' = sent \o add
      /\ received' = received
  BY <1>7 DEF Write, write, n
<1> HIDE DEF add
<1>9. TypeOK'
  <2>1. Len(sent) + n \in Int
    BY <1>1, <1>2, <1>3
  <2>2. stream' \in Streams(Byte)
    BY <1>2, <1>5, <1>8, <2>1, StreamWritten
  <2>3. stream'.capacity = Capacity
    BY <1>2, <1>8 DEF Streams
  <2> QED
    BY <1>2, <1>5, <1>8, <2>2, <2>3 DEF TypeOK
<1>10. FIFO'
  <2>1. (received \o stream.buffer) \o add = received \o (stream.buffer \o add)
    <3>1. received \in Seq(Byte) /\ stream.buffer \in Seq(Byte) /\ add \in Seq(Byte)
      BY <1>2, <1>4
    <3>2. \A b \in Seq(Byte) : (received \o b) \o add = received \o (b \o add)
      BY <3>1, ConcatAssociative, SMTT(30)
    <3> QED
      BY <3>1, <3>2
  <2>2. stream'.buffer = stream.buffer \o add
    BY <1>2, <1>8 DEF Streams
  <2> QED
    BY <1>8, <2>1, <2>2 DEF Inv, FIFO
<1>11. WithinCapacity'
  BY <1>2, <1>3, <1>5, <1>8 DEF WithinCapacity, buffer_size, Streams
<1> QED
  BY <1>2, <1>3, <1>5, <1>6, <1>8, <1>9, <1>10, <1>11 DEF Inv, Streams

\* Taking len bytes from the front preserves it: what was peeked is what is popped.
LEMMA InvTake ==
  ASSUME NoOverflow, Inv, NEW len \in 0 .. buffer_size(stream),
         stream' = pop_output(stream, len),
         received' = received \o SubSeq(stream.buffer, 1, len),
         sent' = sent
  PROVE  Inv'
<1>0. Capacity \in Nat /\ MaxSent \in Nat /\ Half32 \in Nat
  BY ByteStreamAssumption, TwoHalves
<1> DEFINE front == SubSeq(stream.buffer, 1, len)
           rest == SubSeq(stream.buffer, len + 1, Len(stream.buffer))
<1>1. /\ stream \in Streams(Byte) /\ stream.capacity = Capacity
      /\ stream.buffer \in Seq(Byte) /\ Len(stream.buffer) \in Nat
      /\ Len(stream.buffer) <= Capacity
      /\ sent \in Seq(Byte) /\ Len(sent) \in Nat
      /\ received \in Seq(Byte) /\ Len(received) \in Nat
  BY LenProperties DEF Inv, TypeOK, Streams, WithinCapacity, buffer_size
<1>2. len \in 0 .. Len(stream.buffer)
  BY DEF buffer_size
<1>3. /\ front \in Seq(Byte) /\ Len(front) = len
      /\ rest \in Seq(Byte) /\ Len(rest) = Len(stream.buffer) - len
      /\ stream.buffer = front \o rest
  BY <1>1, <1>2, CutInTwo
<1>4. received \o front \in Seq(Byte) /\ Len(received \o front) = Len(received) + len
  BY <1>1, <1>3, ConcatProperties
<1>5. Len(sent) = Len(received) + Len(stream.buffer)
  BY <1>1, ConcatProperties DEF Inv, FIFO
<1>6. Int32(stream.total_read + len) = Len(received) + len
  <2>1. Len(received) + len \in Nat /\ Len(received) + len < Half32
    BY <1>0, <1>1, <1>2, <1>5 DEF Inv, NoOverflow
  <2>2. Int32(Len(received) + len) = Len(received) + len
    BY <2>1, SmallConversions, ByteStreamAssumption
  <2> QED
    BY <2>2 DEF Inv
<1>7. /\ stream' = [stream EXCEPT !.buffer = rest, !.total_read = Len(received) + len]
      /\ received' = received \o front
  BY <1>6 DEF pop_output
<1> HIDE DEF front, rest
<1>8. TypeOK'
  <2>1. Len(received) + len \in Int
    BY <1>1, <1>2
  <2>2. stream' \in Streams(Byte)
    <3>1. stream \in Streams(Byte) /\ rest \in Seq(Byte)
      BY <1>1, <1>3
    <3>2. [stream EXCEPT !.buffer = rest, !.total_read = Len(received) + len] \in Streams(Byte)
      BY <2>1, <3>1, StreamRead, Zenon
    <3> QED
      BY <1>7, <3>2
  <2>3. stream'.capacity = Capacity
    BY <1>1, <1>7 DEF Streams
  <2> QED
    BY <1>1, <1>4, <1>7, <2>2, <2>3 DEF TypeOK
<1>9. FIFO'
  <2>1. (received \o front) \o rest = received \o (front \o rest)
    <3>1. received \in Seq(Byte) /\ front \in Seq(Byte) /\ rest \in Seq(Byte)
      BY <1>1, <1>3
    <3> QED
      BY ONLY <3>1, ConcatAssociative, SMTT(30)
  <2>2. stream'.buffer = rest
    BY <1>1, <1>7 DEF Streams
  <2> QED
    BY <1>3, <1>7, <2>1, <2>2 DEF Inv, FIFO
<1>10. WithinCapacity'
  BY <1>1, <1>2, <1>3, <1>7 DEF WithinCapacity, buffer_size, Streams
<1> QED
  BY <1>1, <1>2, <1>4, <1>7, <1>8, <1>9, <1>10 DEF Inv, Streams

\* Every call of a method preserves the invariant.
LEMMA InvNext == NoOverflow /\ Inv /\ [Next]_vars => Inv'
<1> SUFFICES ASSUME NoOverflow, Inv, [Next]_vars PROVE Inv'
  OBVIOUS
<1> USE ByteStreamAssumption
<1>1. CASE \E data \in Chunk : Write(data)
  BY <1>1, InvWrite
<1>2. CASE EndInput
  BY <1>2 DEF EndInput, end_input, Inv, TypeOK, FIFO, WithinCapacity, Streams, buffer_size
<1>3. CASE SetError
  BY <1>3 DEF SetError, set_error, Inv, TypeOK, FIFO, WithinCapacity, Streams, buffer_size
<1>4. ASSUME NEW len \in 0 .. Capacity, Pop(len) PROVE Inv'
  <2>1. buffer_size(stream) \in Nat /\ len \in 0 .. buffer_size(stream)
    BY <1>4, LenProperties DEF Pop, Inv, TypeOK, Streams, buffer_size
  <2>2. peek_output(stream, len) = SubSeq(stream.buffer, 1, len)
    BY <2>1 DEF peek_output
  <2> QED
    BY <1>4, <2>1, <2>2, InvTake DEF Pop
<1>5. ASSUME NEW len \in 0 .. Capacity + 1, Read(len) PROVE Inv'
  <2> DEFINE n == IF len > buffer_size(stream) THEN buffer_size(stream) ELSE len
  <2>1. buffer_size(stream) \in Nat
    BY LenProperties DEF Inv, TypeOK, Streams, buffer_size
  <2>2. n \in 0 .. buffer_size(stream)
    BY <2>1
  <2>3. stream' = pop_output(stream, n) /\ received' = received \o SubSeq(stream.buffer, 1, n)
    BY <1>5 DEF Read, read, peek_output
  <2> HIDE DEF n
  <2> QED
    BY <1>5, <2>2, <2>3, InvTake DEF Read
<1>6. CASE UNCHANGED vars
  BY <1>6 DEF vars, Inv, TypeOK, FIFO, WithinCapacity, buffer_size
<1> QED
  BY <1>1, <1>2, <1>3, <1>4, <1>5, <1>6 DEF Next

\* The invariant holds throughout, as long as the counters cannot overflow.
LEMMA InvAlways == NoOverflow /\ Spec => []Inv
<1> SUFFICES ASSUME NoOverflow PROVE Spec => []Inv
  OBVIOUS
<1>1. Init => Inv
  BY InvInit
<1>2. Inv /\ [Next]_vars => Inv'
  BY InvNext
<1> QED
  BY <1>1, <1>2, PTL DEF Spec

\* The members and the histories keep their types.
THEOREM TypeCorrect == NoOverflow /\ Spec => []TypeOK
<1>1. Inv => TypeOK
  BY DEF Inv
<1> QED
  BY <1>1, InvAlways, PTL

\* ByteStream is a queue: the reader gets what write accepted, in order.
THEOREM StreamIsFIFO == NoOverflow /\ Spec => []FIFO
<1>1. Inv => FIFO
  BY DEF Inv
<1> QED
  BY <1>1, InvAlways, PTL

\* The buffer never outgrows the capacity, however much write is offered.
THEOREM StreamIsBounded == NoOverflow /\ Spec => []WithinCapacity
<1>1. Inv => WithinCapacity
  BY DEF Inv
<1> QED
  BY <1>1, InvAlways, PTL

\* bytes_written and bytes_read are exact: the counters are ints that are returned
\* as size_t, which loses nothing as long as fewer than half the ints are written.
THEOREM CountersAreExact == NoOverflow /\ Spec => []CountersExact
<1>1. NoOverflow /\ Inv => CountersExact
  <2> SUFFICES ASSUME NoOverflow, Inv PROVE CountersExact
    OBVIOUS
  <2>1. /\ stream.buffer \in Seq(Byte) /\ Len(stream.buffer) \in Nat
        /\ Len(sent) \in Nat /\ received \in Seq(Byte) /\ Len(received) \in Nat
    BY LenProperties DEF Inv, TypeOK, Streams
  <2>2. Len(sent) = Len(received) + Len(stream.buffer)
    BY <2>1, ConcatProperties DEF Inv, FIFO
  <2>3. /\ Len(sent) < Half32 /\ Len(received) < Half32
    BY <2>1, <2>2, TwoHalves, ByteStreamAssumption DEF Inv, NoOverflow
  <2> QED
    BY <2>1, <2>3, SmallConversions, ByteStreamAssumption
    DEF Inv, CountersExact, bytes_written, bytes_read
<1>2. NoOverflow => []NoOverflow
  OBVIOUS
<1> QED
  BY <1>1, <1>2, InvAlways, PTL

================================================================================
