--------------------------- MODULE ByteStreamSystem ----------------------------
(***************************************************************************)
(* A ByteStream between a writer and a reader who call its methods in any  *)
(* order.  Two history variables record what the methods report: sent is   *)
(* what write accepted, received what the reader peeked and popped.        *)
(***************************************************************************)
EXTENDS ByteStream

CONSTANTS Byte,        \* the values of a byte
          Capacity,    \* the stream's capacity
          MaxChunk,    \* bound: longest string one call writes
          MaxSent      \* bound: bytes offered to the stream in a behaviour

ASSUME ByteStreamAssumption ==
  /\ Capacity \in Nat /\ Capacity < Half32
  /\ MaxChunk \in Nat
  /\ MaxSent \in Nat
  /\ Pow32 \in Nat \ {0}
  /\ Pow32 % 2 = 0

\* The condition under which the ints that count bytes do not overflow.
NoOverflow == MaxSent < Half32

VARIABLES stream, sent, received

vars == <<stream, sent, received>>

Chunk == UNION {[1 .. n -> Byte] : n \in 0 .. MaxChunk}

Init == stream = New(Capacity) /\ sent = << >> /\ received = << >>

Write(data) ==
  /\ Len(sent) + Len(data) <= MaxSent
  /\ stream' = write(stream, data)
  /\ sent' = sent \o SubSeq(data, 1, accepted(stream, data))
  /\ UNCHANGED received

EndInput ==
  /\ stream' = end_input(stream)
  /\ UNCHANGED <<sent, received>>

SetError ==
  /\ stream' = set_error(stream)
  /\ UNCHANGED <<sent, received>>

\* The reader peeks len bytes and pops them.
Pop(len) ==
  /\ len <= buffer_size(stream)
  /\ stream' = pop_output(stream, len)
  /\ received' = received \o peek_output(stream, len)
  /\ UNCHANGED sent

Read(len) ==
  /\ stream' = read(stream, len)
  /\ received' = received \o peek_output(stream, len)
  /\ UNCHANGED sent

Next ==
  \/ \E data \in Chunk : Write(data)
  \/ EndInput
  \/ SetError
  \/ \E len \in 0 .. Capacity : Pop(len)
  \/ \E len \in 0 .. Capacity + 1 : Read(len)

Spec == Init /\ [][Next]_vars

--------------------------------------------------------------------------------

\* Types of the stream's members and of the histories.
TypeOK ==
  /\ stream \in Streams(Byte)
  /\ stream.capacity = Capacity
  /\ sent \in Seq(Byte)
  /\ received \in Seq(Byte)

\* The stream is a queue: what the reader got followed by what is buffered is
\* exactly what write accepted, in order, nothing lost, repeated or invented.
FIFO == sent = received \o stream.buffer

\* However reads and over-long writes alternate, the buffer never outgrows the
\* capacity, so remaining_capacity (an unsigned subtraction) never wraps.
WithinCapacity == buffer_size(stream) <= Capacity

\* bytes_written and bytes_read report the bytes accepted and the bytes popped:
\* the reassembler and the sender compute stream indices from them.
CountersExact ==
  /\ bytes_written(stream) = Len(sent)
  /\ bytes_read(stream) = Len(received)

================================================================================
