-------------------------- MODULE ReassemblerSystem ----------------------------
(***************************************************************************)
(* A StreamReassembler between a network that pushes substrings of one     *)
(* stream, in any order, any number of times and whether they fit or not,  *)
(* and a reader of its output stream.                                      *)
(***************************************************************************)
EXTENDS StreamReassembler

CONSTANTS Byte,        \* the values of a byte
          Stream,      \* the bytes of the stream
          Capacity     \* the reassembler's capacity

ASSUME ReassemblerAssumption ==
  /\ Capacity \in Nat /\ Capacity < Half32
  /\ Pow32 \in Nat \ {0}
  /\ Pow32 % 2 = 0
  /\ Stream \in Seq(Byte)

VARIABLES r,           \* the reassembler
          received     \* history: the bytes the reader has read

vars == <<r, received>>

N == Len(Stream)

\* An int holds every index and every distance to the edge of the capacity.
NoOverflow == N + Capacity < Half32

Init == r = New(Capacity) /\ received = << >>

\* The bytes with the indices lo .. hi - 1 arrive; only the last ones may be
\* marked as the end, and need not be (a FIN can travel by itself).
Push(lo, hi, eof) ==
  /\ r' = push_substring(r, SubSeq(Stream, lo + 1, hi), lo, eof)
  /\ UNCHANGED received

Read(len) ==
  /\ r' = [r EXCEPT !.output = BS!read(@, len)]
  /\ received' = received \o BS!peek_output(r.output, len)

Next ==
  \/ \E lo \in 0 .. N : \E hi \in lo .. N : \E eof \in {FALSE, hi = N} : Push(lo, hi, eof)
  \/ \E len \in 1 .. Capacity : Read(len)

Spec == Init /\ [][Next]_vars

\* What becomes of the reassembler when the peer retransmits the first byte, or the
\* end, that is not acknowledged.
Oldest ==
  LET i == bytes_written(r)
  IN  IF i < N THEN push_substring(r, SubSeq(Stream, i + 1, i + 1), i, i + 1 = N)
      ELSE push_substring(r, << >>, N, TRUE)

\* The peer retransmits until all is acknowledged (TCPSender::tick), the application
\* keeps reading.  The first conjunct is the weak fairness of that retransmission
\* with its enabling condition written out, which TLC evaluates faster than ENABLED.
Fairness ==
  /\ []<>(Oldest = r) \/ []<><<r' = Oldest /\ UNCHANGED received>>_vars
  /\ WF_vars(Read(1))

FairSpec == Spec /\ Fairness

--------------------------------------------------------------------------------

StoredIndices == UNION {Left(r.m, k) .. k : k \in DOMAIN r.m}

\* Whatever arrives in whatever order, the reader is given the stream from its
\* beginning without gap, repetition or foreign byte.
DeliversPrefix ==
  received \o r.output.buffer = SubSeq(Stream, 1, bytes_written(r))

\* The stored substrings are disjoint pieces of the stream, with the right
\* bytes, beyond what was written and below the edge of the capacity: what the
\* merging of lower_bound, combine and erase must maintain.  unassembled counts
\* each of their bytes once, however often it was pushed (stream_reassembler.hh:57).
StoredPieces ==
  /\ unassembled_bytes(r) = Cardinality(StoredIndices)
  /\ \A k \in DOMAIN r.m :
       /\ r.m[k] = SubSeq(Stream, Left(r.m, k) + 1, k + 1)
       /\ Left(r.m, k) > bytes_written(r)
       /\ k <= Edge(r)
       /\ \A h \in DOMAIN r.m : h < k => h < Left(r.m, k)

\* The reassembler seen as OrderedDelivery.
Abstract == INSTANCE OrderedDelivery WITH
              have  <- (0 .. bytes_written(r) - 1) \cup StoredIndices,
              taken <- Len(received),
              last  <- r.endIdx = N,
              ended <- BS!input_ended(r.output)

\* The reassembler implements OrderedDelivery: a byte once taken is never lost
\* again, everything before the first gap is readable, nothing beyond the capacity
\* is held (stream_reassembler.hh:35), and the output ends exactly when the end is
\* known and nothing is missing, not at a FIN that overtook data.
Refines == Abstract!Spec

\* Every byte that arrives within the capacity is taken, whether it comes alone or in
\* a substring that overlaps stored ones or is cut at either end.
TakesWhatFits ==
  [][\A lo \in 0 .. N : \A hi \in lo .. N : \A eof \in {FALSE, hi = N} :
       Push(lo, hi, eof) => Abstract!Arrive(lo, hi, eof)]_vars

\* As long as the oldest missing byte keeps arriving, the reader reaches the end of
\* the stream: what is stored, or refused for lack of room, never blocks it.
EventuallyAll == <>(BS!eof(r.output) /\ received = Stream)

================================================================================
