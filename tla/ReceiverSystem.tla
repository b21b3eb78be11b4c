----------------------------- MODULE ReceiverSystem ----------------------------
(***************************************************************************)
(* A TCPReceiver, its peer and its reader.  The peer's stream has the      *)
(* initial sequence number isn; its segments arrive in any order and any   *)
(* number of times, whether they fit into the window or not.               *)
(***************************************************************************)
EXTENDS TCPReceiver, FiniteSetsExt

CONSTANTS Byte, Stream, Capacity

ASSUME ReceiverAssumption ==
  /\ Capacity \in Nat
  /\ Pow32 \in Nat \ {0}
  /\ Pow32 % 2 = 0
  /\ Stream \in Seq(Byte)
  /\ Len(Stream) + Capacity + 2 < Half32

VARIABLES rcv,         \* the receiver
          isn,         \* the peer's initial sequence number
          arrived,     \* history: absolute numbers accepted within the window
          received     \* history: what the reader has read

vars == <<rcv, isn, arrived, received>>

N == Len(Stream)

Init ==
  /\ rcv = New(Capacity)
  /\ isn \in WrappingInt32
  /\ arrived = {}
  /\ received = << >>

\* The peer's segment for the absolute sequence numbers from .. to: number 0 is
\* the SYN, number N + 1 the FIN and the rest are the bytes of the stream.
PeerSegment(from, to) ==
  [Segment EXCEPT !.seqno = wrap(from, isn), !.syn = (from = 0), !.fin = (to = N + 1),
                  !.payload = SubSeq(Stream, IF from = 0 THEN 1 ELSE from, IF to > N THEN N ELSE to)]

\* The absolute sequence number after the window.
Edge == BS!bytes_read(stream_out(rcv)) + Capacity + 1

\* What of from .. to the receiver has to keep: nothing before the SYN, then the
\* SYN, the bytes before the edge and the FIN.
Kept(from, to) ==
  IF ~rcv.syned /\ from > 0 THEN {} ELSE {x \in from .. to : x < Edge \/ x \in {0, N + 1}}

SegmentReceived(from, to) ==
  /\ rcv' = segment_received(rcv, PeerSegment(from, to))
  /\ arrived' = arrived \cup Kept(from, to)
  /\ UNCHANGED <<isn, received>>

Read(len) ==
  /\ rcv' = [rcv EXCEPT !.reassembler.output = BS!read(@, len)]
  /\ received' = received \o BS!peek_output(stream_out(rcv), len)
  /\ UNCHANGED <<isn, arrived>>

Next ==
  \/ \E from \in 0 .. N + 1 : \E to \in from .. N + 1 : SegmentReceived(from, to)
  \/ \E len \in 1 .. Capacity : Read(len)

Spec == Init /\ [][Next]_vars

--------------------------------------------------------------------------------

\* Once the SYN has come, ackno is the first number that is missing, SYN, bytes
\* and FIN alike, wherever the 32-bit numbers wrap (tcp_receiver.hh:43).
AckIsFirstMissing ==
  rcv.syned => AbsAckno(rcv) = Min({x \in 0 .. N + 2 : x \notin arrived})
               /\ ackno(rcv) = wrap(Min({x \in 0 .. N + 2 : x \notin arrived}), isn)

\* What was offered to the peer is never taken back: neither the ackno nor the
\* right edge of the window it advertises ever moves to the left.
NeverTakesBack ==
  [][rcv.syned => /\ AbsAckno(rcv)' >= AbsAckno(rcv)
                  /\ AbsAckno(rcv)' + window_size(rcv)' >= AbsAckno(rcv) + window_size(rcv)]_vars

================================================================================
