------------------------------ MODULE SenderSystem -----------------------------
(***************************************************************************)
(* A TCPSender, its owner and its peer.  The peer acknowledges some of     *)
(* what was sent and offers a window whose right edge never moves back     *)
(* (ReceiverSystem's NeverTakesBack); its acknowledgments can be lost,     *)
(* repeated and overtake each other.  The i-th byte of the outbound stream *)
(* is the number i, so that a segment shows where its bytes come from.     *)
(***************************************************************************)
EXTENDS TCPSender

CONSTANTS Capacity, RetxTimeout, ISN,
          MaxBytes,    \* bound: bytes the owner writes
          MaxWindow,   \* bound: the largest window the peer offers
          MaxAcks,     \* bound: acknowledgments in the network
          MaxTick,     \* bound: the longest time between two ticks
          MaxRetx      \* bound: TCPConnection gives up after so many retransmissions

ASSUME SenderAssumption ==
  /\ {Capacity, MaxBytes, MaxWindow, MaxAcks, MaxTick, MaxRetx} \subseteq Nat
  /\ {RetxTimeout, MAX_PAYLOAD_SIZE, Pow32} \subseteq Nat \ {0}
  /\ Pow32 % 2 = 0
  /\ ISN \in WrappingInt32
  /\ MaxBytes + MaxWindow + 2 < Half32 /\ Capacity < Half32

VARIABLES snd,         \* the sender
          peer,        \* the peer's ackno and the end of its window, absolute
          acks,        \* acknowledgments in the network
          waited,      \* history: time since the oldest segment was last sent
          newest,      \* history: the newest acknowledgment that has arrived
          reordered    \* history: has one arrived after a newer one?

vars == <<snd, peer, acks, waited, newest, reordered>>

Init ==
  /\ snd = New(Capacity, RetxTimeout, ISN)
  /\ peer = [ack |-> 0, edge |-> 0]
  /\ acks = {}
  /\ waited = 0
  /\ newest = [ack |-> 0, edge |-> 0]
  /\ reordered = FALSE

\* The connection takes segments_out away after every call of the sender.
Drained(s) == [s EXCEPT !.segments_out = << >>]

\* The sender becomes s, elapsed milliseconds later.
Becomes(s, elapsed) ==
  /\ snd' = Drained(s)
  /\ waited' = IF \/ s.outstandings = << >> \/ snd.outstandings = << >>
                  \/ Head(s.outstandings) # Head(snd.outstandings)
                  \/ elapsed > 0 /\ s.segments_out # << >>
               THEN 0 ELSE waited + elapsed

\* The owner does not write after it ended its stream (tcp_sponge_socket.cc).
Write(n) ==
  LET written == BS!bytes_written(snd.stream)
  IN  /\ ~BS!input_ended(snd.stream)
      /\ written + n <= MaxBytes
      /\ Becomes([snd EXCEPT !.stream = BS!write(@, [i \in 1 .. n |-> written + i])], 0)
      /\ UNCHANGED <<peer, acks, newest, reordered>>

EndInput ==
  /\ Becomes([snd EXCEPT !.stream = BS!end_input(@)], 0)
  /\ UNCHANGED <<peer, acks, newest, reordered>>

FillWindow == Becomes(fill_window(snd), 0) /\ UNCHANGED <<peer, acks, newest, reordered>>

Tick(ms) ==
  /\ snd.recount <= MaxRetx
  /\ Becomes(tick(snd, ms), ms)
  /\ UNCHANGED <<peer, acks, newest, reordered>>

SendEmptySegment == Becomes(send_empty_segment(snd), 0) /\ UNCHANGED <<peer, acks, newest, reordered>>

SendEmptySegmentRST == Becomes(send_empty_segment_RST(snd), 0) /\ UNCHANGED <<peer, acks, newest, reordered>>

AckReceived(ack) ==
  LET a    == unwrap(ack.ackno, ISN, peer.ack)
      late == a < newest.ack \/ a + ack.win < newest.edge
  IN  /\ Becomes(ack_received(snd, ack.ackno, ack.win), 0)
      /\ newest' = IF late THEN newest ELSE [ack |-> a, edge |-> a + ack.win]
      /\ reordered' = (reordered \/ late)
      /\ UNCHANGED <<peer, acks>>

\* The peer acknowledges everything before a and offers room up to edge.
PeerAcks(a, edge) ==
  /\ Cardinality(acks) < MaxAcks
  /\ a >= peer.ack /\ a <= edge /\ edge >= peer.edge /\ edge - a <= MaxWindow
  /\ peer' = [ack |-> a, edge |-> edge]
  /\ acks' = acks \cup {[ackno |-> wrap(a, ISN), win |-> edge - a]}
  /\ UNCHANGED <<snd, waited, newest, reordered>>

LoseAck(ack) == acks' = acks \ {ack} /\ UNCHANGED <<snd, peer, waited, newest, reordered>>

Next ==
  \/ \E n \in 1 .. Capacity : Write(n)
  \/ EndInput
  \/ FillWindow
  \/ SendEmptySegment
  \/ SendEmptySegmentRST
  \/ \E ms \in 1 .. MaxTick : Tick(ms)
  \/ \E ack \in acks : AckReceived(ack) \/ LoseAck(ack)
  \/ \E a \in 1 .. snd.next_seqno : \E edge \in a .. a + MaxWindow : PeerAcks(a, edge)

Spec == Init /\ [][Next]_vars

--------------------------------------------------------------------------------

Start(seg) == unwrap(seg.seqno, ISN, BS!bytes_read(snd.stream))
End(seg) == Start(seg) + length_in_sequence_space(seg)

\* However acknowledgments are reordered, the sender never goes beyond the
\* window the peer has offered, except for one byte while it probes.
SentWithinWindow == snd.next_seqno <= Max({1, peer.edge}) + One(snd.probing)

\* The outstanding segments follow each other without gap or overlap up to
\* next_seqno, and bytes_in_flight is the numbers they occupy.
InFlightExact ==
  LET q == snd.outstandings
  IN  /\ snd.in_flights = TotalLength(q)
      /\ \A i \in 1 .. Len(q) :
           End(q[i]) = (IF i < Len(q) THEN Start(q[i + 1]) ELSE snd.next_seqno)

\* What the peer has not acknowledged can be retransmitted: no acknowledgment,
\* partial, old or repeated, makes the sender forget it.
NothingForgotten ==
  peer.ack < snd.next_seqno =>
    snd.outstandings # << >> /\ Start(Head(snd.outstandings)) <= peer.ack

\* Every segment carries the bytes of the stream its sequence number stands
\* for, SYN only at number 0 and FIN only after the last byte of an ended stream.
SegmentsFaithful ==
  \A i \in 1 .. Len(snd.outstandings) :
    LET seg == snd.outstandings[i]
    IN  /\ seg.syn = (Start(seg) = 0)
        /\ \A j \in 1 .. Len(seg.payload) : seg.payload[j] = Start(seg) + One(seg.syn) + j - 1
        /\ Len(seg.payload) <= MAX_PAYLOAD_SIZE
        /\ seg.fin => BS!eof(snd.stream) /\ End(seg) = BS!bytes_written(snd.stream) + 2

\* A retransmission is never late: the timer has counted all the time that the
\* oldest segment has been waiting.
NeverLate == snd.outstandings # << >> => waited <= snd.timePassed

\* What the timer retransmits is what the peer is waiting for, or before it.
RetransmitsOldest ==
  [][\A ms \in 1 .. MaxTick : Tick(ms) =>
       LET out == tick(snd, ms).segments_out
       IN  \A i \in 1 .. Len(out) : Start(out[i]) <= peer.ack \/ peer.ack = snd.next_seqno]_vars

\* tcp_sender.cc:60-75: the sender and its peer do not wait for each other.  A
\* sender that has filled its window has something in flight, so that its timer runs;
\* and one that has something to send into a window of zero has a segment in flight
\* after fill_window, whose acknowledgment can open the window again.  Unless
\* acknowledgments were reordered: an old one overwrites the window, and probing can
\* stay set from a byte that was inside the window.
NeverStuck ==
  \/ reordered
  \/ /\ (snd.next_seqno = snd.window_right + 1 /\ snd.window # 0) => snd.outstandings # << >>
     /\ (snd.window = 0 /\ (~BS!buffer_empty(snd.stream) \/ ReadyToFin(snd)))
          => fill_window(snd).outstandings # << >>

================================================================================
