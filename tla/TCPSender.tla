------------------------------- MODULE TCPSender -------------------------------
(***************************************************************************)
(* libsponge/tcp_sender: cuts the outbound stream into segments that fit   *)
(* the peer's window, keeps the unacknowledged ones and retransmits the    *)
(* oldest.  lastAck is left out: nothing reads it.                         *)
(*                                                                         *)
(* The loops of fill_window and ack_received are written in closed form;   *)
(* MCSender checks them against the loops.                                 *)
(***************************************************************************)
EXTENDS WrappingIntegers, TCPSegment, FiniteSetsExt

CONSTANT MAX_PAYLOAD_SIZE

BS == INSTANCE ByteStream

New(capacity, retx_timeout, isn) ==
  [isn |-> isn, segments_out |-> << >>, initial_RTO |-> retx_timeout,
   stream |-> BS!New(capacity), next_seqno |-> 0, outstandings |-> << >>,
   in_flights |-> 0, timePassed |-> 0, RTO |-> retx_timeout, recount |-> 0,
   window |-> 1, window_right |-> 0, fin_sent |-> FALSE, probing |-> FALSE]

bytes_in_flight(s) == s.in_flights
consecutive_retransmissions(s) == s.recount
next_seqno_absolute(s) == s.next_seqno
next_seqno(s) == wrap(s.next_seqno, s.isn)

\* Everything was read from the stream and the FIN is still to be sent.
ReadyToFin(s) == BS!eof(s.stream) /\ s.next_seqno < BS!bytes_written(s.stream) + 2

--------------------------------------------------------------------------------

\* Mutant: segments are counted instead of sequence numbers.
Launch_counting_segments(s, segs, size) ==
  [s EXCEPT !.next_seqno   = @ + size,
            !.in_flights   = @ + Len(segs),
            !.outstandings = @ \o segs,
            !.segments_out = @ \o segs]

\* A segment that occupies sequence numbers is both sent and kept.
Launch(s, segs, size) ==
  [s EXCEPT !.next_seqno   = @ + size,
            !.in_flights   = @ + size,
            !.outstandings = @ \o segs,
            !.segments_out = @ \o segs]

\* The probe of a closed window: one byte, or the FIN (f).
send_one_byte_segment(s, f) ==
  LET seg == [Segment EXCEPT !.seqno = next_seqno(s), !.fin = f,
                             !.payload = IF f THEN << >> ELSE BS!peek_output(s.stream, 1)]
  IN  Launch(IF f THEN s ELSE [s EXCEPT !.stream = BS!read(@, 1)], <<seg>>, 1)

\* How many bytes of the buffer fit into the window, the SYN first if it is due.
Payload(s) ==
  Min({BS!buffer_size(s.stream), s.window_right - s.next_seqno - One(s.next_seqno = 0) + 1})

\* Mutant: the FIN is sent even if it lies beyond the window.
FinFits_unchecked(s) ==
  ~s.fin_sent /\ BS!input_ended(s.stream) /\ Payload(s) = BS!buffer_size(s.stream)

\* The FIN goes with the last byte if there is room for it.
FinFits(s) ==
  /\ ~s.fin_sent
  /\ BS!input_ended(s.stream) /\ Payload(s) = BS!buffer_size(s.stream)
  /\ s.next_seqno + One(s.next_seqno = 0) + Payload(s) <= s.window_right

\* How many segments the loop sends: as few as MAX_PAYLOAD_SIZE allows, and one
\* without payload only for a SYN or a FIN.
SegmentCount(s) ==
  IF Payload(s) = 0 THEN One(s.next_seqno = 0 \/ ReadyToFin(s))
  ELSE (Payload(s) + MAX_PAYLOAD_SIZE - 1) \div MAX_PAYLOAD_SIZE

\* Mutant: every segment carries the sequence number of the first one.
NewSegment_same_seqno(s, i) ==
  [Segment EXCEPT
     !.seqno   = wrap(s.next_seqno, s.isn),
     !.syn     = (i = 1 /\ s.next_seqno = 0),
     !.fin     = (i = SegmentCount(s) /\ FinFits(s)),
     !.payload = SubSeq(s.stream.buffer, (i - 1) * MAX_PAYLOAD_SIZE + 1,
                        Min({i * MAX_PAYLOAD_SIZE, Payload(s)}))]

\* The i-th of them.
NewSegment(s, i) ==
  [Segment EXCEPT
     !.seqno   = wrap(s.next_seqno + One(i > 1 /\ s.next_seqno = 0) + (i - 1) * MAX_PAYLOAD_SIZE, s.isn),
     !.syn     = (i = 1 /\ s.next_seqno = 0),
     !.fin     = (i = SegmentCount(s) /\ FinFits(s)),
     !.payload = SubSeq(s.stream.buffer, (i - 1) * MAX_PAYLOAD_SIZE + 1,
                        Min({i * MAX_PAYLOAD_SIZE, Payload(s)}))]

\* The while loop of fill_window.
FillLoop(s) ==
  LET segs == [i \in 1 .. SegmentCount(s) |-> NewSegment(s, i)]
      size == One(s.next_seqno = 0) + Payload(s) + One(FinFits(s))
      sent == [s EXCEPT !.stream = BS!read(@, Payload(s)), !.fin_sent = @ \/ FinFits(s)]
  IN  IF s.next_seqno > s.window_right \/ SegmentCount(s) = 0 THEN s
      ELSE Launch(sent, segs, size)

\* Mutant: a closed window is never probed.
fill_window_without_probe(s) == FillLoop(s)

fill_window(s) ==
  IF s.window = 0 /\ ~s.probing /\ (~BS!buffer_empty(s.stream) \/ ReadyToFin(s))
  THEN send_one_byte_segment([s EXCEPT !.probing = TRUE], BS!buffer_empty(s.stream))
  ELSE FillLoop(s)

--------------------------------------------------------------------------------

\* The absolute sequence number of an outstanding segment's last byte.
LastSeqno(s, seg) ==
  Size(length_in_sequence_space(seg) + unwrap(seg.seqno, s.isn, BS!bytes_read(s.stream)) - 1)

\* Mutant: a partly acknowledged segment counts as acknowledged.
Acked_partly(s, ackabs) ==
  Max({k \in 0 .. Len(s.outstandings) :
         \A i \in 1 .. k : unwrap(s.outstandings[i].seqno, s.isn, BS!bytes_read(s.stream)) < ackabs})

\* How many of the oldest outstanding segments ackabs acknowledges entirely.
Acked(s, ackabs) ==
  Max({k \in 0 .. Len(s.outstandings) :
         \A i \in 1 .. k : LastSeqno(s, s.outstandings[i]) < ackabs})

\* The sequence numbers that a queue of segments occupies.
TotalLength(q) == Cardinality(UNION {{i} \X (1 .. length_in_sequence_space(q[i])) : i \in DOMAIN q})

\* Mutant: the timer is restarted by acknowledgments of nothing new.
Timer_always(s, k) == [s EXCEPT !.timePassed = 0, !.RTO = s.initial_RTO, !.recount = 0]

\* The timer after k segments were acknowledged: restarted, without backoff, but
\* with the old timePassed if none is left.
Timer(s, k) ==
  IF k = 0 THEN s
  ELSE [s EXCEPT !.RTO = s.initial_RTO,
                 !.timePassed = IF s.outstandings # << >> THEN 0 ELSE @,
                 !.recount = 0]

\* Probing is over when the window has moved.
Probing(s, moved) == s.probing /\ ~moved

\* An acknowledgment of what was never sent is ignored; any other one, old ones
\* included, sets the window, but only moves its right edge to the right.
ack_received(s, ackno, window_size) ==
  LET ackabs == unwrap(ackno, s.isn, BS!bytes_read(s.stream))
      right  == Size(ackabs + window_size - 1)
      moved  == right > s.window_right
      k      == Acked(s, ackabs)
      popped == [s EXCEPT !.window       = window_size,
                          !.window_right = IF moved THEN right ELSE @,
                          !.probing      = Probing(s, moved),
                          !.outstandings = SubSeq(@, k + 1, Len(@)),
                          !.in_flights   = @ - TotalLength(SubSeq(s.outstandings, 1, k))]
  IN  IF ackabs > s.next_seqno THEN s
      ELSE Timer(popped, k)

\* Mutant: the newest outstanding segment is retransmitted.
Expire_newest(s) ==
  [s EXCEPT !.segments_out = Append(@, s.outstandings[Len(s.outstandings)]), !.timePassed = 0,
            !.recount = IF s.window > 0 THEN @ + 1 ELSE @,
            !.RTO     = IF s.window > 0 THEN 2 * @ ELSE @]

\* The timer expires: the oldest segment goes out again, and unless this probes
\* a closed window the timeout doubles.
Expire(s) ==
  [s EXCEPT !.segments_out = Append(@, Head(s.outstandings)),
            !.timePassed = 0,
            !.recount = IF s.window > 0 THEN @ + 1 ELSE @,
            !.RTO     = IF s.window > 0 THEN 2 * @ ELSE @]

tick(s, ms_since_last_tick) ==
  LET passed == s.timePassed + ms_since_last_tick
  IN  IF s.outstandings = << >> THEN s
      ELSE IF passed >= s.RTO THEN Expire(s)
      ELSE [s EXCEPT !.timePassed = passed]

send_empty_segment(s) ==
  [s EXCEPT !.segments_out = Append(@, [Segment EXCEPT !.seqno = next_seqno(s)])]

send_empty_segment_RST(s) ==
  [s EXCEPT !.segments_out = Append(@, [Segment EXCEPT !.seqno = next_seqno(s), !.rst = TRUE])]

================================================================================
