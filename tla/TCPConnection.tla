------------------------------ MODULE TCPConnection ----------------------------
(***************************************************************************)
(* libsponge/tcp_connection: one endpoint, made of a sender and a          *)
(* receiver.  time_since_last_segment_received is left out: it is only     *)
(* reported.                                                               *)
(***************************************************************************)
EXTENDS WrappingIntegers, TCPSegment

CONSTANTS MAX_PAYLOAD_SIZE,
          MAX_RETX_ATTEMPTS,
          LingerFactor,      \* 10 in the code: how many timeouts TIME_WAIT lasts
          Pow16              \* 2^16, the values of the header's window field

BS == INSTANCE ByteStream
S == INSTANCE TCPSender
R == INSTANCE TCPReceiver
T == INSTANCE TCPState

New(cfg) ==
  [sender |-> S!New(cfg.send_capacity, cfg.rt_timeout, cfg.isn),
   receiver |-> R!New(cfg.recv_capacity),
   segments_out |-> << >>, linger |-> TRUE, active |-> TRUE,
   since_time_wait |-> 0, rt_timeout |-> cfg.rt_timeout]

remaining_outbound_capacity(c) == BS!remaining_capacity(c.sender.stream)
inbound_stream(c) == R!stream_out(c.receiver)
state(c) == T!Summary(c.sender, c.receiver, c.active, c.linger)

\* A segment of the sender with the acknowledgment and the window of the receiver.
Stamped(c, seg) ==
  IF ~c.receiver.syned THEN seg
  ELSE [seg EXCEPT !.ack = TRUE, !.ackno = R!ackno(c.receiver),
                   !.win = R!window_size(c.receiver) % Pow16]

seg_2_seg(c) ==
  LET out == c.sender.segments_out
  IN  [c EXCEPT !.segments_out = @ \o [i \in DOMAIN out |-> Stamped(c, out[i])],
                !.sender.segments_out = << >>]

\* Both streams are marked as failed.
SetErrors(c) ==
  [c EXCEPT !.sender.stream = BS!set_error(@),
            !.receiver.reassembler.output = BS!set_error(@)]

Fill(c) == [c EXCEPT !.sender = S!fill_window(@)]

\* The FIN of this endpoint has been sent.
FinSent(c) ==
  BS!eof(c.sender.stream) /\ c.sender.next_seqno = BS!bytes_written(c.sender.stream) + 2

connect(c) == seg_2_seg(Fill(c))

write(c, data) == seg_2_seg(Fill([c EXCEPT !.sender.stream = BS!write(@, data)]))

end_input_stream(c) == seg_2_seg(Fill([c EXCEPT !.sender.stream = BS!end_input(@)]))

--------------------------------------------------------------------------------

\* The remote stream ends first: this endpoint will not have to linger.
NoteFin(c, seg) ==
  IF seg.fin /\ (~BS!eof(c.sender.stream) \/
                 c.sender.next_seqno < BS!bytes_written(c.sender.stream) + 2)
  THEN [c EXCEPT !.linger = FALSE] ELSE c

HandleAck(c, seg) ==
  IF seg.ack THEN Fill([c EXCEPT !.sender = S!ack_received(@, seg.ackno, seg.win)]) ELSE c

\* The answer to the peer's SYN.
AnswerSyn(c) == IF c.sender.next_seqno = 0 /\ c.receiver.syned THEN Fill(c) ELSE c

\* What occupies sequence numbers has to be acknowledged, and so has a keep-alive.
NeedsAck(c, seg) ==
  \/ length_in_sequence_space(seg) > 0
  \/ c.receiver.syned /\ seg.seqno = (R!ackno(c.receiver) - 1) % Pow32

Acknowledge(c, seg) ==
  IF NeedsAck(c, seg) /\ c.sender.segments_out = << >>
  THEN [c EXCEPT !.sender = S!send_empty_segment(@)] ELSE c

segment_received(c, seg) ==
  IF c.sender.next_seqno = 0 /\ seg.ack THEN c
  ELSE IF seg.rst THEN SetErrors([c EXCEPT !.active = FALSE, !.linger = FALSE])
  ELSE LET heard == [NoteFin(c, seg) EXCEPT !.receiver = R!segment_received(@, seg)]
       IN  seg_2_seg(Acknowledge(AnswerSyn(HandleAck(heard, seg)), seg))

--------------------------------------------------------------------------------

\* Mutant: the RST is queued before the queues are emptied.
GiveUp_silent(c) ==
  LET rst == seg_2_seg([c EXCEPT !.sender = S!send_empty_segment_RST(@)])
  IN  SetErrors([rst EXCEPT !.active = FALSE, !.segments_out = << >>, !.linger = FALSE])

\* Too many retransmissions: every queue is emptied, a RST goes out.
GiveUp(c) ==
  LET quiet == [c EXCEPT !.active = FALSE, !.segments_out = << >>, !.sender.segments_out = << >>]
      rst   == seg_2_seg([quiet EXCEPT !.sender = S!send_empty_segment_RST(@)])
  IN  SetErrors([rst EXCEPT !.linger = FALSE])

\* Mutant: the end of the inbound stream is not waited for.
CleanShutdown_outbound(c) == ~c.linger /\ FinSent(c) /\ c.sender.in_flights = 0

\* Nothing is left to do and no reason to linger.
CleanShutdown(c) ==
  ~c.linger /\ BS!input_ended(inbound_stream(c)) /\ FinSent(c) /\ c.sender.in_flights = 0

\* Mutant: the time in TIME_WAIT is not added up.
tick_without_clock(c, ms_since_last_tick) ==
  LET ticked == [c EXCEPT !.sender = S!tick(@, ms_since_last_tick)]
      sent   == seg_2_seg(ticked)
  IN  IF state(ticked) = T!Official.TIME_WAIT /\ ms_since_last_tick < LingerFactor * c.rt_timeout
      THEN ticked
      ELSE IF c.active /\ S!consecutive_retransmissions(ticked.sender) > MAX_RETX_ATTEMPTS
           THEN GiveUp(ticked)
      ELSE IF CleanShutdown(sent) THEN [sent EXCEPT !.active = FALSE] ELSE sent

tick(c, ms_since_last_tick) ==
  LET ticked == [c EXCEPT !.sender = S!tick(@, ms_since_last_tick)]
      waited == c.since_time_wait + ms_since_last_tick
      sent   == seg_2_seg(ticked)
  IN  IF state(ticked) = T!Official.TIME_WAIT
      THEN IF waited >= LingerFactor * c.rt_timeout
           THEN [ticked EXCEPT !.since_time_wait = waited, !.linger = FALSE, !.active = FALSE]
           ELSE [ticked EXCEPT !.since_time_wait = waited]
      ELSE IF c.active /\ S!consecutive_retransmissions(ticked.sender) > MAX_RETX_ATTEMPTS
           THEN GiveUp(ticked)
      ELSE IF CleanShutdown(sent) THEN [sent EXCEPT !.active = FALSE] ELSE sent

\* The destructor of a connection that is still active.
Destroy(c) ==
  LET rst == [c EXCEPT !.active = FALSE, !.linger = FALSE, !.sender = S!send_empty_segment_RST(@)]
  IN  IF c.active THEN SetErrors(seg_2_seg(rst)) ELSE c

================================================================================
