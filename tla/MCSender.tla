------------------------------- MODULE MCSender --------------------------------
(***************************************************************************)
(* SenderSystem for TLC, with the loops of fill_window and ack_received as *)
(* they are written in the source, to check the closed forms against.      *)
(***************************************************************************)
EXTENDS SenderSystem

\* tcp_sender.cc:97-199.
RECURSIVE SendLoop(_)
SendLoop(s) ==
  LET syn  == s.next_seqno = 0
      dlen == Min({s.window_right - One(syn) - s.next_seqno + 1, MAX_PAYLOAD_SIZE})
      read == [s EXCEPT !.stream = BS!read(@, dlen)]
      body == [Segment EXCEPT !.seqno = next_seqno(s), !.syn = syn,
                              !.payload = BS!peek_output(s.stream, dlen)]
      next == s.next_seqno + length_in_sequence_space(body)
      fin  == BS!eof(read.stream) /\ next <= s.window_right /\ ~s.fin_sent
      seg  == [body EXCEPT !.fin = fin]
  IN  IF \/ s.next_seqno > s.window_right
         \/ s.next_seqno > 0 /\ BS!buffer_empty(s.stream) /\ ~ReadyToFin(s)
      THEN s
      ELSE SendLoop([read EXCEPT !.next_seqno = next + One(fin),
                                 !.fin_sent = @ \/ fin,
                                 !.in_flights = @ + length_in_sequence_space(seg),
                                 !.outstandings = Append(@, seg),
                                 !.segments_out = Append(@, seg)])

\* tcp_sender.cc:242-257.
RECURSIVE PopLoop(_, _)
PopLoop(s, ackabs) ==
  IF s.outstandings = << >> \/ LastSeqno(s, Head(s.outstandings)) >= ackabs THEN s
  ELSE PopLoop([s EXCEPT !.in_flights = @ - length_in_sequence_space(Head(s.outstandings)),
                         !.outstandings = Tail(@)], ackabs)

\* FillLoop computes what the loop of fill_window computes, and Acked finds how
\* far the loop of ack_received pops.
LoopsMatch ==
  /\ FillLoop(snd) = SendLoop(snd)
  /\ \A ackabs \in 0 .. snd.next_seqno :
       LET k == Acked(snd, ackabs)
       IN  PopLoop(snd, ackabs) =
             [snd EXCEPT !.outstandings = SubSeq(@, k + 1, Len(@)),
                         !.in_flights = @ - TotalLength(SubSeq(snd.outstandings, 1, k))]

================================================================================
