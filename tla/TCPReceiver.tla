------------------------------ MODULE TCPReceiver ------------------------------
(***************************************************************************)
(* libsponge/tcp_receiver: maps segments to substrings of the inbound      *)
(* stream and computes the acknowledgment number and the window.           *)
(***************************************************************************)
EXTENDS WrappingIntegers, TCPSegment

SR == INSTANCE StreamReassembler
BS == INSTANCE ByteStream

New(capacity) == [reassembler |-> SR!New(capacity), isn |-> 0, syned |-> FALSE]

stream_out(rcv) == rcv.reassembler.output
unassembled_bytes(rcv) == SR!unassembled_bytes(rcv.reassembler)

\* The absolute sequence number of the segment's first payload byte.
Position(rcv, seg) ==
  IF seg.syn THEN 1
  ELSE unwrap(seg.seqno, rcv.isn, BS!bytes_written(stream_out(rcv)))

\* A segment before any SYN is dropped, and so is one that claims the sequence
\* number of the SYN without being it; a SYN may carry data and a FIN.
segment_received(rcv, seg) ==
  LET synced == IF seg.syn THEN [rcv EXCEPT !.isn = seg.seqno, !.syned = TRUE] ELSE rcv
      pos    == Position(synced, seg)
  IN  IF ~synced.syned \/ pos = 0 THEN synced
      ELSE [synced EXCEPT !.reassembler = SR!push_substring(@, seg.payload, pos - 1, seg.fin)]

\* Mutant: the FIN is not acknowledged.
AbsAckno_without_fin(rcv) == BS!bytes_written(stream_out(rcv)) + 1

\* ackno() before it is wrapped; SYN and FIN take a sequence number each.
AbsAckno(rcv) ==
  BS!bytes_written(stream_out(rcv)) + 1 + One(BS!input_ended(stream_out(rcv)))

\* The optional ackno() has a value once syned; this is the value.
ackno(rcv) == wrap(AbsAckno(rcv), rcv.isn)

\* Mutant: bytes stored out of order shrink the window.
window_size_minus_unassembled(rcv) ==
  BS!remaining_capacity(stream_out(rcv)) - unassembled_bytes(rcv)

window_size(rcv) == BS!remaining_capacity(stream_out(rcv))

================================================================================
