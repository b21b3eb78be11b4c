------------------------------ MODULE TCPSegment -------------------------------
(***************************************************************************)
(* libsponge/tcp_helpers/tcp_segment and tcp_header: the header fields the *)
(* stack reads, and the payload.  Ports, data offset, urgent and push      *)
(* fields and the checksum take no part in any decision of the sender, the *)
(* receiver or the connection.                                             *)
(***************************************************************************)
EXTENDS Integers, Sequences

\* TCPSegment{}: every flag clear and every number zero.
Segment == [seqno |-> 0, ackno |-> 0, ack |-> FALSE, rst |-> FALSE, syn |-> FALSE,
            fin |-> FALSE, win |-> 0, payload |-> << >>]

One(flag) == IF flag THEN 1 ELSE 0

length_in_sequence_space(seg) == Len(seg.payload) + One(seg.syn) + One(seg.fin)

================================================================================
