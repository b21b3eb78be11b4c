-------------------------------- MODULE FdAdapter ------------------------------
(***************************************************************************)
(* libsponge/tcp_helpers: fd_adapter (TCP in UDP), tcp_over_ip with the    *)
(* TUN adapter (TCP in IPv4) and the lossy wrapper.  An adapter is a       *)
(* record of its kind, its configuration (source and destination, each an  *)
(* IP address and a port) and the listening flag.  What arrives is a       *)
(* datagram: its bytes and the address the kernel says it comes from,      *)
(* which only the UDP adapter is told.  Reading one gives the adapter      *)
(* afterwards and the segments (at most one) for the connection.           *)
(***************************************************************************)
EXTENDS WireFormats

\* A read that rejects what it was given.
Rejected(a) == [adapter |-> a, segs |-> {}]

\* A listening adapter answers the sender of the first SYN, from the address the
\* SYN was sent to, and stops listening; it ignores everything else.
Answering(a, seg, source, destination) ==
  IF ~a.listening THEN [adapter |-> a, segs |-> {seg}]
  ELSE IF syn(seg.header) /\ ~rst(seg.header)
  THEN [adapter |-> [a EXCEPT !.source = source, !.destination = destination, !.listening = FALSE],
        segs |-> {seg}]
  ELSE Rejected(a)

\* TCPOverUDPSocketAdapter::read: the ports in the TCP header are not looked at.
ReadUDP(a, datagram) ==
  LET segs == ParseTCPSegment(datagram.bytes, 0)
  IN  IF segs = {} \/ (~a.listening /\ datagram.source # a.destination) THEN Rejected(a)
      ELSE Answering(a, CHOOSE s \in segs : TRUE, a.source, datagram.source)

\* Mutant: the port of the peer is not looked at.
FromPeer_any_port(a, header) == TRUE

FromPeer(a, header) == header.sport = a.destination.port

\* Mutant: the replies come from the address the adapter was bound to.
SourceOf_bound(a, dgram) == a.source

SourceOf(a, dgram) == [ip |-> dgram.header.dst, port |-> a.source.port]

\* unwrap_tcp_in_ip, once a segment for this port has been found in dgram.
UnwrapSegment(a, dgram, seg) ==
  LET read == Answering(a, seg, SourceOf(a, dgram),
                        [ip |-> dgram.header.src, port |-> seg.header.sport])
  IN  IF FromPeer(read.adapter, seg.header) THEN read ELSE Rejected(read.adapter)

unwrap_tcp_in_ip(a, dgram) ==
  LET h    == dgram.header
      ours == a.listening \/ (h.dst = a.source.ip /\ h.src = a.destination.ip)
      segs == {s \in ParseTCPSegment(dgram.payload, pseudo_cksum(h)) : s.header.dport = a.source.port}
  IN  IF ~ours \/ h.proto # PROTO_TCP \/ segs = {} THEN Rejected(a)
      ELSE UnwrapSegment(a, dgram, CHOOSE s \in segs : TRUE)

\* TCPOverIPv4OverTunFdAdapter::read.
ReadTUN(a, datagram) ==
  LET dgrams == ParseIPv4Datagram(datagram.bytes)
  IN  IF dgrams = {} THEN Rejected(a) ELSE unwrap_tcp_in_ip(a, CHOOSE d \in dgrams : TRUE)

\* LossyFdAdapter::read: what is dropped has been read, a SYN that ends the listening
\* included.
Read(a, datagram, should_drop) ==
  LET read == IF a.kind = "udp" THEN ReadUDP(a, datagram) ELSE ReadTUN(a, datagram)
  IN  IF should_drop THEN Rejected(read.adapter) ELSE read

--------------------------------------------------------------------------------

\* The segment with the ports of the connection.
WithPorts(a, seg) == [seg EXCEPT !.header.sport = a.source.port, !.header.dport = a.destination.port]

TotalLength(seg) == 4 * hlen(IPv4Header) + 4 * doff(seg.header) + Len(seg.payload)

wrap_tcp_in_ip(a, seg) ==
  LET header == [IPv4Header EXCEPT !.src = a.source.ip, !.dst = a.destination.ip,
                                   !.len = TotalLength(seg)]
  IN  [header |-> header, payload |-> SerializeTCPSegment(WithPorts(a, seg), pseudo_cksum(header))]

\* The bytes (of at most one datagram) that write sends.
Write(a, seg, should_drop) ==
  LET bytes == IF a.kind = "udp" THEN SerializeTCPSegment(WithPorts(a, seg), 0)
               ELSE SerializeIPv4Datagram(wrap_tcp_in_ip(a, seg))
  IN  IF should_drop THEN {} ELSE {bytes}

================================================================================
