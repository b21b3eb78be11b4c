------------------------------- MODULE WireFormats -----------------------------
(***************************************************************************)
(* The bytes on the wire: util/parser, the Internet checksum of util/util, *)
(* and the formats of tcp_helpers (ipv4_header, ipv4_datagram, tcp_header, *)
(* tcp_segment, ethernet_header, ethernet_frame, arp_message).  A format   *)
(* is a layout, the fields in order with their sizes in bytes; a header is *)
(* a function from the fields to their values.  A 32-bit value is the pair *)
(* of its 16-bit halves, an Ethernet address its six bytes.  Bytes that    *)
(* hold several fields (version and length, flags) are one field here,     *)
(* with operators for its parts.                                           *)
(***************************************************************************)
EXTENDS Integers, Sequences, TLC

LOCAL INSTANCE SequencesExt

Byte == 0 .. 255

\* What the n bytes of an integer stand for, and the bytes of an integer of n bytes.
Number(bytes) ==
  CASE Len(bytes) = 1 -> bytes[1]
    [] Len(bytes) = 2 -> 256 * bytes[1] + bytes[2]
    [] Len(bytes) = 4 -> <<256 * bytes[1] + bytes[2], 256 * bytes[3] + bytes[4]>>
    [] Len(bytes) = 6 -> bytes

NumberBytes(val, n) ==
  CASE n = 1 -> <<val>>
    [] n = 2 -> <<val \div 256, val % 256>>
    [] n = 4 -> <<val[1] \div 256, val[1] % 256, val[2] \div 256, val[2] % 256>>
    [] n = 6 -> val

\* NetParser: the rest of the buffer and whether something was missing.  An error
\* stays, and what is parsed after it is zero.
NetParser(buffer) == [buffer |-> buffer, error |-> FALSE]

remove_prefix(p, n) ==
  IF n > Len(p.buffer) THEN [p EXCEPT !.error = TRUE]
  ELSE IF p.error THEN p
  ELSE [p EXCEPT !.buffer = SubSeq(@, n + 1, Len(@))]

\* _parse_int: the integer of n bytes at the front.
_parse_int(p, n) ==
  Number(IF p.error \/ n > Len(p.buffer) THEN [i \in 1 .. n |-> 0] ELSE SubSeq(p.buffer, 1, n))

\* The fields of a layout, one after the other, and the parser after them.
ParseFields(layout, parser) ==
  LET upTo[i \in 0 .. Len(layout)] ==
        IF i = 0 THEN [header |-> << >>, p |-> parser]
        ELSE LET r == upTo[i - 1]
             IN  [header |-> r.header @@ (layout[i][1] :> _parse_int(r.p, layout[i][2])),
                  p |-> remove_prefix(r.p, layout[i][2])]
  IN  upTo[Len(layout)]

\* A header and the bytes that are left after it, if none were missing.
Whole(parsed) ==
  IF parsed.p.error THEN {} ELSE {[header |-> parsed.header, payload |-> parsed.p.buffer]}

\* The layout's fields as bytes, filled with zeros to size bytes (string::resize).
UnparseFields(layout, header, size) ==
  LET bytes == FlattenSeq([i \in DOMAIN layout |-> NumberBytes(header[layout[i][1]], layout[i][2])])
  IN  bytes \o [i \in 1 .. size - Len(bytes) |-> 0]

--------------------------------------------------------------------------------

\* InternetChecksum: the sum of the 16-bit words of data, an odd byte at the end
\* being the upper half of a word, on top of an initial sum.
Sum(initial_sum, data) ==
  LET upTo[i \in 0 .. Len(data)] ==
        IF i = 0 THEN initial_sum
        ELSE upTo[i - 1] + (IF i % 2 = 1 THEN 256 * data[i] ELSE data[i])
  IN  upTo[Len(data)]

\* The carries are added in until none is left; then all bits are inverted.
Folded(sum) == IF sum = 0 THEN 0 ELSE ((sum - 1) % 65535) + 1
value(sum) == 65535 - Folded(sum)

--------------------------------------------------------------------------------

IPv4Layout == <<<<"verhlen", 1>>, <<"tos", 1>>, <<"len", 2>>, <<"id", 2>>, <<"fo", 2>>, <<"ttl", 1>>,
                <<"proto", 1>>, <<"cksum", 2>>, <<"src", 4>>, <<"dst", 4>>>>
IPv4LENGTH == 20
PROTO_TCP == 6

\* The header of a new datagram: version 4, five words, don't fragment.
IPv4Header == [verhlen |-> 69, tos |-> 0, len |-> 0, id |-> 0, fo |-> 16384, ttl |-> 128,
               proto |-> PROTO_TCP, cksum |-> 0, src |-> <<0, 0>>, dst |-> <<0, 0>>]
ver(h) == h.verhlen \div 16
hlen(h) == h.verhlen % 16

payload_length(h) == (h.len - 4 * hlen(h)) % 65536

pseudo_cksum(h) == h.src[1] + h.src[2] + h.dst[1] + h.dst[2] + h.proto + payload_length(h)

\* IPv4Header::parse: the header read and the parser after it.  Its result, the bad
\* checksum included, is not looked at by IPv4Datagram::parse: all it does is to leave
\* the options in front of the payload if it returns early.
SoundIPv4Header(h, size) ==
  /\ size >= 4 * hlen(h)
  /\ ver(h) = 4 /\ hlen(h) >= 5
  /\ size = h.len

WithoutIPv4Options(parsed, size) ==
  IF ~SoundIPv4Header(parsed.header, size) THEN parsed
  ELSE [parsed EXCEPT !.p = remove_prefix(@, 4 * hlen(parsed.header) - IPv4LENGTH)]

ParseIPv4Header(p) ==
  IF Len(p.buffer) < IPv4LENGTH THEN [header |-> IPv4Header, p |-> p]
  ELSE WithoutIPv4Options(ParseFields(IPv4Layout, p), Len(p.buffer))

\* IPv4Datagram: the datagrams (at most one) that the bytes hold.
ParseIPv4Datagram(bytes) ==
  {dgram \in Whole(ParseIPv4Header(NetParser(bytes))) :
     Len(dgram.payload) = payload_length(dgram.header)}

SerializeIPv4Datagram(dgram) ==
  LET bytes(c) == UnparseFields(IPv4Layout, [dgram.header EXCEPT !.cksum = c], 4 * hlen(dgram.header))
  IN  bytes(value(Sum(0, bytes(0)))) \o dgram.payload

--------------------------------------------------------------------------------

TCPLayout == <<<<"sport", 2>>, <<"dport", 2>>, <<"seqno", 4>>, <<"ackno", 4>>, <<"doffbyte", 1>>,
               <<"flags", 1>>, <<"win", 2>>, <<"cksum", 2>>, <<"uptr", 2>>>>
TCPLENGTH == 20

TCPHeader == [sport |-> 0, dport |-> 0, seqno |-> <<0, 0>>, ackno |-> <<0, 0>>, doffbyte |-> 80,
              flags |-> 0, win |-> 0, cksum |-> 0, uptr |-> 0]
doff(h) == h.doffbyte \div 16
fin(h) == h.flags % 2 = 1
syn(h) == (h.flags \div 2) % 2 = 1
rst(h) == (h.flags \div 4) % 2 = 1

\* TCPHeader::parse: the spare bits of two bytes are not kept.  As with the header of
\* a datagram, only a lack of bytes is noticed by the caller: a data offset below five
\* is accepted and what follows the fixed part is payload.
WithoutTCPOptions(parsed) ==
  IF doff(parsed.header) < 5 THEN parsed
  ELSE [parsed EXCEPT !.p = remove_prefix(@, 4 * doff(parsed.header) - TCPLENGTH)]

ParseTCPHeader(p) ==
  WithoutTCPOptions([ParseFields(TCPLayout, p) EXCEPT
                       !.header = [@ EXCEPT !.doffbyte = 16 * (@ \div 16), !.flags = @ % 64]])

\* Mutant: the checksum is not verified.
ParseTCPSegment_unverified(bytes, datagram_layer_checksum) ==
  Whole(ParseTCPHeader(NetParser(bytes)))

\* TCPSegment::parse: the segments (at most one) that the bytes hold.
ParseTCPSegment(bytes, datagram_layer_checksum) ==
  IF value(Sum(datagram_layer_checksum, bytes)) # 0 THEN {}
  ELSE Whole(ParseTCPHeader(NetParser(bytes)))

SerializeTCPSegment(seg, datagram_layer_checksum) ==
  LET bytes(c) == UnparseFields(TCPLayout, [seg.header EXCEPT !.cksum = c], 4 * doff(seg.header))
                    \o seg.payload
  IN  bytes(value(Sum(datagram_layer_checksum, bytes(0))))

--------------------------------------------------------------------------------

EthernetLayout == <<<<"dst", 6>>, <<"src", 6>>, <<"type", 2>>>>
EthernetLENGTH == 14
TYPE_IPv4 == 2048
TYPE_ARP == 2054
ETHERNET_BROADCAST == [i \in 1 .. 6 |-> 255]
NoAddress == [i \in 1 .. 6 |-> 0]

\* EthernetFrame::parse never fails: bytes too few for a header are the payload of a
\* frame whose header is all zero.
ParseEthernetFrame(bytes) ==
  LET parsed == ParseFields(EthernetLayout, NetParser(bytes))
  IN  IF Len(bytes) < EthernetLENGTH
      THEN [header |-> [dst |-> NoAddress, src |-> NoAddress, type |-> 0], payload |-> bytes]
      ELSE [header |-> parsed.header, payload |-> parsed.p.buffer]

SerializeEthernetFrame(frame) ==
  UnparseFields(EthernetLayout, frame.header, EthernetLENGTH) \o frame.payload

ARPLayout == <<<<"hardware_type", 2>>, <<"protocol_type", 2>>, <<"hardware_address_size", 1>>,
               <<"protocol_address_size", 1>>, <<"opcode", 2>>,
               <<"sender_ethernet_address", 6>>, <<"sender_ip_address", 4>>,
               <<"target_ethernet_address", 6>>, <<"target_ip_address", 4>>>>
ARPLENGTH == 28
OPCODE_REQUEST == 1
OPCODE_REPLY == 2

ARPMessage == [hardware_type |-> 1, protocol_type |-> TYPE_IPv4, hardware_address_size |-> 6,
               protocol_address_size |-> 4, opcode |-> 0,
               sender_ethernet_address |-> NoAddress, sender_ip_address |-> <<0, 0>>,
               target_ethernet_address |-> NoAddress, target_ip_address |-> <<0, 0>>]

supported(am) ==
  /\ \A f \in {"hardware_type", "protocol_type", "hardware_address_size", "protocol_address_size"} :
       am[f] = ARPMessage[f]
  /\ am.opcode \in {OPCODE_REQUEST, OPCODE_REPLY}

\* ARPMessage::parse: the messages (at most one) that the bytes hold; what follows
\* the message is not looked at.
ParseARPMessage(bytes) ==
  {am \in {ParseFields(ARPLayout, NetParser(bytes)).header} : Len(bytes) >= ARPLENGTH /\ supported(am)}

SerializeARPMessage(am) == UnparseFields(ARPLayout, am, ARPLENGTH)

================================================================================
