----------------------------- MODULE EthernetAdapter ---------------------------
(***************************************************************************)
(* libsponge/tcp_helpers/tuntap_adapter: TCP in IPv4 over a TAP device,    *)
(* that is an adapter of tcp_over_ip on top of a NetworkInterface.  Such   *)
(* an adapter has two more fields, its interface and its next hop.  The    *)
(* interface works on frames with parsed payloads; here they are bytes.    *)
(***************************************************************************)
EXTENDS FdAdapter

CONSTANTS Garbage, ArpTimeout, CacheTimeout

NI == INSTANCE NetworkInterface WITH Broadcast <- ETHERNET_BROADCAST

--------------------------------------------------------------------------------

\* An ARP message of the interface as it is on the wire, in a frame to dst: a request
\* leaves the target's Ethernet address zero, a reply goes to its target.
ArpBytes(am, dst) ==
  SerializeARPMessage(
    [ARPMessage EXCEPT !.opcode = IF am.opcode = "REQUEST" THEN OPCODE_REQUEST ELSE OPCODE_REPLY,
                       !.sender_ethernet_address = am.sender_eth, !.sender_ip_address = am.sender_ip,
                       !.target_ethernet_address = IF am.opcode = "REQUEST" THEN @ ELSE dst,
                       !.target_ip_address = am.target_ip])

FrameBytes(frame) ==
  SerializeEthernetFrame(
    [header  |-> [dst |-> frame.dst, src |-> frame.src,
                  type |-> IF frame.type = "IPv4" THEN TYPE_IPv4 ELSE TYPE_ARP],
     payload |-> IF frame.type = "IPv4" THEN SerializeIPv4Datagram(frame.payload)
                 ELSE ArpBytes(frame.payload, frame.dst)])

\* A frame f as the interface sees it: what is not IPv4 is taken for ARP.
FrameOf(f) ==
  LET ip  == f.header.type = TYPE_IPv4
      dgrams == ParseIPv4Datagram(f.payload)
      arps == {[opcode |-> IF am.opcode = OPCODE_REQUEST THEN "REQUEST" ELSE "REPLY",
                sender_ip |-> am.sender_ip_address, sender_eth |-> am.sender_ethernet_address,
                target_ip |-> am.target_ip_address] : am \in ParseARPMessage(f.payload)}
      parsed == IF ip THEN dgrams ELSE arps
  IN  [dst |-> f.header.dst, src |-> f.header.src, type |-> IF ip THEN "IPv4" ELSE "ARP",
       payload |-> IF parsed = {} THEN Garbage ELSE CHOOSE p \in parsed : TRUE]

--------------------------------------------------------------------------------

\* What send_pending writes to the device, and the adapter after it.
Pending(a) == {FrameBytes(a.interface.frames_out[i]) : i \in DOMAIN a.interface.frames_out}
send_pending(a) == [a EXCEPT !.interface.frames_out = << >>]

\* read, write and tick, before their send_pending.  The segments of a datagram are
\* found as for the TUN adapter.
ReadFrame(a, frame) ==
  LET up    == NI!passed_up(a.interface, frame)
      after == [a EXCEPT !.interface = NI!recv_frame(@, frame)]
  IN  IF up = << >> THEN Rejected(after) ELSE unwrap_tcp_in_ip(after, Head(up))

ReadTAP(a, datagram) == ReadFrame(a, FrameOf(ParseEthernetFrame(datagram.bytes)))

WriteTAP(a, seg) ==
  [a EXCEPT !.interface = NI!send_datagram(@, wrap_tcp_in_ip(a, seg), a.next_hop)]

TickTAP(a, ms) == [a EXCEPT !.interface = NI!tick(@, ms)]

================================================================================
