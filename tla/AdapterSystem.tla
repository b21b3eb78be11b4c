------------------------------ MODULE AdapterSystem ----------------------------
(***************************************************************************)
(* A listening adapter and the adapters of several clients, in UDP, over   *)
(* TUN devices or over TAP devices.  A datagram or frame that was sent can *)
(* arrive at any time, any number of times, or never; a UDP or IP datagram *)
(* also with one byte changed on its way (an Ethernet discards a damaged   *)
(* frame).  A UDP datagram reaches the socket it is addressed to; over TUN *)
(* and TAP every host sees everything.                                     *)
(***************************************************************************)
EXTENDS EthernetAdapter

CONSTANTS Kinds,          \* the kinds of adapter: "udp", "tun" or "tap"
          Server, Clients,    \* Clients[k]: the clients, if the adapters are of kind k
          HostAddress,    \* HostAddress[h]: the IP address and the port of host h
          HostEthernet,   \* HostEthernet[h]: its Ethernet address
          NextHop,        \* NextHop[h]: the IP address of its next hop
          Segments,       \* Segments[k][h]: what the connection of h can send then
          Noises,         \* what can be added to a byte on the way
          Lossy,          \* may the UDP and TUN adapters drop what they read or write?
          MaxWaiting,     \* bound: datagrams of a host that wait for an Ethernet address
          MaxTick         \* bound: milliseconds from one tick to the next

AllHosts == UNION {Clients[k] : k \in Kinds} \cup {Server}
AnyAddress == <<0, 0>>

ASSUME AdapterAssumption ==
  /\ Server \notin UNION {Clients[k] : k \in Kinds}
  /\ Kinds \subseteq {"udp", "tun", "tap"} /\ Noises \subseteq 1 .. 255 /\ Lossy \in BOOLEAN
  /\ {MaxWaiting, MaxTick} \subseteq Nat
  /\ \A g, h \in AllHosts : g # h => HostAddress[g] # HostAddress[h] /\ HostEthernet[g] # HostEthernet[h]

VARIABLES adapter,     \* the adapters of the hosts
          net,         \* the datagrams or frames that were sent
          sent,        \* history: the segments each host has written, with their ports
          got          \* history: what each host's adapter has handed to its connection

Hosts == DOMAIN adapter

vars == <<adapter, net, sent, got>>

\* Bytes that host h sends.
Packets(h, outs) == {[bytes |-> bytes, from |-> h, source |-> HostAddress[h]] : bytes \in outs}

\* The constructor of a TAP adapter sends an empty frame.
DummyFrame == SerializeEthernetFrame(ParseEthernetFrame(<< >>))

\* listen_and_accept and connect configure the adapters.
Init ==
  /\ \E kind \in Kinds :
       adapter = [h \in Clients[kind] \cup {Server} |->
         [kind |-> kind, listening |-> h = Server,
          source |-> IF h = Server THEN [ip |-> AnyAddress, port |-> HostAddress[h].port]
                     ELSE HostAddress[h],
          destination |-> IF h = Server THEN [ip |-> AnyAddress, port |-> 0] ELSE HostAddress[Server],
          interface |-> NI!New(HostEthernet[h], HostAddress[h].ip), next_hop |-> NextHop[h]]]
  /\ net = UNION {Packets(h, {DummyFrame}) : h \in {g \in Hosts : adapter[g].kind = "tap"}}
  /\ sent = [h \in Hosts |-> {}]
  /\ got = [h \in Hosts |-> {}]

\* What the adapter of h is after a call that leaves it as a, which for a TAP adapter
\* ends with send_pending.
Becomes(h, a) ==
  /\ adapter' = [adapter EXCEPT ![h] = send_pending(a)]
  /\ net' = net \cup Packets(h, Pending(a))

\* LossyFdAdapter is only used with UDP and TUN.
Drops(h) == IF Lossy /\ adapter[h].kind # "tap" THEN BOOLEAN ELSE {FALSE}

\* The connection of a listening host sends nothing.
Send(h, seg, should_drop) ==
  LET a == adapter[h]
  IN  /\ ~a.listening
      /\ Len(NI!Waiting(a.interface, a.next_hop)) < MaxWaiting
      /\ IF a.kind = "tap" THEN Becomes(h, WriteTAP(a, seg))
         ELSE net' = net \cup Packets(h, Write(a, seg, should_drop)) /\ UNCHANGED adapter
      /\ sent' = IF should_drop THEN sent ELSE [sent EXCEPT ![h] = @ \cup {WithPorts(a, seg)}]
      /\ UNCHANGED got

Tick(h, ms) ==
  /\ adapter[h].kind = "tap"
  /\ Becomes(h, TickTAP(adapter[h], ms))
  /\ UNCHANGED <<sent, got>>

\* The datagram with noise added to its i-th byte.
Damaged(d, i, noise) == [d EXCEPT !.bytes[i] = (@ + noise) % 256]

\* Is it sent to h?  (The sender has not changed its destination since.)
IsFor(d, h) == adapter[d.from].destination = HostAddress[h]

Reaches(d, h) == d.from # h /\ (adapter[h].kind = "udp" => IsFor(d, h))

\* The adapter's read of whatever kind.
ReadAny(a, d, should_drop) ==
  IF a.kind = "tap" THEN ReadTAP(a, d) ELSE Read(a, d, should_drop)

\* Host h reads asRead, which was sent by from.
Receive(h, from, asRead, should_drop) ==
  LET read == ReadAny(adapter[h], asRead, should_drop)
  IN  /\ Becomes(h, read.adapter)
      /\ got' = [got EXCEPT ![h] = @ \cup {[from |-> from, seg |-> seg] : seg \in read.segs}]
      /\ UNCHANGED sent

Arrive(h, d, should_drop) == Reaches(d, h) /\ Receive(h, d.from, d, should_drop)

ArriveDamaged(h, d, i, noise) ==
  /\ adapter[h].kind # "tap" /\ Reaches(d, h)
  /\ Receive(h, d.from, Damaged(d, i, noise), FALSE)

Next ==
  \/ \E h \in Hosts : \E drop \in Drops(h), seg \in Segments[adapter[h].kind][h] : Send(h, seg, drop)
  \/ \E h \in Hosts, d \in net : \E drop \in Drops(h) : Arrive(h, d, drop)
  \/ \E h \in Hosts, d \in net, noise \in Noises :
       \E i \in DOMAIN d.bytes : ArriveDamaged(h, d, i, noise)
  \/ \E h \in Hosts, ms \in 1 .. MaxTick : Tick(h, ms)

Spec == Init /\ [][Next]_vars

--------------------------------------------------------------------------------

\* A segment as the connection sees it: the checksum is of no interest to it.
Contents(seg) == [seg EXCEPT !.header.cksum = 0]

\* tcp_over_ip.cc:25, fd_adapter.cc:20: an invalid segment is not returned.  A
\* connection is never given a segment that its sender did not send, although a bad
\* checksum of the IP header, a wrong version or a time to live of zero is accepted.
Unaltered == \A h \in Hosts : \A r \in got[h] : Contents(r.seg) \in sent[r.from]

\* A connection only ever hears from one host, which is the one its adapter sends
\* to: segments of others never get through, whether they arrive before or after the
\* SYN that ended the listening, and also if they use its address or its port.
OnePeer ==
  \A h \in Hosts : \A r \in got[h] : adapter[h].destination = HostAddress[r.from]

\* d is a datagram for h, or a frame with one.
Carries(d, h) ==
  IF adapter[h].kind = "tap"
  THEN ParseEthernetFrame(d.bytes).header.type = TYPE_IPv4
         /\ ParseEthernetFrame(d.bytes).header.dst = HostEthernet[h]
  ELSE TRUE

\* Whatever the peer of a host sends is accepted if it arrives unharmed, the replies
\* of a host that was bound to no address and the datagrams that have waited for an
\* Ethernet address included.
PeerIsHeard ==
  \A d \in net, h \in Hosts :
    (IsFor(d, h) /\ Carries(d, h) /\ adapter[h].destination = HostAddress[d.from])
      => \E seg \in sent[d.from] :
           {Contents(s) : s \in ReadAny(adapter[h], d, FALSE).segs} = {seg}

================================================================================
