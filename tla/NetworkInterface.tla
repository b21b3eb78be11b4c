---------------------------- MODULE NetworkInterface ---------------------------
(***************************************************************************)
(* libsponge/network_interface: sends IP datagrams in Ethernet frames and  *)
(* finds Ethernet addresses with ARP.  A frame has the header's dst, src   *)
(* and type and the parsed payload: a datagram, an ARP message or, for a   *)
(* payload that does not parse, Garbage.                                   *)
(***************************************************************************)
EXTENDS Integers, Sequences

CONSTANTS Broadcast,       \* ETHERNET_BROADCAST
          Garbage,         \* a payload the parsers reject
          ArpTimeout,      \* 5000 ms: no second request for an address before
          CacheTimeout     \* 30000 ms: the lifetime of a learned mapping

New(eth, ip) ==
  [ethernet_address |-> eth, ip_address |-> ip, frames_out |-> << >>,
   since_last_sent |-> << >>, cache_time |-> << >>, cache |-> << >>, datagrams |-> << >>]

\* map[key] = value of an unordered_map, and erase.
Put(map, key, value) ==
  [k \in DOMAIN map \cup {key} |-> IF k = key THEN value ELSE map[k]]
Erase(map, keys) == [k \in DOMAIN map \ keys |-> map[k]]

Frame(i, dst, type, payload) ==
  [dst |-> dst, src |-> i.ethernet_address, type |-> type, payload |-> payload]

\* An ARP message; a request leaves the target's Ethernet address zero.
Arp(i, opcode, target_ip) ==
  [opcode |-> opcode, sender_ip |-> i.ip_address, sender_eth |-> i.ethernet_address,
   target_ip |-> target_ip]

\* The datagrams waiting for the Ethernet address of ip.
Waiting(i, ip) == IF ip \in DOMAIN i.datagrams THEN i.datagrams[ip] ELSE << >>

\* Mutant: a request goes out for every datagram.
MayAsk_always(i, ip) == TRUE

MayAsk(i, ip) ==
  ip \notin DOMAIN i.since_last_sent \/ i.since_last_sent[ip] >= ArpTimeout

\* A datagram for a known address goes out; for an unknown one an ARP request
\* does and the datagram waits, unless a request is pending: then it is dropped.
send_datagram(i, dgram, next_hop) ==
  IF next_hop \in DOMAIN i.cache
  THEN [i EXCEPT !.frames_out = Append(@, Frame(i, i.cache[next_hop], "IPv4", dgram))]
  ELSE IF MayAsk(i, next_hop)
  THEN [i EXCEPT !.since_last_sent = Put(@, next_hop, 0),
                 !.frames_out = Append(@, Frame(i, Broadcast, "ARP", Arp(i, "REQUEST", next_hop))),
                 !.datagrams = Put(@, next_hop, <<dgram>> \o Waiting(i, next_hop))]
  ELSE i

\* Every ARP message teaches its sender's mapping and restarts its lifetime.
Learn(i, am) ==
  [i EXCEPT !.cache = Put(@, am.sender_ip, am.sender_eth),
            !.cache_time = Put(@, am.sender_ip, 0)]

\* Mutant: the datagrams stay in the queue when they are sent.
Release_keeping(i, am) ==
  LET wait == Waiting(i, am.sender_ip)
  IN  [i EXCEPT !.frames_out = @ \o [k \in DOMAIN wait |-> Frame(i, am.sender_eth, "IPv4", wait[k])]]

\* Mutant: the datagrams are released only by a reply.
Release_on_reply(i, am) ==
  LET wait == Waiting(i, am.sender_ip)
  IN  IF am.opcode = "REQUEST" THEN i
      ELSE [i EXCEPT !.frames_out = @ \o [k \in DOMAIN wait |-> Frame(i, am.sender_eth, "IPv4", wait[k])],
                     !.datagrams = Erase(@, {am.sender_ip})]

\* Send the datagrams that were waiting for the sender of am.
Release(i, am) ==
  LET wait == Waiting(i, am.sender_ip)
  IN  [i EXCEPT !.frames_out = @ \o [k \in DOMAIN wait |-> Frame(i, am.sender_eth, "IPv4", wait[k])],
                !.datagrams = Erase(@, {am.sender_ip})]

\* Answer a request for the address of this interface.
Reply(i, am) ==
  IF am.opcode = "REQUEST" /\ am.target_ip = i.ip_address
  THEN [i EXCEPT !.frames_out = Append(@, Frame(i, am.sender_eth, "ARP", Arp(i, "REPLY", am.sender_ip)))]
  ELSE i

\* Mutant: frames for other stations are read, too.
ForMe_promiscuous(i, frame) == TRUE

ForMe(i, frame) == frame.dst = Broadcast \/ frame.dst = i.ethernet_address

\* The interface after recv_frame.
recv_frame(i, frame) ==
  IF ForMe(i, frame) /\ frame.type # "IPv4" /\ frame.payload # Garbage
  THEN Reply(Release(Learn(i, frame.payload), frame.payload), frame.payload)
  ELSE i

\* What recv_frame returns: the datagrams (at most one) to pass up the stack.
passed_up(i, frame) ==
  IF ForMe(i, frame) /\ frame.type = "IPv4" /\ frame.payload # Garbage
  THEN <<frame.payload>> ELSE << >>

\* The entries of a timer map that are due after ms more milliseconds.
Due(times, ms, limit) == {k \in DOMAIN times : times[k] + ms >= limit}

Aged(times, ms, limit) ==
  [k \in DOMAIN times \ Due(times, ms, limit) |-> times[k] + ms]

\* Mutant: an expired mapping loses its time but stays in the cache.
tick_forgetting_times(i, ms) ==
  [i EXCEPT !.cache_time = Aged(@, ms, CacheTimeout),
            !.since_last_sent = Aged(@, ms, ArpTimeout)]

tick(i, ms) ==
  [i EXCEPT !.cache = Erase(@, Due(i.cache_time, ms, CacheTimeout)),
            !.cache_time = Aged(@, ms, CacheTimeout),
            !.since_last_sent = Aged(@, ms, ArpTimeout)]

================================================================================
