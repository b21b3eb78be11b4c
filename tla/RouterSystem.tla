------------------------------ MODULE RouterSystem -----------------------------
(***************************************************************************)
(* A Router among stations.  Interfaces and routes are added at any time;  *)
(* a station hands datagrams to the router, answers its ARP requests, and  *)
(* may hand a datagram it got from the router back to it (a routing loop). *)
(* A station is named by its IP address, which is its Ethernet address     *)
(* too; a datagram is [id, dst, ttl].                                      *)
(***************************************************************************)
EXTENDS Router, FiniteSets, SequencesExt

CONSTANTS Interface,      \* the interfaces' own addresses, in the order they are added
          Routes,         \* routes that may be added: [prefix, length, next_hop, itf]
          Dst, Ttl,       \* destinations and TTLs of new datagrams
          MaxDatagrams,   \* bound: new datagrams
          MaxTick         \* bound: the longest time between two ticks

ASSUME RouterAssumption ==
  /\ Width \in Nat \ {0} /\ DefaultRouter \in 0 .. 2^Width - 1
  /\ Direct \notin 0 .. 2^Width - 1
  /\ Ttl \subseteq 0 .. 255 /\ MaxDatagrams \in Nat /\ MaxTick \in Nat
  /\ \A rt \in Routes :
       /\ rt.prefix \in 0 .. 2^Width - 1 /\ rt.length \in 0 .. Width
       /\ rt.itf \in 0 .. Len(Interface) - 1

VARIABLES rtr,            \* the router
          link,           \* the frames it sent: {[itf, frame]}
          table,          \* history: the routes as added, by prefix and length
          born,           \* history: the new datagrams, by id
          hops,           \* history: how often each was forwarded, by id
          due             \* history: the hops the table allowed, by forwarded datagram

vars == <<rtr, link, table, born, hops, due>>

Num == DOMAIN rtr.interfaces

Init ==
  /\ rtr = New
  /\ link = {} /\ table = << >> /\ born = << >> /\ hops = << >> /\ due = << >>

--------------------------------------------------------------------------------
(* The reference: longest-prefix match over the table of added routes. *)

\* Does route <<prefix, length>> match dst?
Matches(rt, dst) == \A bit \in (Width - rt[2]) .. (Width - 1) :
                         (rt[1] \div 2^bit) % 2 = (dst \div 2^bit) % 2

\* The hops of the longest matching routes; without one, the default router.
LongestMatches(dst) ==
  LET all == {rt \in DOMAIN table : Matches(rt, dst)}
      longest == {rt \in all : \A other \in all : other[2] <= rt[2]}
  IN  IF all = {} THEN {[itf |-> 0, next_hop |-> DefaultRouter]}
      ELSE {[itf |-> table[rt].itf,
             next_hop |-> IF table[rt].next_hop = Direct THEN dst ELSE table[rt].next_hop]
              : rt \in longest}

--------------------------------------------------------------------------------

\* The router becomes r; the frames its interfaces want sent go onto their links.
Becomes(r, rest) ==
  /\ rtr' = [r EXCEPT !.interfaces = [n \in DOMAIN @ |-> [@[n] EXCEPT !.frames_out = << >>]]]
  /\ link' = rest \cup
       UNION {{[itf |-> n, frame |-> r.interfaces[n].frames_out[k]]
                 : k \in DOMAIN r.interfaces[n].frames_out} : n \in DOMAIN r.interfaces}

AddInterface ==
  LET n == Cardinality(Num)
  IN  /\ n < Len(Interface)
      /\ Becomes(add_interface(rtr, NetIf!New(Interface[n + 1], Interface[n + 1])), link)
      /\ UNCHANGED <<table, born, hops, due>>

AddRoute(rt) ==
  /\ rt.itf \in Num
  /\ Becomes(add_route(rtr, rt.prefix, rt.length, rt.next_hop, rt.itf), link)
  /\ table' = NetIf!Put(table, <<rt.prefix, rt.length>>, rt)
  /\ UNCHANGED <<born, hops, due>>

\* The frame in which a station hands dgram to interface n.
Handed(n, dgram) ==
  [dst |-> Interface[n + 1], src |-> dgram.dst, type |-> "IPv4", payload |-> dgram]

NewDatagram(n, dst, ttl) ==
  LET dgram == [id |-> Len(born) + 1, dst |-> dst, ttl |-> ttl]
  IN  /\ dgram.id <= MaxDatagrams
      /\ Becomes(recv_frame(rtr, n, Handed(n, dgram)), link)
      /\ born' = Append(born, dgram)
      /\ hops' = Append(hops, 0)
      /\ UNCHANGED <<table, due>>

\* A datagram the router sent comes back to interface n.
HandBack(n, l) ==
  /\ l.frame.type = "IPv4"
  /\ Becomes(recv_frame(rtr, n, Handed(n, l.frame.payload)), link \ {l})
  /\ UNCHANGED <<table, born, hops, due>>

\* The station a request on a link asks for answers it.
AnswerArp(l) ==
  /\ l.frame.type = "ARP"
  /\ LET am == l.frame.payload
         reply == [opcode |-> "REPLY", sender_ip |-> am.target_ip, sender_eth |-> am.target_ip,
                   target_ip |-> am.sender_ip]
     IN  Becomes(recv_frame(rtr, l.itf, [dst |-> am.sender_eth, src |-> am.target_ip,
                                         type |-> "ARP", payload |-> reply]), link \ {l})
  /\ UNCHANGED <<table, born, hops, due>>

\* A frame on a link is lost, or is a datagram that goes its way.
Leave(l) ==
  /\ link' = link \ {l}
  /\ UNCHANGED <<rtr, table, born, hops, due>>

\* The datagrams in the queues, and the ones that have a hop left.
Queued == UNION {{rtr.datagrams_out[n][k] : k \in DOMAIN rtr.datagrams_out[n]} : n \in Num}
Alive == {dgram \in Queued : dgram.ttl >= 2}

Route(order) ==
  /\ Queued # {}
  /\ Becomes(route(rtr, order), link)
  /\ hops' = [id \in DOMAIN hops |-> hops[id] + Cardinality({dgram \in Alive : dgram.id = id})]
  /\ due' = [dgram \in DOMAIN due \cup {[d EXCEPT !.ttl = @ - 1] : d \in Alive} |->
               IF dgram \in DOMAIN due THEN due[dgram] ELSE LongestMatches(dgram.dst)]
  /\ UNCHANGED <<table, born>>

Tick(ms) ==
  /\ Becomes([rtr EXCEPT !.interfaces = [n \in DOMAIN @ |-> NetIf!tick(@[n], ms)]], link)
  /\ UNCHANGED <<table, born, hops, due>>

Next ==
  \/ AddInterface
  \/ \E rt \in Routes : AddRoute(rt)
  \/ \E n \in Num, dst \in Dst, ttl \in Ttl : NewDatagram(n, dst, ttl)
  \/ \E n \in Num, l \in link : HandBack(n, l)
  \/ \E l \in link : AnswerArp(l) \/ Leave(l)
  \/ \E order \in SetToSeqs(DOMAIN rtr.len_map) : Route(order)
  \/ \E ms \in 1 .. MaxTick : Tick(ms)

Spec == Init /\ [][Next]_vars

--------------------------------------------------------------------------------

\* The datagrams in the router's hands or on its links, with where they are.
Out == {[dgram |-> l.frame.payload, itf |-> l.itf, next_hop |-> l.frame.dst]
          : l \in {l \in link : l.frame.type = "IPv4"}}
Held == UNION {UNION {{[dgram |-> rtr.interfaces[n].datagrams[a][k], itf |-> n, next_hop |-> a]
                         : k \in DOMAIN rtr.interfaces[n].datagrams[a]}
                        : a \in DOMAIN rtr.interfaces[n].datagrams} : n \in Num}

\* router.hh:48-50: a datagram leaves by the interface, and to the next hop, of the
\* route with the longest prefix_length that matched when it was routed, the wait
\* for the next hop's Ethernet address included.
LongestPrefixMatch ==
  \A f \in Out \cup Held : [itf |-> f.itf, next_hop |-> f.next_hop] \in due[f.dgram]

\* A datagram that is handed back again and again is forwarded less often than its
\* TTL says, and what the router sends or holds has a TTL left: loops die out.
HopsBounded ==
  /\ \A id \in DOMAIN born : hops[id] = 0 \/ hops[id] < born[id].ttl
  /\ \A f \in Out \cup Held : f.dgram.ttl >= 1 /\ f.dgram.ttl = born[f.dgram.id].ttl - hops[f.dgram.id]

\* The router never multiplies a datagram: it is in one queue, or waits for one
\* address, or is on one link.
NoCopies ==
  \A id \in DOMAIN born :
    Cardinality({f \in Out : f.dgram.id = id}) + Cardinality({f \in Held : f.dgram.id = id})
      + Cardinality({<<n, k>> \in Num \X (1 .. MaxDatagrams) :
                       k <= Len(rtr.datagrams_out[n]) /\ rtr.datagrams_out[n][k].id = id}) <= 1

================================================================================
