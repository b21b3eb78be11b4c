--------------------------------- MODULE Router --------------------------------
(***************************************************************************)
(* libsponge/router: an IP router with several AsyncNetworkInterfaces.     *)
(* Addresses are numbers of Width bits (32 in the code).  The interfaces,  *)
(* and the queues of datagrams they received, are numbered from 0.  The    *)
(* iteration order of the hash table len_map is a parameter.               *)
(***************************************************************************)
EXTENDS Integers, Sequences

CONSTANTS Width, DefaultRouter,   \* 32, 2873314305
          Direct,                 \* the absent next_hop of an attached network
          Broadcast, Garbage, ArpTimeout, CacheTimeout

LOCAL INSTANCE SequencesExt
LOCAL INSTANCE FiniteSetsExt

NetIf == INSTANCE NetworkInterface

New ==
  [interfaces |-> << >>, datagrams_out |-> << >>,
   len_map |-> << >>, itf_map |-> << >>, gw_map |-> << >>]

add_interface(r, interface) ==
  LET num == Cardinality(DOMAIN r.interfaces)
  IN  [r EXCEPT !.interfaces = NetIf!Put(@, num, interface),
                !.datagrams_out = NetIf!Put(@, num, << >>)]

\* The tables are keyed by the prefix alone; a direct route leaves gw_map as it is.
add_route(r, route_prefix, prefix_length, next_hop, interface_num) ==
  [r EXCEPT
    !.len_map = NetIf!Put(@, route_prefix, prefix_length),
    !.itf_map = NetIf!Put(@, route_prefix, interface_num),
    !.gw_map = IF next_hop = Direct THEN @ ELSE NetIf!Put(@, route_prefix, next_hop)]

\* AsyncNetworkInterface::recv_frame.
recv_frame(r, num, frame) ==
  [r EXCEPT !.interfaces[num] = NetIf!recv_frame(@, frame),
            !.datagrams_out[num] = @ \o NetIf!passed_up(r.interfaces[num], frame)]

\* The bits of addr that a prefix of the given length compares.
High(addr, length) == addr \div 2^(Width - length)

\* The prefixes of len_map that can win for dst: m_length starts at 0 and only a
\* longer match replaces it, so one of length 0 never does.
Matching(r, dst) ==
  {p \in DOMAIN r.len_map :
     /\ High(p, r.len_map[p]) = High(dst, r.len_map[p])
     /\ r.len_map[p] > 0}

\* Mutant: the last match wins, however short.
Chosen_last(r, dst, order) == SelectLastInSeq(order, LAMBDA p : p \in Matching(r, dst))

\* Position in the iteration order of the match that wins: the first of the longest.
Chosen(r, dst, order) ==
  SelectInSeq(order, LAMBDA p :
    /\ p \in Matching(r, dst)
    /\ \A q \in Matching(r, dst) : r.len_map[q] <= r.len_map[p])

\* Where a datagram for dst goes.
Hop(r, dst, order) ==
  LET k == Chosen(r, dst, order)
      p == order[k]
  IN  IF k = 0 THEN [itf |-> 0, next_hop |-> DefaultRouter]
      ELSE [itf |-> r.itf_map[p],
            next_hop |-> IF p \in DOMAIN r.gw_map THEN r.gw_map[p] ELSE dst]

\* Mutant: the check is done on the unsigned field: 0 wraps around and lives on.
Expired_unsigned(dgram) == dgram.ttl = 1

Expired(dgram) == dgram.ttl - 1 <= 0

route_one_datagram(r, dgram, order) ==
  LET hop == Hop(r, dgram.dst, order)
  IN  IF Expired(dgram) THEN r
      ELSE [r EXCEPT !.interfaces[hop.itf] =
              NetIf!send_datagram(@, [dgram EXCEPT !.ttl = (@ - 1) % 256], hop.next_hop)]

\* Mutant: the datagrams that were routed stay in their queues.
route_keeping(r, order) ==
  FoldLeft(LAMBDA s, num : FoldLeft(LAMBDA t, dgram : route_one_datagram(t, dgram, order),
                                    s, s.datagrams_out[num]),
           r, [k \in 1 .. Cardinality(DOMAIN r.interfaces) |-> k - 1])

\* Every queue is emptied, interface by interface.
route(r, order) ==
  FoldLeft(LAMBDA s, num : [FoldLeft(LAMBDA t, dgram : route_one_datagram(t, dgram, order),
                                     s, s.datagrams_out[num])
                              EXCEPT !.datagrams_out[num] = << >>],
           r, [k \in 1 .. Cardinality(DOMAIN r.interfaces) |-> k - 1])

================================================================================
