----------------------------- MODULE InterfaceSystem ---------------------------
(***************************************************************************)
(* Hosts with a NetworkInterface each on one Ethernet.  Every host sends   *)
(* datagrams to the others; a frame reaches any subset of the hosts, at    *)
(* any time, or is lost or damaged.  A host's IP address and its Ethernet  *)
(* address are both named by the host; datagrams are numbered.             *)
(***************************************************************************)
EXTENDS NetworkInterface, FiniteSets

CONSTANTS Host,
          Sender,       \* the hosts that send datagrams; the others hear and answer
          MaxDatagrams, \* bound: datagrams sent
          MaxFrames,    \* bound: frames on the wire
          MaxTick       \* bound: the longest time between two ticks

ASSUME InterfaceAssumption ==
  /\ Broadcast \notin Host
  /\ Sender \subseteq Host
  /\ {ArpTimeout, CacheTimeout} \subseteq Nat \ {0}
  /\ {MaxDatagrams, MaxFrames, MaxTick} \subseteq Nat

VARIABLES ifc,          \* the interfaces
          wire,         \* frames on the Ethernet, with the hosts they can still reach
          dgrams,       \* history: every datagram handed to send_datagram
          arrived,      \* history: arrived[h] is what h passed up its stack
          asked,        \* history: time since h's last request for an address
          lost          \* history: has a frame been lost or damaged?

vars == <<ifc, wire, dgrams, arrived, asked, lost>>

Init ==
  /\ ifc = [h \in Host |-> New(h, h)]
  /\ wire = {}
  /\ dgrams = {}
  /\ arrived = [h \in Host |-> << >>]
  /\ asked = [h \in Host |-> << >>]
  /\ lost = FALSE

\* Requests among the frames that interface i wants sent.
Asks(i) ==
  {i.frames_out[k].payload.target_ip : k \in
     {k \in DOMAIN i.frames_out : i.frames_out[k].type = "ARP" /\ i.frames_out[k].payload.opcode = "REQUEST"}}

\* The interface of h becomes i; its frames go onto the wire, which still holds rest.
Becomes(h, i, rest) ==
  /\ ifc' = [ifc EXCEPT ![h] = [i EXCEPT !.frames_out = << >>]]
  /\ wire' = rest \cup {[frame |-> i.frames_out[k], to |-> Host \ {h}] : k \in DOMAIN i.frames_out}
  /\ asked' = [asked EXCEPT ![h] = [a \in DOMAIN @ \cup Asks(i) |-> IF a \in Asks(i) THEN 0 ELSE @[a]]]

SendDatagram(h, dst) ==
  LET d == [id |-> Cardinality(dgrams) + 1, src |-> h, dst |-> dst]
  IN  /\ h \in Sender /\ h # dst /\ d.id <= MaxDatagrams /\ Cardinality(wire) < MaxFrames
      /\ dgrams' = dgrams \cup {d}
      /\ Becomes(h, send_datagram(ifc[h], d, dst), wire)
      /\ UNCHANGED <<arrived, lost>>

\* The frame of w reaches h, damaged perhaps; a station hears a frame once.
RecvFrame(h, w, damaged) ==
  LET frame == IF damaged THEN [w.frame EXCEPT !.payload = Garbage] ELSE w.frame
      rest  == (wire \ {w}) \cup
               (IF w.to = {h} THEN {} ELSE {[w EXCEPT !.to = @ \ {h}]})
  IN  /\ w \in wire /\ h \in w.to
      /\ lost' = (lost \/ damaged)
      /\ arrived' = [arrived EXCEPT ![h] = @ \o passed_up(ifc[h], frame)]
      /\ Becomes(h, recv_frame(ifc[h], frame), rest)
      /\ UNCHANGED dgrams

LoseFrame(w) ==
  /\ wire' = wire \ {w}
  /\ lost' = TRUE
  /\ UNCHANGED <<ifc, dgrams, arrived, asked>>

Tick(h, ms) ==
  /\ ifc' = [ifc EXCEPT ![h] = tick(@, ms)]
  /\ asked' = [asked EXCEPT ![h] =
                 [a \in {a \in DOMAIN @ : @[a] + ms <= ArpTimeout} |-> @[a] + ms]]
  /\ UNCHANGED <<wire, dgrams, arrived, lost>>

Next ==
  \/ \E h, dst \in Host : SendDatagram(h, dst)
  \/ \E h \in Host, w \in wire, damaged \in BOOLEAN : RecvFrame(h, w, damaged)
  \/ \E w \in wire : LoseFrame(w)
  \/ \E h \in Host, ms \in 1 .. MaxTick : Tick(h, ms)

Spec == Init /\ [][Next]_vars

\* The Ethernet delivers what is on it and not lost.
FairSpec == Spec /\ WF_vars(\E h \in Host, w \in wire : RecvFrame(h, w, FALSE))

--------------------------------------------------------------------------------

\* cache and cache_time have the same keys whatever is learned and expires, so that
\* tick never erases an iterator it did not find; no mapping and no request outlives
\* its limit, a queue of waiting datagrams goes with its last datagram, and among
\* stations that tell the truth a mapping is right.
CacheSound ==
  \A h \in Host :
    /\ \A a \in DOMAIN ifc[h].cache : ifc[h].cache[a] = a
    /\ DOMAIN ifc[h].cache = DOMAIN ifc[h].cache_time
    /\ \A a \in DOMAIN ifc[h].cache_time : ifc[h].cache_time[a] < CacheTimeout
    /\ \A a \in DOMAIN ifc[h].since_last_sent : ifc[h].since_last_sent[a] < ArpTimeout
    /\ \A a \in DOMAIN ifc[h].datagrams : ifc[h].datagrams[a] # << >>

\* No datagram waits for an address that is known: every way of learning one
\* releases the datagrams that need it.
NoneWaitsInVain ==
  \A h \in Host : \A a \in DOMAIN ifc[h].datagrams : a \notin DOMAIN ifc[h].cache

\* A datagram reaches its destination only, and at most once.
DeliveredOnce ==
  \A h \in Host : \A k \in DOMAIN arrived[h] :
    /\ arrived[h][k].dst = h
    /\ \A j \in DOMAIN arrived[h] : arrived[h][j] = arrived[h][k] => j = k

\* A station does not ask for the same address again within ArpTimeout, however
\* its datagrams, its ticks and the frames it hears interleave.
AsksRarely ==
  [][\A h, a \in Host :
       (\E w \in wire' \ wire : /\ w.frame.type = "ARP" /\ w.to = Host \ {h}
                                /\ w.frame.src = h /\ w.frame.payload # Garbage
                                /\ w.frame.payload.opcode = "REQUEST"
                                /\ w.frame.payload.target_ip = a)
         => (a \notin DOMAIN asked[h] \/ asked[h][a] >= ArpTimeout)]_vars

SomeWait == \E h \in Host : DOMAIN ifc[h].datagrams # {}

\* While the Ethernet loses nothing, whatever waits for an address is released some
\* day: every request is answered and every answer releases the datagrams.
WaitingIsReleased == SomeWait ~> (~SomeWait \/ lost)

OnTheWire(d) == \E w \in wire : w.frame.payload = d
Held(d) == \E k \in DOMAIN Waiting(ifc[d.src], d.dst) : Waiting(ifc[d.src], d.dst)[k] = d
Arrived(d) == \E k \in DOMAIN arrived[d.dst] : arrived[d.dst][k] = d

\* network_interface.cc:84 and network_interface.hh:55: a datagram that cannot be
\* sent yet is put into a queue until the mapping is there.  The code does not keep
\* to it (README, section 4), so no run has it as an invariant.
SentOrQueued == lost \/ \A d \in dgrams : OnTheWire(d) \/ Held(d) \/ Arrived(d)

================================================================================
