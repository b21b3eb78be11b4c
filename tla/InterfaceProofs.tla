---------------------------- MODULE InterfaceProofs ----------------------------
(***************************************************************************)
(* CacheSound, NoneWaitsInVain, DeliveredOnce and AsksRarely for every set *)
(* of hosts, every timeout and any number of datagrams and frames.         *)
(***************************************************************************)
EXTENDS InterfaceSystem, FiniteSetTheorems, SequenceTheorems, TLAPS

\* The members of a NetworkInterface.
Fields == {"ethernet_address", "ip_address", "frames_out", "since_last_sent",
           "cache_time", "cache", "datagrams"}

\* The maps of h's interface i are right and within their limits, and no queue is for an
\* address that is known.
MapsOK(h, i) ==
  /\ DOMAIN i = Fields
  /\ i.ethernet_address = h /\ i.ip_address = h
  /\ DOMAIN i.cache = DOMAIN i.cache_time
  /\ \A a \in DOMAIN i.cache :
       i.cache[a] = a /\ i.cache_time[a] \in Nat /\ i.cache_time[a] < CacheTimeout
  /\ \A a \in DOMAIN i.since_last_sent :
       i.since_last_sent[a] \in Nat /\ i.since_last_sent[a] < ArpTimeout
  /\ \A a \in DOMAIN i.datagrams : a \notin DOMAIN i.cache

\* Between two calls its frames have been sent.
InterfaceOK(h, i) == MapsOK(h, i) /\ i.frames_out = << >>

\* The queue q of h's datagrams for a, drawn from D: no datagram is in it twice.
QueueOK(h, a, q, D) ==
  /\ q \in Seq(D) /\ q # << >>
  /\ \A k \in DOMAIN q : q[k].src = h /\ q[k].dst = a
  /\ \A j, k \in DOMAIN q : q[j] = q[k] => j = k

QueuesOK == \A h \in Host : \A a \in DOMAIN ifc[h].datagrams :
              QueueOK(h, a, ifc[h].datagrams[a], dgrams)

\* The history of h's requests agrees with its own timer.
AskedOK(h) ==
  \A a \in DOMAIN asked[h] :
    /\ asked[h][a] \in Nat
    /\ asked[h][a] < ArpTimeout =>
         a \in DOMAIN ifc[h].since_last_sent /\ ifc[h].since_last_sent[a] = asked[h][a]

\* Datagrams are numbered from 1 to their number.
DatagramsOK ==
  /\ IsFiniteSet(dgrams)
  /\ \A d \in dgrams : d.id \in Int /\ d.id <= Cardinality(dgrams) /\ d.src \in Host /\ d.dst \in Host

IsDatagram(f, D) == f.type = "IPv4" /\ f.payload \in D /\ f.dst = f.payload.dst
IsArp(f) == f.type = "ARP" /\ f.payload.sender_eth = f.payload.sender_ip

\* A frame carries one of the datagrams D to its destination, or the truth about its
\* sender, and its sender does not hear it.
FrameOK(w, D) ==
  /\ DOMAIN w = {"frame", "to"}
  /\ DOMAIN w.frame = {"dst", "src", "type", "payload"}
  /\ w.to \subseteq Host \ {w.frame.src}
  /\ IsDatagram(w.frame, D) \/ IsArp(w.frame)

WireOK == \A w \in wire : FrameOK(w, dgrams)

\* d waits in a queue of its source, the interfaces being I.
QueuedIn(I, d) ==
  /\ d.dst \in DOMAIN I[d.src].datagrams
  /\ \E k \in DOMAIN I[d.src].datagrams[d.dst] : I[d.src].datagrams[d.dst][k] = d

Queued(d) == QueuedIn(ifc, d)

\* d is on the wire: in the frame of w.
Carries(w, d) == w.frame.type = "IPv4" /\ w.frame.payload = d

\* A datagram is in one place: in one queue, in one frame, or passed up once.  A frame
\* that its destination has heard stays on the wire for the other hosts.
OnePlace ==
  \A d \in dgrams :
    /\ \A w \in wire : Carries(w, d) =>
         /\ ~Queued(d)
         /\ d.dst \in w.to => ~Arrived(d)
         /\ \A v \in wire : Carries(v, d) => v = w
    /\ Queued(d) => ~Arrived(d)

\* What a host passed up was meant for it and came once.
ArrivedOK ==
  \A h \in Host :
    /\ arrived[h] \in Seq(dgrams)
    /\ \A k \in DOMAIN arrived[h] : arrived[h][k].dst = h
    /\ \A j, k \in DOMAIN arrived[h] : arrived[h][j] = arrived[h][k] => j = k

Inv ==
  /\ DOMAIN ifc = Host /\ DOMAIN arrived = Host /\ DOMAIN asked = Host
  /\ \A h \in Host : InterfaceOK(h, ifc[h]) /\ AskedOK(h)
  /\ QueuesOK
  /\ DatagramsOK
  /\ WireOK
  /\ OnePlace
  /\ ArrivedOK

\* The initial states satisfy the invariant.
LEMMA InvInit == Init => Inv
<1> SUFFICES ASSUME Init PROVE Inv
  OBVIOUS
<1>1. DOMAIN << >> = {}
  BY EmptySeq
<1>2. /\ DOMAIN ifc = Host /\ DOMAIN arrived = Host /\ DOMAIN asked = Host
      /\ \A h \in Host : ifc[h] = New(h, h) /\ arrived[h] = << >> /\ asked[h] = << >>
      /\ wire = {} /\ dgrams = {}
  BY DEF Init
<1>3. ASSUME NEW h \in Host PROVE InterfaceOK(h, ifc[h]) /\ AskedOK(h)
  BY <1>1, <1>2 DEF InterfaceOK, MapsOK, AskedOK, New, Fields
<1>4. QueuesOK
  BY <1>1, <1>2 DEF QueuesOK, New
<1>5. DatagramsOK
  BY <1>2, FS_EmptySet DEF DatagramsOK
<1>6. ArrivedOK
  BY <1>1, <1>2, EmptySeq DEF ArrivedOK
<1> QED
  BY <1>2, <1>3, <1>4, <1>5, <1>6 DEF Inv, WireOK, OnePlace

--------------------------------------------------------------------------------

\* A tick ages and expires; nothing else changes.
LEMMA InvTick ==
  ASSUME Inv, NEW g \in Host, NEW ms \in 1 .. MaxTick, Tick(g, ms)
  PROVE  Inv'
<1> DEFINE i == ifc[g]
           t == tick(i, ms)
<1>1. /\ ms \in Nat /\ ArpTimeout \in Nat \ {0} /\ CacheTimeout \in Nat \ {0}
  BY InterfaceAssumption
<1>2. /\ ifc' = [ifc EXCEPT ![g] = t]
      /\ wire' = wire /\ dgrams' = dgrams /\ arrived' = arrived
  BY DEF Tick
<1>3. DOMAIN i = Fields /\ InterfaceOK(g, i) /\ AskedOK(g)
  BY DEF Inv, InterfaceOK, MapsOK
<1>4. /\ DOMAIN t = Fields
      /\ t.ethernet_address = i.ethernet_address /\ t.ip_address = i.ip_address
      /\ t.frames_out = i.frames_out /\ t.datagrams = i.datagrams
      /\ t.cache = Erase(i.cache, Due(i.cache_time, ms, CacheTimeout))
      /\ t.cache_time = Aged(i.cache_time, ms, CacheTimeout)
      /\ t.since_last_sent = Aged(i.since_last_sent, ms, ArpTimeout)
  BY <1>3 DEF tick, Fields
<1> HIDE DEF t
<1>5. InterfaceOK(g, t)
  <2>1. /\ \A a \in DOMAIN t.cache : a \in DOMAIN i.cache /\ t.cache[a] = i.cache[a]
        /\ DOMAIN t.cache = DOMAIN t.cache_time
        /\ \A a \in DOMAIN t.cache_time : a \in DOMAIN i.cache_time
             /\ t.cache_time[a] = i.cache_time[a] + ms /\ ~(i.cache_time[a] + ms >= CacheTimeout)
    BY <1>3, <1>4 DEF Erase, Due, Aged, InterfaceOK, MapsOK
  <2>2. \A a \in DOMAIN t.since_last_sent :
          /\ a \in DOMAIN i.since_last_sent
          /\ t.since_last_sent[a] = i.since_last_sent[a] + ms
          /\ ~(i.since_last_sent[a] + ms >= ArpTimeout)
    BY <1>4 DEF Due, Aged
  <2>3. \A a \in DOMAIN t.cache :
          t.cache[a] = a /\ t.cache_time[a] \in Nat /\ t.cache_time[a] < CacheTimeout
    BY <1>1, <1>3, <2>1 DEF InterfaceOK, MapsOK
  <2>4. \A a \in DOMAIN t.since_last_sent :
          t.since_last_sent[a] \in Nat /\ t.since_last_sent[a] < ArpTimeout
    BY <1>1, <1>3, <2>2 DEF InterfaceOK, MapsOK
  <2> QED
    BY <1>3, <1>4, <2>1, <2>3, <2>4 DEF InterfaceOK, MapsOK
<1>6. DOMAIN ifc = Host /\ DOMAIN asked = Host
  BY DEF Inv
<1>7. AskedOK(g)'
  <2> DEFINE A == asked[g]
             B == [a \in {a \in DOMAIN A : A[a] + ms <= ArpTimeout} |-> A[a] + ms]
  <2>1. asked'[g] = B /\ ifc'[g] = t
    BY <1>2, <1>6 DEF Tick
  <2>2. SUFFICES ASSUME NEW a \in DOMAIN B
                 PROVE  /\ B[a] \in Nat
                        /\ B[a] < ArpTimeout =>
                             a \in DOMAIN t.since_last_sent /\ t.since_last_sent[a] = B[a]
    BY <2>1 DEF AskedOK
  <2>3. a \in DOMAIN A /\ B[a] = A[a] + ms
    OBVIOUS
  <2>4. /\ A[a] \in Nat
        /\ A[a] < ArpTimeout => a \in DOMAIN i.since_last_sent /\ i.since_last_sent[a] = A[a]
    BY <1>3, <2>3 DEF AskedOK
  <2>5. ASSUME B[a] < ArpTimeout
        PROVE  a \in DOMAIN t.since_last_sent /\ t.since_last_sent[a] = B[a]
    <3>1. a \in DOMAIN i.since_last_sent /\ i.since_last_sent[a] = A[a] /\ A[a] + ms < ArpTimeout
      BY <1>1, <2>3, <2>4, <2>5
    <3>2. a \notin Due(i.since_last_sent, ms, ArpTimeout)
      BY <1>1, <2>4, <3>1 DEF Due
    <3> QED
      BY <1>4, <2>3, <3>1, <3>2 DEF Aged
  <2> QED
    BY <1>1, <2>3, <2>4, <2>5
<1>8. /\ DOMAIN ifc' = Host /\ DOMAIN asked' = Host /\ DOMAIN arrived' = Host
      /\ \A h \in Host : ifc'[h].datagrams = ifc[h].datagrams
  BY <1>2, <1>4, <1>6 DEF Inv, Tick
<1>9. \A h \in Host : InterfaceOK(h, ifc'[h]) /\ AskedOK(h)'
  <2> SUFFICES ASSUME NEW h \in Host PROVE InterfaceOK(h, ifc'[h]) /\ AskedOK(h)'
    OBVIOUS
  <2>1. CASE h = g
    BY <1>2, <1>5, <1>6, <1>7, <2>1
  <2>2. CASE h # g
    <3>1. ifc'[h] = ifc[h] /\ asked'[h] = asked[h]
      BY <1>2, <1>6, <2>2 DEF Tick
    <3>2. InterfaceOK(h, ifc[h]) /\ AskedOK(h)
      BY DEF Inv
    <3> QED
      BY <3>1, <3>2 DEF AskedOK
  <2> QED
    BY <2>1, <2>2
<1>10. QueuesOK' /\ DatagramsOK' /\ WireOK' /\ ArrivedOK'
  BY <1>2, <1>8 DEF Inv, QueuesOK, DatagramsOK, WireOK, ArrivedOK
<1>11. OnePlace'
  <2>1. \A d \in dgrams : Queued(d)' <=> Queued(d)
    BY <1>2, <1>8 DEF Queued, QueuedIn, Inv, DatagramsOK
  <2>2. \A d \in dgrams : Arrived(d)' <=> Arrived(d)
    BY <1>2 DEF Arrived
  <2> QED
    BY <1>2, <2>1, <2>2 DEF Inv, OnePlace, Carries
<1> QED
  BY <1>8, <1>9, <1>10, <1>11 DEF Inv, InterfaceOK, MapsOK

\* Losing a frame only empties the wire.
LEMMA InvLose ==
  ASSUME Inv, NEW x \in wire, LoseFrame(x)
  PROVE  Inv'
<1>1. /\ ifc' = ifc /\ dgrams' = dgrams /\ arrived' = arrived /\ asked' = asked
      /\ wire' \subseteq wire
  BY DEF LoseFrame
<1>2. \A d : (Queued(d)' <=> Queued(d)) /\ (Arrived(d)' <=> Arrived(d))
  BY <1>1 DEF Queued, QueuedIn, Arrived
<1>3. WireOK'
  BY <1>1 DEF Inv, WireOK
<1>4. OnePlace'
  BY <1>1, <1>2 DEF Inv, OnePlace, Carries
<1>5. \A h \in Host : AskedOK(h)'
  BY <1>1 DEF Inv, AskedOK
<1> QED
  BY <1>1, <1>3, <1>4, <1>5
  DEF Inv, QueuesOK, DatagramsOK, ArrivedOK, InterfaceOK, MapsOK

--------------------------------------------------------------------------------

\* The three outcomes of send_datagram(i, d, a) at h, for the interface t after it.
SentNow(h, i, t, d, a) ==
  /\ t.frames_out = <<[dst |-> a, src |-> h, type |-> "IPv4", payload |-> d]>>
  /\ t.datagrams = i.datagrams /\ t.since_last_sent = i.since_last_sent
AskedFor(h, i, t, d, a) ==
  /\ a \notin DOMAIN i.since_last_sent
  /\ t.frames_out = <<[dst |-> Broadcast, src |-> h, type |-> "ARP",
                       payload |-> [opcode |-> "REQUEST", sender_ip |-> h,
                                    sender_eth |-> h, target_ip |-> a]]>>
  /\ t.datagrams = Put(i.datagrams, a, <<d>> \o Waiting(i, a))
  /\ t.since_last_sent = Put(i.since_last_sent, a, 0)
NotSent(i, t) ==
  /\ t.frames_out = << >>
  /\ t.datagrams = i.datagrams /\ t.since_last_sent = i.since_last_sent

\* send_datagram keeps the maps right and has one of them.
LEMMA SendOK ==
  ASSUME NEW h, NEW i, InterfaceOK(h, i), NEW d, NEW a,
         NEW t, t = send_datagram(i, d, a)
  PROVE  MapsOK(h, t) /\ (SentNow(h, i, t, d, a) \/ AskedFor(h, i, t, d, a) \/ NotSent(i, t))
<1>1. DOMAIN i = Fields /\ i.frames_out = << >> /\ i.ethernet_address = h /\ i.ip_address = h
  BY DEF InterfaceOK, MapsOK
<1>2. \A x : Append(<< >>, x) = <<x>>
  OBVIOUS
<1>3. CASE a \in DOMAIN i.cache
  <2>1. /\ DOMAIN t = Fields /\ t.frames_out = Append(<< >>, Frame(i, i.cache[a], "IPv4", d))
        /\ t.datagrams = i.datagrams /\ t.since_last_sent = i.since_last_sent
        /\ t.cache = i.cache /\ t.cache_time = i.cache_time
        /\ t.ethernet_address = h /\ t.ip_address = h
    BY <1>1, <1>3 DEF send_datagram, Fields
  <2>2. i.cache[a] = a
    BY <1>3 DEF InterfaceOK, MapsOK
  <2>3. SentNow(h, i, t, d, a)
    BY <1>1, <1>2, <2>1, <2>2 DEF SentNow, Frame
  <2> QED
    BY <2>1, <2>3 DEF InterfaceOK, MapsOK
<1>4. CASE a \notin DOMAIN i.cache /\ MayAsk(i, a)
  <2>1. /\ DOMAIN t = Fields
        /\ t.frames_out = Append(<< >>, Frame(i, Broadcast, "ARP", Arp(i, "REQUEST", a)))
        /\ t.datagrams = Put(i.datagrams, a, <<d>> \o Waiting(i, a))
        /\ t.since_last_sent = Put(i.since_last_sent, a, 0)
        /\ t.cache = i.cache /\ t.cache_time = i.cache_time
        /\ t.ethernet_address = h /\ t.ip_address = h
    BY <1>1, <1>4 DEF send_datagram, Fields
  <2>2. a \notin DOMAIN i.since_last_sent
    BY <1>4, InterfaceAssumption DEF MayAsk, InterfaceOK, MapsOK
  <2>3. AskedFor(h, i, t, d, a)
    BY <1>1, <1>2, <2>1, <2>2 DEF AskedFor, Frame, Arp
  <2>4. \A x \in DOMAIN t.since_last_sent :
          t.since_last_sent[x] \in Nat /\ t.since_last_sent[x] < ArpTimeout
    BY <2>1, InterfaceAssumption DEF Put, InterfaceOK, MapsOK
  <2>5. \A x \in DOMAIN t.datagrams : x \notin DOMAIN t.cache
    BY <1>4, <2>1 DEF Put, InterfaceOK, MapsOK
  <2> QED
    BY <2>1, <2>3, <2>4, <2>5 DEF InterfaceOK, MapsOK
<1>5. CASE a \notin DOMAIN i.cache /\ ~MayAsk(i, a)
  <2>1. t = i
    BY <1>5 DEF send_datagram
  <2> QED
    BY <1>1, <2>1 DEF InterfaceOK, MapsOK, NotSent
<1> QED
  BY <1>3, <1>4, <1>5

\* What an ARP message am tells of its sender a: what the interface i of h sends then,
\* as frames k of the interface t after it, and what it keeps.
Heard(h, i, t, a) ==
  LET wait == Waiting(i, a)
  IN  /\ t.since_last_sent = i.since_last_sent
      /\ t.datagrams = Erase(i.datagrams, {a})
      /\ \A k \in DOMAIN t.frames_out :
           \/ /\ k \in DOMAIN wait
              /\ t.frames_out[k] = [dst |-> a, src |-> h, type |-> "IPv4", payload |-> wait[k]]
           \/ t.frames_out[k] = [dst |-> a, src |-> h, type |-> "ARP",
                                 payload |-> [opcode |-> "REPLY", sender_ip |-> h,
                                              sender_eth |-> h, target_ip |-> a]]

\* That is what recv_frame does with it.
LEMMA HearOK ==
  ASSUME NEW h, NEW i, InterfaceOK(h, i), NEW am, am.sender_eth = am.sender_ip,
         NEW D, Waiting(i, am.sender_ip) \in Seq(D),
         NEW t, t = Reply(Release(Learn(i, am), am), am)
  PROVE  MapsOK(h, t) /\ Heard(h, i, t, am.sender_ip)
<1> DEFINE a == am.sender_ip
           l == Learn(i, am)
           wait == Waiting(i, a)
           fs == [k \in DOMAIN wait |-> Frame(l, a, "IPv4", wait[k])]
           s == Release(l, am)
           f == Frame(s, a, "ARP", Arp(s, "REPLY", a))
<1>1. DOMAIN i = Fields /\ i.frames_out = << >> /\ i.ethernet_address = h /\ i.ip_address = h
  BY DEF InterfaceOK, MapsOK
<1>2. /\ DOMAIN l = Fields /\ l.frames_out = << >> /\ l.ethernet_address = h /\ l.ip_address = h
      /\ l.datagrams = i.datagrams /\ l.since_last_sent = i.since_last_sent
      /\ l.cache = Put(i.cache, a, a) /\ l.cache_time = Put(i.cache_time, a, 0)
  BY <1>1 DEF Learn, Fields
<1>3. Waiting(l, a) = wait
  BY <1>2 DEF Waiting
<1> HIDE DEF l
<1>4. DOMAIN wait = 1 .. Len(wait) /\ Len(wait) \in Nat
  BY LenProperties
<1>5. /\ fs \in Seq({fs[k] : k \in DOMAIN wait}) /\ Len(fs) = Len(wait)
      /\ \A k \in DOMAIN wait :
           fs[k] = [dst |-> a, src |-> h, type |-> "IPv4", payload |-> wait[k]]
  <2>1. \A k \in DOMAIN wait :
          fs[k] = [dst |-> a, src |-> h, type |-> "IPv4", payload |-> wait[k]]
    BY <1>2 DEF Frame
  <2>2. fs \in [1 .. Len(wait) -> {fs[k] : k \in DOMAIN wait}]
    BY <1>4
  <2> HIDE DEF fs, wait
  <2>3. fs \in Seq({fs[k] : k \in DOMAIN wait}) /\ Len(fs) = Len(wait)
    BY <1>4, <2>2, IsASeq, LenProperties
  <2> QED
    BY <2>1, <2>3
<1>6. << >> \o fs = fs
  <2> HIDE DEF fs
  <2> QED
    BY <1>5, ConcatEmptySeq
<1>7. /\ DOMAIN s = Fields /\ s.frames_out = << >> \o fs
      /\ s.ethernet_address = h /\ s.ip_address = h
      /\ s.datagrams = Erase(i.datagrams, {a}) /\ s.since_last_sent = i.since_last_sent
      /\ s.cache = Put(i.cache, a, a) /\ s.cache_time = Put(i.cache_time, a, 0)
  BY <1>2, <1>3 DEF Release, Fields
<1> HIDE DEF s, fs
<1>8. /\ DOMAIN t = Fields /\ t.ethernet_address = h /\ t.ip_address = h
      /\ t.datagrams = s.datagrams /\ t.since_last_sent = s.since_last_sent
      /\ t.cache = s.cache /\ t.cache_time = s.cache_time
      /\ t.frames_out = fs \/ t.frames_out = Append(fs, f)
  <2>1. t = s \/ t = [s EXCEPT !.frames_out = Append(@, f)]
    <3>1. t = Reply(s, am) /\ am.sender_eth = a
      BY DEF s, l
    <3>2. \/ t = s
          \/ t = [s EXCEPT !.frames_out = Append(@, Frame(s, am.sender_eth, "ARP", Arp(s, "REPLY", a)))]
      BY <3>1, Zenon DEF Reply
    <3> QED
      BY <3>1, <3>2
  <2> HIDE DEF f
  <2> QED
    BY <1>6, <1>7, <2>1 DEF Fields
<1>9. f = [dst |-> a, src |-> h, type |-> "ARP",
           payload |-> [opcode |-> "REPLY", sender_ip |-> h, sender_eth |-> h, target_ip |-> a]]
  BY <1>7 DEF Frame, Arp
<1> HIDE DEF f
<1>10. \A k \in DOMAIN t.frames_out : (k \in DOMAIN wait /\ t.frames_out[k] = fs[k]) \/ t.frames_out[k] = f
  <2>1. DOMAIN fs = DOMAIN wait
    BY <1>4, <1>5, LenProperties
  <2>2. CASE t.frames_out = fs
    BY <2>1, <2>2
  <2>3. CASE t.frames_out = Append(fs, f)
    <3>1. \A k \in DOMAIN Append(fs, f) :
            (k \in DOMAIN fs /\ Append(fs, f)[k] = fs[k]) \/ Append(fs, f)[k] = f
      <4>1. fs \in Seq({fs[k] : k \in DOMAIN wait} \cup {f}) /\ f \in {fs[k] : k \in DOMAIN wait} \cup {f}
        BY <1>5
      <4> QED
        BY <4>1, AppendProperties, LenProperties
    <3> QED
      BY <2>1, <2>3, <3>1
  <2> QED
    BY <1>8, <2>2, <2>3
<1>11. Heard(h, i, t, a)
  BY <1>5, <1>7, <1>8, <1>9, <1>10, Zenon DEF Heard
<1>12. MapsOK(h, t)
  <2>1. /\ DOMAIN t.cache = DOMAIN t.cache_time
        /\ \A x \in DOMAIN t.cache :
             t.cache[x] = x /\ t.cache_time[x] \in Nat /\ t.cache_time[x] < CacheTimeout
    BY <1>7, <1>8, InterfaceAssumption DEF Put, InterfaceOK, MapsOK
  <2>2. \A x \in DOMAIN t.datagrams : x \notin DOMAIN t.cache
    BY <1>7, <1>8 DEF Put, Erase, InterfaceOK, MapsOK
  <2> QED
    BY <1>7, <1>8, <2>1, <2>2 DEF InterfaceOK, MapsOK
<1> QED
  BY <1>11, <1>12

--------------------------------------------------------------------------------

\* The frames of interface t that h puts onto the wire.
Output(h, t) == {[frame |-> t.frames_out[k], to |-> Host \ {h}] : k \in DOMAIN t.frames_out}

\* What Becomes does to the state of the hosts.
LEMMA BecomesOK ==
  ASSUME Inv, NEW g \in Host, NEW t, MapsOK(g, t), NEW rest, Becomes(g, t, rest)
  PROVE  /\ DOMAIN ifc' = Host /\ DOMAIN asked' = Host
         /\ wire' = rest \cup Output(g, t)
         /\ \A h \in Host : InterfaceOK(h, ifc'[h])
         /\ \A h \in Host \ {g} : ifc'[h] = ifc[h] /\ asked'[h] = asked[h]
         /\ ifc'[g].datagrams = t.datagrams /\ ifc'[g].since_last_sent = t.since_last_sent
         /\ asked'[g] = [a \in DOMAIN asked[g] \cup Asks(t) |->
                           IF a \in Asks(t) THEN 0 ELSE asked[g][a]]
<1> DEFINE u == [t EXCEPT !.frames_out = << >>]
<1>1. DOMAIN ifc = Host /\ DOMAIN asked = Host
  BY DEF Inv
<1>2. DOMAIN t = Fields
  BY DEF MapsOK
<1>3. /\ DOMAIN u = Fields /\ u.ethernet_address = t.ethernet_address
      /\ u.ip_address = t.ip_address /\ u.frames_out = << >>
      /\ u.since_last_sent = t.since_last_sent /\ u.cache_time = t.cache_time
      /\ u.cache = t.cache /\ u.datagrams = t.datagrams
  BY <1>2 DEF Fields
<1> HIDE DEF u
<1>4. InterfaceOK(g, u)
  BY <1>3 DEF InterfaceOK, MapsOK
<1>5. /\ ifc' = [ifc EXCEPT ![g] = u]
      /\ wire' = rest \cup Output(g, t)
      /\ asked' = [asked EXCEPT ![g] = [a \in DOMAIN asked[g] \cup Asks(t) |->
                                          IF a \in Asks(t) THEN 0 ELSE asked[g][a]]]
  BY Zenon DEF Becomes, Output, u
<1>6. \A h \in Host : InterfaceOK(h, ifc[h])
  BY DEF Inv
<1>7. \A h \in Host : ifc'[h] = IF h = g THEN u ELSE ifc[h]
  BY <1>1, <1>5
<1> QED
  BY <1>1, <1>3, <1>4, <1>5, <1>6, <1>7

\* Without a request the history of requests stays in step with the timer.
LEMMA AskedSame ==
  ASSUME NEW g, AskedOK(g), ifc'[g].since_last_sent = ifc[g].since_last_sent,
         \A a \in DOMAIN asked'[g] : a \in DOMAIN asked[g] /\ asked'[g][a] = asked[g][a]
  PROVE  AskedOK(g)'
  BY DEF AskedOK

\* The new datagram is new, and is nowhere yet.
LEMMA NewDatagram ==
  ASSUME Inv, NEW g \in Host, NEW a \in Host, NEW d,
         d = [id |-> Cardinality(dgrams) + 1, src |-> g, dst |-> a],
         dgrams' = dgrams \cup {d}
  PROVE  /\ d \notin dgrams /\ d.src = g /\ d.dst = a
         /\ DatagramsOK'
         /\ ~Queued(d) /\ ~Arrived(d)
         /\ \A w \in wire : ~Carries(w, d)
<1>1. /\ IsFiniteSet(dgrams) /\ Cardinality(dgrams) \in Nat
      /\ \A x \in dgrams : x.id \in Int /\ x.id <= Cardinality(dgrams) /\ x.src \in Host /\ x.dst \in Host
  BY FS_CardinalityType DEF Inv, DatagramsOK
<1>2. d.id = Cardinality(dgrams) + 1 /\ d.src = g /\ d.dst = a
  OBVIOUS
<1>3. d \notin dgrams
  BY <1>1, <1>2
<1>4. IsFiniteSet(dgrams') /\ Cardinality(dgrams') = Cardinality(dgrams) + 1
  BY <1>1, <1>3, FS_AddElement
<1>5. \A x \in dgrams' : x.id \in Int /\ x.id <= Cardinality(dgrams) + 1 /\ x.src \in Host /\ x.dst \in Host
  BY <1>1, <1>2
<1>6. DatagramsOK'
  BY <1>4, <1>5 DEF DatagramsOK
<1>7. ~Queued(d)
  <2> SUFFICES ASSUME a \in DOMAIN ifc[g].datagrams, NEW k \in DOMAIN ifc[g].datagrams[a],
                      ifc[g].datagrams[a][k] = d
               PROVE  FALSE
    BY <1>2 DEF Queued, QueuedIn
  <2>1. ifc[g].datagrams[a] \in Seq(dgrams)
    BY DEF Inv, QueuesOK, QueueOK
  <2>2. ifc[g].datagrams[a][k] \in dgrams
    BY <2>1, LenProperties, ElementOfSeq
  <2> QED
    BY <1>3, <2>2
<1>8. ~Arrived(d)
  <2> SUFFICES ASSUME NEW k \in DOMAIN arrived[a], arrived[a][k] = d
               PROVE  FALSE
    BY <1>2 DEF Arrived
  <2>1. arrived[a] \in Seq(dgrams)
    BY DEF Inv, ArrivedOK
  <2>2. arrived[a][k] \in dgrams
    BY <2>1, LenProperties, ElementOfSeq
  <2> QED
    BY <1>3, <2>2
<1>9. \A w \in wire : ~Carries(w, d)
  BY <1>3 DEF Inv, WireOK, FrameOK, Carries, IsDatagram, IsArp
<1> QED
  BY <1>2, <1>3, <1>6, <1>7, <1>8, <1>9

\* A queue to which a datagram of another number is added in front.
LEMMA QueueGrows ==
  ASSUME NEW g, NEW a, NEW D, NEW d, d \notin D, d.src = g, d.dst = a,
         NEW q \in Seq(D), \A k \in DOMAIN q : q[k].src = g /\ q[k].dst = a,
         \A j, k \in DOMAIN q : q[j] = q[k] => j = k
  PROVE  QueueOK(g, a, <<d>> \o q, D \cup {d})
<1> DEFINE p == <<d>> \o q
<1>1. <<d>> \in Seq(D \cup {d}) /\ q \in Seq(D \cup {d}) /\ Len(<<d>>) = 1 /\ <<d>>[1] = d
  OBVIOUS
<1>2. Len(q) \in Nat /\ DOMAIN q = 1 .. Len(q) /\ \A k \in DOMAIN q : q[k] \in D
  BY LenProperties, ElementOfSeq
<1>3. /\ p \in Seq(D \cup {d}) /\ Len(p) = 1 + Len(q)
      /\ \A k \in 1 .. Len(p) : p[k] = IF k <= 1 THEN <<d>>[k] ELSE q[k - 1]
  BY <1>1, ConcatProperties
<1>4. DOMAIN p = 1 .. Len(p)
  BY <1>3, LenProperties
<1> HIDE DEF p
<1>5. \A k \in DOMAIN p : (k = 1 /\ p[k] = d) \/ (k - 1 \in DOMAIN q /\ p[k] = q[k - 1])
  BY <1>1, <1>2, <1>3, <1>4
<1>6. p # << >>
  BY <1>2, <1>3, EmptySeq
<1>7. \A k \in DOMAIN p : p[k].src = g /\ p[k].dst = a
  BY <1>5
<1>8. \A j, k \in DOMAIN p : p[j] = p[k] => j = k
  BY <1>2, <1>3, <1>4, <1>5
<1> QED
  BY <1>3, <1>6, <1>7, <1>8 DEF QueueOK, p

\* Nothing else is added.
LEMMA InGrown ==
  ASSUME NEW D, NEW d, NEW q \in Seq(D), NEW x, x # d
  PROVE  (\E k \in DOMAIN (<<d>> \o q) : (<<d>> \o q)[k] = x) <=> (\E k \in DOMAIN q : q[k] = x)
<1> DEFINE p == <<d>> \o q
<1>1. <<d>> \in Seq(D \cup {d}) /\ q \in Seq(D \cup {d}) /\ Len(<<d>>) = 1 /\ <<d>>[1] = d
  OBVIOUS
<1>2. Len(q) \in Nat /\ DOMAIN q = 1 .. Len(q)
  BY LenProperties
<1>3. /\ p \in Seq(D \cup {d}) /\ Len(p) = 1 + Len(q)
      /\ \A k \in 1 .. Len(p) : p[k] = IF k <= 1 THEN <<d>>[k] ELSE q[k - 1]
  BY <1>1, ConcatProperties
<1>4. DOMAIN p = 1 .. Len(p)
  BY <1>3, LenProperties
<1> HIDE DEF p
<1>5. \A k \in DOMAIN p : (k = 1 /\ p[k] = d) \/ (k - 1 \in DOMAIN q /\ p[k] = q[k - 1])
  BY <1>1, <1>2, <1>3, <1>4
<1>6. \A k \in DOMAIN q : k + 1 \in DOMAIN p /\ p[k + 1] = q[k]
  BY <1>1, <1>2, <1>3, <1>4
<1>7. (\E k \in DOMAIN p : p[k] = x) <=> (\E k \in DOMAIN q : q[k] = x)
  BY <1>5, <1>6
<1> QED
  BY <1>7 DEF p

\* Where the new datagram d and the older ones are when h's interface has become t: the
\* older ones where they were, d in a frame, in a queue, or nowhere.
Placed(h, t, d) ==
  /\ \A x \in dgrams : QueuedIn(ifc', x) <=> Queued(x)
  /\ \A v \in Output(h, t) : FrameOK(v, dgrams')
  /\ \A v \in Output(h, t) : \A x \in dgrams : ~Carries(v, x)
  /\ \A v, u \in Output(h, t) : v = u
  /\ QueuedIn(ifc', d) => \A v \in Output(h, t) : ~Carries(v, d)

\* Sending a datagram preserves the invariant.  Of the other hosts nothing changes.
LEMMA InvSend ==
  ASSUME Inv, NEW g \in Host, NEW a \in Host, SendDatagram(g, a)
  PROVE  Inv'
<1> DEFINE d == [id |-> Cardinality(dgrams) + 1, src |-> g, dst |-> a]
           i == ifc[g]
           t == send_datagram(i, d, a)
<1>1. /\ g # a /\ dgrams' = dgrams \cup {d} /\ arrived' = arrived
      /\ Becomes(g, t, wire)
  BY DEF SendDatagram
<1>2. /\ d \notin dgrams /\ d.src = g /\ d.dst = a /\ DatagramsOK'
      /\ ~Queued(d) /\ ~Arrived(d)
      /\ \A w \in wire : ~Carries(w, d)
  BY <1>1, NewDatagram
<1> HIDE DEF d
<1>3. InterfaceOK(g, i) /\ AskedOK(g) /\ DOMAIN arrived = Host
  BY DEF Inv
<1>4. MapsOK(g, t) /\ (SentNow(g, i, t, d, a) \/ AskedFor(g, i, t, d, a) \/ NotSent(i, t))
  BY <1>3, SendOK
<1> HIDE DEF t
<1>5. /\ DOMAIN ifc' = Host /\ DOMAIN asked' = Host
      /\ wire' = wire \cup Output(g, t)
      /\ \A h \in Host : InterfaceOK(h, ifc'[h])
      /\ \A h \in Host \ {g} : ifc'[h] = ifc[h] /\ asked'[h] = asked[h]
      /\ ifc'[g].datagrams = t.datagrams /\ ifc'[g].since_last_sent = t.since_last_sent
      /\ asked'[g] = [x \in DOMAIN asked[g] \cup Asks(t) |->
                        IF x \in Asks(t) THEN 0 ELSE asked[g][x]]
  BY <1>1, <1>4, BecomesOK
<1>6. ASSUME AskedOK(g)' PROVE \A h \in Host : AskedOK(h)'
  <2>1. \A h \in Host \ {g} : AskedOK(h)'
    BY <1>5 DEF Inv, AskedOK
  <2> QED
    BY <1>6, <2>1
<1>7. ArrivedOK' /\ \A x : Arrived(x)' <=> Arrived(x)
  <2>1. \A S : S \in Seq(dgrams) => S \in Seq(dgrams')
    BY <1>1
  <2> QED
    BY <1>1, <2>1 DEF Inv, ArrivedOK, Arrived
<1>8. QueuesOK' /\ AskedOK(g)' /\ Placed(g, t, d)
  <2>1. ASSUME t.datagrams = i.datagrams PROVE QueuesOK' /\ \A x \in dgrams' : QueuedIn(ifc', x) <=> Queued(x)
    <3>1. \A h \in Host : ifc'[h].datagrams = ifc[h].datagrams
      BY <1>5, <2>1
    <3>2. QueuesOK'
      BY <1>1, <3>1 DEF Inv, QueuesOK, QueueOK
    <3> QED
      BY <1>2, <3>1, <3>2 DEF Queued, QueuedIn, DatagramsOK
  <2>2. CASE SentNow(g, i, t, d, a)
    <3> DEFINE f == [dst |-> a, src |-> g, type |-> "IPv4", payload |-> d]
               v == [frame |-> f, to |-> Host \ {g}]
    <3>1. t.frames_out = <<f>> /\ t.datagrams = i.datagrams /\ t.since_last_sent = i.since_last_sent
      BY <2>2 DEF SentNow
    <3>2. DOMAIN t.frames_out = {1} /\ t.frames_out[1] = f
      BY <3>1
    <3>3. Output(g, t) = {v} /\ Asks(t) = {}
      BY <3>2 DEF Output, Asks
    <3>4. AskedOK(g)'
      BY <1>3, <1>5, <3>1, <3>3, AskedSame
    <3>5. IsDatagram(f, dgrams')
      BY <1>1, <1>2 DEF IsDatagram
    <3>6. FrameOK(v, dgrams')
      BY <3>5 DEF FrameOK
    <3>7. \A x \in dgrams : ~Carries(v, x)
      BY <1>2 DEF Carries
    <3> HIDE DEF v
    <3> QED
      BY <1>1, <1>2, <2>1, <3>1, <3>3, <3>4, <3>6, <3>7 DEF Placed
  <2>3. CASE AskedFor(g, i, t, d, a)
    <3> DEFINE p == [opcode |-> "REQUEST", sender_ip |-> g, sender_eth |-> g, target_ip |-> a]
               f == [dst |-> Broadcast, src |-> g, type |-> "ARP", payload |-> p]
               v == [frame |-> f, to |-> Host \ {g}]
               q == Waiting(i, a)
    <3>1. /\ a \notin DOMAIN i.since_last_sent
          /\ t.frames_out = <<f>>
          /\ t.datagrams = Put(i.datagrams, a, <<d>> \o q)
          /\ t.since_last_sent = Put(i.since_last_sent, a, 0)
      BY <2>3 DEF AskedFor
    <3>2. DOMAIN t.frames_out = {1} /\ t.frames_out[1] = f
      BY <3>1
    <3>3. Output(g, t) = {v} /\ Asks(t) = {a}
      BY <3>2 DEF Output, Asks
    <3>4. AskedOK(g)'
      <4>1. \A x \in DOMAIN asked'[g] :
              IF x = a THEN asked'[g][x] = 0 ELSE x \in DOMAIN asked[g] /\ asked'[g][x] = asked[g][x]
        BY <1>5, <3>3
      <4>2. a \in DOMAIN ifc'[g].since_last_sent /\ ifc'[g].since_last_sent[a] = 0
        BY <1>5, <3>1 DEF Put
      <4>3. \A x \in DOMAIN i.since_last_sent : x # a =>
              x \in DOMAIN ifc'[g].since_last_sent /\ ifc'[g].since_last_sent[x] = i.since_last_sent[x]
        BY <1>5, <3>1 DEF Put
      <4> QED
        BY <1>3, <4>1, <4>2, <4>3 DEF AskedOK
    <3>5. FrameOK(v, dgrams') /\ \A x : ~Carries(v, x)
      BY DEF FrameOK, IsArp, Carries
    <3> HIDE DEF v, f, p
    <3>6. q \in Seq(dgrams) /\ \A k \in DOMAIN q : q[k].src = g /\ q[k].dst = a
      BY EmptySeq DEF Waiting, Inv, QueuesOK, QueueOK
    <3>7. \A j, k \in DOMAIN q : q[j] = q[k] => j = k
      BY EmptySeq DEF Waiting, Inv, QueuesOK, QueueOK
    <3>8. QueueOK(g, a, <<d>> \o q, dgrams')
      BY <1>1, <1>2, <3>6, <3>7, QueueGrows
    <3>9. QueuesOK'
      <4> SUFFICES ASSUME NEW h \in Host, NEW b \in DOMAIN ifc'[h].datagrams
                   PROVE  QueueOK(h, b, ifc'[h].datagrams[b], dgrams')
        BY DEF QueuesOK, QueueOK
      <4>1. CASE h = g /\ b = a
        BY <1>5, <3>1, <3>8, <4>1 DEF Put
      <4>2. CASE h # g \/ b # a
        <5>1. b \in DOMAIN ifc[h].datagrams /\ ifc'[h].datagrams[b] = ifc[h].datagrams[b]
          BY <1>5, <3>1, <4>2 DEF Put
        <5> QED
          BY <1>1, <5>1 DEF Inv, QueuesOK, QueueOK
      <4> QED
        BY <4>1, <4>2
    <3>10. \A x \in dgrams : QueuedIn(ifc', x) <=> Queued(x)
      <4> SUFFICES ASSUME NEW x \in dgrams PROVE QueuedIn(ifc', x) <=> Queued(x)
        OBVIOUS
      <4>1. x.src \in Host /\ x.dst \in Host
        BY DEF Inv, DatagramsOK
      <4>2. CASE x.src = g /\ x.dst = a
        <5>1. QueuedIn(ifc', x) <=> \E k \in DOMAIN (<<d>> \o q) : (<<d>> \o q)[k] = x
          <6>1. a \in DOMAIN ifc'[g].datagrams /\ ifc'[g].datagrams[a] = <<d>> \o q
            BY <1>5, <3>1 DEF Put
          <6> DEFINE grown == <<d>> \o q
          <6>2. a \in DOMAIN ifc'[x.src].datagrams /\ ifc'[x.src].datagrams[x.dst] = grown /\ x.dst = a
            BY <4>2, <6>1
          <6> HIDE DEF grown
          <6>3. QueuedIn(ifc', x) <=> \E k \in DOMAIN grown : grown[k] = x
            BY <6>2 DEF QueuedIn
          <6> QED
            BY <6>3 DEF grown
        <5>2. Queued(x) <=> \E k \in DOMAIN q : q[k] = x
          BY <4>2, EmptySeq DEF Queued, QueuedIn, Waiting
        <5>3. d # x
          BY <1>2
        <5> HIDE DEF q
        <5> QED
          BY <3>6, <5>1, <5>2, <5>3, InGrown
      <4>3. CASE ~(x.src = g /\ x.dst = a)
        BY <1>5, <3>1, <4>1, <4>3 DEF Put, Queued, QueuedIn
      <4> QED
        BY <4>2, <4>3
    <3> QED
      BY <1>1, <1>2, <3>3, <3>4, <3>5, <3>9, <3>10 DEF Placed
  <2>4. CASE NotSent(i, t)
    <3>1. t.frames_out = << >> /\ t.datagrams = i.datagrams /\ t.since_last_sent = i.since_last_sent
      BY <2>4 DEF NotSent
    <3>2. DOMAIN t.frames_out = {}
      BY <3>1, EmptySeq
    <3>3. Output(g, t) = {} /\ Asks(t) = {}
      BY <3>2 DEF Output, Asks
    <3>4. AskedOK(g)'
      BY <1>3, <1>5, <3>1, <3>3, AskedSame
    <3> QED
      BY <1>1, <1>2, <2>1, <3>1, <3>3, <3>4 DEF Placed
  <2> QED
    BY <1>4, <2>2, <2>3, <2>4
<1>9. WireOK'
  <2>1. \A w \in wire : FrameOK(w, dgrams')
    BY <1>1 DEF Inv, WireOK, FrameOK, IsDatagram
  <2> QED
    BY <1>5, <1>8, <2>1 DEF WireOK, Placed
<1>10. OnePlace'
  <2>1. ASSUME NEW x \in dgrams', NEW w \in wire', Carries(w, x)
        PROVE  /\ ~QueuedIn(ifc', x) /\ (x.dst \in w.to => ~Arrived(x))
               /\ \A y \in wire' : Carries(y, x) => y = w
    <3>1. CASE x = d
      BY <1>2, <1>5, <1>8, <2>1, <3>1 DEF Placed
    <3>2. CASE x \in dgrams
      <4>1. w \in wire /\ \A y \in wire' : Carries(y, x) => y \in wire
        BY <1>5, <1>8, <2>1, <3>2 DEF Placed
      <4> QED
        BY <1>8, <2>1, <3>2, <4>1 DEF Inv, OnePlace, Placed
    <3> QED
      BY <1>1, <3>1, <3>2
  <2>2. \A x \in dgrams' : QueuedIn(ifc', x) => ~Arrived(x)
    BY <1>1, <1>2, <1>8 DEF Inv, OnePlace, Placed
  <2>3. \A x : Queued(x)' <=> QueuedIn(ifc', x)
    BY DEF Queued, QueuedIn
  <2> QED
    BY <1>7, <2>1, <2>2, <2>3 DEF OnePlace, Carries
<1> QED
  BY <1>1, <1>2, <1>3, <1>5, <1>6, <1>7, <1>8, <1>9, <1>10 DEF Inv, InterfaceOK, MapsOK

--------------------------------------------------------------------------------

\* The wire without the copy of w for h.
Rest(h, w) == (wire \ {w}) \cup (IF w.to = {h} THEN {} ELSE {[w EXCEPT !.to = @ \ {h}]})

\* What is left of the wire is what was there; of w, nothing that h could hear again.
LEMMA RestOK ==
  ASSUME Inv, NEW w \in wire, NEW h \in w.to
  PROVE  /\ \A v \in Rest(h, w) : FrameOK(v, dgrams)
         /\ \A v \in Rest(h, w) : \E u \in wire : v.frame = u.frame /\ v.to \subseteq u.to
         /\ \A d \in dgrams : \A v, u \in Rest(h, w) : Carries(v, d) /\ Carries(u, d) => v = u
         /\ \A d \in dgrams : \A v \in Rest(h, w) : Carries(v, d) /\ Carries(w, d) => h \notin v.to
<1> DEFINE x == [w EXCEPT !.to = @ \ {h}]
<1>1. FrameOK(w, dgrams)
  BY DEF Inv, WireOK
<1>2. DOMAIN x = {"frame", "to"} /\ x.frame = w.frame /\ x.to = w.to \ {h}
  BY <1>1 DEF FrameOK
<1> HIDE DEF x
<1>3. FrameOK(x, dgrams)
  BY <1>1, <1>2 DEF FrameOK
<1>4. \A v \in Rest(h, w) : v = x \/ (v \in wire /\ v # w)
  BY DEF Rest, x
<1>5. \A v \in Rest(h, w) : FrameOK(v, dgrams)
  BY <1>3, <1>4 DEF Inv, WireOK
<1>6. \A v \in Rest(h, w) : \E u \in wire : v.frame = u.frame /\ v.to \subseteq u.to
  BY <1>2, <1>4
<1>7. \A d : Carries(x, d) <=> Carries(w, d)
  BY <1>2 DEF Carries
<1>8. \A d \in dgrams : \A v \in Rest(h, w) : Carries(v, d) /\ Carries(w, d) => v = x
  BY <1>4 DEF Inv, OnePlace
<1>9. \A d \in dgrams : \A v, u \in Rest(h, w) : Carries(v, d) /\ Carries(u, d) => v = u
  BY <1>4, <1>7, <1>8 DEF Inv, OnePlace
<1> QED
  BY <1>2, <1>5, <1>6, <1>8, <1>9

\* What becomes of the datagrams when h has heard the frame of w and its interface
\* has become t: they leave a queue for a frame, or the frame of w for h.
Moved(h, t, w) ==
  /\ \A v \in Output(h, t) : FrameOK(v, dgrams)
  /\ \A x \in dgrams : QueuedIn(ifc', x) => Queued(x)
  /\ \A x \in dgrams : \A v \in Output(h, t) :
       Carries(v, x) => Queued(x) /\ ~QueuedIn(ifc', x)
  /\ \A x \in dgrams : \A v, u \in Output(h, t) : Carries(v, x) /\ Carries(u, x) => v = u

\* The datagrams stay in one place.
LEMMA MovedOK ==
  ASSUME Inv, NEW w \in wire, NEW h \in w.to, NEW t, Moved(h, t, w),
         wire' = Rest(h, w) \cup Output(h, t), dgrams' = dgrams,
         \A x \in dgrams : Arrived(x)' => Arrived(x) \/ (Carries(w, x) /\ x.dst = h)
  PROVE  WireOK' /\ OnePlace'
<1>1. WireOK'
  BY RestOK DEF WireOK, Moved
<1>2. ASSUME NEW x \in dgrams, NEW v \in wire', Carries(v, x)
      PROVE  /\ ~QueuedIn(ifc', x) /\ (x.dst \in v.to => ~Arrived(x)')
             /\ \A y \in wire' : Carries(y, x) => y = v
  <2>1. \A y \in Rest(h, w) : Carries(y, x) => ~Queued(x)
    BY RestOK DEF Inv, OnePlace, Carries
  <2>2. CASE v \in Rest(h, w)
    <3>1. PICK u \in wire : v.frame = u.frame /\ v.to \subseteq u.to
      BY <2>2, RestOK
    <3>2. Carries(u, x)
      BY <1>2, <3>1 DEF Carries
    <3>3. ~Queued(x) /\ (x.dst \in u.to => ~Arrived(x))
      BY <3>2 DEF Inv, OnePlace
    <3>4. Carries(w, x) => h \notin v.to
      BY <1>2, <2>2, RestOK
    <3>5. x.dst \in v.to => ~Arrived(x)'
      BY <3>1, <3>3, <3>4
    <3>6. \A y \in wire' : Carries(y, x) => y \in Rest(h, w)
      BY <3>3 DEF Moved
    <3> QED
      BY <1>2, <2>2, <3>3, <3>5, <3>6, RestOK DEF Moved
  <2>3. CASE v \in Output(h, t)
    <3>1. Queued(x) /\ ~QueuedIn(ifc', x)
      BY <1>2, <2>3 DEF Moved
    <3>2. ~Arrived(x) /\ ~Carries(w, x)
      BY <3>1 DEF Inv, OnePlace
    <3>3. \A y \in wire' : Carries(y, x) => y \in Output(h, t)
      BY <2>1, <3>1
    <3> QED
      BY <1>2, <2>3, <3>1, <3>2, <3>3 DEF Moved
  <2> QED
    BY <2>2, <2>3
<1>3. \A x \in dgrams : QueuedIn(ifc', x) => ~Arrived(x)'
  BY DEF Moved, Inv, OnePlace
<1>4. \A x : Queued(x)' <=> QueuedIn(ifc', x)
  BY DEF Queued, QueuedIn
<1>5. OnePlace'
  BY <1>2, <1>3, <1>4 DEF OnePlace, Carries
<1> QED
  BY <1>1, <1>5

\* The frame as h hears it: damaged, it is Garbage.
LEMMA FrameHeard ==
  ASSUME NEW f, DOMAIN f = {"dst", "src", "type", "payload"}, NEW damaged \in BOOLEAN,
         NEW e, e = IF damaged THEN [f EXCEPT !.payload = Garbage] ELSE f,
         e.payload # Garbage
  PROVE  e = f
  OBVIOUS

\* What h passes up is the datagram of w, for h, if anything.
LEMMA PassedUp ==
  ASSUME Inv, NEW w \in wire, NEW h \in w.to, NEW damaged \in BOOLEAN,
         NEW e, e = IF damaged THEN [w.frame EXCEPT !.payload = Garbage] ELSE w.frame
  PROVE  \/ passed_up(ifc[h], e) = << >>
         \/ /\ passed_up(ifc[h], e) = <<w.frame.payload>>
            /\ w.frame.payload \in dgrams /\ w.frame.payload.dst = h
            /\ Carries(w, w.frame.payload) /\ recv_frame(ifc[h], e) = ifc[h]
<1>1. FrameOK(w, dgrams)
  BY DEF Inv, WireOK
<1>2. h \in Host /\ ifc[h].ethernet_address = h
  BY <1>1 DEF FrameOK, Inv, InterfaceOK, MapsOK
<1> SUFFICES ASSUME ForMe(ifc[h], e), e.type = "IPv4", e.payload # Garbage
             PROVE  /\ w.frame.payload \in dgrams /\ w.frame.payload.dst = h /\ e = w.frame
                    /\ Carries(w, w.frame.payload)
  BY DEF passed_up, recv_frame
<1>3. e = w.frame
  BY <1>1, FrameHeard DEF FrameOK
<1>4. IsDatagram(w.frame, dgrams)
  BY <1>1, <1>3 DEF FrameOK, IsArp
<1>5. w.frame.dst \in Host
  BY <1>4 DEF IsDatagram, Inv, DatagramsOK
<1>6. w.frame.dst = h
  BY <1>2, <1>3, <1>5, InterfaceAssumption DEF ForMe
<1> QED
  BY <1>3, <1>4, <1>6 DEF IsDatagram, Carries

\* What has arrived after the frame.
LEMMA ArrivedStep ==
  ASSUME Inv, NEW w \in wire, NEW h \in w.to, NEW damaged \in BOOLEAN,
         RecvFrame(h, w, damaged)
  PROVE  /\ DOMAIN arrived' = Host /\ ArrivedOK'
         /\ \A x \in dgrams : Arrived(x)' => Arrived(x) \/ (Carries(w, x) /\ x.dst = h)
<1> DEFINE e == IF damaged THEN [w.frame EXCEPT !.payload = Garbage] ELSE w.frame
           up == passed_up(ifc[h], e)
           d == w.frame.payload
<1>1. /\ arrived' = [arrived EXCEPT ![h] = @ \o up] /\ dgrams' = dgrams
      /\ h \in Host /\ DOMAIN arrived = Host
  BY DEF RecvFrame, Inv, WireOK, FrameOK
<1>2. arrived[h] \in Seq(dgrams)
  BY <1>1 DEF Inv, ArrivedOK
<1>3. \A g \in Host \ {h} : arrived'[g] = arrived[g]
  BY <1>1
<1>4. arrived'[h] = arrived[h] \o up
  BY <1>1
<1>5. CASE up = << >>
  <2> HIDE DEF up, e, d
  <2>1. arrived'[h] = arrived[h]
    <3>1. arrived[h] \o << >> = arrived[h]
      BY <1>2, ConcatEmptySeq
    <3> QED
      BY <1>4, <1>5, <3>1
  <2>2. \A g \in Host : arrived'[g] = arrived[g]
    BY <1>3, <2>1
  <2>3. ArrivedOK'
    <3>1. dgrams' = dgrams
      BY <1>1
    <3> QED
      BY <2>2, <3>1 DEF ArrivedOK, Inv
  <2> QED
    BY <1>1, <2>2, <2>3 DEF Arrived, Inv, DatagramsOK
<1>6. CASE up # << >>
  <2>1. up = <<d>> /\ d \in dgrams /\ d.dst = h /\ Carries(w, d)
    BY <1>6, PassedUp
  <2>2. ~Arrived(d)
    BY <2>1 DEF Inv, OnePlace
  <2> DEFINE A == arrived[h]
             B == arrived'[h]
  <2>3. B = A \o <<d>>
    BY <1>4, <2>1
  <2> HIDE DEF d, up, e
  <2>4. /\ Len(A) \in Nat /\ DOMAIN A = 1 .. Len(A)
        /\ <<d>> \in Seq(dgrams) /\ Len(<<d>>) = 1 /\ <<d>>[1] = d
    BY <1>2, <2>1, LenProperties
  <2>5. /\ B \in Seq(dgrams) /\ Len(B) = Len(A) + 1
        /\ \A k \in 1 .. Len(B) : B[k] = IF k <= Len(A) THEN A[k] ELSE <<d>>[k - Len(A)]
    BY <1>2, <2>3, <2>4, ConcatProperties
  <2>6. DOMAIN B = 1 .. Len(B)
    BY <2>5, LenProperties
  <2>7. \A k \in DOMAIN A : A[k] # d
    BY <2>1, <2>2 DEF Arrived
  <2>8. /\ \A k \in DOMAIN A : A[k].dst = h
        /\ \A j, k \in DOMAIN A : A[j] = A[k] => j = k
    BY <1>1 DEF Inv, ArrivedOK
  <2> HIDE DEF A, B
  <2>9. \A k \in DOMAIN B : (k \in DOMAIN A /\ B[k] = A[k]) \/ (k = Len(A) + 1 /\ B[k] = d)
    BY <2>4, <2>5, <2>6
  <2>10. \A k \in DOMAIN B : B[k].dst = h
    BY <2>1, <2>8, <2>9
  <2>11. \A j, k \in DOMAIN B : B[j] = B[k] => j = k
    BY <2>7, <2>8, <2>9
  <2>12. ArrivedOK'
    BY <1>1, <1>3, <2>5, <2>10, <2>11 DEF ArrivedOK, Inv, B
  <2>13. ASSUME NEW x \in dgrams, Arrived(x)'
         PROVE  Arrived(x) \/ (Carries(w, x) /\ x.dst = h)
    <3>1. x.dst \in Host
      BY DEF Inv, DatagramsOK
    <3>2. CASE x.dst = h
      BY <2>1, <2>9, <2>13, <3>2 DEF Arrived, A, B
    <3>3. CASE x.dst # h
      BY <1>3, <2>13, <3>1, <3>3 DEF Arrived
    <3> QED
      BY <3>2, <3>3
  <2> QED
    BY <1>1, <2>12, <2>13
<1> QED
  BY <1>5, <1>6

\* What the interface of h becomes, and where the datagrams are then.
LEMMA HearStep ==
  ASSUME Inv, NEW w \in wire, NEW h \in w.to, NEW damaged \in BOOLEAN,
         NEW e, e = IF damaged THEN [w.frame EXCEPT !.payload = Garbage] ELSE w.frame,
         NEW t, t = recv_frame(ifc[h], e)
  PROVE  \/ t = ifc[h]
         \/ \E a : MapsOK(h, t) /\ Heard(h, ifc[h], t, a)
<1> SUFFICES ASSUME ForMe(ifc[h], e), e.type # "IPv4", e.payload # Garbage
             PROVE  \E a : MapsOK(h, t) /\ Heard(h, ifc[h], t, a)
  BY DEF recv_frame
<1>1. FrameOK(w, dgrams) /\ h \in Host
  BY DEF Inv, WireOK, FrameOK
<1>2. e = w.frame
  BY <1>1, FrameHeard DEF FrameOK
<1>3. IsArp(w.frame)
  BY <1>1, <1>2 DEF FrameOK, IsDatagram
<1> DEFINE am == e.payload
<1>4. am.sender_eth = am.sender_ip
  BY <1>2, <1>3 DEF IsArp
<1>5. t = Reply(Release(Learn(ifc[h], am), am), am)
  BY DEF recv_frame
<1>6. InterfaceOK(h, ifc[h])
  BY <1>1 DEF Inv
<1>7. Waiting(ifc[h], am.sender_ip) \in Seq(dgrams)
  BY <1>1, EmptySeq DEF Waiting, Inv, QueuesOK, QueueOK
<1> HIDE DEF am
<1>8. MapsOK(h, t) /\ Heard(h, ifc[h], t, am.sender_ip)
  BY <1>4, <1>5, <1>6, <1>7, HearOK
<1> QED
  BY <1>8

\* A frame that reaches h preserves the invariant.
LEMMA InvRecv ==
  ASSUME Inv, NEW h \in Host, NEW w \in wire, NEW damaged \in BOOLEAN,
         RecvFrame(h, w, damaged)
  PROVE  Inv' /\ \A v \in wire' \ wire : v.to = Host \ {v.frame.src} =>
                   v.frame.type # "ARP" \/ v.frame.payload.opcode # "REQUEST"
<1> DEFINE e == IF damaged THEN [w.frame EXCEPT !.payload = Garbage] ELSE w.frame
           i == ifc[h]
           t == recv_frame(i, e)
<1>1. h \in w.to /\ dgrams' = dgrams /\ Becomes(h, t, Rest(h, w))
  BY Zenon DEF RecvFrame, Rest
<1>2. InterfaceOK(h, i) /\ AskedOK(h) /\ MapsOK(h, i) /\ i.frames_out = << >>
  BY DEF Inv, InterfaceOK
<1>3. \/ t = i
      \/ \E a : MapsOK(h, t) /\ Heard(h, i, t, a)
  BY <1>1, HearStep
<1>4. MapsOK(h, t)
  BY <1>2, <1>3
<1> HIDE DEF t, e
<1>5. /\ DOMAIN ifc' = Host /\ DOMAIN asked' = Host
      /\ wire' = Rest(h, w) \cup Output(h, t)
      /\ \A g \in Host : InterfaceOK(g, ifc'[g])
      /\ \A g \in Host \ {h} : ifc'[g] = ifc[g] /\ asked'[g] = asked[g]
      /\ ifc'[h].datagrams = t.datagrams /\ ifc'[h].since_last_sent = t.since_last_sent
      /\ asked'[h] = [x \in DOMAIN asked[h] \cup Asks(t) |->
                        IF x \in Asks(t) THEN 0 ELSE asked[h][x]]
  BY <1>1, <1>4, BecomesOK
<1>6. /\ t.since_last_sent = i.since_last_sent /\ Asks(t) = {} /\ QueuesOK' /\ Moved(h, t, w)
      /\ \A v \in Output(h, t) : v.frame.type # "ARP" \/ v.frame.payload.opcode # "REQUEST"
  <2>1. CASE t = i
    <3>1. DOMAIN t.frames_out = {}
      BY <1>2, <2>1, EmptySeq
    <3>2. Output(h, t) = {} /\ Asks(t) = {}
      BY <3>1 DEF Output, Asks
    <3>3. \A g \in Host : ifc'[g].datagrams = ifc[g].datagrams
      BY <1>5, <2>1
    <3>4. QueuesOK'
      BY <1>1, <3>3 DEF Inv, QueuesOK
    <3>5. \A x \in dgrams : QueuedIn(ifc', x) <=> Queued(x)
      BY <3>3 DEF Queued, QueuedIn, Inv, DatagramsOK
    <3> QED
      BY <2>1, <3>2, <3>4, <3>5 DEF Moved
  <2>2. ASSUME NEW a, Heard(h, i, t, a)
        PROVE  /\ t.since_last_sent = i.since_last_sent /\ Asks(t) = {} /\ QueuesOK'
               /\ Moved(h, t, w)
               /\ \A v \in Output(h, t) :
                    v.frame.type # "ARP" \/ v.frame.payload.opcode # "REQUEST"
    <3> DEFINE q == Waiting(i, a)
               IP(k) == [dst |-> a, src |-> h, type |-> "IPv4", payload |-> q[k]]
               arp == [dst |-> a, src |-> h, type |-> "ARP",
                       payload |-> [opcode |-> "REPLY", sender_ip |-> h,
                                    sender_eth |-> h, target_ip |-> a]]
    <3>1. /\ t.since_last_sent = i.since_last_sent
          /\ t.datagrams = Erase(i.datagrams, {a})
          /\ \A k \in DOMAIN t.frames_out :
               \/ k \in DOMAIN q /\ t.frames_out[k] = IP(k)
               \/ t.frames_out[k] = arp
      BY <2>2, Zenon DEF Heard
    <3>2. arp.type = "ARP" /\ arp.payload.opcode = "REPLY"
      OBVIOUS
    <3>3. \A k : IP(k).type = "IPv4" /\ IP(k).payload = q[k] /\ IP(k).dst = a /\ IP(k).src = h
      OBVIOUS
    <3>4. Asks(t) = {}
      BY <3>1, <3>2, <3>3 DEF Asks
    <3>5. a \in DOMAIN i.datagrams => QueueOK(h, a, q, dgrams)
      BY DEF Inv, QueuesOK, Waiting
    <3>6. a \notin DOMAIN i.datagrams => DOMAIN q = {}
      BY EmptySeq DEF Waiting
    <3>7. ASSUME NEW k \in DOMAIN q
          PROVE  /\ a \in DOMAIN i.datagrams /\ q = i.datagrams[a]
                 /\ q[k] \in dgrams /\ q[k].src = h /\ q[k].dst = a
                 /\ \A j \in DOMAIN q : q[j] = q[k] => j = k
      <4>1. a \in DOMAIN i.datagrams
        BY <3>6, <3>7
      <4>2. q \in Seq(dgrams) /\ q[k].src = h /\ q[k].dst = a
            /\ \A j \in DOMAIN q : q[j] = q[k] => j = k
        BY <3>5, <3>7, <4>1 DEF QueueOK
      <4>3. q[k] \in dgrams
        <5> HIDE DEF q
        <5> QED
          BY <3>7, <4>2, LenProperties, ElementOfSeq
      <4> QED
        BY <4>1, <4>2, <4>3 DEF Waiting
    <3>8. FrameOK([frame |-> arp, to |-> Host \ {h}], dgrams)
      BY DEF FrameOK, IsArp
    <3>9. \A k \in DOMAIN q : FrameOK([frame |-> IP(k), to |-> Host \ {h}], dgrams)
      BY <3>7 DEF FrameOK, IsDatagram
    <3> HIDE DEF arp, q
    <3>10. \A v \in Output(h, t) :
             \/ \E k \in DOMAIN q : v = [frame |-> IP(k), to |-> Host \ {h}]
             \/ v = [frame |-> arp, to |-> Host \ {h}]
      BY <3>1 DEF Output
    <3> HIDE DEF IP
    <3>11. \A v \in Output(h, t) : FrameOK(v, dgrams)
      BY <3>8, <3>9, <3>10
    <3>12. \A v \in Output(h, t) : v.frame.type # "ARP" \/ v.frame.payload.opcode # "REQUEST"
      BY <3>2, <3>3, <3>10
    <3>13. /\ DOMAIN ifc'[h].datagrams = DOMAIN i.datagrams \ {a}
           /\ \A b \in DOMAIN i.datagrams \ {a} : ifc'[h].datagrams[b] = i.datagrams[b]
      BY <1>5, <3>1 DEF Erase
    <3>14. QueuesOK'
      BY <1>1, <1>5, <3>13 DEF Inv, QueuesOK, QueueOK
    <3>15. \A x \in dgrams : QueuedIn(ifc', x) => Queued(x) /\ ~(x.src = h /\ x.dst = a)
      BY <1>5, <3>13 DEF Queued, QueuedIn, Inv, DatagramsOK
    <3>16. ASSUME NEW v \in Output(h, t), NEW x \in dgrams, Carries(v, x)
           PROVE  \E k \in DOMAIN q : v = [frame |-> IP(k), to |-> Host \ {h}] /\ q[k] = x
      BY <3>2, <3>3, <3>10, <3>16 DEF Carries
    <3>17. ASSUME NEW v \in Output(h, t), NEW x \in dgrams, Carries(v, x)
           PROVE  Queued(x) /\ ~QueuedIn(ifc', x)
      <4>1. PICK k \in DOMAIN q : q[k] = x
        BY <3>16, <3>17
      <4> QED
        BY <3>7, <3>15, <4>1 DEF Queued, QueuedIn
    <3>18. ASSUME NEW v \in Output(h, t), NEW u \in Output(h, t), NEW x \in dgrams,
                  Carries(v, x), Carries(u, x)
           PROVE  v = u
      <4>1. PICK k \in DOMAIN q : v = [frame |-> IP(k), to |-> Host \ {h}] /\ q[k] = x
        BY <3>16, <3>18
      <4>2. PICK j \in DOMAIN q : u = [frame |-> IP(j), to |-> Host \ {h}] /\ q[j] = x
        BY <3>16, <3>18
      <4>3. j = k
        BY <3>7, <4>1, <4>2
      <4> QED
        BY <4>1, <4>2, <4>3
    <3>19. Moved(h, t, w)
      BY <3>11, <3>15, <3>17, <3>18 DEF Moved
    <3> QED
      BY <3>1, <3>4, <3>12, <3>14, <3>19
  <2> QED
    BY <1>3, <2>1, <2>2
<1>7. /\ DOMAIN arrived' = Host /\ ArrivedOK'
      /\ \A x \in dgrams : Arrived(x)' => Arrived(x) \/ (Carries(w, x) /\ x.dst = h)
  BY <1>1, ArrivedStep
<1>8. WireOK' /\ OnePlace'
  BY <1>1, <1>5, <1>6, <1>7, MovedOK
<1>9. \A g \in Host : AskedOK(g)'
  <2>1. AskedOK(h)'
    BY <1>2, <1>5, <1>6, AskedSame
  <2>2. \A g \in Host \ {h} : AskedOK(g)'
    BY <1>5 DEF Inv, AskedOK
  <2> QED
    BY <2>1, <2>2
<1>10. DatagramsOK'
  BY <1>1 DEF Inv, DatagramsOK
<1>11. Inv'
  BY <1>5, <1>6, <1>7, <1>8, <1>9, <1>10 DEF Inv, InterfaceOK, MapsOK
<1>12. \A v \in Rest(h, w) \ wire : v.to # Host \ {v.frame.src}
  <2>1. FrameOK(w, dgrams)
    BY DEF Inv, WireOK
  <2>2. \A v \in Rest(h, w) \ wire : v = [w EXCEPT !.to = @ \ {h}]
    BY DEF Rest
  <2>3. \A v \in Rest(h, w) \ wire : v.frame = w.frame /\ v.to = w.to \ {h}
    BY <2>1, <2>2 DEF FrameOK
  <2> QED
    BY <1>1, <2>1, <2>3 DEF FrameOK
<1> QED
  BY <1>5, <1>6, <1>11, <1>12

--------------------------------------------------------------------------------

\* Every step preserves the invariant.
LEMMA InvNext == Inv /\ [Next]_vars => Inv'
<1> SUFFICES ASSUME Inv, [Next]_vars PROVE Inv'
  OBVIOUS
<1>1. ASSUME NEW g \in Host, NEW a \in Host, SendDatagram(g, a) PROVE Inv'
  BY <1>1, InvSend
<1>2. ASSUME NEW h \in Host, NEW w \in wire, NEW damaged \in BOOLEAN, RecvFrame(h, w, damaged)
      PROVE  Inv'
  BY <1>2, InvRecv
<1>3. ASSUME NEW w \in wire, LoseFrame(w) PROVE Inv'
  BY <1>3, InvLose
<1>4. ASSUME NEW h \in Host, NEW ms \in 1 .. MaxTick, Tick(h, ms) PROVE Inv'
  BY <1>4, InvTick
<1>5. CASE UNCHANGED vars
  <2>1. /\ ifc' = ifc /\ wire' = wire /\ dgrams' = dgrams /\ arrived' = arrived
        /\ asked' = asked
    BY <1>5 DEF vars
  <2>2. \A d : (Queued(d)' <=> Queued(d)) /\ (Arrived(d)' <=> Arrived(d))
    BY <2>1 DEF Queued, QueuedIn, Arrived
  <2>3. OnePlace'
    BY <2>1, <2>2 DEF Inv, OnePlace, Carries
  <2>4. \A h \in Host : AskedOK(h)'
    BY <2>1 DEF Inv, AskedOK
  <2> QED
    BY <2>1, <2>3, <2>4
    DEF Inv, QueuesOK, DatagramsOK, WireOK, ArrivedOK, InterfaceOK, MapsOK
<1> QED
  BY <1>1, <1>2, <1>3, <1>4, <1>5 DEF Next

\* The invariant always holds.
LEMMA InvAlways == Spec => []Inv
  BY InvInit, InvNext, PTL DEF Spec

\* The cache and its times agree and are within their limits, no queue is empty, and
\* every mapping is right.
THEOREM CacheIsSound == Spec => []CacheSound
<1>1. Inv => CacheSound
  BY DEF Inv, InterfaceOK, MapsOK, QueuesOK, QueueOK, CacheSound
<1> QED
  BY <1>1, InvAlways, PTL

\* No datagram waits for an address that is known.
THEOREM NobodyWaitsInVain == Spec => []NoneWaitsInVain
<1>1. Inv => NoneWaitsInVain
  BY DEF Inv, InterfaceOK, MapsOK, NoneWaitsInVain
<1> QED
  BY <1>1, InvAlways, PTL

\* A datagram is passed up by its destination only, and once, although frames may
\* reach the stations in any order, be damaged or be lost.
THEOREM DeliversOnce == Spec => []DeliveredOnce
<1>1. Inv => DeliveredOnce
  BY DEF Inv, ArrivedOK, DeliveredOnce
<1> QED
  BY <1>1, InvAlways, PTL

\* A request that goes onto the wire is h's first for the address within ArpTimeout.
Rare(h, a) ==
  (\E w \in wire' \ wire : /\ w.frame.type = "ARP" /\ w.to = Host \ {h}
                           /\ w.frame.src = h /\ w.frame.payload # Garbage
                           /\ w.frame.payload.opcode = "REQUEST"
                           /\ w.frame.payload.target_ip = a)
    => (a \notin DOMAIN asked[h] \/ asked[h][a] >= ArpTimeout)

\* Only send_datagram asks, and only when its own timer has no entry.
LEMMA SendAsksRarely ==
  ASSUME Inv, NEW g \in Host, NEW b \in Host, SendDatagram(g, b),
         NEW h \in Host, NEW a \in Host
  PROVE  Rare(h, a)
<1> DEFINE d == [id |-> Cardinality(dgrams) + 1, src |-> g, dst |-> b]
           t == send_datagram(ifc[g], d, b)
<1> SUFFICES ASSUME NEW w \in wire' \ wire,
                    w.frame.type = "ARP", w.to = Host \ {h}, w.frame.src = h,
                    w.frame.payload.opcode = "REQUEST", w.frame.payload.target_ip = a
             PROVE  a \notin DOMAIN asked[h] \/ asked[h][a] >= ArpTimeout
  BY DEF Rare
<1>1. Becomes(g, t, wire)
  BY DEF SendDatagram
<1>2. InterfaceOK(g, ifc[g])
  BY DEF Inv
<1> HIDE DEF d
<1>3. MapsOK(g, t) /\ (SentNow(g, ifc[g], t, d, b) \/ AskedFor(g, ifc[g], t, d, b) \/ NotSent(ifc[g], t))
  BY <1>2, SendOK
<1> HIDE DEF t
<1>4. w \in Output(g, t)
  <2>1. wire' = wire \cup Output(g, t)
    BY <1>1, <1>3, BecomesOK
  <2> QED
    BY <2>1
<1>5. PICK k \in DOMAIN t.frames_out : w.frame = t.frames_out[k]
  BY <1>4 DEF Output
<1>6. AskedFor(g, ifc[g], t, d, b)
  <2>1. CASE SentNow(g, ifc[g], t, d, b)
    <3>1. w.frame.type = "IPv4"
      BY <1>5, <2>1 DEF SentNow
    <3> QED
      BY <3>1
  <2>2. CASE NotSent(ifc[g], t)
    BY <1>5, <2>2, EmptySeq DEF NotSent
  <2> QED
    BY <1>3, <2>1, <2>2
<1>7. h = g /\ a = b
  BY <1>5, <1>6 DEF AskedFor
<1>8. a \notin DOMAIN ifc[h].since_last_sent
  BY <1>6, <1>7 DEF AskedFor
<1> QED
  BY <1>8, InterfaceAssumption DEF Inv, AskedOK

\* However sending, ticking and hearing interleave, a station does not ask for an
\* address again within ArpTimeout.
THEOREM AsksOnlyRarely == Spec => AsksRarely
<1>1. Inv /\ [Next]_vars => [\A h, a \in Host : Rare(h, a)]_vars
  <2> SUFFICES ASSUME Inv, Next, NEW h \in Host, NEW a \in Host PROVE Rare(h, a)
    OBVIOUS
  <2>1. ASSUME NEW g \in Host, NEW b \in Host, SendDatagram(g, b) PROVE Rare(h, a)
    BY <2>1, SendAsksRarely
  <2>2. ASSUME NEW g \in Host, NEW w \in wire, NEW damaged \in BOOLEAN, RecvFrame(g, w, damaged)
        PROVE  Rare(h, a)
    <3>1. \A v \in wire' \ wire : v.to = Host \ {v.frame.src} =>
            v.frame.type # "ARP" \/ v.frame.payload.opcode # "REQUEST"
      BY <2>2, InvRecv
    <3> QED
      BY <3>1 DEF Rare
  <2>3. ASSUME NEW w \in wire, LoseFrame(w) PROVE Rare(h, a)
    BY <2>3 DEF LoseFrame, Rare
  <2>4. ASSUME NEW g \in Host, NEW ms \in 1 .. MaxTick, Tick(g, ms) PROVE Rare(h, a)
    BY <2>4 DEF Tick, Rare
  <2> QED
    BY <2>1, <2>2, <2>3, <2>4 DEF Next
<1>2. Inv /\ [Next]_vars => [\A h, a \in Host :
       (\E w \in wire' \ wire : /\ w.frame.type = "ARP" /\ w.to = Host \ {h}
                                /\ w.frame.src = h /\ w.frame.payload # Garbage
                                /\ w.frame.payload.opcode = "REQUEST"
                                /\ w.frame.payload.target_ip = a)
         => (a \notin DOMAIN asked[h] \/ asked[h][a] >= ArpTimeout)]_vars
  BY <1>1 DEF Rare
<1> QED
  BY <1>2, InvAlways, PTL DEF Spec, AsksRarely

================================================================================
