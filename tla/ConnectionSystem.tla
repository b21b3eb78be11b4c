----------------------------- MODULE ConnectionSystem --------------------------
(***************************************************************************)
(* Two TCPConnections and the network between them.  Whatever one of them  *)
(* has sent can reach the other at any later time, in any order, or never. *)
(* A network that duplicates never forgets a segment: it can arrive any    *)
(* number of times.  One that does not delivers each segment at most once. *)
(*                                                                         *)
(* The i-th byte an owner writes is the number i.  Owners call a           *)
(* connection while it is active, do not write after ending their stream,  *)
(* and take segments_out away after every call (tcp_sponge_socket.cc).     *)
(***************************************************************************)
EXTENDS TCPConnection

CONSTANTS Client, Server,    \* the endpoint that connects and the one that listens
          ClientISN, ServerISN,
          Capacity,          \* of both streams of both endpoints
          RetxTimeout,
          Duplicating,       \* can the network deliver a segment more than once?
          MaxBytes,          \* bound: bytes an owner writes, per endpoint
          Impatient,         \* the endpoints whose owner may drop an open connection
          MaxTick            \* bound: the longest time between two ticks

Peers == {Client, Server}

ASSUME ConnectionAssumption ==
  /\ Client # Server
  /\ {ClientISN, ServerISN} \subseteq WrappingInt32
  /\ {Capacity, RetxTimeout, MAX_PAYLOAD_SIZE, LingerFactor, Pow16, Pow32} \subseteq Nat \ {0}
  /\ MAX_RETX_ATTEMPTS \in Nat /\ MaxTick \in Nat
  /\ MaxBytes \in [Peers -> Nat]
  /\ Impatient \subseteq Peers /\ Duplicating \in BOOLEAN
  /\ Pow32 % 2 = 0
  /\ \A p \in Peers : MaxBytes[p] + Capacity + 2 < Half32

VARIABLES conn,        \* the two connections
          net,         \* net[p]: the segments that can still reach p
          got          \* history: got[p] is what p's owner has read

vars == <<conn, net, got>>

Other(p) == IF p = Client THEN Server ELSE Client

Config(p) == [send_capacity |-> Capacity, recv_capacity |-> Capacity, rt_timeout |-> RetxTimeout,
              isn |-> IF p = Client THEN ClientISN ELSE ServerISN]

Init ==
  /\ conn = [p \in Peers |-> New(Config(p))]
  /\ net = [p \in Peers |-> {}]
  /\ got = [p \in Peers |-> << >>]

\* Connection p becomes c, and what it wants sent goes into the network.
Becomes(p, c, consumed) ==
  /\ conn' = [conn EXCEPT ![p] = [c EXCEPT !.segments_out = << >>]]
  /\ net' = [net EXCEPT ![Other(p)] = @ \cup {c.segments_out[i] : i \in DOMAIN c.segments_out},
                        ![p] = @ \ consumed]

Connect ==
  /\ conn[Client].active /\ conn[Client].sender.next_seqno = 0
  /\ Becomes(Client, connect(conn[Client]), {})
  /\ UNCHANGED got

\* A listening endpoint has no owner yet (tcp_sponge_socket.cc): it writes and
\* ends its stream only once it has sent its SYN.
Started(p) == conn[p].active /\ conn[p].sender.next_seqno > 0

Write(p, n) ==
  LET written == BS!bytes_written(conn[p].sender.stream)
  IN  /\ Started(p) /\ ~BS!input_ended(conn[p].sender.stream)
      /\ n <= remaining_outbound_capacity(conn[p])
      /\ written + n <= MaxBytes[p]
      /\ Becomes(p, write(conn[p], [i \in 1 .. n |-> written + i]), {})
      /\ UNCHANGED got

EndInputStream(p) ==
  /\ Started(p) /\ ~BS!input_ended(conn[p].sender.stream)
  /\ Becomes(p, end_input_stream(conn[p]), {})
  /\ UNCHANGED got

Read(p, len) ==
  /\ len <= BS!buffer_size(inbound_stream(conn[p]))
  /\ conn' = [conn EXCEPT ![p].receiver.reassembler.output = BS!read(@, len)]
  /\ got' = [got EXCEPT ![p] = @ \o BS!peek_output(inbound_stream(conn[p]), len)]
  /\ UNCHANGED net

SegmentReceived(p, seg) ==
  /\ conn[p].active
  /\ Becomes(p, segment_received(conn[p], seg), IF Duplicating THEN {} ELSE {seg})
  /\ UNCHANGED got

Tick(p, ms) ==
  /\ conn[p].active
  /\ Becomes(p, tick(conn[p], ms), {})
  /\ UNCHANGED got

\* The owner drops a connection that is still active: the destructor queues a RST
\* in segments_out, which is destroyed with the connection.
Abandon(p) ==
  /\ p \in Impatient /\ Started(p)
  /\ conn' = [conn EXCEPT ![p] = [Destroy(@) EXCEPT !.segments_out = << >>]]
  /\ UNCHANGED <<net, got>>

Next ==
  \/ Connect
  \/ \E p \in Peers :
       \/ \E n \in 1 .. Capacity : Write(p, n)
       \/ EndInputStream(p)
       \/ \E len \in 1 .. Capacity : Read(p, len)
       \/ \E seg \in net[p] : SegmentReceived(p, seg)
       \/ \E ms \in 1 .. MaxTick : Tick(p, ms)
       \/ Abandon(p)

Spec == Init /\ [][Next]_vars

\* A tick of p changes something.
TickMatters(p) ==
  LET c == tick(conn[p], 1)
  IN  /\ conn[p].active
      /\ \/ [c EXCEPT !.segments_out = << >>] # conn[p]
         \/ \E i \in DOMAIN c.segments_out : c.segments_out[i] \notin net[Other(p)]

\* The event loop calls tick and lets the owner read again and again, every
\* owner ends its stream some day, and the network does not stop delivering.
\* Each conjunct is the weak fairness of an action, with the condition under
\* which it is enabled written out: TLC evaluates it faster than ENABLED.
Fairness ==
  /\ WF_vars(Connect)
  /\ \A p \in Peers :
       /\ \/ []<>(~Started(p) \/ BS!input_ended(conn[p].sender.stream))
          \/ []<><<EndInputStream(p)>>_vars
       /\ \/ []<>BS!buffer_empty(inbound_stream(conn[p]))
          \/ []<><<\E len \in 1 .. Capacity : Read(p, len)>>_vars
       /\ \/ []<>(net[p] = {} \/ ~conn[p].active)
          \/ []<><<\E seg \in net[p] : SegmentReceived(p, seg)>>_vars
       /\ \/ []<>~TickMatters(p)
          \/ []<><<Tick(p, 1)>>_vars

FairSpec == Spec /\ Fairness

--------------------------------------------------------------------------------

Snd(p) == conn[p].sender
Rcv(p) == conn[p].receiver
Failed(p) == Snd(p).stream.error

\* End to end, the bytes one owner reads are the first bytes the other wrote, in
\* order, and the end of the stream is only reported after all of them.
EndToEnd ==
  \A p \in Peers :
    LET in   == got[p] \o inbound_stream(conn[p]).buffer
        sent == Snd(Other(p)).stream
    IN  /\ in = [i \in 1 .. Len(in) |-> i]
        /\ Len(in) <= BS!bytes_read(sent)
        /\ BS!input_ended(inbound_stream(conn[p])) =>
             BS!eof(sent) /\ Len(in) = BS!bytes_written(sent)

\* A sender forgets nothing that the other endpoint's receiver does not have:
\* the first unacknowledged number is never beyond the receiver's ackno, which
\* is never beyond what was sent.
AckedIsReceived ==
  \A p \in Peers :
    LET first == Snd(p).next_seqno - Snd(p).in_flights
        ack   == IF Rcv(Other(p)).syned THEN R!AbsAckno(Rcv(Other(p))) ELSE 0
    IN  first <= ack /\ ack <= Snd(p).next_seqno

\* A connection that is over without an error has delivered both streams.
CleanCloseIsComplete ==
  \A p \in Peers : (~conn[p].active /\ ~Failed(p)) =>
    /\ BS!input_ended(inbound_stream(conn[p]))
    /\ BS!input_ended(inbound_stream(conn[Other(p)]))
    /\ FinSent(conn[p])

\* tcp_connection.hh:19: an endpoint stays and keeps acknowledging after both
\* streams have ended in case the other does not know that its stream has
\* arrived; it goes at once only if the other knows.
GoesAtOnceOnlyIfPeerKnows ==
  \A p \in Peers :
    (~conn[p].active /\ ~Failed(p) /\ conn[p].since_time_wait < LingerFactor * RetxTimeout) =>
      (Failed(Other(p)) \/ (FinSent(conn[Other(p)]) /\ Snd(Other(p)).in_flights = 0))

\* tcp_connection.hh:98, "destructor sends a RST if the connection is still open",
\* and tcp_connection.cc:167: an endpoint that fails has been told so by the other
\* or tells the other.
FailsTogether ==
  [][\A p \in Peers : (~Failed(p) /\ Failed(p)') =>
       (\E seg \in net[p] : seg.rst) \/ (\E seg \in net'[Other(p)] : seg.rst)]_vars

\* A connection that was opened is over some day, cleanly or not: no reordering
\* of data, FINs and acknowledgments leaves an endpoint waiting for ever.
Terminates == \A p \in Peers : Started(p) ~> ~conn[p].active

\* tcp_connection.cc:210-213: whatever the window, the FIN can be sent for certain.
FinAlwaysSent ==
  \A p \in Peers : (Started(p) /\ BS!input_ended(Snd(p).stream)) ~> (FinSent(conn[p]) \/ ~conn[p].active)

================================================================================
