------------------------------- MODULE SpongeSocket ----------------------------
(***************************************************************************)
(* libsponge/tcp_helpers/tcp_sponge_socket: the four rules that connect a  *)
(* TCPConnection to the datagram adapter and to the owner's socket.  A     *)
(* socket is a record:                                                     *)
(*                                                                         *)
(*   tcp                 the TCPConnection                                 *)
(*   pair                the two connected sockets                         *)
(*   inbox               the datagrams that wait at the adapter, each the  *)
(*                       set of the segments the adapter will find in it   *)
(*   inbound_shutdown, outbound_shutdown                                   *)
(*   rules, loop, served the event loop                                    *)
(*   signal              has a write raised SIGPIPE or a callback thrown?  *)
(*                                                                         *)
(* _fully_acked is left out: it only says what has been logged.            *)
(***************************************************************************)
EXTENDS TCPConnection, SocketPair

CONSTANT MaxWrite      \* 65536 in the code: what rule 3 writes at most at once

\* The rules by their number: datagrams in, owner's bytes in, bytes out to the
\* owner, datagrams out.
Rules == <<1, 2, 3, 4>>

\* Mutant: datagrams are waited for whatever the state of the connection.
interest_in_datagrams(s, rule) ==
  LET in == inbound_stream(s.tcp)
  IN  CASE rule = 1 -> TRUE
        [] rule = 2 -> s.tcp.active /\ ~s.outbound_shutdown /\ remaining_outbound_capacity(s.tcp) > 0
        [] rule = 3 -> ~BS!buffer_empty(in) \/ ((BS!eof(in) \/ in.error) /\ ~s.inbound_shutdown)
        [] rule = 4 -> s.tcp.segments_out # << >>

interest(s, rule) ==
  LET in == inbound_stream(s.tcp)
  IN  CASE rule = 1 -> s.tcp.active
        [] rule = 2 -> s.tcp.active /\ ~s.outbound_shutdown /\ remaining_outbound_capacity(s.tcp) > 0
        [] rule = 3 -> ~BS!buffer_empty(in) \/ ((BS!eof(in) \/ in.error) /\ ~s.inbound_shutdown)
        [] rule = 4 -> s.tcp.segments_out # << >>

\* Only rule 2 has something to do when it is cancelled.
cancel(s, rule) ==
  IF rule = 2 THEN [s EXCEPT !.tcp = end_input_stream(@), !.outbound_shutdown = TRUE] ELSE s

\* Rule 1: one datagram is read, which may hold no segment of this connection.
ReceiveDatagram(s) ==
  LET seg == Head(s.inbox)
      tcp == IF seg = {} THEN s.tcp ELSE segment_received(s.tcp, CHOOSE x \in seg : TRUE)
  IN  [s EXCEPT !.tcp = tcp, !.inbox = Tail(@), !.served = {1}]

\* Rule 2: as much as the outbound stream takes is read from the owner's bytes, and
\* the end of them ends the stream.  The callback throws if the stream takes less.
TakeOutbound(s) ==
  LET limit == remaining_outbound_capacity(s.tcp)
      data  == ReadBytes(s.pair, "thread", limit)
      read  == [s EXCEPT !.pair = AfterRead(@, "thread", limit), !.served = {2},
                         !.signal = BS!accepted(s.tcp.sender.stream, data) # Len(data),
                         !.tcp = write(@, data)]
  IN  IF "thread" \in read.pair.eof THEN cancel(read, 2) ELSE read

\* Mutant: what was to be written is popped, not what was written.
GiveInbound_popping_all(s) ==
  LET buffer == BS!peek_output(inbound_stream(s.tcp), MaxWrite)
      popped == [s EXCEPT !.tcp.receiver.reassembler.output = BS!pop_output(@, Len(buffer)),
                          !.pair = AfterWrite(@, "thread", buffer), !.served = {3}]
      in     == inbound_stream(popped.tcp)
  IN  IF BrokenPipe(s.pair, "thread", buffer) THEN [s EXCEPT !.signal = TRUE]
      ELSE IF BS!eof(in) \/ in.error
           THEN [popped EXCEPT !.pair = shutdown_WR(@, "thread"), !.inbound_shutdown = TRUE]
      ELSE popped

\* Mutant: the owner is told of the end as soon as the peer's FIN is there.
GiveInbound_early_end(s) ==
  LET buffer == BS!peek_output(inbound_stream(s.tcp), MaxWrite)
      n      == BytesWritten(s.pair, "thread", buffer)
      popped == [s EXCEPT !.tcp.receiver.reassembler.output = BS!pop_output(@, n),
                          !.pair = AfterWrite(@, "thread", buffer), !.served = {3}]
      in     == inbound_stream(popped.tcp)
  IN  IF BrokenPipe(s.pair, "thread", buffer) THEN [s EXCEPT !.signal = TRUE]
      ELSE IF BS!input_ended(in) \/ in.error
           THEN [popped EXCEPT !.pair = shutdown_WR(@, "thread"), !.inbound_shutdown = TRUE]
      ELSE popped

\* Rule 3: what the owner's socket takes of the inbound stream is popped; after the
\* end of the stream, or an error, the owner will read an end of file.
GiveInbound(s) ==
  LET buffer == BS!peek_output(inbound_stream(s.tcp), MaxWrite)
      n      == BytesWritten(s.pair, "thread", buffer)
      popped == [s EXCEPT !.tcp.receiver.reassembler.output = BS!pop_output(@, n),
                          !.pair = AfterWrite(@, "thread", buffer), !.served = {3}]
      in     == inbound_stream(popped.tcp)
  IN  IF BrokenPipe(s.pair, "thread", buffer) THEN [s EXCEPT !.signal = TRUE]
      ELSE IF BS!eof(in) \/ in.error
           THEN [popped EXCEPT !.pair = shutdown_WR(@, "thread"), !.inbound_shutdown = TRUE]
      ELSE popped

\* Rule 4: everything goes out.
SendDatagrams(s) == [s EXCEPT !.tcp.segments_out = << >>, !.served = {4}]

callback(s, rule) ==
  CASE rule = 1 -> ReceiveDatagram(s)
    [] rule = 2 -> TakeOutbound(s)
    [] rule = 3 -> GiveInbound(s)
    [] rule = 4 -> SendDatagrams(s)

--------------------------------------------------------------------------------

\* Only the owner's socket is ever read to its end; no descriptor is closed while
\* the loop runs.
Defunct(s, rule) == rule = 2 /\ "thread" \in s.pair.eof

\* A datagram can always be sent.
Ready(s, rule) ==
  CASE rule = 1 -> s.inbox # << >>
    [] rule = 2 -> Readable(s.pair, "thread")
    [] rule = 3 -> Writable(s.pair, "thread")
    [] rule = 4 -> TRUE

Hup(s, rule) == rule \in {2, 3} /\ HangUp(s.pair, "thread")

--------------------------------------------------------------------------------

\* No round of the event loop is in progress.
Idle == [asked |-> {}, ready |-> {}, hup |-> {}, todo |-> << >>]

\* The constructor and _initialize_TCP.
NewSocket(cfg) ==
  [tcp |-> New(cfg), pair |-> NewPair, inbox |-> << >>, inbound_shutdown |-> FALSE,
   outbound_shutdown |-> FALSE, rules |-> Rules, loop |-> Idle, served |-> {}, signal |-> FALSE]

\* The end of _tcp_main: the owner's socket is shut down and the connection is
\* destroyed, with whatever its destructor has queued.
Finish(s) ==
  [s EXCEPT !.pair = shutdown_RDWR(@, "owner"), !.loop = Idle,
            !.tcp = [Destroy(@) EXCEPT !.segments_out = << >>]]

================================================================================
