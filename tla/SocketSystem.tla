------------------------------- MODULE SocketSystem ----------------------------
(***************************************************************************)
(* A TCPSpongeSocket in use: the owner's thread, the TCP thread and a peer *)
(* that sends its stream in order, within the window, and acknowledges     *)
(* what it likes of what it was sent, or resets the connection.            *)
(*                                                                         *)
(* The TCP thread is between two steps of _tcp_loop or before one of the   *)
(* rules of a round (pc); the owner can act there.  While the connection   *)
(* is opened the loop runs in the owner's thread.  The owner writes only   *)
(* to a socket that is not shut down (the kernel would kill it), calls     *)
(* wait_until_closed only after an end of file, as its comment advises,    *)
(* and may destroy the socket whenever it likes.                           *)
(***************************************************************************)
EXTENDS EventLoop

CONSTANTS Modes,            \* how the socket may be opened
          ISN, PeerISN,
          SendCapacity, RecvCapacity, RetxTimeout,
          PeerWindow,       \* the window the peer advertises
          MaxOut, MaxIn     \* bounds: bytes the owner writes, bytes the peer sends

ASSUME SocketAssumption ==
  /\ Modes \subseteq {"connect", "listen"}
  /\ {ISN, PeerISN} \subseteq WrappingInt32
  /\ {SendCapacity, RecvCapacity, RetxTimeout, PipeSize, MaxWrite, PeerWindow,
      MAX_PAYLOAD_SIZE, LingerFactor, Pow16, Pow32} \subseteq Nat \ {0}
  /\ {MaxOut, MaxIn, MAX_RETX_ATTEMPTS} \subseteq Nat
  /\ Pow32 % 2 = 0 /\ MaxIn + MaxOut + RecvCapacity + 2 < Half32

VARIABLES sock,      \* the TCPSpongeSocket
          pc,        \* where _tcp_loop is, or "ended" or "killed"
          phase,     \* "none", how the connection is being opened, or "main"
          owner,     \* what the owner has done: bytes written and read, shutdown, join
          peer       \* the peer's next sequence number, whether it has ended or reset

vars == <<sock, pc, phase, owner, peer>>

Config == [send_capacity |-> SendCapacity, recv_capacity |-> RecvCapacity,
           rt_timeout |-> RetxTimeout, isn |-> ISN]

Init ==
  /\ sock = NewSocket(Config)
  /\ pc = "idle" /\ phase = "none"
  /\ owner = [wrote |-> 0, got |-> << >>, shut |-> FALSE, join |-> "no"]
  /\ peer = [next |-> 0, fin |-> FALSE, rst |-> FALSE]

--------------------------------------------------------------------------------

\* connect and listen_and_accept, up to their _tcp_loop.
Open(mode) ==
  /\ pc = "idle" /\ mode \in Modes
  /\ sock' = IF mode = "connect" THEN [sock EXCEPT !.tcp = connect(@)] ELSE sock
  /\ phase' = mode /\ pc' = "loop"
  /\ UNCHANGED <<owner, peer>>

\* The condition of _tcp_loop.
KeepsLooping ==
  CASE phase = "connect" -> state(sock.tcp) = T!Official.SYN_SENT
    [] phase = "listen"  -> state(sock.tcp) \in {T!Official.LISTEN, T!Official.SYN_RCVD,
                                                 T!Official.SYN_SENT}
    [] OTHER -> TRUE

\* _tcp_loop is left with the socket s: the TCP thread starts, or ends.
Leave(s) ==
  IF phase = "main" THEN sock' = Finish(s) /\ pc' = "ended" /\ UNCHANGED phase
  ELSE sock' = s /\ phase' = "main" /\ pc' = "loop"

abort == owner.join = "abort"

\* The rest of the loop's body, ms after the last time.
FinishRound(s, ms) ==
  IF abort THEN Leave(s)
  ELSE /\ sock' = IF s.tcp.active THEN [s EXCEPT !.tcp = tick(@, ms)] ELSE s
       /\ pc' = "loop" /\ UNCHANGED phase

Opened ==
  /\ pc = "loop" /\ ~KeepsLooping
  /\ Leave(sock)
  /\ UNCHANGED <<owner, peer>>

\* wait_next_event returns Exit.
LoopExit ==
  /\ pc = "loop" /\ KeepsLooping
  /\ NothingToPoll(Setup(sock))
  /\ Leave(Setup(sock))
  /\ UNCHANGED <<owner, peer>>

\* poll returns 0 after TCP_TICK_MS.
PollTimeout ==
  LET s == Polled(Setup(sock))
  IN  /\ pc = "loop" /\ KeepsLooping
      /\ ~NothingToPoll(s) /\ TimedOut(s)
      /\ FinishRound(s, 1)
      /\ UNCHANGED <<owner, peer>>

\* poll reports something.
PollSuccess ==
  LET s == Polled(Setup(sock))
  IN  /\ pc = "loop" /\ KeepsLooping
      /\ ~NothingToPoll(s) /\ ~TimedOut(s)
      /\ sock' = s
      /\ pc' = IF s.loop.todo = << >> THEN "served" ELSE "serving"
      /\ UNCHANGED <<phase, owner, peer>>

ServeRule ==
  LET s == ServeNext(sock)
  IN  /\ pc = "serving"
      /\ sock' = s
      /\ pc' = IF s.signal THEN "killed" ELSE IF s.loop.todo = << >> THEN "served" ELSE "serving"
      /\ UNCHANGED <<phase, owner, peer>>

Tick(ms) ==
  /\ pc = "served"
  /\ FinishRound(sock, ms)
  /\ UNCHANGED <<owner, peer>>

--------------------------------------------------------------------------------

\* The owner is in control of the socket: it is open, and it has not begun to join.
OwnerActs == phase = "main" /\ pc # "killed" /\ owner.join = "no"

OwnerWrite ==
  /\ OwnerActs /\ ~owner.shut /\ owner.wrote < MaxOut
  /\ "owner" \notin sock.pair.wr /\ Writable(sock.pair, "owner")
  /\ sock' = [sock EXCEPT !.pair = AfterWrite(@, "owner", <<owner.wrote + 1>>)]
  /\ owner' = [owner EXCEPT !.wrote = @ + 1]
  /\ UNCHANGED <<pc, phase, peer>>

OwnerShutdown ==
  /\ OwnerActs /\ ~owner.shut
  /\ sock' = [sock EXCEPT !.pair = shutdown_WR(@, "owner")]
  /\ owner' = [owner EXCEPT !.shut = TRUE]
  /\ UNCHANGED <<pc, phase, peer>>

OwnerRead ==
  /\ OwnerActs /\ Readable(sock.pair, "owner") /\ "owner" \notin sock.pair.eof
  /\ sock' = [sock EXCEPT !.pair = AfterRead(@, "owner", PipeSize)]
  /\ owner' = [owner EXCEPT !.got = @ \o ReadBytes(sock.pair, "owner", PipeSize)]
  /\ UNCHANGED <<pc, phase, peer>>

wait_until_closed ==
  /\ OwnerActs /\ "owner" \in sock.pair.eof
  /\ sock' = [sock EXCEPT !.pair = shutdown_RDWR(@, "owner")]
  /\ owner' = [owner EXCEPT !.shut = TRUE, !.join = "wait"]
  /\ UNCHANGED <<pc, phase, peer>>

\* The destructor.
Destruct ==
  /\ OwnerActs
  /\ owner' = [owner EXCEPT !.join = "abort"]
  /\ UNCHANGED <<sock, pc, phase, peer>>

--------------------------------------------------------------------------------

\* The first sequence number the socket still has to see acknowledged, and the
\* first one it has not sent.
FirstUnacked == sock.tcp.sender.next_seqno - sock.tcp.sender.in_flights
Sent == IF sock.tcp.segments_out = << >> THEN sock.tcp.sender.next_seqno ELSE FirstUnacked

\* A segment of the peer that acknowledges the numbers before abs.
PeerSegment(abs) ==
  [Segment EXCEPT !.seqno = wrap(peer.next, PeerISN), !.win = PeerWindow,
                  !.ack = abs > 0, !.ackno = IF abs > 0 THEN wrap(abs, ISN) ELSE 0]

\* The peer's datagrams arrive one at a time.
Arrives(segs) == sock' = [sock EXCEPT !.inbox = <<segs>>]

PeerQuiet == phase = "none" \/ sock.inbox # << >> \/ peer.rst \/ pc \in {"ended", "killed"}
             \/ ~sock.tcp.active

PeerData(n, fin, abs) ==
  /\ ~PeerQuiet /\ ~peer.fin
  /\ IF peer.next = 0 THEN n = 0 /\ ~fin ELSE abs > 0
  /\ peer.next + n <= MaxIn + 1
  /\ n <= R!window_size(sock.tcp.receiver)
  /\ Arrives({[PeerSegment(abs) EXCEPT !.syn = peer.next = 0, !.fin = fin,
                                       !.payload = [i \in 1 .. n |-> peer.next - 1 + i]]})
  /\ peer' = [peer EXCEPT !.next = IF @ = 0 THEN 1 ELSE @ + n + One(fin), !.fin = fin]
  /\ UNCHANGED <<pc, phase, owner>>

PeerAck ==
  /\ ~PeerQuiet /\ peer.next > 0 /\ FirstUnacked < Sent
  /\ Arrives({PeerSegment(Sent)})
  /\ UNCHANGED <<pc, phase, owner, peer>>

PeerReset ==
  /\ ~PeerQuiet
  /\ Arrives({[PeerSegment(FirstUnacked) EXCEPT !.rst = TRUE]})
  /\ peer' = [peer EXCEPT !.rst = TRUE]
  /\ UNCHANGED <<pc, phase, owner>>

\* A datagram that the adapter rejects: rule 1 reads it and leaves the connection as
\* it is.  (Bound: only before the peer's first segment.)
Noise ==
  /\ ~PeerQuiet /\ peer.next = 0
  /\ Arrives({})
  /\ UNCHANGED <<pc, phase, owner, peer>>

Next ==
  \/ \E mode \in Modes : Open(mode)
  \/ Opened \/ LoopExit \/ PollTimeout \/ PollSuccess \/ ServeRule
  \/ \E ms \in 0 .. 1 : Tick(ms)
  \/ OwnerWrite \/ OwnerShutdown \/ OwnerRead \/ wait_until_closed \/ Destruct
  \/ \E n \in 0 .. MaxIn, fin \in BOOLEAN, abs \in {FirstUnacked, Sent} : PeerData(n, fin, abs)
  \/ PeerAck \/ PeerReset \/ Noise

Spec == Init /\ [][Next]_vars

Thread == Opened \/ LoopExit \/ PollTimeout \/ PollSuccess \/ ServeRule \/ \E ms \in 0 .. 1 : Tick(ms)

\* The TCP thread is in poll, and a tick would change nothing.
Asleep ==
  LET s == Polled(Setup(sock))
  IN  /\ pc = "loop" /\ KeepsLooping
      /\ ~NothingToPoll(s) /\ TimedOut(s) /\ ~abort
      /\ (IF s.tcp.active THEN [s EXCEPT !.tcp = tick(@, 1)] ELSE s) = sock

\* Both threads are scheduled, the clock moves on, and the owner reads what there
\* is to read.  Nothing is assumed of the peer.  The conjuncts are weak fairness of
\* Thread, strong fairness of Tick(1) and weak fairness of OwnerRead, with the
\* conditions under which they are enabled written out for TLC.
Fairness ==
  /\ []<>(pc \in {"idle", "ended", "killed"} \/ Asleep) \/ []<><<Thread>>_vars
  /\ <>[](pc # "served") \/ []<><<Tick(1)>>_vars
  /\ \/ []<>(~OwnerActs \/ ~Readable(sock.pair, "owner") \/ "owner" \in sock.pair.eof)
     \/ []<><<OwnerRead>>_vars

FairSpec == Spec /\ Fairness

--------------------------------------------------------------------------------

In == inbound_stream(sock.tcp)
Out == sock.tcp.sender.stream

\* tcp_sponge_socket.cc, rule 3: what the owner reads, the bytes still in its socket
\* and those still in the inbound stream are together what was received, in order:
\* no partial write, reset or shutdown loses, repeats or moves a byte.
InboundInOrder ==
  owner.got \o sock.pair.data["owner"] \o In.buffer = [i \in 1 .. BS!bytes_written(In) |-> i]

\* tcp_sponge_socket.cc, rule 2: the outbound stream is what the owner wrote, and it
\* ends only after the owner's last byte, although the socket can hang up before that
\* byte is read.
OutboundInOrder ==
  /\ Out.buffer \o sock.pair.data["thread"]
       = [i \in 1 .. owner.wrote - BS!bytes_read(Out) |-> BS!bytes_read(Out) + i]
  /\ BS!input_ended(Out) => owner.shut /\ sock.pair.data["thread"] = << >>

\* The owner meets an end of file only after all of the peer's stream or after an
\* error; and the process is only killed by a write to a socket that was shut down
\* (or by an exception of a callback) if the connection was reset.
EndOfFileIsTrue ==
  /\ "owner" \in sock.pair.eof =>
       In.error \/ (peer.fin /\ owner.got = [i \in 1 .. peer.next - 2 |-> i])
  /\ pc = "killed" => In.error

\* eventloop.hh:44, "Success, //!< At least one Rule was triggered."  The code does
\* not keep to it (README, section 4), so no run has it as a property.
SuccessIsTriggered ==
  [][PollSuccess => sock'.loop.todo # << >>]_vars

\* The owner's join returns: the TCP thread ends after it was told to, after
\* wait_until_closed at an end of file whatever the peer does, and when the
\* connection is over.
ThreadEnds ==
  (phase = "main" /\ (owner.join # "no" \/ ~sock.tcp.active)) ~> pc \in {"ended", "killed"}

================================================================================
