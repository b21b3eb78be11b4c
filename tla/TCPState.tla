-------------------------------- MODULE TCPState -------------------------------
(***************************************************************************)
(* libsponge/tcp_helpers/tcp_state: a summary of a connection by the state *)
(* of its sender, of its receiver and its two flags, and the states of RFC *)
(* 793 in these terms.                                                     *)
(***************************************************************************)
EXTENDS Integers, Sequences

CONSTANTS Pow32, MAX_PAYLOAD_SIZE

BS == INSTANCE ByteStream

\* state_summary of a TCPReceiver.
ReceiverSummary(rcv) ==
  IF rcv.reassembler.output.error THEN "ERROR"
  ELSE IF ~rcv.syned THEN "LISTEN"
  ELSE IF BS!input_ended(rcv.reassembler.output) THEN "FIN_RECV"
  ELSE "SYN_RECV"

\* state_summary of a TCPSender.
SenderSummary(snd) ==
  IF snd.stream.error THEN "ERROR"
  ELSE IF snd.next_seqno = 0 THEN "CLOSED"
  ELSE IF snd.next_seqno = snd.in_flights THEN "SYN_SENT"
  ELSE IF ~BS!eof(snd.stream) \/ snd.next_seqno < BS!bytes_written(snd.stream) + 2 THEN "SYN_ACKED"
  ELSE IF snd.in_flights > 0 THEN "FIN_SENT"
  ELSE "FIN_ACKED"

Summary(snd, rcv, active, linger) ==
  [sender |-> SenderSummary(snd), receiver |-> ReceiverSummary(rcv),
   active |-> active, linger |-> active /\ linger]

\* TCPState(State): the official states.
Open(sender, receiver, linger) ==
  [sender |-> sender, receiver |-> receiver, active |-> TRUE, linger |-> linger]
Over(sender, receiver) ==
  [sender |-> sender, receiver |-> receiver, active |-> FALSE, linger |-> FALSE]

Official ==
  [LISTEN      |-> Open("CLOSED", "LISTEN", TRUE),
   SYN_RCVD    |-> Open("SYN_SENT", "SYN_RECV", TRUE),
   SYN_SENT    |-> Open("SYN_SENT", "LISTEN", TRUE),
   ESTABLISHED |-> Open("SYN_ACKED", "SYN_RECV", TRUE),
   CLOSE_WAIT  |-> Open("SYN_ACKED", "FIN_RECV", FALSE),
   LAST_ACK    |-> Open("FIN_SENT", "FIN_RECV", FALSE),
   CLOSING     |-> Open("FIN_SENT", "FIN_RECV", TRUE),
   FIN_WAIT_1  |-> Open("FIN_SENT", "SYN_RECV", TRUE),
   FIN_WAIT_2  |-> Open("FIN_ACKED", "SYN_RECV", TRUE),
   TIME_WAIT   |-> Open("FIN_ACKED", "FIN_RECV", TRUE),
   RESET       |-> Over("ERROR", "ERROR"),
   CLOSED      |-> Over("FIN_ACKED", "FIN_RECV")]

================================================================================
