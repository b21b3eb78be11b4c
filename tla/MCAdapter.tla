-------------------------------- MODULE MCAdapter ------------------------------
(***************************************************************************)
(* AdapterSystem for TLC: a server, two clients that share an IP address   *)
(* and one that shares the port of the first.                              *)
(***************************************************************************)
EXTENDS AdapterSystem

CONSTANTS A, B, C

MCClients == [k \in Kinds |-> IF k = "tap" THEN {A, B} ELSE {A, B, C}]

Address(ip, port) == [ip |-> ip, port |-> port]

MCHostAddress ==
  (Server :> Address(<<43518, 36873>>, 1024)) @@ (A :> Address(<<2560, 1>>, 50000))
    @@ (B :> Address(<<2560, 1>>, 50001)) @@ (C :> Address(<<2560, 2>>, 50000))

MCHostEthernet ==
  [h \in AllHosts |-> [NoAddress EXCEPT ![1] = 2,
                      ![6] = CASE h = Server -> 9 [] h = A -> 1 [] h = B -> 2 [] h = C -> 3]]

\* The clients reach the server, and the server the address that A and B share.
MCNextHop == [h \in AllHosts |-> IF h = Server THEN <<2560, 1>> ELSE HostAddress[Server].ip]

\* A SYN with a sequence number of all ones, and a segment with a payload of odd length.
SYN == [header |-> [TCPHeader EXCEPT !.seqno = <<65535, 65535>>, !.flags = 2, !.win = 64000],
        payload |-> << >>]
Data == [header |-> [TCPHeader EXCEPT !.seqno = <<0, 255>>, !.ackno = <<32768, 1>>, !.flags = 16],
         payload |-> <<255>>]

\* The adapters do not tell segments of a stranger apart once they have a peer.  On
\* the Ethernet B only answers requests for the address it shares with A.
MCSegments ==
  [k \in Kinds |-> (Server :> {Data}) @@ (A :> {SYN, Data})
                     @@ (B :> IF k = "tap" THEN {} ELSE {SYN}) @@ (C :> {Data})]

================================================================================
