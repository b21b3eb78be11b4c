-------------------------------- MODULE SocketPair -----------------------------
(***************************************************************************)
(* The connected pair of AF_UNIX stream sockets of a TCPSpongeSocket, as   *)
(* the kernel implements it, with what util/file_descriptor and            *)
(* util/socket add: the flag that a read has met the end.                  *)
(***************************************************************************)
EXTENDS Integers, Sequences

CONSTANT PipeSize      \* how many bytes one direction of the pair holds

Ends == {"owner", "thread"}
Opposite(e) == IF e = "owner" THEN "thread" ELSE "owner"

\* data[e]: the bytes that e can read; rd and wr: the ends shut down for reading
\* and for writing; eof: the ends at which a read has returned nothing.
NewPair == [data |-> [e \in Ends |-> << >>], rd |-> {}, wr |-> {}, eof |-> {}]

\* poll(2): a read would not block, a write would not block, hung up.
Readable(p, e) == p.data[e] # << >> \/ e \in p.rd
Writable(p, e) == Len(p.data[Opposite(e)]) < PipeSize
HangUp(p, e) == e \in p.rd /\ e \in p.wr

\* What is shut down at one end for one direction is so at the other for the other.
shutdown_RD(p, e) == [p EXCEPT !.rd = @ \cup {e}, !.wr = @ \cup {Opposite(e)}]
shutdown_WR(p, e) == [p EXCEPT !.wr = @ \cup {e}, !.rd = @ \cup {Opposite(e)}]
shutdown_RDWR(p, e) == shutdown_WR(shutdown_RD(p, e), e)

Least(m, n) == IF m <= n THEN m ELSE n

\* FileDescriptor::read of a readable end: what there is, up to limit bytes.
ReadBytes(p, e, limit) == SubSeq(p.data[e], 1, Least(limit, Len(p.data[e])))
AfterRead(p, e, limit) ==
  [p EXCEPT !.data[e] = SubSeq(@, Len(ReadBytes(p, e, limit)) + 1, Len(@)),
            !.eof = IF limit > 0 /\ p.data[e] = << >> THEN @ \cup {e} ELSE @]

\* FileDescriptor::write of a writable end, not insisting on all of it.
BytesWritten(p, e, buffer) == Least(Len(buffer), PipeSize - Len(p.data[Opposite(e)]))
AfterWrite(p, e, buffer) ==
  [p EXCEPT !.data[Opposite(e)] = @ \o SubSeq(buffer, 1, BytesWritten(p, e, buffer))]

\* writev(2) raises SIGPIPE, which nothing in the program handles or ignores; with
\* nothing to write it does nothing.
BrokenPipe(p, e, buffer) == e \in p.wr /\ buffer # << >>

================================================================================
