---------------------------- MODULE MCReassembler ------------------------------
(***************************************************************************)
(* ReassemblerSystem for TLC, with the loops of AddTempCash as they are    *)
(* written in the source, to check the closed forms against.               *)
(***************************************************************************)
EXTENDS ReassemblerSystem

CONSTANT StreamLen

\* A stream of distinct bytes: a misplaced byte cannot go unnoticed.
MCByte == 1 .. StreamLen
MCStream == [i \in 1 .. StreamLen |-> i]

After(m, k) == {h \in DOMAIN m : h > k}

\* stream_reassembler.cc:165-171 from key k on: the last overlapped key and ecount.
RECURSIVE Walk(_, _, _, _)
Walk(m, k, rb, ecount) ==
  LET count == ecount + Len(m[k])
      rest  == After(m, k)
  IN  IF rest = {} \/ Left(m, Min(rest)) > rb THEN <<k, count>>
      ELSE Walk(m, Min(rest), rb, count)

\* stream_reassembler.cc:134-187.
InsertLoop(s, d, lb, rb) ==
  LET m    == s.m
      from == {k \in DOMAIN m : k >= lb}
      fit  == Min(from)
      walk == Walk(m, fit, rb, 0)
      eit  == walk[1]
      start == Min({lb, Left(m, fit)})
      ins  == combine(m[eit], combine(m[fit], d, Left(m, fit), lb), Left(m, eit), start)
      kept == {k \in DOMAIN m : k < fit \/ k > eit}
      key  == Max({rb, eit})
  IN  IF from = {} \/ Left(m, fit) > rb
      THEN [s EXCEPT !.m = [k \in DOMAIN m \cup {rb} |-> IF k = rb THEN d ELSE m[k]],
                     !.unassembled = @ + (rb - lb + 1)]
      ELSE [s EXCEPT !.m = [k \in kept \cup {key} |-> IF k = key THEN ins ELSE m[k]],
                     !.unassembled = @ + (key - start + 1) - walk[2]]

\* stream_reassembler.cc:198-209.
RECURSIVE FlushLoop(_)
FlushLoop(s) ==
  LET be == Min(DOMAIN s.m)
  IN  IF DOMAIN s.m = {} \/ bytes_written(s) # Left(s.m, be) THEN s
      ELSE FlushLoop([s EXCEPT !.output = BS!write(@, s.m[be]),
                               !.unassembled = @ - Len(s.m[be]),
                               !.m = [k \in DOMAIN s.m \ {be} |-> s.m[k]]])

\* Insert and Flush compute what the loops of the code compute, for every piece
\* of the stream that AddTempCash can come to store.
LoopsMatch ==
  \A lb \in bytes_written(r) .. Edge(r) : \A rb \in lb .. Min({Edge(r), N - 1}) :
    LET d == SubSeq(Stream, lb + 1, rb + 1)
    IN  /\ Insert(r, d, lb, rb) = InsertLoop(r, d, lb, rb)
        /\ Flush(Insert(r, d, lb, rb)) = FlushLoop(InsertLoop(r, d, lb, rb))

================================================================================
