--------------------------- MODULE StreamReassembler ---------------------------
(***************************************************************************)
(* libsponge/stream_reassembler: substrings of a stream that arrive out of *)
(* order, repeatedly and overlapping are stored in the map m, from the     *)
(* index of a substring's last byte to the substring, and move to the      *)
(* output stream as soon as they continue it.                              *)
(*                                                                         *)
(* The loops of AddTempCash are written in closed form; MCReassembler      *)
(* checks them against the loops.                                          *)
(***************************************************************************)
EXTENDS MachineIntegers, Sequences, FiniteSetsExt

BS == INSTANCE ByteStream

New(cap) == [output |-> BS!New(cap), capacity |-> cap, unassembled |-> 0,
             m |-> << >>, endIdx |-> SIZE_MAX]

unassembled_bytes(r) == r.unassembled
empty(r) == r.unassembled = 0

\* The index of the first byte of the substring stored under k.
Left(m, k) == k - Len(m[k]) + 1

bytes_written(r) == BS!bytes_written(r.output)

\* Mutant: room that the reader makes is not given out again.
Edge_fixed(r) == r.capacity - 1

\* The index of the last byte there is room for.
Edge(r) == BS!bytes_read(r.output) + r.capacity - 1

\* Negative when index rb does not fit; the size_t difference becomes an int.
overflow(r, rb) == Int32(Edge(r) - rb)

\* Mutant: the last byte both strings hold is appended again.
Join_off_by_one(left, right, in1, in2) ==
  IF in2 + Len(right) <= in1 + Len(left) THEN left
  ELSE left \o SubSeq(right, in1 + Len(left) - in2, Len(right))

\* left starts at in1, right at in2 >= in1, and they overlap or touch.
Join(left, right, in1, in2) ==
  IF in2 + Len(right) <= in1 + Len(left) THEN left
  ELSE left \o SubSeq(right, in1 + Len(left) - in2 + 1, Len(right))

combine(s1, s2, index1, index2) ==
  IF index1 < index2 THEN Join(s1, s2, index1, index2) ELSE Join(s2, s1, index2, index1)

\* Mutant: an overlap with a substring that starts before lb goes unnoticed.
Touched_inside(m, lb, rb) == {k \in DOMAIN m : Left(m, k) >= lb /\ Left(m, k) <= rb}

\* The keys of the stored substrings that overlap lb .. rb: from lower_bound(lb)
\* on, as long as they start at or before rb.
Touched(m, lb, rb) == {k \in DOMAIN m : k >= lb /\ Left(m, k) <= rb}

\* The sum of the lengths of the substrings under keys.
Bytes(m, keys) == Cardinality(UNION {{k} \X DOMAIN m[k] : k \in keys})

\* Mutant: an overlapped substring is replaced instead of merged.
Insert_replacing(r, d, lb, rb) ==
  LET touched == Touched(r.m, lb, rb)
  IN  [r EXCEPT !.m = [k \in (DOMAIN r.m \ touched) \cup {rb} |-> IF k = rb THEN d ELSE r.m[k]],
                !.unassembled = @ + (rb - lb + 1) - Bytes(r.m, touched)]

\* Store d, which lies at lb .. rb, merged with every substring it overlaps:
\* icount is the length of the merged substring, ecount what it replaces.
Insert(r, d, lb, rb) ==
  LET m       == r.m
      touched == Touched(m, lb, rb)
      first   == Min(touched)
      last    == Max(touched)
      start   == Min({lb, Left(m, first)})
      ins     == combine(m[last], combine(m[first], d, Left(m, first), lb), Left(m, last), start)
      right   == Max({rb, last})
      icount  == right - start + 1
      ecount  == Bytes(m, touched)
  IN  IF touched = {}
      THEN [r EXCEPT !.m = [k \in DOMAIN m \cup {rb} |-> IF k = rb THEN d ELSE m[k]],
                     !.unassembled = @ + (rb - lb + 1)]
      ELSE [r EXCEPT
              !.m = [k \in (DOMAIN m \ touched) \cup {right} |-> IF k = right THEN ins ELSE m[k]],
              !.unassembled = @ + icount - ecount]

\* Mutant: only one substring moves to the output per call.
Ready_first(r) == {k \in DOMAIN r.m : Left(r.m, k) = bytes_written(r)}

\* The keys of the stored substrings that continue the output without a gap.
Ready(r) ==
  {k \in DOMAIN r.m : \A i \in bytes_written(r) .. k :
                        \E h \in DOMAIN r.m : i \in Left(r.m, h) .. h}

\* The byte the map holds for index i.
Stored(m, i) == LET k == CHOOSE h \in DOMAIN m : i \in Left(m, h) .. h
                IN  m[k][i - Left(m, k) + 1]

\* Move the substrings that continue the output to it.
Flush(r) ==
  LET ready == Ready(r)
      chunk == [i \in 1 .. Max(ready) - bytes_written(r) + 1 |->
                  Stored(r.m, bytes_written(r) + i - 1)]
  IN  IF ready = {} THEN r
      ELSE [r EXCEPT !.output = BS!write(@, chunk),
                     !.m = [k \in DOMAIN r.m \ ready |-> r.m[k]],
                     !.unassembled = @ - Bytes(r.m, ready)]

\* Mutant: data that does not fit entirely is dropped instead of cut.
AddTempCash_all_or_nothing(r, data, index) ==
  IF data = << >> \/ index < bytes_written(r) \/ overflow(r, index + Len(data) - 1) < 0 THEN r
  ELSE Flush(Insert(r, data, index, index + Len(data) - 1))

\* Cut data to what is neither written yet nor beyond the capacity, store it,
\* and write what is now contiguous.
AddTempCash(r, data, index) ==
  LET whole == index + Len(data) - 1
      lb    == IF index < bytes_written(r) THEN bytes_written(r) ELSE index
      rb    == IF overflow(r, whole) < 0 THEN Edge(r) ELSE whole
      d     == SubSeq(data, lb - index + 1, rb - index + 1)
  IN  IF \/ data = << >>
         \/ index < bytes_written(r) /\ whole < bytes_written(r)
         \/ overflow(r, whole) < 0 /\ overflow(r, lb) < 0
      THEN r
      ELSE Flush(Insert(r, d, lb, rb))

\* Mutant: the stream ends as soon as the substring marked eof arrives.
push_substring_ending_early(r, data, index, eof) ==
  LET pushed == AddTempCash(r, data, index)
  IN  IF eof THEN [pushed EXCEPT !.output = BS!end_input(@)] ELSE pushed

push_substring(r, data, index, eof) ==
  LET marked == IF eof THEN [r EXCEPT !.endIdx = index + Len(data)] ELSE r
      pushed == AddTempCash(marked, data, index)
  IN  IF bytes_written(pushed) = pushed.endIdx
      THEN [pushed EXCEPT !.output = BS!end_input(@)]
      ELSE pushed

================================================================================
