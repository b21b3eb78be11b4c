---------------------------- MODULE OrderedDelivery ----------------------------
(***************************************************************************)
(* What a reassembler promises, without saying how: of a stream of N bytes *)
(* it keeps the set of indices it holds or has handed on.  A substring     *)
(* adds its indices below the edge of the capacity, the reader can take    *)
(* everything before the first gap, and the stream is over when the end is *)
(* known and nothing is missing.                                           *)
(***************************************************************************)
EXTENDS Naturals

CONSTANTS N,          \* the length of the stream
          Capacity    \* bytes held and not yet taken by the reader

VARIABLES have,       \* indices of the bytes accepted so far
          taken,      \* how many bytes the reader has taken
          last,       \* is the end of the stream known?
          ended       \* has the reader been told that no more will come?

vars == <<have, taken, last, ended>>

Init == have = {} /\ taken = 0 /\ last = FALSE /\ ended = FALSE

Complete == have = 0 .. N - 1

\* The bytes lo .. hi - 1 arrive, perhaps marked as the last ones.
Arrive(lo, hi, eof) ==
  /\ have' = have \cup {k \in lo .. hi - 1 : k < taken + Capacity}
  /\ last' = (last \/ eof)
  /\ ended' = (ended \/ (last' /\ Complete'))
  /\ UNCHANGED taken

\* The reader takes n bytes; those before the first gap are there to be taken.
Take(n) ==
  /\ 0 .. taken + n - 1 \subseteq have
  /\ taken' = taken + n
  /\ UNCHANGED <<have, last, ended>>

Next ==
  \/ \E lo, hi \in 0 .. N, eof \in BOOLEAN : lo <= hi /\ (eof => hi = N) /\ Arrive(lo, hi, eof)
  \/ \E n \in 1 .. Capacity : Take(n)

Spec == Init /\ [][Next]_vars

================================================================================
