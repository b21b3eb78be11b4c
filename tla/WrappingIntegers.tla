---------------------------- MODULE WrappingIntegers ---------------------------
(***************************************************************************)
(* libsponge/wrapping_integers: 32-bit sequence numbers relative to an     *)
(* initial sequence number, and 64-bit absolute sequence numbers.          *)
(***************************************************************************)
EXTENDS MachineIntegers

\* A WrappingInt32 is its raw value.
WrappingInt32 == 0 .. Pow32 - 1

wrap(n, isn) == (n + isn) % Pow32

\* The first while loop of unwrap: N is raised by 2^32 when it is below ISN.
Offset(n, isn) == IF n < isn THEN n + Pow32 - isn ELSE n - isn

\* The candidate at or below the checkpoint that the division by BIG finds;
\* the second while loop then adds BIG exactly once.
LastBelow(abs, checkpoint) == abs + Pow32 * ((checkpoint - abs) \div Pow32)

\* Mutant: of two numbers equally close the larger one is taken.
unwrap_other_tie(n, isn, checkpoint) ==
  LET abs   == Offset(n, isn)
      below == LastBelow(abs, checkpoint)
      above == below + Pow32
  IN  IF abs >= checkpoint THEN abs
      ELSE IF above - checkpoint > checkpoint - below THEN below ELSE above

unwrap(n, isn, checkpoint) ==
  LET abs   == Offset(n, isn)
      below == LastBelow(abs, checkpoint)
      above == below + Pow32
  IN  IF abs >= checkpoint THEN abs
      ELSE IF above - checkpoint >= checkpoint - below THEN below ELSE above

\* How far apart two absolute sequence numbers are, for stating what unwrap does.
Distance(a, b) == IF a <= b THEN b - a ELSE a - b

================================================================================
