------------------------------ MODULE MCReceiver -------------------------------
(***************************************************************************)
(* ReceiverSystem for TLC: distinct bytes, every initial sequence number,  *)
(* and the loops of unwrap as they are written in the source, to check the *)
(* closed form of WrappingIntegers against.                                *)
(***************************************************************************)
EXTENDS ReceiverSystem

CONSTANT StreamLen

MCByte == 1 .. StreamLen
MCStream == [i \in 1 .. StreamLen |-> i]

\* wrapping_integers.cc:51-54.
RECURSIVE RaiseN(_, _)
RaiseN(raw, ISN) == IF raw < ISN THEN RaiseN(raw + Pow32, ISN) ELSE raw

\* wrapping_integers.cc:65-70.
RECURSIVE Raise(_, _)
Raise(abs, cp) == IF cp >= abs THEN Raise(abs + Pow32, cp) ELSE abs

UnwrapLoop(raw, ISN, cp) ==
  LET abs == RaiseN(raw, ISN) - ISN
      m   == (cp - abs) \div Pow32
      up  == Raise(abs + Pow32 * m, cp)
  IN  IF abs >= cp THEN abs
      ELSE IF up < Pow32 THEN up
      ELSE IF up - cp >= cp - (up - Pow32) THEN up - Pow32 ELSE up

\* The closed form of unwrap computes what the loops of the code compute, for every
\* number a segment can carry and for checkpoints up to three rounds after the one
\* the receiver has reached.
UnwrapMatchesLoops ==
  \A raw \in WrappingInt32, round \in 0 .. 3 :
    LET cp == SR!bytes_written(rcv.reassembler) + round * Pow32
    IN  unwrap(raw, isn, cp) = UnwrapLoop(raw, isn, cp)

================================================================================
