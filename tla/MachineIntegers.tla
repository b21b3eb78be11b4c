---------------------------- MODULE MachineIntegers ----------------------------
(***************************************************************************)
(* The integer types of the C++ code.  Pow32 stands for 2^32, the number   *)
(* of values of uint32_t and of int; a model gives it a small value so     *)
(* that wrap-around is reached within a few bytes.  size_t and uint64_t    *)
(* have Pow32^2 values.                                                    *)
(***************************************************************************)
EXTENDS Integers

CONSTANT Pow32

Half32 == Pow32 \div 2

\* Conversion to int: two's complement, the representation of every build target.
Int32(x) == ((x + Half32) % Pow32) - Half32

\* Conversion to size_t or uint64_t.
Size(x) == x % (Pow32 * Pow32)

\* The largest size_t, used by the code as "no index".
SIZE_MAX == Pow32 * Pow32 - 1

================================================================================
