------------------------------ MODULE MCConnection -----------------------------
(***************************************************************************)
(* ConnectionSystem for TLC.                                               *)
(***************************************************************************)
EXTENDS ConnectionSystem

CONSTANTS ClientBytes, ServerBytes

MCMaxBytes == [p \in Peers |-> IF p = Client THEN ClientBytes ELSE ServerBytes]

================================================================================
