----------------------------- MODULE MCByteStream ------------------------------
(***************************************************************************)
(* ByteStreamSystem for TLC: the bytes are model values of the cfg.        *)
(***************************************************************************)
EXTENDS ByteStreamSystem
================================================================================
