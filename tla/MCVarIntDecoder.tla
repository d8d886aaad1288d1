-------------------------- MODULE MCVarIntDecoder --------------------------
(***************************************************************************)
(* VarIntDecoder with 2-bit groups and at most 3 bytes, the last of which  *)
(* holds 1 bit: integers below 32, and every packet of up to 4 bytes.      *)
(***************************************************************************)
EXTENDS VarIntDecoder

WeightValues == [i \in 0 .. MaxBytes - 1 |-> Base^i]
=============================================================================
