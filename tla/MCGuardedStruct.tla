-------------------------- MODULE MCGuardedStruct --------------------------
(***************************************************************************)
(* GuardedStruct with two flags fields.  The first guards three fields, two*)
(* of them by the same bit; the second guards one, and has a bit that      *)
(* guards nothing.                                                         *)
(***************************************************************************)
EXTENDS GuardedStruct

CONSTANTS b1, b2, absent

BitSet == {b1, b2}
NoWord == {absent}
OwnerOf == <<0, 1, 1, 1, 0, 5>>
BitOf == <<b1, b1, b1, b2, b1, b1>>
LegalOf == [f \in 1 .. 6 |-> IF f = 4 THEN {{}, {b1}} ELSE SUBSET BitSet]
AllPackets == UNION {[1 .. n -> SUBSET BitSet] : n \in 0 .. 6}
=============================================================================
