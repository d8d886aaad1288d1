-------------------------- MODULE MCVectoredWrite --------------------------
(***************************************************************************)
(* VectoredWrite with every combination of empty, short and longer         *)
(* segments, and two calls on one writer.  The bytes of a segment are all  *)
(* different, so that a repeated or misplaced byte shows.                  *)
(***************************************************************************)
EXTENDS VectoredWrite

Bytes == 1 .. 9
HeaderChoices == {<< >>, <<1>>, <<1, 2>>}
PacketChoices == {<< >>, <<4>>, <<4, 5, 6>>}
TrailerChoices == {<< >>, <<7>>, <<7, 8>>}
=============================================================================
