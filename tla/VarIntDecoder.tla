--------------------------- MODULE VarIntDecoder ---------------------------
(***************************************************************************)
(* Decoder::varint (src/src/wire.rs:513-534) and the byte reader under it  *)
(* (689-696), reading one integer after the other from a packet.  Every    *)
(* length and count of the wire format goes through it, so two packets     *)
(* must never stand for the same integer, no bit may be lost in the shift  *)
(* into a fixed-width result, and no encoded integer may be refused.       *)
(***************************************************************************)
EXTENDS VarInt, SequencesExt

CONSTANTS
  MaxInput          (* Bound: the length of a packet.                      *)

ASSUME MaxInputAssumption == MaxInput \in Nat

VARIABLES
  bytes, position,  (* The decoder: the packet, and the next byte to read. *)
  start,            (* Where the current call began.                       *)
  index,            (* The group the next byte holds.                      *)
  result,           (* The groups read so far.                             *)
  status,           (* Where the call is, or how it ended.                 *)
  decoded           (* History: the integers of the calls that returned Ok.*)

decoderVars == <<bytes, position, start, index, result, status, decoded>>

Errors == {"UnexpectedEof", "IntegerOverflow", "InvalidVarInt"}

DecoderInit ==
  /\ bytes \in UNION {[1 .. n -> Byte] : n \in 0 .. MaxInput}
  /\ position = 0
  /\ start = 0
  /\ index = 0
  /\ result = 0
  /\ status = "first"
  /\ decoded = << >>

AtEnd == position = Len(bytes)
NextByte == bytes[position + 1]

Eof ==
  /\ status \in {"first", "more"}
  /\ AtEnd
  /\ status' = "UnexpectedEof"
  /\ UNCHANGED <<bytes, position, start, index, result, decoded>>

First ==
  /\ status = "first"
  /\ ~AtEnd
  /\ position' = position + 1
  /\ result' = Group(NextByte)
  /\ index' = 1
  /\ status' = IF Continues(NextByte) THEN "more" ELSE "ok"
  /\ UNCHANGED <<bytes, start, decoded>>

(* Mutant: an unneeded last byte of zero is taken.                         *)
MStatusAfter(byte) ==
  IF index = MaxBytes - 1 /\ Group(byte) >= TopGroup THEN "IntegerOverflow"
  ELSE IF ~Continues(byte) THEN "ok"
  ELSE IF index = MaxBytes - 1 THEN "InvalidVarInt"
  ELSE "more"

(* Mutant: the mask of the last group also refuses its legal bit.          *)
MStatusNoTop(byte) ==
  IF index = MaxBytes - 1 /\ Group(byte) >= TopGroup - 1 THEN "IntegerOverflow"
  ELSE IF ~Continues(byte) THEN IF byte = 0 THEN "InvalidVarInt" ELSE "ok"
  ELSE IF index = MaxBytes - 1 THEN "InvalidVarInt"
  ELSE "more"

(* What the loop does after a byte that is not the first.                  *)
StatusAfter(byte) ==
  IF index = MaxBytes - 1 /\ Group(byte) >= TopGroup THEN "IntegerOverflow"
  ELSE IF ~Continues(byte) THEN IF byte = 0 THEN "InvalidVarInt" ELSE "ok"
  ELSE IF index = MaxBytes - 1 THEN "InvalidVarInt"
  ELSE "more"

(* The shift of the group into the result drops what is past the width.    *)
Shifted(byte) == (Group(byte) * Weight[index]) % Limit

(* Mutant: the byte is looked at and not taken.                            *)
MMorePeeks ==
  /\ status = "more"
  /\ ~AtEnd
  /\ status' = StatusAfter(NextByte)
  /\ UNCHANGED <<bytes, position, start, index, result, decoded>>

(* Mutant: the index of the group does not move.                           *)
MMoreSameIndex ==
  /\ status = "more"
  /\ ~AtEnd
  /\ position' = position + 1
  /\ status' = StatusAfter(NextByte)
  /\ result' = IF status' = "IntegerOverflow" THEN result ELSE result + Shifted(NextByte)
  /\ UNCHANGED <<bytes, start, index, decoded>>

More ==
  /\ status = "more"
  /\ ~AtEnd
  /\ position' = position + 1
  /\ status' = StatusAfter(NextByte)
  /\ result' = IF status' = "IntegerOverflow" THEN result ELSE result + Shifted(NextByte)
  /\ index' = IF status' = "more" THEN index + 1 ELSE index
  /\ UNCHANGED <<bytes, start, decoded>>

(* The caller decodes the next integer with the same decoder.              *)
NextCall ==
  /\ status = "ok"
  /\ ~AtEnd
  /\ decoded' = Append(decoded, result)
  /\ start' = position
  /\ index' = 0
  /\ result' = 0
  /\ status' = "first"
  /\ UNCHANGED <<bytes, position>>

DecoderStep == Eof \/ First \/ More

DecoderNext == DecoderStep \/ NextCall

DecoderSpec == DecoderInit /\ [][DecoderNext]_decoderVars

(* A call runs to its end; nothing obliges the caller to make another.     *)
FairDecoderSpec == DecoderSpec /\ WF_decoderVars(DecoderStep)
-----------------------------------------------------------------------------
DecoderTypeOK ==
  /\ bytes \in Seq(Byte)
  /\ position \in 0 .. Len(bytes)
  /\ start \in 0 .. position
  /\ index \in 0 .. MaxBytes - 1
  /\ result \in 0 .. Limit - 1
  /\ status \in {"first", "more", "ok"} \cup Errors
  /\ decoded \in Seq(Nat)

(* A decoded integer has one encoding: the bytes taken for it are those    *)
(* Encoder::varint writes for it, so the parts of a packet that are read   *)
(* as lengths and counts cannot be changed without changing their meaning  *)
(* (wire.rs:526-530; CHANGELOG.md:89, "canonical representations").        *)
Canonical ==
  /\ status = "ok" =>
       SubSeq(bytes, start + 1, position) = EncodeVarint[result]
  /\ SubSeq(bytes, 1, start) =
       FlattenSeq([i \in 1 .. Len(decoded) |-> EncodeVarint[decoded[i]]])

(* Nothing else is refused: after an error other than the end of the       *)
(* packet, the packet does not go on with the encoding of any integer, and *)
(* after the end of the packet it goes on with a part of one.              *)
RefusesOnlyInvalid ==
  LET rest == SubSeq(bytes, start + 1, Len(bytes))
  IN  /\ status \in {"IntegerOverflow", "InvalidVarInt"} =>
           \A v \in 0 .. Limit - 1 : ~IsPrefix(EncodeVarint[v], rest)
      /\ status = "UnexpectedEof" =>
           \E v \in 0 .. Limit - 1 : IsStrictPrefix(rest, EncodeVarint[v])

(* varint_len, from which encoded_len and the buffer's capacity are        *)
(* computed, is the number of bytes that carry the integer.                *)
LenIsExact == status = "ok" => VarintLen(result) = position - start

(* The other modules read an integer in one operation; it gives what the   *)
(* loop gives, down to the error and to where the decoder is left.         *)
OneOperation ==
  LET whole == ReadVarint(bytes, start)
  IN  /\ status = "ok" => whole = Ok(position, result)
      /\ status \in Errors => whole = Err(status, position)

(* A call ends, whatever the packet holds: no run of continuation bytes    *)
(* keeps it reading.                                                       *)
CallEnds == status = "first" ~> status \in {"ok"} \cup Errors

(* A call never takes more than MaxBytes bytes, and never reads past the   *)
(* packet; what it has read fits the groups read so far, so that joining   *)
(* the next group with | is an addition.                                   *)
ReadIsBounded ==
  /\ position - start <= MaxBytes
  /\ status = "more" => /\ index = position - start
                        /\ result < Weight[index]
=============================================================================
