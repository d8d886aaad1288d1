---------------------------- MODULE GuardedStruct ----------------------------
(***************************************************************************)
(* The codec that the generator writes for a struct with guarded fields    *)
(* (generate_struct and guard_groups, src/src/codegen.rs:401-621), called  *)
(* by encode_value and decode_with_limits (src/src/codec.rs:11-32).        *)
(*                                                                         *)
(* A guarded field is on the wire if a bit of an earlier flags field is    *)
(* set.  The encoder derives the bits from the fields that are present and *)
(* sends these effective flags in place of the caller's; the decoder knows *)
(* only the flags it has just read.  The model is a relay: it encodes a    *)
(* message of its caller or decodes a packet from somewhere, decodes what  *)
(* it encoded, and encodes again what it decoded.                          *)
(*                                                                         *)
(* A packet is cut into the encodings of its fields, and the value of a    *)
(* field is a word, seen as the set of its one-bits, since the same bytes  *)
(* can be read as flags or as anything else.  The C-ID, which every packet *)
(* of the struct begins with, is left out.                                 *)
(***************************************************************************)
EXTENDS Integers, Sequences, FiniteSets

CONSTANTS
  N,                (* The number of fields.                               *)
  Bits,             (* The bits of a word, named by the flags or not.      *)
  Owner,            (* The flags field that guards a field, or 0.          *)
  Bit,              (* The bit that guards it.                             *)
  Legal,            (* The values its exact_len lets through.              *)
  None,             (* An absent field.                                    *)
  Packets           (* The packets that come from somewhere else.          *)

Word == SUBSET Bits
Fields == 1 .. N
Owners == {Owner[f] : f \in Fields} \ {0}

ASSUME NAssumption == N \in Nat
ASSUME NoneAssumption == None \notin Word
ASSUME PacketsAssumption == Packets \subseteq Seq(Word)

(* validate_fields: a guard names an earlier field, of a flags type.  That *)
(* the flags are not guarded themselves is not validated, but the code     *)
(* generated for a struct where they are does not compile.                 *)
ASSUME SchemaAssumption ==
  /\ Owner \in [Fields -> 0 .. N]
  /\ Bit \in [Fields -> Bits]
  /\ Legal \in [Fields -> SUBSET Word]
  /\ \A f \in Fields : Owner[f] < f
  /\ \A o \in Owners : Owner[o] = 0 /\ Legal[o] = Word

VARIABLES
  message,          (* self: the value of each field, or None.             *)
  effective,        (* The effective flags of the owners.                  *)
  wire,             (* The encoder's buffer.                               *)
  sent,             (* History: the fields in it.                          *)
  packet,           (* The packet being decoded.                           *)
  position,         (* How much of it has been read.                       *)
  taken,            (* History: the fields read.                           *)
  decoded,          (* The values read, or None.                           *)
  field,            (* The next field to encode or decode.                 *)
  source,           (* History: where the packet comes from.               *)
  phase

mvars == <<message, effective, wire, sent>>
dvars == <<packet, position, taken, decoded, source>>
vars == <<mvars, dvars, field, phase>>

Guarded(f) == Owner[f] # 0

Absent == [f \in Fields |-> None]

(* What the type of the struct admits: Option for the guarded fields only. *)
Messages ==
  {m \in [Fields -> Word \cup {None}] : \A f \in Fields : m[f] = None => Guarded(f)}

Init ==
  /\ effective = [o \in Owners |-> {}]
  /\ wire = << >> /\ sent = << >> /\ taken = << >>
  /\ position = 0
  /\ field = 1
  /\ decoded = Absent
  /\ \/ /\ message \in Messages
        /\ packet = << >>
        /\ source = "none"
        /\ phase = "ready"
     \/ /\ message = Absent
        /\ packet \in Packets
        /\ source = "elsewhere"
        /\ phase = "decoding"

(* The bits of owner o that guard a field, and of those the present ones.  *)
GuardBits(o) == {Bit[f] : f \in {g \in Fields : Owner[g] = o}}
PresentBits(o) == {Bit[f] : f \in {g \in Fields : Owner[g] = o /\ message[g] # None}}

(* Mutant: each group of fields starts again from the caller's flags, and  *)
(* the last one wins.                                                      *)
MEffective(o) ==
  LET last == CHOOSE f \in Fields :
                /\ Owner[f] = o
                /\ \A g \in Fields : Owner[g] = o => g <= f
  IN  (message[o] \ {Bit[last]}) \cup (PresentBits(o) \cap {Bit[last]})

(* Mutant: the bits of absent fields are not cleared.                      *)
MEffectiveKeeps(o) == message[o] \cup PresentBits(o)

(* One accumulator per owner: every group sets its bit, or clears it, and  *)
(* the bits that guard nothing stay as the caller has set them.            *)
Effective(o) == (message[o] \ GuardBits(o)) \cup PresentBits(o)

Enabled(f, flags) == Guarded(f) => Bit[f] \in flags[Owner[f]]

(* Mutant: the length is computed with the caller's flags.                 *)
MCounted == {f \in Fields : Enabled(f, message) /\ message[f] # None}

(* encoded_len counts a field that is both enabled and present.            *)
Counted == {f \in Fields : Enabled(f, effective) /\ message[f] # None}

BeginEncode ==
  /\ phase = "ready"
  /\ effective' = [o \in Owners |-> Effective(o)]
  /\ wire' = << >>
  /\ sent' = << >>
  /\ field' = 1
  /\ phase' = "encoding"
  /\ UNCHANGED <<message, dvars>>

(* Mutant: the caller's flags are sent. *)
MOutgoing(f) == message[f]

Outgoing(f) == IF f \in Owners THEN effective[f] ELSE message[f]

(* The field can be encoded: `ok_or(MalformedConstructor)` and exact_len.  *)
Encodable(f) == message[f] # None /\ message[f] \in Legal[f]

WriteField ==
  /\ phase = "encoding"
  /\ field \in Fields
  /\ Enabled(field, effective)
  /\ Encodable(field)
  /\ wire' = Append(wire, Outgoing(field))
  /\ sent' = Append(sent, field)
  /\ field' = field + 1
  /\ UNCHANGED <<message, effective, dvars, phase>>

OmitField ==
  /\ phase = "encoding"
  /\ field \in Fields
  /\ ~Enabled(field, effective)
  /\ field' = field + 1
  /\ UNCHANGED <<mvars, dvars, phase>>

EncodeFails ==
  /\ phase = "encoding"
  /\ field \in Fields
  /\ Enabled(field, effective)
  /\ ~Encodable(field)
  /\ phase' = "failed"
  /\ UNCHANGED <<mvars, dvars, field>>

EndEncode ==
  /\ phase = "encoding"
  /\ field = N + 1
  /\ phase' = "encoded"
  /\ UNCHANGED <<mvars, dvars, field>>

(* The peer gets the packet. *)
BeginDecode ==
  /\ phase = "encoded"
  /\ packet' = wire
  /\ position' = 0
  /\ taken' = << >>
  /\ decoded' = Absent
  /\ field' = 1
  /\ source' = "encoder"
  /\ phase' = "decoding"
  /\ UNCHANGED mvars

(* Mutant: a field is taken when the flags have any guard bit.             *)
MDecodeEnabled(f) ==
  Guarded(f) => decoded[Owner[f]] \cap GuardBits(Owner[f]) # {}

DecodeEnabled(f) == Enabled(f, decoded)

Readable == position < Len(packet) /\ packet[position + 1] \in Legal[field]

ReadField ==
  /\ phase = "decoding"
  /\ field \in Fields
  /\ DecodeEnabled(field)
  /\ Readable
  /\ decoded' = [decoded EXCEPT ![field] = packet[position + 1]]
  /\ position' = position + 1
  /\ taken' = Append(taken, field)
  /\ field' = field + 1
  /\ UNCHANGED <<mvars, packet, source, phase>>

(* Mutant: the bytes of an absent field are skipped.                       *)
MPassField ==
  /\ phase = "decoding"
  /\ field \in Fields
  /\ ~DecodeEnabled(field)
  /\ field' = field + 1
  /\ position' = position + 1
  /\ UNCHANGED <<mvars, packet, taken, decoded, source, phase>>

PassField ==
  /\ phase = "decoding"
  /\ field \in Fields
  /\ ~DecodeEnabled(field)
  /\ field' = field + 1
  /\ UNCHANGED <<mvars, dvars, phase>>

(* The end of the packet, or a length that exact_len refuses.              *)
DecodeFails ==
  /\ phase = "decoding"
  /\ field \in Fields
  /\ DecodeEnabled(field)
  /\ ~Readable
  /\ phase' = "refused"
  /\ UNCHANGED <<mvars, dvars, field>>

(* Mutant: what follows the last field is not looked at.                   *)
MEndDecode ==
  /\ phase = "decoding"
  /\ field = N + 1
  /\ phase' = "decoded"
  /\ UNCHANGED <<mvars, dvars, field>>

(* is_finished. *)
EndDecode ==
  /\ phase = "decoding"
  /\ field = N + 1
  /\ phase' = IF position = Len(packet) THEN "decoded" ELSE "refused"
  /\ UNCHANGED <<mvars, dvars, field>>

(* The relay passes on what it has decoded.                                *)
Forward ==
  /\ phase = "decoded"
  /\ message' = decoded
  /\ phase' = "ready"
  /\ UNCHANGED <<effective, wire, sent, dvars, field>>

Next ==
  \/ BeginEncode \/ WriteField \/ OmitField \/ EncodeFails \/ EndEncode
  \/ BeginDecode \/ ReadField \/ PassField \/ DecodeFails \/ EndDecode
  \/ Forward

Spec == Init /\ [][Next]_vars
-----------------------------------------------------------------------------
(* The types of the state.                                                 *)
TypeOK ==
  /\ message \in [Fields -> Word \cup {None}]
  /\ effective \in [Owners -> Word]
  /\ wire \in Seq(Word)
  /\ sent \in Seq(Fields)
  /\ packet \in Seq(Word)
  /\ position \in 0 .. Len(packet)
  /\ taken \in Seq(Fields)
  /\ decoded \in [Fields -> Word \cup {None}]
  /\ field \in 1 .. N + 1
  /\ source \in {"none", "elsewhere", "encoder"}
  /\ phase \in {"ready", "encoding", "encoded", "failed",
                "decoding", "decoded", "refused"}

(* README.en.md:212, "guarded-field presence is the source of truth": what *)
(* has been encoded carries exactly the present fields, whatever flags the *)
(* caller had set, and however many fields share an owner or a bit.        *)
PresenceIsTheTruth ==
  phase = "encoded" =>
    \A f \in Fields : Guarded(f) =>
      (message[f] # None <=> Bit[f] \in effective[Owner[f]])

(* An encode is refused only for what the caller did: a value of the wrong *)
(* length, or two fields under one bit of which one is there and the other *)
(* is not (codegen.rs:460-468).  A message that has been decoded is not.   *)
FailsForACause ==
  phase = "failed" =>
    /\ source = "none"
    /\ \/ \E f \in Fields : message[f] # None /\ message[f] \notin Legal[f]
       \/ \E f, g \in Fields :
            /\ Guarded(f) /\ Owner[f] = Owner[g] /\ Bit[f] = Bit[g]
            /\ message[f] = None /\ message[g] # None

(* What was encoded is decoded, to the same fields, with the flags brought *)
(* in line with them; nothing the encoder produces is refused.             *)
RoundTrip ==
  source = "encoder" =>
    /\ phase # "refused"
    /\ phase = "decoded" => decoded = [f \in Fields |-> Outgoing(f)]

(* A message that is decoded and encoded again is the packet it came from, *)
(* whoever made that packet: no two packets stand for one message, and no  *)
(* bit that guards nothing is lost on the way.                             *)
ForwardIsIdentity ==
  phase = "encoded" /\ source # "none" => wire = packet

(* encoded_len, by which encode_value refuses a message or sizes its       *)
(* buffer, counts what encode will write.                                  *)
LenIsWritten == phase = "encoded" => Cardinality(Counted) = Len(wire)
=============================================================================
