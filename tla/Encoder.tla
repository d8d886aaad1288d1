------------------------------ MODULE Encoder ------------------------------
(***************************************************************************)
(* The Encoder (src/src/wire.rs:25-28, 279-311, 365-466), the codecs that  *)
(* write through it (747-907) and encode_value (src/src/codec.rs:23-32).   *)
(*                                                                         *)
(* The encoder is a byte buffer with a limit.  A value is written by a     *)
(* recursive `encode`, which comes down to atomic writes: a fixed-width    *)
(* number, a marker, a count, or a length together with its payload.  Each *)
(* one is checked against the limit before it touches the buffer, so a     *)
(* single refused write leaves nothing behind; a compound value has no such*)
(* protection, and an encoder that goes on after one failed holds a part of*)
(* it.  encode_value avoids that by computing the length first.            *)
(*                                                                         *)
(* The recursion is kept as the sequence `todo` of the values still to be  *)
(* written, so that a step is one atomic write.                            *)
(***************************************************************************)
EXTENDS Integers, SequencesExt

CONSTANTS
  Byte,
  Values,           (* The values a caller may encode, and their parts.    *)
  Varint,           (* Varint[n] is the encoding of the length or count n. *)
  MaxSizes,         (* The limits a caller may choose.                     *)
  DefaultMax,       (* DEFAULT_MAX_PACKET_SIZE.                            *)
  MaxCalls          (* Bound: values encoded.                              *)

(* A value is a record: `tag` names its codec, `bytes` is its own payload, *)
(* `expected` the length an exact payload must have, and `items` its parts *)
(* (the value of an option, the items of a vector, the keys and values of  *)
(* a map in turn, in the order of BTreeMap's iterator).                    *)
Tags == {"fixed", "bytes", "exact", "option", "vec", "map"}

Count(v) == IF v.tag = "map" THEN Len(v.items) \div 2 ELSE Len(v.items)

ASSUME ValuesAssumption ==
  \A v \in Values :
    /\ v.tag \in Tags
    /\ v.bytes \in Seq(Byte)
    /\ v.expected \in Nat
    /\ v.items \in Seq(Values)
    /\ v.tag \in {"fixed", "bytes", "exact"} => v.items = << >>
    /\ v.tag = "option" => Len(v.items) <= 1
    /\ Varint[Len(v.bytes)] \in Seq(Byte)
    /\ Varint[Count(v)] \in Seq(Byte)

(* A value is a finite tree: of any values, some have no part among them.  *)
ASSUME TreesAssumption ==
  \A S \in SUBSET Values :
    S # {} => \E v \in S : \A i \in DOMAIN v.items : v.items[i] \notin S

(* The items of a Vec<T> are of one codec, and so are the keys of a map    *)
(* and its values.                                                         *)
SameCodec(v, w) == v.tag = w.tag /\ (v.tag = "fixed" => Len(v.bytes) = Len(w.bytes))

ASSUME CodecAssumption ==
  \A v \in Values :
    /\ v.tag = "map" => Len(v.items) % 2 = 0
    /\ \A i, j \in DOMAIN v.items :
         v.tag = "vec" \/ (v.tag = "map" /\ i % 2 = j % 2) => SameCodec(v.items[i], v.items[j])

ASSUME SizesAssumption ==
  /\ {0, 1} \subseteq Byte
  /\ MaxSizes \subseteq Nat
  /\ DefaultMax \in Nat
  /\ MaxCalls \in Nat

VARIABLES
  bytes, max_size,  (* The encoder, or the buffer it was finished into.    *)
  status,           (* What has become of the encoder.                     *)
  current,          (* The value of the latest call.                       *)
  todo,             (* What is left of it to write.                        *)
  error,            (* How the latest call ended.                          *)
  checked,          (* Whether the latest call was encode_value.           *)
  accepted,         (* History: the values in the packet.                  *)
  dirty,            (* History: a part of a compound value is in it too.   *)
  calls

vars == <<bytes, max_size, status, current, todo, error, checked, accepted, dirty, calls>>

(* The atomic write a codec begins with; its parts are written after it.   *)
Leading(v) ==
  CASE v.tag = "fixed" -> v.bytes
    [] v.tag \in {"bytes", "exact"} -> Varint[Len(v.bytes)] \o v.bytes
    [] v.tag = "option" -> IF v.items = << >> THEN <<0>> ELSE <<1>>
    [] v.tag \in {"vec", "map"} -> Varint[Count(v)]

(* What the bytes of a value are, for reference: the code has no such      *)
(* function.                                                               *)
Encoding[v \in Values] ==
  Leading(v) \o FlattenSeq([i \in DOMAIN v.items |-> Encoding[v.items[i]]])

Encodings(values) == FlattenSeq([i \in DOMAIN values |-> Encoding[values[i]]])

(* Mutant: the codecs of the wider numbers name the width of a byte.      *)
MFixedLen(v) == IF v.tag = "fixed" THEN 1 ELSE 0

(* FIXED_ENCODED_LEN of the codec, or 0 where it is None.                  *)
FixedLen(v) == IF v.tag = "fixed" THEN Len(v.bytes) ELSE 0

(* The lengths of the parts, added to that of the prefix.                  *)
Total(prefix, lengths) ==
  LET sum[i \in 0 .. Len(lengths)] ==
        IF i = 0 THEN prefix ELSE sum[i - 1] + lengths[i]
  IN  sum[Len(lengths)]

(* encoded_len, from the lengths of the parts.  A vector or a map whose    *)
(* parts have a fixed width is measured by a product, everything else by a *)
(* sum.  Leading(v) is measured by varint_len, which                       *)
(* VarIntDecoder!LenIsExact compares with the bytes.                       *)
Measure(v, lengths) ==
  LET prefix == Len(Leading(v))
      isFixed == v.items # << >> /\ \A i \in DOMAIN v.items : FixedLen(v.items[i]) > 0
  IN  CASE isFixed /\ v.tag = "vec" -> prefix + Count(v) * FixedLen(v.items[1])
        [] isFixed /\ v.tag = "map" ->
             prefix + Count(v) * (FixedLen(v.items[1]) + FixedLen(v.items[2]))
        [] OTHER -> Total(prefix, lengths)

EncodedLen[v \in Values] ==
  Measure(v, [i \in DOMAIN v.items |-> EncodedLen[v.items[i]]])

(* Encoder::new, or with_capacity.                                         *)
New(limit) ==
  /\ bytes' = << >>
  /\ max_size' = limit
  /\ accepted' = << >>
  /\ dirty' = FALSE
  /\ todo' = << >>

Init ==
  /\ bytes = << >>
  /\ max_size \in MaxSizes
  /\ status = "idle"
  /\ current \in Values
  /\ todo = << >>
  /\ error = "none"
  /\ checked = FALSE
  /\ accepted = << >>
  /\ dirty = FALSE
  /\ calls = 0

NewEncoder ==
  /\ status \in {"finished", "dropped"}
  /\ \E limit \in MaxSizes : New(limit)
  /\ status' = "idle"
  /\ error' = "none"
  /\ checked' = FALSE
  /\ UNCHANGED <<current, calls>>

(* Encoder::value, or one of the typed writers, on a value of the caller.  *)
Value ==
  /\ status = "idle"
  /\ calls < MaxCalls
  /\ \E v \in Values : current' = v /\ todo' = <<v>>
  /\ status' = "encoding"
  /\ error' = "none"
  /\ calls' = calls + 1
  /\ UNCHANGED <<bytes, max_size, checked, accepted, dirty>>

(* encode_value: refused at once, or begun in an encoder of its own.       *)
EncodeValue ==
  /\ status \in {"finished", "dropped"}
  /\ calls < MaxCalls
  /\ \E v \in Values :
       /\ current' = v
       /\ \/ /\ EncodedLen[v] > DefaultMax
             /\ status' = "dropped"
             /\ error' = "PacketTooLarge"
             /\ todo' = << >>
          \/ /\ EncodedLen[v] <= DefaultMax
             /\ status' = "encoding"
             /\ error' = "none"
             /\ todo' = <<v>>
  /\ bytes' = << >>
  /\ max_size' = DefaultMax
  /\ accepted' = << >>
  /\ dirty' = FALSE
  /\ checked' = TRUE
  /\ calls' = calls + 1

(* Mutant: push lets the buffer reach one byte past the limit.             *)
MRefused(v) ==
  IF v.tag \notin {"bytes", "exact"} /\ Len(Leading(v)) = 1
  THEN Len(bytes) > max_size
  ELSE Len(bytes) + Len(Leading(v)) > max_size

(* push for a single byte, ensure for everything else.                     *)
Refused(v) ==
  IF v.tag \notin {"bytes", "exact"} /\ Len(Leading(v)) = 1
  THEN Len(bytes) >= max_size
  ELSE Len(bytes) + Len(Leading(v)) > max_size

Mismatched(v) == v.tag = "exact" /\ Len(v.bytes) # v.expected

(* One atomic write.                                                       *)
Write ==
  /\ status = "encoding"
  /\ todo # << >>
  /\ ~Mismatched(Head(todo))
  /\ ~Refused(Head(todo))
  /\ bytes' = bytes \o Leading(Head(todo))
  /\ todo' = Head(todo).items \o Tail(todo)
  /\ UNCHANGED <<max_size, status, current, error, checked, accepted, dirty, calls>>

(* Mutant: the length goes in before the payload is measured.              *)
MWriteFails ==
  /\ status = "encoding"
  /\ todo # << >>
  /\ Mismatched(Head(todo)) \/ Refused(Head(todo))
  /\ error' = IF Mismatched(Head(todo)) THEN "MalformedConstructor" ELSE "PacketTooLarge"
  /\ status' = IF checked THEN "dropped" ELSE "idle"
  /\ bytes' = IF Head(todo).tag = "bytes" /\ Len(bytes) < max_size
              THEN bytes \o SubSeq(Leading(Head(todo)), 1, 1) ELSE bytes
  /\ dirty' = (dirty \/ current.items # << >>)
  /\ todo' = << >>
  /\ UNCHANGED <<max_size, current, checked, accepted, calls>>

(* An atomic write is refused, and `?` ends the whole call.  The encoder   *)
(* of encode_value is dropped; any other stays with its caller.            *)
WriteFails ==
  /\ status = "encoding"
  /\ todo # << >>
  /\ Mismatched(Head(todo)) \/ Refused(Head(todo))
  /\ error' = IF Mismatched(Head(todo)) THEN "MalformedConstructor" ELSE "PacketTooLarge"
  /\ status' = IF checked THEN "dropped" ELSE "idle"
  /\ dirty' = (dirty \/ current.items # << >>)
  /\ todo' = << >>
  /\ UNCHANGED <<bytes, max_size, current, checked, accepted, calls>>

(* The call returns Ok.                                                    *)
Return ==
  /\ status = "encoding"
  /\ todo = << >>
  /\ accepted' = Append(accepted, current)
  /\ status' = IF checked THEN "finished" ELSE "idle"
  /\ UNCHANGED <<bytes, max_size, current, todo, error, checked, dirty, calls>>

Reset ==
  /\ status = "idle"
  /\ bytes' = << >>
  /\ accepted' = << >>
  /\ dirty' = FALSE
  /\ UNCHANGED <<max_size, status, current, todo, error, checked, calls>>

Finish ==
  /\ status = "idle"
  /\ status' = "finished"
  /\ UNCHANGED <<bytes, max_size, current, todo, error, checked, accepted, dirty, calls>>

(* Mutant: the old packet is taken off the limit.                          *)
MWithBuffer ==
  /\ status = "finished"
  /\ \E limit \in MaxSizes :
       /\ max_size' = limit - Len(bytes)
       /\ status' = IF Len(bytes) > limit THEN "dropped" ELSE "idle"
       /\ error' = IF Len(bytes) > limit THEN "PacketTooLarge" ELSE "none"
  /\ bytes' = << >>
  /\ accepted' = << >>
  /\ dirty' = FALSE
  /\ checked' = FALSE
  /\ UNCHANGED <<current, todo, calls>>

(* Encoder::with_buffer: the length of the old packet decides, though it   *)
(* is about to be cleared; a refused buffer is lost to the caller.         *)
WithBuffer ==
  /\ status = "finished"
  /\ \E limit \in MaxSizes :
       /\ max_size' = limit
       /\ status' = IF Len(bytes) > limit THEN "dropped" ELSE "idle"
       /\ error' = IF Len(bytes) > limit THEN "PacketTooLarge" ELSE "none"
  /\ bytes' = << >>
  /\ accepted' = << >>
  /\ dirty' = FALSE
  /\ checked' = FALSE
  /\ UNCHANGED <<current, todo, calls>>

Next ==
  \/ NewEncoder \/ Value \/ EncodeValue
  \/ Write \/ WriteFails \/ Return
  \/ Reset \/ Finish \/ WithBuffer

Spec == Init /\ [][Next]_vars
-----------------------------------------------------------------------------
TypeOK ==
  /\ bytes \in Seq(Byte)
  /\ max_size \in Nat
  /\ status \in {"idle", "encoding", "finished", "dropped"}
  /\ current \in Values
  /\ todo \in Seq(Values)
  /\ error \in {"none", "PacketTooLarge", "MalformedConstructor"}
  /\ checked \in BOOLEAN
  /\ accepted \in Seq(Values)
  /\ dirty \in BOOLEAN
  /\ calls \in Nat

(* No sequence of writes, failures, resets and reuses takes the buffer past*)
(* the limit: the two checks, one in push and one in ensure, agree, and    *)
(* nothing is appended without one (wire.rs:418-429, 447-465).             *)
WithinLimit == Len(bytes) <= max_size

(* The packet is the encodings of the values whose encode returned Ok since*)
(* the buffer was last cleared, in order and nothing else, unless a        *)
(* compound value failed part way.  A single write that was refused has    *)
(* left nothing (CHANGELOG.md, "Failed length-delimited writes no longer   *)
(* leave a partial length prefix"), and while a value is being encoded,    *)
(* what is written and what is left make it up.                            *)
PacketIsItsValues ==
  ~dirty =>
    /\ status = "encoding" => bytes \o Encodings(todo) = Encodings(Append(accepted, current))
    /\ status \in {"idle", "finished"} => bytes = Encodings(accepted)

(* encoded_len predicts: encode_value refuses exactly the values whose     *)
(* encoding is too large, before it writes a byte of them, and one it does *)
(* not refuse fills the capacity it asked for (codec.rs:23-32).            *)
PrecheckIsExact ==
  checked =>
    /\ status = "dropped" /\ error = "PacketTooLarge" =>
         /\ Len(Encoding[current]) > DefaultMax
         /\ bytes = << >>
    /\ status = "finished" => Len(bytes) = EncodedLen[current]
=============================================================================
