---------------------------- MODULE MessageCodec ----------------------------
(***************************************************************************)
(* The Rust codecs generated for structs, enums, unit enums and flags      *)
(* (codegen.rs), over packets that are sequences of fields: an integer of  *)
(* some width, a constructor ID, a byte string with its length or the count*)
(* of a collection.  A length or count may be padded: a varint with a last *)
(* group it does not need.  How those are laid out in bytes is the business*)
(* of Encoder and WireDecode.                                              *)
(*                                                                         *)
(* A value is a tree.  Numbers carry the name of their type, so that a     *)
(* value read as another type is another value.                            *)
(*                                                                         *)
(* Left out are the limits, the encoders' checks of exact lengths (what    *)
(* they would refuse is neither sent here nor decoded by the same program),*)
(* and guards in a variant of an enum, for which the Rust does not compile *)
(* (codegen.rs:748, 852).                                                  *)
(***************************************************************************)
EXTENDS Schema, FiniteSetsExt, Folds

Node(is, parts) == [is |-> is, n |-> 0, parts |-> parts]
Number(ty, n) == [is |-> ty, n |-> n, parts |-> << >>]
Absent == Node("none", << >>)
Present(value) == Node("some", <<value>>)

Token(kind, width, n) ==
  [kind |-> kind, width |-> width, n |-> n, cid |-> None, padded |-> FALSE]
Integer(width, n) == Token("int", width, n)
Marker(n) == Token("marker", 1, n)
CidOnWire(cid) == [Token("cid", 8, 0) EXCEPT !.cid = Some(cid)]
Bytes(n) == Token("bytes", 0, n)
Count(n) == Token("count", 0, n)

(* One string or byte string for each number, which is its length and its  *)
(* place in the order of bytes; this one is not UTF-8.                     *)
NotUtf8 == 99

FixedLength(name) == CHOOSE n \in 0 .. 2 : name = <<"bytes[0]", "bytes[1]", "bytes[2]">>[n + 1]
MapValue(map) == SubSeq(map, 3, Len(map))
Entry(key, value) == Node("entry", <<key, value>>)

Bit(n, position) == (n \div 2 ^ position) % 2
WithBit(n, position, on) ==
  n - Bit(n, position) * 2 ^ position + (IF on THEN 2 ^ position ELSE 0)

(* The field that owns the bit of a guard, and the position of that bit.   *)
OwnerIndex(guard, fields) == CHOOSE i \in DOMAIN fields : fields[i].name = guard.owner

GuardBit(guard, fields, schema) ==
  LET flags == ItemOf(fields[OwnerIndex(guard, fields)].ty[1], schema)
  IN flags.bits[BitNamed(flags, guard.bit)].value

(* The fields that field k guards, as sets by their bit: guard_groups.     *)
Guarded(k, fields) ==
  {i \in DOMAIN fields :
     fields[i].guard # None /\ OwnerIndex(fields[i].guard[1], fields) = k}

(* Presence decides the bits of a flags field that others are guarded by.  *)
PresenceBits(parts, fields, Position(_)) ==
  [k \in DOMAIN parts |->
     IF Guarded(k, fields) = {} THEN parts[k]
     ELSE [parts[k] EXCEPT !.n =
             FoldSet(LAMBDA i, n :
                       WithBit(n, Position(fields[i].guard[1]),
                         \E j \in Guarded(k, fields) :
                           /\ Position(fields[j].guard[1]) = Position(fields[i].guard[1])
                           /\ parts[j] # Absent),
                     @, Guarded(k, fields))]]

Effective(parts, fields, schema) ==
  PresenceBits(parts, fields, LAMBDA guard : GuardBit(guard, fields, schema))

VariantOf(value, enum) ==
  enum.variants[CHOOSE i \in DOMAIN enum.variants : enum.variants[i].name = value.is]

RECURSIVE Encode(_, _, _)

EncodeFields(fields, parts, schema) ==
  FlattenSeq([i \in DOMAIN fields |->
    IF fields[i].guard = None
    THEN Encode(fields[i].ty, parts[i], schema)
    ELSE IF parts[i] = Absent
         THEN << >>
         ELSE Encode(fields[i].ty, parts[i].parts[1], schema)])

EncodeStruct(struct, value, schema) ==
  <<CidOnWire(StructCid(struct, schema))>>
    \o EncodeFields(struct.fields, Effective(value.parts, struct.fields, schema), schema)

(* A unit enum is the u64 of its variant, any other the ID and the fields. *)
EncodeEnum(enum, value, schema) ==
  IF HasFields(enum)
  THEN <<CidOnWire(CidOfVariant(enum, VariantOf(value, enum), schema))>>
         \o EncodeFields(VariantOf(value, enum).fields, value.parts, schema)
  ELSE <<Integer(8, VariantOf(value, enum).value[1])>>

EncodeItem(item, value, schema) ==
  CASE item.kind = "alias" -> Encode(item.ty, value, schema)
    [] item.kind = "struct" -> EncodeStruct(item, value, schema)
    [] item.kind = "enum" -> EncodeEnum(item, value, schema)
    [] item.kind = "flags" -> <<Integer(Width(item.underlying), value.n)>>

EncodeVec(ty, items, schema) ==
  <<Count(Len(items))>>
    \o FlattenSeq([i \in DOMAIN items |-> Encode(Tail(ty), items[i], schema)])

(* A BTreeMap is walked in the order of its keys.                          *)
EncodeMap(ty, entries, schema) ==
  <<Count(Len(entries))>>
    \o FlattenSeq([i \in DOMAIN entries |->
         Encode(<<ty[2]>>, entries[i].parts[1], schema)
           \o Encode(MapValue(ty), entries[i].parts[2], schema)])

Encode(ty, value, schema) ==
  CASE Head(ty) = "Optional" ->
         IF value = Absent THEN <<Marker(0)>>
         ELSE <<Marker(1)>> \o Encode(Tail(ty), value.parts[1], schema)
    [] ty \in {ByteVec, <<"String">>} -> <<Bytes(value.n)>>
    [] Head(ty) \in Primitives \ {"String"} -> <<Integer(Width(Head(ty)), value.n)>>
    [] Head(ty) \in FixedBytes -> <<Integer(FixedLength(Head(ty)), value.n)>>
    [] Head(ty) = "Vec" /\ ty # ByteVec -> EncodeVec(ty, value.parts, schema)
    [] Head(ty) = "Map" -> EncodeMap(ty, value.parts, schema)
    [] OTHER -> EncodeItem(ItemOf(Head(ty), schema), value, schema)

(***************************************************************************)
(* Decoding: a value and the rest of the packet, or nothing.               *)
(***************************************************************************)

Ok(value, rest) == [ok |-> TRUE, value |-> value, rest |-> rest]
Refused == [ok |-> FALSE, value |-> Absent, rest |-> << >>]
Then(result, Use(_, _)) == IF result.ok THEN Use(result.value, result.rest) ELSE result

(* A read of width bytes.  A constructor ID read as a u64 is a number that *)
(* no variant has; bytes that straddle two fields make no ID.              *)
Garbage == 2 ^ 30

ReadInt(width, ty, packet) ==
  IF \/ packet = << >>
     \/ Head(packet).width # width
     \/ ty = "bool" /\ Head(packet).n > 1
  THEN Refused
  ELSE Ok(Number(ty, IF Head(packet).kind = "cid" THEN Garbage ELSE Head(packet).n), Tail(packet))

ReadBytes(ty, exact, packet) ==
  IF \/ packet = << >> \/ Head(packet).kind # "bytes" \/ Head(packet).padded
     \/ ty = <<"String">> /\ Head(packet).n = NotUtf8
     \/ exact # None /\ Head(packet).n # exact[1]
  THEN Refused
  ELSE Ok(Number("Vec", Head(packet).n), Tail(packet))

ReadCount(packet) ==
  IF packet = << >> \/ Head(packet).kind # "count" \/ Head(packet).padded
  THEN Refused
  ELSE Ok(Head(packet).n, Tail(packet))

(* count times Read, after the count.                                      *)
Items(counted, Read(_)) ==
  Then(counted, LAMBDA count, packet :
    FoldLeft(LAMBDA result, i :
               Then(result, LAMBDA items, rest :
                 Then(Read(rest), LAMBDA item, after : Ok(Append(items, item), after))),
             Ok(<< >>, packet), [i \in 1 .. count |-> i]))

EntryOf(packet, ReadKey(_), ReadValue(_)) ==
  Then(ReadKey(packet), LAMBDA key, rest :
    Then(ReadValue(rest), LAMBDA value, after : Ok(Entry(key, value), after)))

Collected(is, result) ==
  Then(result, LAMBDA parts, rest : Ok(Node(is, parts), rest))

KeysOf(entries) == {entries[i].parts[1] : i \in DOMAIN entries}
Increasing(entries) ==
  \A i \in 1 .. Len(entries) - 1 : entries[i].parts[1].n < entries[i + 1].parts[1].n

(* A map: its entries by their keys, the last of those with the same key.  *)
MapOf(entries) ==
  LET keys == SetToSortSeq(KeysOf(entries), LAMBDA k, l : k.n < l.n)
  IN [i \in DOMAIN keys |-> entries[Max({j \in DOMAIN entries : entries[j].parts[1] = keys[i]})]]

RECURSIVE Decode(_, _, _, _), DecodeFields(_, _, _, _)

(* The fields after those already read; each guard is decided by the flags *)
(* read before it.                                                         *)
DecodeFields(fields, parts, packet, schema) ==
  IF Len(parts) = Len(fields)
  THEN Ok(Node("", parts), packet)
  ELSE LET field == fields[Len(parts) + 1]
           exact == IF field.exact = None THEN ExactLenOf(field.ty, schema) ELSE field.exact
           present == \/ field.guard = None
                      \/ Bit(parts[OwnerIndex(field.guard[1], fields)].n,
                             GuardBit(field.guard[1], fields, schema)) = 1
       IN IF ~present
          THEN DecodeFields(fields, Append(parts, Absent), packet, schema)
          ELSE Then(Decode(field.ty, exact, packet, schema),
                 LAMBDA value, rest :
                   DecodeFields(fields,
                     Append(parts, IF field.guard = None THEN value ELSE Present(value)),
                     rest, schema))

HasCid(packet, cid) == packet # << >> /\ Head(packet).cid = Some(cid)

DecodeStruct(struct, packet, schema) ==
  IF ~HasCid(packet, StructCid(struct, schema))
  THEN Refused
  ELSE Then(DecodeFields(struct.fields, << >>, Tail(packet), schema),
         LAMBDA value, rest : Ok(Node(struct.name, value.parts), rest))

(* The first arm of the match that has the ID.                             *)
DecodeEnum(enum, packet, schema) ==
  LET arms == {i \in DOMAIN enum.variants :
                 HasCid(packet, CidOfVariant(enum, enum.variants[i], schema))}
  IN IF arms = {}
     THEN Refused
     ELSE LET variant == enum.variants[Min(arms)]
          IN Then(DecodeFields(variant.fields, << >>, Tail(packet), schema),
               LAMBDA value, rest : Ok(Node(variant.name, value.parts), rest))

DecodeUnitEnum(enum, packet) ==
  Then(ReadInt(8, "u64", packet),
    LAMBDA number, rest :
      LET named == {v \in Range(enum.variants) : v.value = Some(number.n)}
      IN IF named = {}
         THEN Refused
         ELSE Ok(Node((CHOOSE v \in named : TRUE).name, << >>), rest))

DecodeItem(item, exact, packet, schema) ==
  CASE item.kind = "alias" -> Decode(item.ty, exact, packet, schema)
    [] item.kind = "struct" -> DecodeStruct(item, packet, schema)
    [] item.kind = "enum" /\ HasFields(item) -> DecodeEnum(item, packet, schema)
    [] item.kind = "enum" /\ ~HasFields(item) -> DecodeUnitEnum(item, packet)
    [] item.kind = "flags" -> ReadInt(Width(item.underlying), item.name, packet)

DecodeOptional(ty, packet, schema) ==
  Then(ReadInt(1, "u8", packet),
    LAMBDA marker, rest :
      CASE marker.n = 0 -> Ok(Absent, rest)
        [] marker.n = 1 -> Then(Decode(Tail(ty), None, rest, schema),
                             LAMBDA value, after : Ok(Present(value), after))
        [] OTHER -> Refused)

DecodeVec(ty, packet, schema) ==
  Collected("vec", Items(ReadCount(packet), LAMBDA rest : Decode(Tail(ty), None, rest, schema)))

(* The owned decoder refuses a duplicate key, and sorts what is unsorted.  *)
DecodeMap(ty, packet, schema) ==
  Then(Items(ReadCount(packet), LAMBDA entry :
         EntryOf(entry, LAMBDA rest : Decode(<<ty[2]>>, None, rest, schema),
                        LAMBDA rest : Decode(MapValue(ty), None, rest, schema))),
    LAMBDA entries, rest :
      IF Cardinality(KeysOf(entries)) < Len(entries)
      THEN Refused
      ELSE Ok(Node("map", MapOf(entries)), rest))

Decode(ty, exact, packet, schema) ==
  CASE Head(ty) = "Optional" -> DecodeOptional(ty, packet, schema)
    [] ty \in {ByteVec, <<"String">>} -> ReadBytes(ty, exact, packet)
    [] Head(ty) \in Primitives \ {"String"} -> ReadInt(Width(Head(ty)), Head(ty), packet)
    [] Head(ty) \in FixedBytes -> ReadInt(FixedLength(Head(ty)), Head(ty), packet)
    [] Head(ty) = "Vec" /\ ty # ByteVec -> DecodeVec(ty, packet, schema)
    [] Head(ty) = "Map" -> DecodeMap(ty, packet, schema)
    [] OTHER -> DecodeItem(ItemOf(Head(ty), schema), exact, packet, schema)

(* TypikonCodec::decode_with_limits: the whole packet or nothing.          *)
DecodeMessage(name, packet, schema) ==
  Then(Decode(<<name>>, None, packet, schema),
    LAMBDA value, rest : IF rest = << >> THEN Ok(value, rest) ELSE Refused)
=============================================================================
