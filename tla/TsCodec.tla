------------------------------ MODULE TsCodec ------------------------------
(***************************************************************************)
(* The TypeScript codec that bridge.rs prints for a schema.  The owned     *)
(* decoder of a struct is made of statements that assign to a place, the   *)
(* one of an enum or of an alias is an expression, and so are the items of *)
(* collections in views: the two differ in what they check.                *)
(*                                                                         *)
(* Left out are schemas whose TypeScript is not the same program: 128-bit  *)
(* numbers, a map directly inside a map, a second map in one struct,       *)
(* guards in an enum, and flags bits that a JavaScript shift cannot reach. *)
(***************************************************************************)
EXTENDS PeerWire

(* TextDecoder puts U+FFFD in the place of what is not UTF-8.              *)
ReplacementText == 98

TsReadString(packet) ==
  Then(LaxBytes(packet), LAMBDA text, rest :
    Ok(IF text.n = NotUtf8 THEN Number("Vec", ReplacementText) ELSE text, rest))

(* Strings 2 and 3 stand for U+FFFD and U+10000, which are the other way   *)
(* round in the UTF-16 that Array.sort compares.                           *)
Utf16Rank(n) == CASE n = 2 -> 3 [] n = 3 -> 2 [] OTHER -> n

(***************************************************************************)
(* Guards                                                                  *)
(***************************************************************************)

(* The bit is looked for under its exact spelling, in the first flags type *)
(* that has it, if the owner is called "flags".  There is a guess for what *)
(* is not found.                                                           *)
TsBit(guard, schema) ==
  LET named(item) == {b \in Range(item.bits) : b.name = guard.bit}
      found == {i \in DOMAIN schema.items :
                  /\ schema.items[i].kind = "flags"
                  /\ guard.owner \in {schema.items[i].name, "flags"}
                  /\ named(schema.items[i]) # {}}
  IN CASE found # {} -> (CHOOSE b \in named(schema.items[Min(found)]) : TRUE).value
       [] found = {} /\ guard.bit = "is_verified" -> 1
       [] found = {} /\ guard.bit = "has_avatar" -> 2
       [] OTHER -> 0

TsIsSet(guard, fields, schema, parts) ==
  Bit(parts[OwnerIndex(guard, fields)].n, TsBit(guard, schema)) = 1

TsEffective(parts, fields, schema) ==
  PresenceBits(parts, fields, LAMBDA guard : TsBit(guard, schema))

(* 64 bits of flags are a bigint, which does not mix with `1 << bit`.      *)
Mixes(fields, schema) ==
  \E i \in DOMAIN fields :
    /\ fields[i].guard # None
    /\ LET owner == fields[OwnerIndex(fields[i].guard[1], fields)].ty[1]
       IN Width(ItemOf(owner, schema).underlying) = 8

(***************************************************************************)
(* Encoding                                                                *)
(***************************************************************************)

RECURSIVE TsEncode(_, _, _, _)

TsEncodeFields(fields, parts, schema) ==
  FlattenSeq([i \in DOMAIN fields |->
    CASE fields[i].guard = None -> TsEncode(fields[i].ty, parts[i], FALSE, schema)
      [] fields[i].guard # None /\ ~TsIsSet(fields[i].guard[1], fields, schema, parts) -> << >>
      [] OTHER -> IF parts[i] = Absent THEN <<Crash>>
                  ELSE TsEncode(fields[i].ty, parts[i].parts[1], FALSE, schema)])

TsEncodeItem(item, value, looping, schema) ==
  CASE item.kind = "alias" -> TsEncode(item.ty, value, looping, schema)
    [] item.kind = "flags" -> <<Integer(Width(item.underlying), value.n)>>
    [] item.kind = "struct" ->
         IF Mixes(item.fields, schema)
         THEN <<Crash>>
         ELSE <<CidOnWire(StructCid(item, schema))>>
                \o TsEncodeFields(item.fields, TsEffective(value.parts, item.fields, schema), schema)
    [] item.kind = "enum" /\ HasFields(item) ->
         LET variant == VariantOf(value, item)
         IN <<CidOnWire(CidOfVariant(item, variant, schema))>>
              \o TsEncodeFields(variant.fields, value.parts, schema)
    [] item.kind = "enum" /\ ~HasFields(item) -> <<Integer(8, VariantOf(value, item).value[1])>>

(* The keys of a map in the order of UTF-16.                               *)
TsEntries(entries) ==
  SortSeq(entries, LAMBDA e, f : Utf16Rank(e.parts[1].n) < Utf16Rank(f.parts[1].n))

(* A vector is written by `for (const item of ...)`.  In a vector inside   *)
(* a vector that is `for (const item of item)`, which throws.              *)
TsEncode(ty, value, looping, schema) ==
  CASE Head(ty) \in FixedBytes -> <<Integer(FixedLength(Head(ty)), value.n)>>
    [] ty \in {ByteVec, <<"String">>} -> <<Bytes(value.n)>>
    [] Head(ty) \in Primitives \ {"String"} -> <<Integer(Width(Head(ty)), value.n)>>
    [] Head(ty) = "Optional" ->
         IF value = Absent THEN <<Marker(0)>>
         ELSE <<Marker(1)>> \o TsEncode(Tail(ty), value.parts[1], looping, schema)
    [] Head(ty) = "Vec" /\ ty # ByteVec /\ looping -> <<Crash>>
    [] Head(ty) = "Vec" /\ ty # ByteVec /\ ~looping ->
         <<Count(Len(value.parts))>>
           \o FlattenSeq([i \in DOMAIN value.parts |->
                TsEncode(Tail(ty), value.parts[i], TRUE, schema)])
    [] Head(ty) = "Map" ->
         LET entries == TsEntries(value.parts)
         IN <<Count(Len(entries))>>
              \o FlattenSeq([i \in DOMAIN entries |->
                   <<Bytes(entries[i].parts[1].n)>>
                     \o TsEncode(MapValue(ty), entries[i].parts[2], looping, schema)])
    [] OTHER -> TsEncodeItem(ItemOf(Head(ty), schema), value, looping, schema)

(***************************************************************************)
(* Owned decoding                                                          *)
(***************************************************************************)

(* Items are assigned to list[list.length].  An assignment that needs that *)
(* place again, once the item is there, finds the place after it.          *)
RECURSIVE Slips(_, _, _)
Slips(ty, value, schema) ==
  CASE Head(ty) = "Optional" -> value # Absent /\ Slips(Tail(ty), value.parts[1], schema)
    [] IsCollection(ty) -> value.parts # << >>
    [] Len(ty) = 1 /\ IsA("alias", ty[1], schema) ->
         \/ ItemOf(ty[1], schema).exact # None
         \/ Slips(ItemOf(ty[1], schema).ty, value, schema)
    [] OTHER -> FALSE

RECURSIVE TsAssign(_, _, _), TsExpr(_, _, _)

TsDecodeStruct(struct, packet, schema) ==
  IF ~HasCid(packet, StructCid(struct, schema)) \/ Mixes(struct.fields, schema)
  THEN Refused
  ELSE Collected(struct.name,
         ReadFields(struct.fields, Tail(packet),
           LAMBDA guard, parts : TsIsSet(guard, struct.fields, schema, parts),
           LAMBDA field, rest : WithExact(field.exact, TsAssign(field.ty, rest, schema))))

TsDecodeEnum(enum, packet, schema) ==
  IF ArmsOf(enum, packet, schema) = {}
  THEN Refused
  ELSE LET variant == enum.variants[Min(ArmsOf(enum, packet, schema))]
       IN Collected(variant.name,
            ReadFields(variant.fields, Tail(packet), Always,
              LAMBDA field, rest : WithExact(field.exact, TsExpr(field.ty, rest, schema))))

TsDecodeUnitEnum(enum, packet) ==
  Then(LaxInt(8, "u64", packet), LAMBDA number, rest :
    LET named == {v \in Range(enum.variants) : v.value = Some(number.n)}
    IN IF named = {} THEN Refused ELSE Ok(Node((CHOOSE v \in named : TRUE).name, << >>), rest))

TsDecodeItem(item, packet, schema) ==
  CASE item.kind = "alias" -> WithExact(item.exact, TsExpr(item.ty, packet, schema))
    [] item.kind = "flags" -> LaxInt(Width(item.underlying), item.name, packet)
    [] item.kind = "struct" -> TsDecodeStruct(item, packet, schema)
    [] item.kind = "enum" /\ HasFields(item) -> TsDecodeEnum(item, packet, schema)
    [] item.kind = "enum" /\ ~HasFields(item) -> TsDecodeUnitEnum(item, packet)

TsScalar(ty, packet) ==
  CASE Head(ty) \in FixedBytes -> LaxInt(FixedLength(Head(ty)), Head(ty), packet)
    [] ty = ByteVec -> LaxBytes(packet)
    [] ty = <<"String">> -> TsReadString(packet)
    [] Head(ty) \in Primitives \ {"String"} -> LaxInt(Width(Head(ty)), Head(ty), packet)
IsScalar(ty) == Head(ty) \in FixedBytes \cup Primitives \/ ty = ByteVec

(* An object has one value for a key, the last.                            *)
TsMap(ty, packet, ReadValue(_)) ==
  Then(Items(LaxCount(packet), LAMBDA entry : EntryOf(entry, TsReadString, ReadValue)),
    LAMBDA entries, rest : Ok(Node("map", MapOf(entries)), rest))

TsAssign(ty, packet, schema) ==
  CASE IsScalar(ty) -> TsScalar(ty, packet)
    [] Head(ty) = "Optional" ->
         LaxOptional(packet, LAMBDA rest : TsAssign(Tail(ty), rest, schema))
    [] Head(ty) = "Vec" /\ ty # ByteVec ->
         Collected("vec", Items(LaxCount(packet), LAMBDA rest :
           Then(TsAssign(Tail(ty), rest, schema), LAMBDA item, after :
             IF Slips(Tail(ty), item, schema) THEN Refused ELSE Ok(item, after))))
    [] Head(ty) = "Map" ->
         TsMap(ty, packet, LAMBDA rest : TsAssign(MapValue(ty), rest, schema))
    [] Len(ty) = 1 /\ IsA("alias", ty[1], schema) ->
         WithExact(ItemOf(ty[1], schema).exact, TsAssign(ItemOf(ty[1], schema).ty, packet, schema))
    [] OTHER -> TsDecodeItem(ItemOf(Head(ty), schema), packet, schema)

TsExpr(ty, packet, schema) ==
  CASE IsScalar(ty) -> TsScalar(ty, packet)
    [] Head(ty) = "Optional" ->
         LaxOptional(packet, LAMBDA rest : TsExpr(Tail(ty), rest, schema))
    [] Head(ty) = "Vec" /\ ty # ByteVec ->
         Collected("vec", Items(LaxCount(packet), LAMBDA rest : TsExpr(Tail(ty), rest, schema)))
    [] Head(ty) = "Map" ->
         TsMap(ty, packet, LAMBDA rest : TsExpr(MapValue(ty), rest, schema))
    [] OTHER -> TsDecodeItem(ItemOf(Head(ty), schema), packet, schema)

(***************************************************************************)
(* Borrowed views                                                          *)
(***************************************************************************)

RECURSIVE TsView(_, _, _, _)

TsViewStruct(struct, packet, schema) ==
  IF ~HasCid(packet, StructCid(struct, schema)) \/ Mixes(struct.fields, schema)
  THEN Refused
  ELSE Collected(struct.name,
         ReadFields(struct.fields, Tail(packet),
           LAMBDA guard, parts : TsIsSet(guard, struct.fields, schema, parts),
           LAMBDA field, rest : TsView(field.ty, TRUE, rest, schema)))

TsViewEnum(enum, packet, schema) ==
  IF ArmsOf(enum, packet, schema) = {}
  THEN Refused
  ELSE LET variant == enum.variants[Min(ArmsOf(enum, packet, schema))]
       IN Collected(variant.name,
            ReadFields(variant.fields, Tail(packet), Always,
              LAMBDA field, rest : TsView(field.ty, FALSE, rest, schema)))

TsViewItem(item, packet, schema) ==
  CASE item.kind = "struct" -> TsViewStruct(item, packet, schema)
    [] item.kind = "enum" /\ HasView(item) -> TsViewEnum(item, packet, schema)
    [] ~HasView(item) -> TsDecodeItem(item, packet, schema)

(* The keys of a map that is a field of a struct must increase.  Anything  *)
(* deeper is an expression, in which they are not compared.                *)
TsView(ty, ofStruct, packet, schema) ==
  CASE ty = <<"String">> -> LaxBytes(packet)
    [] ty # <<"String">> /\ IsScalar(ty) -> TsScalar(ty, packet)
    [] Head(ty) = "Optional" ->
         LaxOptional(packet, LAMBDA rest : TsView(Tail(ty), ofStruct, rest, schema))
    [] Head(ty) = "Vec" /\ ty # ByteVec ->
         Collected("vec", Items(LaxCount(packet),
                                LAMBDA rest : TsView(Tail(ty), FALSE, rest, schema)))
    [] Head(ty) = "Map" ->
         LET entries == Items(LaxCount(packet), LAMBDA entry :
               EntryOf(entry, LAMBDA rest : TsView(<<ty[2]>>, FALSE, rest, schema),
                              LAMBDA rest : TsView(MapValue(ty), FALSE, rest, schema)))
         IN Collected("map", IF ofStruct THEN Ordered(entries) ELSE entries)
    [] OTHER -> TsViewItem(ItemOf(Head(ty), schema), packet, schema)

(***************************************************************************)
(* Lazy views                                                              *)
(***************************************************************************)

RECURSIVE TsLazyExpr(_, _, _, _)

TsLazyItem(ty, packet, schema) ==
  IF Head(ty) = "Vec"
  THEN TsLazyExpr(Tail(ty), FALSE, packet, schema)
  ELSE EntryOf(packet, LAMBDA rest : TsLazyExpr(<<ty[2]>>, FALSE, rest, schema),
                       LAMBDA rest : TsLazyExpr(MapValue(ty), FALSE, rest, schema))

TsScan(ty, packet, schema) ==
  Then(LaxCount(packet), LAMBDA count, wire :
    Then(Items(Ok(count, wire), LAMBDA rest : TsLazyItem(ty, rest, schema)), LAMBDA items, rest :
      IF Head(ty) = "Map" /\ ~Increasing(items)
      THEN Refused
      ELSE Ok(Lazy(ty, count, wire), rest)))

(* A field that is no collection and has no lazy view is a borrowed one.   *)
TsLazyStruct(struct, packet, schema) ==
  IF ~HasCid(packet, StructCid(struct, schema)) \/ Mixes(struct.fields, schema)
  THEN Refused
  ELSE Collected(struct.name,
         ReadFields(struct.fields, Tail(packet),
           LAMBDA guard, parts : TsIsSet(guard, struct.fields, schema, parts),
           LAMBDA field, rest :
             CASE IsCollection(field.ty) -> TsScan(field.ty, rest, schema)
               [] Len(field.ty) = 1 /\ IsA("struct", field.ty[1], schema) ->
                    TsLazyExpr(field.ty, FALSE, rest, schema)
               [] OTHER -> TsView(field.ty, TRUE, rest, schema)))

TsLazyEnum(enum, packet, schema) ==
  IF ArmsOf(enum, packet, schema) = {}
  THEN Refused
  ELSE LET variant == enum.variants[Min(ArmsOf(enum, packet, schema))]
       IN Collected(variant.name,
            ReadFields(variant.fields, Tail(packet), Always,
              LAMBDA field, rest :
                IF IsCollection(field.ty)
                THEN TsScan(field.ty, rest, schema)
                ELSE TsLazyExpr(field.ty, FALSE, rest, schema)))

(* Only the message itself can be an enum with a lazy view.                *)
TsLazyExpr(ty, isMessage, packet, schema) ==
  CASE Head(ty) = "Optional" ->
         LaxOptional(packet, LAMBDA rest : TsLazyExpr(Tail(ty), FALSE, rest, schema))
    [] IsCollection(ty) ->
         Collected(IF Head(ty) = "Vec" THEN "vec" ELSE "map",
           Items(LaxCount(packet), LAMBDA rest : TsLazyItem(ty, rest, schema)))
    [] Len(ty) = 1 /\ ty[1] \in Names(schema) /\ HasLazyView(ItemOf(ty[1], schema)) ->
         TsLazyStruct(ItemOf(ty[1], schema), packet, schema)
    [] isMessage /\ IsA("enum", ty[1], schema) -> TsLazyEnum(ItemOf(ty[1], schema), packet, schema)
    [] OTHER -> TsView(ty, FALSE, packet, schema)

TsBorrowLazy(name, packet, schema) == TsLazyExpr(<<name>>, TRUE, packet, schema)
=============================================================================
