------------------------------ MODULE GoCodec ------------------------------
(***************************************************************************)
(* The Go codec that bridge.rs prints for a schema: the owned encoder and  *)
(* decoder, the borrowed views and the lazy views.  It is written apart    *)
(* from the Rust codec and shares nothing with it but the schema.          *)
(*                                                                         *)
(* Left out are schemas whose Go is not the same program: 128-bit numbers  *)
(* and a map inside a map (which looks its own key up twice), a second map *)
(* or fixed byte string in one struct (which declares a name twice), either*)
(* of them as an Optional, under a guard, or fixed byte strings as values  *)
(* of a map (which point or slice where Go does not let them), an Optional *)
(* in an Optional or in a variant (which hides the place to assign to), and*)
(* guards in an enum (which are ignored).                                  *)
(***************************************************************************)
EXTENDS PeerWire

(***************************************************************************)
(* Guards                                                                  *)
(***************************************************************************)

(* flag_value does not look at the flags type: it knows three names, and   *)
(* only in a struct that calls its flags "flags".                          *)
GoBit(guard, fields) ==
  CASE \A i \in DOMAIN fields : fields[i].name # "flags" -> 0
    [] guard.bit = "is_verified" -> 1
    [] guard.bit = "has_avatar" -> 2
    [] OTHER -> 0

GoIsSet(guard, fields, parts) ==
  Bit(parts[OwnerIndex(guard, fields)].n, GoBit(guard, fields)) = 1


GoEffective(parts, fields) == PresenceBits(parts, fields, LAMBDA guard : GoBit(guard, fields))

(***************************************************************************)
(* Encoding                                                                *)
(***************************************************************************)

(* What make leaves where nothing is assigned: a nil map or enum, or zero. *)
Nil == Node("nil", << >>)

RECURSIVE GoEncode(_, _, _)

(* A field whose bit another field has set is nil: a panic.                *)
GoEncodeFields(fields, parts, schema) ==
  FlattenSeq([i \in DOMAIN fields |->
    CASE fields[i].guard = None -> GoEncode(fields[i].ty, parts[i], schema)
      [] fields[i].guard # None /\ ~GoIsSet(fields[i].guard[1], fields, parts) -> << >>
      [] OTHER -> IF parts[i] = Absent THEN <<Crash>>
                  ELSE GoEncode(fields[i].ty, parts[i].parts[1], schema)])

GoEncodeStruct(struct, value, schema) ==
  <<CidOnWire(StructCid(struct, schema))>>
    \o GoEncodeFields(struct.fields, GoEffective(value.parts, struct.fields), schema)

GoEncodeEnum(enum, value, schema) ==
  IF value = Nil
  THEN <<Crash>>
  ELSE LET variant == VariantOf(value, enum)
       IN <<CidOnWire(CidOfVariant(enum, variant, schema))>>
            \o GoEncodeFields(variant.fields, value.parts, schema)

(* The switch over the names of the variants has no default.               *)
GoEncodeUnitEnum(enum, value) ==
  IF value = Nil THEN << >> ELSE <<Integer(8, VariantOf(value, enum).value[1])>>

GoEncodeItem(item, value, schema) ==
  CASE item.kind = "alias" -> GoEncode(item.ty, value, schema)
    [] item.kind = "flags" -> <<Integer(Width(item.underlying), value.n)>>
    [] item.kind = "struct" -> GoEncodeStruct(item, value, schema)
    [] item.kind = "enum" /\ HasFields(item) -> GoEncodeEnum(item, value, schema)
    [] item.kind = "enum" /\ ~HasFields(item) -> GoEncodeUnitEnum(item, value)

(* The keys of a map are sorted, and written as strings whatever they are. *)
GoEncode(ty, value, schema) ==
  CASE Head(ty) \in FixedBytes -> <<Integer(FixedLength(Head(ty)), value.n)>>
    [] ty \in {ByteVec, <<"String">>} -> <<Bytes(value.n)>>
    [] Head(ty) \in Primitives \ {"String"} -> <<Integer(Width(Head(ty)), value.n)>>
    [] Head(ty) = "Optional" ->
         IF value = Absent THEN <<Marker(0)>>
         ELSE <<Marker(1)>> \o GoEncode(Tail(ty), value.parts[1], schema)
    [] Head(ty) = "Vec" /\ ty # ByteVec ->
         <<Count(Len(value.parts))>>
           \o FlattenSeq([i \in DOMAIN value.parts |->
                GoEncode(Tail(ty), value.parts[i], schema)])
    [] Head(ty) = "Map" ->
         <<Count(Len(value.parts))>>
           \o FlattenSeq([i \in DOMAIN value.parts |->
                <<Bytes(value.parts[i].parts[1].n)>>
                  \o GoEncode(MapValue(ty), value.parts[i].parts[2], schema)])
    [] OTHER -> GoEncodeItem(ItemOf(Head(ty), schema), value, schema)

(***************************************************************************)
(* The place that a value is decoded to                                    *)
(***************************************************************************)

(* A decoder assigns to a place that is named by the field and the indexes *)
(* printed after it: the "i" of a slice, the key "k" of a Go map, and the  *)
(* Key or the Value of an entry.  Every loop calls its index i, so that in *)
(* a loop inside another one v.V[i][i] is what v.V[i][j] is meant to be.   *)
Chosen(value, index, now) ==
  CASE index = "i" -> {now.i} \cap DOMAIN value.parts
    [] index = "k" -> {j \in DOMAIN value.parts : value.parts[j].parts[1] = now.k}
    [] index = "Key" -> {1}
    [] index = "Value" -> {2}

RECURSIVE Places(_, _, _), Assigned(_, _, _), GoZero(_, _)

Places(value, lhs, now) ==
  IF lhs = << >>
  THEN {<< >>}
  ELSE UNION {{<<j>> \o place : place \in Places(value.parts[j], Tail(lhs), now)} :
              j \in Chosen(value, Head(lhs), now)}

Assigned(value, place, new) ==
  IF place = << >>
  THEN new
  ELSE [value EXCEPT !.parts[Head(place)] = Assigned(@, Tail(place), new)]

(* An index out of range is a panic.                                       *)
Put(built, lhs, now, new, rest) ==
  LET places == Places(built, lhs, now)
  IN IF places = {}
     THEN Refused
     ELSE Ok(Assigned(built, CHOOSE place \in places : TRUE, new), rest)

(* So is an assignment to an entry of a nil map.                           *)
PutKey(built, lhs, now, zero, rest) ==
  LET maps == {At(built, place) : place \in Places(built, lhs, now)} \ {Nil}
  IN IF maps = {}
     THEN Refused
     ELSE LET map == CHOOSE m \in maps : TRUE
          IN Put(built, lhs, now, Node("map", MapOf(Append(map.parts, Entry(now.k, zero)))), rest)

GoZero(ty, schema) ==
  CASE ty \in {ByteVec, <<"String">>} -> Number("Vec", 0)
    [] Head(ty) \in FixedBytes \cup (Primitives \ {"String"}) -> Number(Head(ty), 0)
    [] Head(ty) = "Optional" -> Absent
    [] Head(ty) = "Vec" /\ ty # ByteVec -> Node("vec", << >>)
    [] Head(ty) = "Map" \/ IsA("enum", Head(ty), schema) -> Nil
    [] IsA("alias", Head(ty), schema) -> GoZero(ItemOf(Head(ty), schema).ty, schema)
    [] IsA("flags", Head(ty), schema) -> Number(Head(ty), 0)
    [] IsA("struct", Head(ty), schema) ->
         LET fields == ItemOf(Head(ty), schema).fields
         IN Node(Head(ty), [i \in DOMAIN fields |->
                              IF fields[i].guard = None THEN GoZero(fields[i].ty, schema)
                              ELSE Absent])

(* A count, make, and a loop of that many rounds.                          *)
GoLoop(built, lhs, now, packet, Made(_), Round(_, _, _)) ==
  Then(LaxCount(packet), LAMBDA count, wire :
    FoldLeft(LAMBDA result, i :
               Then(result, LAMBDA value, rest : Round(value, [now EXCEPT !.i = i], rest)),
             Put(built, lhs, now, Made(count), wire), [i \in 1 .. count |-> i]))


(* The key just read comes after the one of the round before.              *)
KeyInOrder(built, lhs, now) ==
  LET keys(i) == {At(built, place).n :
                  place \in Places(built, lhs \o <<"i", "Key">>, [now EXCEPT !.i = i])}
  IN now.i > 1 => \A previous \in keys(now.i - 1), key \in keys(now.i) : previous < key

RECURSIVE GoFill(_, _, _, _, _, _, _), GoDecode(_, _, _), GoView(_, _, _), GoLazyRead(_, _, _, _)

(* The three decoders of a type, each with its own idea of a map.          *)
GoReadItem(way, ty, packet, schema) ==
  CASE way = "owned" -> GoDecode(ty, packet, schema)
    [] way = "view" -> GoView(ty, packet, schema)
    [] way = "lazy" -> GoLazyRead(ty, FALSE, packet, schema)

GoFillVec(way, ty, built, lhs, now, packet, schema) ==
  GoLoop(built, lhs, now, packet,
    LAMBDA count : Node("vec", [j \in 1 .. count |-> GoZero(Tail(ty), schema)]),
    LAMBDA value, round, rest :
      GoFill(way, Tail(ty), value, Append(lhs, "i"), round, rest, schema))

(* A Go map: keys are strings, in any order, and the last one counts.      *)
GoFillMap(ty, built, lhs, now, packet, schema) ==
  GoLoop(built, lhs, now, packet, LAMBDA count : Node("map", << >>),
    LAMBDA value, round, rest :
      Then(LaxBytes(rest), LAMBDA key, after :
        LET keyed == [round EXCEPT !.k = key]
        IN Then(PutKey(value, lhs, keyed, GoZero(MapValue(ty), schema), after),
             LAMBDA entered, wire :
               GoFill("owned", MapValue(ty), entered, lhs \o <<"k", "Value">>, keyed, wire, schema))))

(* A view of a map is a slice of its entries; a lazy one does not compare. *)
GoFillEntries(way, ty, built, lhs, now, packet, schema) ==
  GoLoop(built, lhs, now, packet,
    LAMBDA count :
      Node("map", [j \in 1 .. count |-> Entry(GoZero(<<ty[2]>>, schema), GoZero(MapValue(ty), schema))]),
    LAMBDA value, round, rest :
      Then(GoFill(way, <<ty[2]>>, value, lhs \o <<"i", "Key">>, round, rest, schema),
        LAMBDA keyed, wire :
          IF way = "view" /\ ~KeyInOrder(keyed, lhs, round)
          THEN Refused
          ELSE GoFill(way, MapValue(ty), keyed, lhs \o <<"i", "Value">>, round, wire, schema)))

(* The name of the place is passed down into collections and, by the owned *)
(* decoder, through aliases; an Optional or a function starts a new one.   *)
GoFill(way, ty, built, lhs, now, packet, schema) ==
  CASE Head(ty) = "Vec" /\ ty # ByteVec -> GoFillVec(way, ty, built, lhs, now, packet, schema)
    [] Head(ty) = "Map" /\ way = "owned" -> GoFillMap(ty, built, lhs, now, packet, schema)
    [] Head(ty) = "Map" /\ way # "owned" -> GoFillEntries(way, ty, built, lhs, now, packet, schema)
    [] way = "owned" /\ IsA("alias", Head(ty), schema) /\ ItemOf(Head(ty), schema).exact = None ->
         GoFill(way, ItemOf(Head(ty), schema).ty, built, lhs, now, packet, schema)
    [] OTHER -> Then(GoReadItem(way, ty, packet, schema), LAMBDA value, rest :
                  Put(built, lhs, now, value, rest))

GoCollection(way, ty, packet, schema) ==
  GoFill(way, ty, Nil, << >>, [i |-> 0, k |-> Absent], packet, schema)

(***************************************************************************)
(* Owned decoding                                                          *)
(***************************************************************************)

(* Every guard is taken to be a bit of v.Flags: without it no Go compiles. *)
GoDecodeStruct(struct, packet, schema) ==
  IF ~HasCid(packet, StructCid(struct, schema))
  THEN Refused
  ELSE Collected(struct.name,
         ReadFields(struct.fields, Tail(packet),
           LAMBDA guard, parts : GoIsSet([guard EXCEPT !.owner = "flags"], struct.fields, parts),
           LAMBDA field, rest : WithExact(field.exact, GoDecode(field.ty, rest, schema))))

GoDecodeEnum(enum, packet, schema) ==
  IF ArmsOf(enum, packet, schema) = {}
  THEN Refused
  ELSE LET variant == enum.variants[Min(ArmsOf(enum, packet, schema))]
       IN Collected(variant.name,
            ReadFields(variant.fields, Tail(packet), Always,
              LAMBDA field, rest : WithExact(field.exact, GoDecode(field.ty, rest, schema))))

GoDecodeUnitEnum(enum, packet) ==
  Then(LaxInt(8, "u64", packet), LAMBDA number, rest :
    LET named == {v \in Range(enum.variants) : v.value = Some(number.n)}
    IN IF named = {} THEN Refused ELSE Ok(Node((CHOOSE v \in named : TRUE).name, << >>), rest))

GoDecodeItem(item, packet, schema) ==
  CASE item.kind = "alias" -> WithExact(item.exact, GoDecode(item.ty, packet, schema))
    [] item.kind = "flags" -> LaxInt(Width(item.underlying), item.name, packet)
    [] item.kind = "struct" -> GoDecodeStruct(item, packet, schema)
    [] item.kind = "enum" /\ HasFields(item) -> GoDecodeEnum(item, packet, schema)
    [] item.kind = "enum" /\ ~HasFields(item) -> GoDecodeUnitEnum(item, packet)

GoDecode(ty, packet, schema) ==
  CASE Head(ty) \in FixedBytes -> LaxInt(FixedLength(Head(ty)), Head(ty), packet)
    [] ty \in {ByteVec, <<"String">>} -> LaxBytes(packet)
    [] Head(ty) \in Primitives \ {"String"} -> LaxInt(Width(Head(ty)), Head(ty), packet)
    [] Head(ty) = "Optional" ->
         LaxOptional(packet, LAMBDA rest : GoDecode(Tail(ty), rest, schema))
    [] IsCollection(ty) -> GoCollection("owned", ty, packet, schema)
    [] OTHER -> GoDecodeItem(ItemOf(Head(ty), schema), packet, schema)

(***************************************************************************)
(* Borrowed views                                                          *)
(***************************************************************************)

(* A view checks neither exact lengths nor UTF-8.                          *)
GoViewStruct(struct, packet, schema) ==
  IF ~HasCid(packet, StructCid(struct, schema))
  THEN Refused
  ELSE Collected(struct.name,
         ReadFields(struct.fields, Tail(packet),
           LAMBDA guard, parts : GoIsSet(guard, struct.fields, parts),
           LAMBDA field, rest : GoView(field.ty, rest, schema)))

GoViewEnum(enum, packet, schema) ==
  IF ArmsOf(enum, packet, schema) = {}
  THEN Refused
  ELSE LET variant == enum.variants[Min(ArmsOf(enum, packet, schema))]
       IN Collected(variant.name,
            ReadFields(variant.fields, Tail(packet), Always,
              LAMBDA field, rest : GoView(field.ty, rest, schema)))

GoViewItem(item, packet, schema) ==
  CASE item.kind = "struct" -> GoViewStruct(item, packet, schema)
    [] item.kind = "enum" /\ HasView(item) -> GoViewEnum(item, packet, schema)
    [] ~HasView(item) -> GoDecodeItem(item, packet, schema)

GoView(ty, packet, schema) ==
  CASE ty \in {ByteVec, <<"String">>} -> LaxBytes(packet)
    [] Head(ty) \in (Primitives \ {"String"}) \cup FixedBytes -> GoDecode(ty, packet, schema)
    [] Head(ty) = "Optional" ->
         LaxOptional(packet, LAMBDA rest : GoView(Tail(ty), rest, schema))
    [] IsCollection(ty) -> GoCollection("view", ty, packet, schema)
    [] OTHER -> GoViewItem(ItemOf(Head(ty), schema), packet, schema)

(***************************************************************************)
(* Lazy views                                                              *)
(***************************************************************************)

(* One item of a collection, or one entry of a map.                        *)
GoLazyItem(ty, packet, schema) ==
  IF Head(ty) = "Vec"
  THEN GoLazyRead(Tail(ty), FALSE, packet, schema)
  ELSE EntryOf(packet, LAMBDA rest : GoLazyRead(<<ty[2]>>, FALSE, rest, schema),
                       LAMBDA rest : GoLazyRead(MapValue(ty), FALSE, rest, schema))

(* Mutant: a collection starts at its count.                               *)
MGoScan(ty, checked, packet, schema) ==
  Then(LaxCount(packet), LAMBDA count, wire :
    Then(Items(Ok(count, wire), LAMBDA rest : GoLazyItem(ty, rest, schema)), LAMBDA items, rest :
      IF checked /\ Head(ty) = "Map" /\ ~Increasing(items)
      THEN Refused
      ELSE Ok(Lazy(ty, count, packet), rest)))

(* A borrow reads every item once, forgets it, and keeps the place.        *)
GoScan(ty, checked, packet, schema) ==
  Then(LaxCount(packet), LAMBDA count, wire :
    Then(Items(Ok(count, wire), LAMBDA rest : GoLazyItem(ty, rest, schema)), LAMBDA items, rest :
      IF checked /\ Head(ty) = "Map" /\ ~Increasing(items)
      THEN Refused
      ELSE Ok(Lazy(ty, count, wire), rest)))

(* In an enum the keys of a map are checked.                               *)
GoLazyEnum(enum, packet, schema) ==
  IF ArmsOf(enum, packet, schema) = {}
  THEN Refused
  ELSE LET variant == enum.variants[Min(ArmsOf(enum, packet, schema))]
       IN Collected(variant.name,
            ReadFields(variant.fields, Tail(packet), Always,
              LAMBDA field, rest :
                IF IsCollection(field.ty)
                THEN GoScan(field.ty, TRUE, rest, schema)
                ELSE GoLazyRead(field.ty, FALSE, rest, schema)))

(* The order of the keys of a map is not checked here.  Only the message   *)
(* itself can be an enum with a lazy view.                                 *)
GoLazyRead(ty, isMessage, packet, schema) ==
  CASE Head(ty) = "Optional" ->
         LaxOptional(packet, LAMBDA rest : GoLazyRead(Tail(ty), FALSE, rest, schema))
    [] IsCollection(ty) -> GoCollection("lazy", ty, packet, schema)
    [] Len(ty) = 1 /\ ty[1] \in Names(schema) /\ HasLazyView(ItemOf(ty[1], schema)) ->
         LET struct == ItemOf(ty[1], schema)
         IN IF ~HasCid(packet, StructCid(struct, schema))
            THEN Refused
            ELSE Collected(struct.name,
                   ReadFields(struct.fields, Tail(packet),
                     LAMBDA guard, parts : GoIsSet(guard, struct.fields, parts),
                     LAMBDA field, rest :
                       IF IsCollection(field.ty)
                       THEN GoScan(field.ty, FALSE, rest, schema)
                       ELSE GoLazyRead(field.ty, FALSE, rest, schema)))
    [] isMessage /\ IsA("enum", ty[1], schema) -> GoLazyEnum(ItemOf(ty[1], schema), packet, schema)
    [] OTHER -> GoView(ty, packet, schema)

(* BorrowXLazy of the message.                                             *)
GoBorrowLazy(name, packet, schema) == GoLazyRead(<<name>>, TRUE, packet, schema)
=============================================================================
