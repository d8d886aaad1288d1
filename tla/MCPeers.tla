------------------------------ MODULE MCPeers ------------------------------
(* One small schema for each shape that the codecs treat differently.      *)
EXTENDS Peers

MCNormal(name) ==
  CASE name \in {"IsVerified", "is_verified"} -> "isverified"
    [] name \in {"HasAvatar", "has_avatar"} -> "hasavatar"
    [] OTHER -> name

Field(name, ty) ==
  [name |-> name, guard |-> None, ty |-> ty, exact |-> None, deprecated |-> None]
If(owner, bit, field) == [field EXCEPT !.guard = Some([owner |-> owner, bit |-> bit])]
Exactly(n, field) == [field EXCEPT !.exact = Some(n)]
Struct(name, fields) == [kind |-> "struct", name |-> name, cid |-> None, fields |-> fields]
Variant(name, fields) == [name |-> name, cid |-> None, fields |-> fields, value |-> None]
Unit(name, n) == [name |-> name, cid |-> None, fields |-> << >>, value |-> Some(n)]
Enum(name, variants) == [kind |-> "enum", name |-> name, variants |-> variants]
Flags(underlying, bits) ==
  [kind |-> "flags", name |-> "F", underlying |-> underlying,
   bits |-> [i \in DOMAIN bits |-> [name |-> bits[i][1], value |-> bits[i][2]]]]
Hash == [kind |-> "alias", name |-> "Hash", ty |-> ByteVec, exact |-> Some(2)]
SchemaOf(items) == [version |-> 1, functions |-> << >>, items |-> items]

Numbers == <<"Vec", "u16">>
Dict(ty) == <<"Map", "String", ty>>

Plain == <<Struct("M", <<Field("a", <<"bool">>), Field("s", <<"String">>),
                         Field("b", ByteVec), Field("f", <<"bytes[2]">>)>>)>>
Lists == <<Struct("M", <<Field("v", Numbers), Field("o", <<"Optional", "Vec", "String">>)>>)>>
ListOfLists == <<Struct("M", <<Field("v", <<"Vec", "Vec", "u16">>)>>)>>
ListOfOptions == <<Struct("M", <<Field("v", <<"Vec", "Optional", "Vec", "u16">>)>>)>>
MapList == <<Struct("M", <<Field("v", <<"Vec", "Map", "String", "u8">>)>>)>>
Dictionary == <<Struct("M", <<Field("m", Dict("bool")), Field("n", <<"u8">>)>>)>>
NumberKeys == <<Struct("M", <<Field("m", <<"Map", "u8", "u16">>)>>)>>
DictOfLists == <<Struct("M", <<Field("m", <<"Map", "String", "Vec", "u16">>)>>)>>
Choice == <<Enum("E", <<Unit("X", 0), Unit("Y", 1)>>),
            Enum("M", <<Variant("A", <<Field("v", Numbers)>>),
                        Variant("B", <<Field("m", Dict("bool")), Field("e", <<"E">>)>>),
                        Variant("C", << >>)>>)>>
ListOfChoices == <<Enum("N", <<Variant("A", <<Exactly(1, Field("b", ByteVec))>>), Variant("B", << >>)>>),
                   Struct("M", <<Field("v", <<"Vec", "N">>)>>)>>
ListOfStructs == <<Struct("S", <<Field("t", Numbers)>>),
                   Struct("M", <<Field("s", <<"S">>), Field("v", <<"Vec", "S">>)>>)>>
ListOfDicts == <<Struct("S", <<Field("m", Dict("u8"))>>),
                 Struct("M", <<Field("v", <<"Vec", "S">>)>>)>>
Hashes == <<Hash, Struct("M", <<Field("h", <<"Hash">>), Field("o", <<"Optional", "Hash">>)>>)>>
ListOfHashes == <<Hash, Struct("M", <<Field("v", <<"Vec", "Hash">>)>>)>>

Guarded2(flags, owner) ==
  <<flags,
    Struct("M", <<Field("flags", <<"F">>), Field("more", <<"F">>),
                  If(owner, "is_verified", Field("x", <<"String">>)),
                  If(owner, "has_avatar", Field("y", Numbers))>>)>>

MCCatalogue ==
  [plain |-> Plain, lists |-> Lists, list_of_lists |-> ListOfLists, list_of_options |-> ListOfOptions,
   map_list |-> MapList, dict |-> Dictionary,
   number_keys |-> NumberKeys, dict_of_lists |-> DictOfLists, choice |-> Choice,
   list_of_choices |-> ListOfChoices, list_of_structs |-> ListOfStructs,
   list_of_dicts |-> ListOfDicts, hashes |-> Hashes, list_of_hashes |-> ListOfHashes,
   guards |-> Guarded2(Flags("u16", <<<<"IsVerified", 1>>, <<"HasAvatar", 2>>>>), "flags"),
   bits |-> Guarded2(Flags("u16", <<<<"is_verified", 0>>, <<"has_avatar", 1>>>>), "flags"),
   owners |-> Guarded2(Flags("u16", <<<<"IsVerified", 1>>, <<"HasAvatar", 2>>>>), "more"),
   wide |-> Guarded2(Flags("u64", <<<<"IsVerified", 1>>, <<"HasAvatar", 2>>>>), "flags")]

MCSchemas == [k \in DOMAIN MCCatalogue |-> SchemaOf(MCCatalogue[k])]

(* The nesting of README.en.md:163, and of lists.                          *)
NestedSchemas ==
  [messages |-> SchemaOf(<<Struct("S", <<Field("n", <<"u8">>)>>),
                           Struct("M", <<Field("m", <<"Map", "String", "Vec", "S">>)>>)>>),
   lists |-> SchemaOf(ListOfLists)]

(* The schema of README.en.md:97-109, as far as guards go.                 *)
ReadmeSchemas ==
  [user |-> SchemaOf(
     <<Flags("u16", <<<<"IsBot", 0>>, <<"HasAvatar", 1>>>>),
       Struct("M", <<Field("id", <<"u64">>), Field("flags", <<"F">>),
                     If("flags", "has_avatar", Field("avatar_url", <<"String">>))>>)>>)]

RECURSIVE ValuesOf(_, _, _)

PartsOf(fields, ofSchema) ==
  LET plain == [i \in DOMAIN fields |-> ValuesOf(fields[i].ty, fields[i].exact, ofSchema)]
      all == [i \in DOMAIN fields |->
        IF fields[i].guard = None THEN plain[i] ELSE {Absent} \cup {Present(v) : v \in plain[i]}]
  IN {parts \in [DOMAIN fields -> UNION Range(all)] : \A i \in DOMAIN fields : parts[i] \in all[i]}

Two(values) == CHOOSE s \in values \X values : Cardinality(values) > 1 => s[1] # s[2]

ValuesOf(ty, exact, ofSchema) ==
  CASE ty = ByteVec -> {Number("Vec", IF exact = None THEN 1 ELSE exact[1])}
    [] ty = <<"String">> -> {Number("Vec", 1)}
    [] Head(ty) = "Optional" ->
         {Absent} \cup {Present(v) : v \in ValuesOf(Tail(ty), None, ofSchema)}
    [] Head(ty) = "Vec" /\ ty # ByteVec ->
         {Node("vec", << >>), Node("vec", Two(ValuesOf(Tail(ty), None, ofSchema)))}
    [] Head(ty) = "Map" ->
         LET values == Two(ValuesOf(MapValue(ty), None, ofSchema))
             is == IF ty[2] = "String" THEN "Vec" ELSE ty[2]
         IN {Node("map", << >>)}
              \cup {Node("map", <<Entry(Number(is, k), values[1]), Entry(Number(is, 3), values[2])>>) :
                    k \in {1, 2}}
    [] Head(ty) = "bool" -> {Number("bool", 0), Number("bool", 1)}
    [] Head(ty) \in FixedBytes \cup (Primitives \ {"bool", "String"}) ->
         {Number(Head(ty), 1)}
    [] IsA("alias", Head(ty), ofSchema) ->
         ValuesOf(ItemOf(Head(ty), ofSchema).ty, ItemOf(Head(ty), ofSchema).exact, ofSchema)
    [] IsA("flags", Head(ty), ofSchema) -> {Number(Head(ty), n) : n \in {0, 2}}
    [] IsA("enum", Head(ty), ofSchema) ->
         UNION {{Node(v.name, parts) : parts \in PartsOf(v.fields, ofSchema)} :
                v \in Range(ItemOf(Head(ty), ofSchema).variants)}
    [] IsA("struct", Head(ty), ofSchema) ->
         {Node(Head(ty), parts) : parts \in PartsOf(ItemOf(Head(ty), ofSchema).fields, ofSchema)}

MCValues(name, ofSchema) == ValuesOf(<<name>>, None, ofSchema)
=============================================================================
