---------------------------- MODULE MCLayerAudit ----------------------------
(* Two small schemas that differ in one item: those of version 1, whose    *)
(* messages are sent, and those of version 2, which are audited only and   *)
(* have aliases of aliases and an alias with the name of a primitive type. *)
EXTENDS LayerAudit

MCNormal(name) == IF name = "A_" THEN "a" ELSE name

Field(name, ty) ==
  [name |-> name, guard |-> None, ty |-> ty, exact |-> None, deprecated |-> None]
GuardedBy(owner, bit, field) ==
  [field EXCEPT !.guard = Some([owner |-> owner, bit |-> bit])]
Exactly(n, field) == [field EXCEPT !.exact = Some(n)]

FlagsItem(underlying, bits) ==
  [kind |-> "flags", name |-> "F", underlying |-> underlying, bits |-> bits]
FlagBit(name, value) == [name |-> name, value |-> value]
NamedAlias(name, ty) == [kind |-> "alias", name |-> name, ty |-> ty, exact |-> None]
Alias(ty, exact) == [NamedAlias("A", ty) EXCEPT !.exact = exact]
Unit(name, value) == [name |-> name, cid |-> None, fields |-> << >>, value |-> Some(value)]
Variant(name, fields) == [name |-> name, cid |-> None, fields |-> fields, value |-> None]
EnumItem(variants) == [kind |-> "enum", name |-> "E", variants |-> variants]
StructItem(fields) == [kind |-> "struct", name |-> "S", cid |-> None, fields |-> fields]

FlagsItems ==
  <<FlagsItem("u8", <<FlagBit("a", 0)>>),
    FlagsItem("u8", <<FlagBit("a", 0), FlagBit("b", 1)>>),
    FlagsItem("u8", <<FlagBit("a", 1)>>)>>

Stating(variant, path) == [variant EXCEPT !.cid = Some(<<path, << >>>>)]

Enums ==
  <<EnumItem(<<Unit("X", 0)>>),
    EnumItem(<<Unit("Y", 0), Unit("X", 1)>>),
    EnumItem(<<Unit("X", 0), Variant("Y", <<Field("v", <<"u8">>)>>)>>),
    EnumItem(<<Variant("Y", <<Field("v", <<"u8">>)>>), Unit("X", 0),
               Variant("Z", <<Field("v", <<"A">>)>>)>>),
    EnumItem(<<Variant("X", <<Field("v", <<"bool">>)>>), Variant("Y", <<Field("v", <<"bool">>)>>)>>),
    EnumItem(<<Stating(Unit("X", 0), <<"E", "X">>), Stating(Unit("W", 1), <<"E", "X">>),
               Variant("Y", <<Field("v", <<"u8">>)>>)>>),
    EnumItem(<<Stating(Unit("W", 1), <<"E", "X">>), Unit("X", 0),
               Variant("Y", <<Field("v", <<"u8">>)>>)>>),
    EnumItem(<<Stating(Unit("W", 1), <<"E", "X">>), Variant("Y", <<Field("v", <<"u8">>)>>)>>)>>

Aliases ==
  <<Alias(ByteVec, Some(1)), Alias(ByteVec, Some(2)), Alias(<<"bool">>, None)>>

Structs ==
  <<StructItem(<<Field("f", <<"F">>), Field("g", <<"F">>),
                 GuardedBy("f", "A_", Field("x", <<"A">>))>>),
    StructItem(<<Field("f", <<"F">>), Field("g", <<"F">>),
                 GuardedBy("g", "A_", Field("x", <<"A">>))>>),
    StructItem(<<Field("f", <<"F">>), Field("g", <<"F">>), Field("x", <<"A">>)>>),
    StructItem(<<Field("x", <<"Optional", "A">>), Field("e", <<"E">>)>>),
    StructItem(<<Exactly(1, Field("x", ByteVec)), Field("e", <<"E">>)>>)>>

(* A schema is named by the versions of its items; version 0 of the struct *)
(* is a schema without it, and version 0 of the enum one without both.     *)
(* Enums that state an ID are tried beside one choice of flags and alias.  *)
States(enum) == \E v \in Range(enum.variants) : v.cid # None

Versions ==
  {v \in (1 .. Len(FlagsItems)) \X (1 .. Len(Aliases)) \X (0 .. Len(Enums))
          \X (0 .. Len(Structs)) :
     /\ v[3] = 0 => v[4] = 0
     /\ v[3] > 0 /\ States(Enums[v[3]]) => v[1] = 1 /\ v[2] = 1}

SchemaOf(v) ==
  [version |-> 1, functions |-> << >>,
   items |-> <<FlagsItems[v[1]], Aliases[v[2]]>>
               \o (IF v[3] = 0 THEN << >> ELSE <<Enums[v[3]]>>)
               \o (IF v[4] = 0 THEN << >> ELSE <<Structs[v[4]]>>)]

(* The versions of the items of a schema that is audited only; the name of *)
(* such a schema is 0 and then a version for each.                         *)
Chained ==
  <<<<<< >>, <<Alias(ByteVec, None)>>, <<Alias(ByteVec, Some(1))>>, <<Alias(<<"B">>, None)>>,
      <<Alias(<<"Optional", "Vec", "A">>, None)>>>>,
    <<<< >>, <<NamedAlias("B", <<"bool">>)>>, <<NamedAlias("B", <<"A">>)>>>>,
    <<<< >>, <<NamedAlias("u8", <<"bool">>)>>>>,
    <<<< >>, <<EnumItem(<<Variant("X", <<Field("v", <<"A">>)>>)>>)>>>>,
    <<<<StructItem(<<Field("x", <<"u8">>)>>)>>, <<StructItem(<<Field("x", ByteVec)>>)>>,
      <<StructItem(<<Field("x", <<"Vec", "A">>)>>)>>>>>>

ChainVersions ==
  {<<0>> \o v : v \in {w \in [1 .. 5 -> 1 .. 5] : \A i \in 1 .. 5 : w[i] \in DOMAIN Chained[i]}}

ChainSchema(v) ==
  [version |-> 2, functions |-> << >>,
   items |-> FlattenSeq([i \in 1 .. 5 |-> Chained[i][v[i + 1]]])]

TheSchema(v) == IF v[1] = 0 THEN ChainSchema(v) ELSE SchemaOf(v)

MCCatalogue == [v \in {w \in Versions \cup ChainVersions : Valid(TheSchema(w))} |-> TheSchema(v)]

Differences(v, w) == Cardinality({i \in DOMAIN v : v[i] # w[i]})

MCMigrations ==
  {m \in (DOMAIN MCCatalogue) \X (DOMAIN MCCatalogue) :
     Len(m[1]) = Len(m[2]) /\ Differences(m[1], m[2]) <= 1}

RECURSIVE ValuesOf(_, _)

PartsOf(fields, schema) ==
  LET choices == [i \in DOMAIN fields |->
        LET values == ValuesOf(fields[i].ty, schema)
        IN IF fields[i].exact # None
           THEN {Number("Vec", fields[i].exact[1])}
           ELSE IF ExactLenOf(fields[i].ty, schema) # None
                THEN {Number("Vec", ExactLenOf(fields[i].ty, schema)[1])}
                ELSE values]
      all == [i \in DOMAIN fields |->
        IF fields[i].guard = None THEN choices[i]
        ELSE {Absent} \cup {Present(v) : v \in choices[i]}]
  IN {parts \in [DOMAIN fields -> UNION Range(all)] : \A i \in DOMAIN fields : parts[i] \in all[i]}

ValuesOf(ty, schema) ==
  CASE Head(ty) = "Optional" ->
         {Absent} \cup {Present(v) : v \in ValuesOf(Tail(ty), schema)}
    [] ty = ByteVec -> {Number("Vec", 1)}
    [] Head(ty) \in Primitives -> {Number(Head(ty), 1)}
    [] IsA("alias", Head(ty), schema) ->  ValuesOf(ItemOf(Head(ty), schema).ty, schema)
    [] IsA("flags", Head(ty), schema) -> {Number(Head(ty), n) : n \in {0, 3}}
    [] IsA("enum", Head(ty), schema) ->
         UNION {{Node(v.name, parts) : parts \in PartsOf(v.fields, schema)} :
                v \in Range(ItemOf(Head(ty), schema).variants)}
    [] IsA("struct", Head(ty), schema) ->
         {Node(Head(ty), parts) : parts \in PartsOf(ItemOf(Head(ty), schema).fields, schema)}

MCValues(name, schema) == IF schema.version = 2 THEN {} ELSE ValuesOf(<<name>>, schema)
=============================================================================
