------------------------------- MODULE Schema -------------------------------
(***************************************************************************)
(* Schemas as the compiler holds them (ast.rs), what validation asks of    *)
(* them (validate.rs) and the canonical forms whose hashes are constructor *)
(* IDs (fingerprint.rs).                                                   *)
(*                                                                         *)
(* A type is the chain of its constructors: Optional<Vec<u8>> is           *)
(* <<"Optional", "Vec", "u8">>, and Map<u8, A> is <<"Map", "u8", "A">>,    *)
(* which is enough because map keys are primitive (an alias that has the   *)
(* name of a primitive type is not followed in a key).  An option of the AST*)
(* is a sequence of at most one value.  A constructor ID is its canonical  *)
(* form: the hash is taken to be injective.                                *)
(***************************************************************************)
EXTENDS Naturals, Sequences, SequencesExt, FiniteSets, TLC

CONSTANT
  Normal(_)  \* normalize_name: lower case, without underscores

None == << >>
Some(x) == <<x>>

Primitives ==
  {"bool", "u8", "u16", "u32", "u64", "u128", "i8", "i16", "i32", "i64",
   "i128", "f32", "f64", "String"}

MapKeys == Primitives \ {"f32", "f64"}
Wrappers == {"Optional", "Vec", "Map"}
FixedBytes == {"bytes[0]", "bytes[1]", "bytes[2]"}
ByteVec == <<"Vec", "u8">>

Width(primitive) ==
  CASE primitive \in {"bool", "u8", "i8"} -> 1
    [] primitive \in {"u16", "i16"} -> 2
    [] primitive \in {"u32", "i32", "f32"} -> 4
    [] primitive \in {"u64", "i64", "f64"} -> 8
    [] OTHER -> 16

Names(schema) == {schema.items[i].name : i \in DOMAIN schema.items}

ItemOf(name, schema) ==
  schema.items[CHOOSE i \in DOMAIN schema.items : schema.items[i].name = name]

IsA(kind, name, schema) ==
  name \in Names(schema) /\ ItemOf(name, schema).kind = kind

(* The constraint of a type: only a bare alias has one.                    *)
ExactLenOf(ty, schema) ==
  IF Len(ty) = 1 /\ IsA("alias", ty[1], schema)
  THEN ItemOf(ty[1], schema).exact
  ELSE None

HasFields(enum) == \E i \in DOMAIN enum.variants : enum.variants[i].fields # << >>

(* The position of the flags bit that a guard names, whatever its spelling *)
(* in the guard and in the flags.                                          *)
BitNamed(flags, bit) ==
  CHOOSE i \in DOMAIN flags.bits : Normal(flags.bits[i].name) = Normal(bit)

(***************************************************************************)
(* fingerprint.rs                                                          *)
(***************************************************************************)

Constraint(exact) ==
  IF exact = None THEN << >> ELSE <<"exact_len", ToString(exact[1])>>

(* The alias at the end of a type is replaced by its type, and leaves its  *)
(* constraint behind, unless it has been replaced before.                  *)
AliasReplaced(state, schema) ==
  LET name == Last(state.ty)
  IN IF ~IsA("alias", name, schema) \/ name \in state.aliases
     THEN state
     ELSE LET alias == ItemOf(name, schema)
          IN [ty |-> Front(state.ty) \o alias.ty,
              exact |-> Constraint(alias.exact) \o state.exact,
              aliases |-> state.aliases \cup {name}]

(* This is done until there is no such alias: as often as there are items. *)
Expanded(ty, schema) ==
  LET after[n \in Nat] ==
        IF n = 0 THEN [ty |-> ty, exact |-> << >>, aliases |-> {}]
        ELSE AliasReplaced(after[n - 1], schema)
      last == after[Len(schema.items)]
  IN last.ty \o last.exact

(* Mutant: a guard is no part of the ID.                                   *)
MFieldCanonical(field, schema) ==
  [guard |-> None, name |-> field.name,
   ty |-> Expanded(field.ty, schema) \o Constraint(field.exact)]

(* The guard is known by its bit; the field that owns the bit is left out. *)
(* A constraint is written alike whether the field has it or an alias.     *)
FieldCanonical(field, schema) ==
  [guard |-> IF field.guard = None THEN None ELSE Some(field.guard[1].bit),
   name |-> field.name,
   ty |-> Expanded(field.ty, schema) \o Constraint(field.exact)]

Canonical(path, fields, schema) ==
  <<path, [i \in DOMAIN fields |-> FieldCanonical(fields[i], schema)]>>

ConstructorCid(struct, schema) == Canonical(<<struct.name>>, struct.fields, schema)

VariantCid(enum, variant, schema) ==
  Canonical(<<enum.name, variant.name>>, variant.fields, schema)

(* What the generators put on the wire: the ID the schema states, or else  *)
(* the computed one.                                                       *)
StructCid(struct, schema) ==
  IF struct.cid = None THEN ConstructorCid(struct, schema) ELSE struct.cid[1]

CidOfVariant(enum, variant, schema) ==
  IF variant.cid = None THEN VariantCid(enum, variant, schema) ELSE variant.cid[1]

(***************************************************************************)
(* ast.rs, and what the parser makes of it                                 *)
(***************************************************************************)

(* A type ends in a name or in fixed bytes: a wrapper has an argument.     *)
IsType(ty) == ty \in Seq(STRING) /\ ty # << >> /\ Last(ty) \notin Wrappers

AreFields(fields) ==
  fields \in Seq(Range(fields)) /\ \A field \in Range(fields) : IsType(field.ty)

(* A name is an identifier, which "bytes[1]" is not.                       *)
IsItem(item) ==
  /\ item.kind \in {"alias", "struct", "enum", "flags"}
  /\ item.name \notin FixedBytes
  /\ item.kind = "alias" => IsType(item.ty)
  /\ item.kind = "struct" => AreFields(item.fields)
  /\ item.kind = "enum" => \A v \in Range(item.variants) : AreFields(v.fields)

IsAst(schema) ==
  /\ schema.items \in Seq(Range(schema.items))
  /\ \A item \in Range(schema.items) : IsItem(item)

(***************************************************************************)
(* validate.rs                                                             *)
(***************************************************************************)

Distinct(names) == Cardinality(Range(names)) = Len(names)

ValidType(ty, schema) ==
  \A i \in DOMAIN ty :
    /\ ty[i] \in Wrappers \cup Primitives \cup Names(schema)
                   \cup (FixedBytes \ {"bytes[0]"})
    /\ ty[i] = "Optional" => ty[i + 1] # "Optional"
    /\ ty[i] = "Map" => ty[i + 1] \in MapKeys

(* A guard names a bit of the flags type of an earlier field.  The earlier *)
(* field may itself be guarded.                                            *)
ValidGuard(guard, earlier, schema) ==
  \E i \in DOMAIN earlier :
    /\ earlier[i].name = guard.owner
    /\ Len(earlier[i].ty) = 1
    /\ IsA("flags", earlier[i].ty[1], schema)
    /\ \E b \in Range(ItemOf(earlier[i].ty[1], schema).bits) :
         Normal(b.name) = Normal(guard.bit)

ValidField(field, earlier, schema) ==
  /\ ValidType(field.ty, schema)
  /\ field.exact # None => field.ty = ByteVec
  /\ field.guard # None => ValidGuard(field.guard[1], earlier, schema)

ValidFields(fields, schema) ==
  /\ Distinct([i \in DOMAIN fields |-> fields[i].name])
  /\ \A i \in DOMAIN fields : ValidField(fields[i], SubSeq(fields, 1, i - 1), schema)

ValidAlias(alias, schema) ==
  /\ ValidType(alias.ty, schema)
  /\ alias.exact # None => alias.ty = ByteVec

ValidStruct(struct, schema) ==
  /\ ValidFields(struct.fields, schema)
  /\ struct.cid # None => struct.cid[1] = ConstructorCid(struct, schema)

(* In an enum with fields only the variants that have fields answer for    *)
(* their IDs: two empty ones may state the same.                           *)
ValidEnum(enum, schema) ==
  /\ Distinct([i \in DOMAIN enum.variants |-> enum.variants[i].name])
  /\ \A v \in Range(enum.variants) :
       /\ ValidFields(v.fields, schema)
       /\ IF HasFields(enum)
          THEN v.fields # << >> /\ v.cid # None =>
                 v.cid[1] = VariantCid(enum, v, schema)
          ELSE v.cid = None /\ v.value # None
  /\ ~HasFields(enum) => Distinct([i \in DOMAIN enum.variants |-> enum.variants[i].value])

ValidFlags(flags) ==
  /\ flags.underlying \in {"u8", "u16", "u32", "u64", "u128"}
  /\ \A b \in Range(flags.bits) : b.value < 8 * Width(flags.underlying)
  /\ Distinct([i \in DOMAIN flags.bits |-> Normal(flags.bits[i].name)])
  /\ Distinct([i \in DOMAIN flags.bits |-> flags.bits[i].value])

ValidItem(item, schema) ==
  CASE item.kind = "alias" -> ValidAlias(item, schema)
    [] item.kind = "struct" -> ValidStruct(item, schema)
    [] item.kind = "enum" -> ValidEnum(item, schema)
    [] item.kind = "flags" -> ValidFlags(item)

ValidFunctions(functions, schema) ==
  /\ Distinct([i \in DOMAIN functions |-> functions[i].name])
  /\ \A f \in Range(functions) : {f.request, f.result} \subseteq Names(schema) \cup {"Empty"}

Valid(schema) ==
  /\ Distinct([i \in DOMAIN schema.items |-> schema.items[i].name])
  /\ "Empty" \notin Names(schema)
  /\ ValidFunctions(schema.functions, schema)
  /\ \A i \in DOMAIN schema.items : ValidItem(schema.items[i], schema)
=============================================================================
