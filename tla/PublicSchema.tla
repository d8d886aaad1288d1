---------------------------- MODULE PublicSchema ----------------------------
(***************************************************************************)
(* Schema files as sequences of tokens, and the public schema the compiler *)
(* prints (codegen.rs).                                                    *)
(*                                                                         *)
(* A token is its shape and its value, with the comments in front of it.   *)
(* An attribute is one token, and so is a type; the shape of a keyword or  *)
(* a sign is itself.  A file ends with a token of shape "eof".  Layout is  *)
(* left out, and with it the difference between the expanded and the       *)
(* compact format.                                                         *)
(***************************************************************************)
EXTENDS Schema

(* The comments in front of a token are texts.                             *)
IsFile(file) ==
  /\ file \in Seq(Range(file)) /\ file # << >> /\ Last(file).shape = "eof"
  /\ \A t \in Range(file) : t.before \in Seq(STRING)

Token(shape, value) == [shape |-> shape, value |-> value, before |-> << >>]
Sign(shape) == Token(shape, << >>)
Signs(shapes) == [i \in DOMAIN shapes |-> Sign(shapes[i])]
Name(name) == Token("name", name)
OptAttr(shape, option) == IF option = None THEN << >> ELSE <<Token(shape, option[1])>>

(* The comments of a file, in the order in which trivia are skipped.       *)
CommentsOf(tokens) == FlattenSeq([i \in DOMAIN tokens |-> tokens[i].before])

(* Comments printed here stand before the token that comes next.           *)
Commented(comments, tokens) ==
  [tokens EXCEPT ![1].before = comments \o @]

Separated(parts, separator) ==
  FlattenSeq([i \in DOMAIN parts |->
    IF i = Len(parts) THEN parts[i] ELSE Append(parts[i], Sign(separator))])

PublicAlias(alias) ==
  <<Sign("type"), Name(alias.name), Sign("="), Token("ty", alias.ty)>>
    \o OptAttr("exact_len", alias.exact) \o <<Sign(";")>>

PublicFlags(flags) ==
  <<Token("flags", flags.underlying), Sign("enum"), Name(flags.name), Sign("{")>>
    \o Separated([i \in DOMAIN flags.bits |->
         <<Name(flags.bits[i].name), Sign("="), Token("number", flags.bits[i].value)>>], ",")
    \o <<Sign("}")>>

(* Mutant: the constraint of a field is not printed.                       *)
MPublicField(field) ==
  OptAttr("deprecated", field.deprecated) \o OptAttr("guard", field.guard)
    \o <<Name(field.name), Sign(":"), Token("ty", field.ty)>>

(* The deprecation is printed before the guard.                            *)
PublicField(field) ==
  OptAttr("deprecated", field.deprecated) \o OptAttr("guard", field.guard)
    \o <<Name(field.name), Sign(":"), Token("ty", field.ty)>>
    \o OptAttr("exact_len", field.exact)

PublicStruct(struct, schema) ==
  <<Token("cid", StructCid(struct, schema)), Sign("struct"), Name(struct.name), Sign("{")>>
    \o Separated([i \in DOMAIN struct.fields |-> PublicField(struct.fields[i])], ",")
    \o <<Sign("}")>>

(* A variant of an enum with fields is printed without its number, and its *)
(* fields without guard and deprecation; its ID is that of the guards.     *)
PublicVariantField(field) ==
  <<Name(field.name), Sign(":"), Token("ty", field.ty)>> \o OptAttr("exact_len", field.exact)

PublicVariant(enum, variant, schema) ==
  IF HasFields(enum)
  THEN <<Token("cid", CidOfVariant(enum, variant, schema)), Name(variant.name), Sign("{")>>
         \o Separated([i \in DOMAIN variant.fields |->
                         PublicVariantField(variant.fields[i])], ",")
         \o <<Sign("}")>>
  ELSE <<Name(variant.name), Sign("="), Token("number", variant.value[1])>>

PublicEnum(enum, schema) ==
  <<Sign("enum"), Name(enum.name), Sign("{")>>
    \o Separated([i \in DOMAIN enum.variants |->
                    PublicVariant(enum, enum.variants[i], schema)], ",")
    \o <<Sign("}")>>

PublicItem(item, schema) ==
  CASE item.kind = "alias" -> PublicAlias(item)
    [] item.kind = "flags" -> PublicFlags(item)
    [] item.kind = "struct" -> PublicStruct(item, schema)
    [] item.kind = "enum" -> PublicEnum(item, schema)

PublicFunction(function) ==
  OptAttr("deprecated", function.deprecated)
    \o <<Name(function.name), Sign(":"), Name(function.request), Sign("->"), Name(function.result)>>

PublicFunctions(functions) ==
  IF functions = << >>
  THEN << >>
  ELSE Signs(<<"functions", "{">>)
         \o Separated([i \in DOMAIN functions |-> PublicFunction(functions[i])], ";")
         \o <<Sign("}")>>

(* Mutant: the comments that belong to no item are not printed.            *)
MRemaining(schema) == << >>

(* What is printed after the items, for the comments that belong to none:  *)
(* as many of the last comments as have not been assigned.                 *)
Remaining(schema) ==
  LET assigned == Len(FlattenSeq(schema.item_comments))
  IN SubSeq(schema.comments, assigned + 1, Len(schema.comments))

Public(schema, preserve) ==
  <<Token("version", schema.version)>>
    \o FlattenSeq([i \in DOMAIN schema.items |->
         Commented(IF preserve THEN schema.item_comments[i] ELSE << >>,
                   PublicItem(schema.items[i], schema))])
    \o Commented(IF preserve THEN Remaining(schema) ELSE << >>,
                 Append(PublicFunctions(schema.functions), Sign("eof")))
=============================================================================
