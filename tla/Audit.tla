------------------------------- MODULE Audit -------------------------------
(***************************************************************************)
(* is_backward_compatible (compatibility.rs): the items of an old schema   *)
(* are compared, one after the other, with those of the same names in a    *)
(* newer one.  The developer may also not run it, for it is opt-in.        *)
(***************************************************************************)
EXTENDS Schema

CONSTANTS
  Catalogue,        \* schemas, by whatever names them
  Migrations        \* pairs of such names, <<before, after>>

(* parse_schema validates what it returns.                                 *)
ASSUME CatalogueAssumption ==
  \A name \in DOMAIN Catalogue : IsAst(Catalogue[name]) /\ Valid(Catalogue[name])

ASSUME MigrationsAssumption ==
  Migrations \subseteq (DOMAIN Catalogue) \X (DOMAIN Catalogue)

VARIABLES
  migration,        \* the names of the two schemas
  audited,          \* how many items of the old one the audit has passed
  verdict           \* "running", "accepted", "rejected", "skipped"

auditVars == <<migration, audited, verdict>>

old == Catalogue[migration[1]]
new == Catalogue[migration[2]]

AuditTypeOK ==
  /\ migration \in Migrations
  /\ audited \in 0 .. Len(old.items)
  /\ verdict \in {"running", "accepted", "rejected", "skipped"}

AuditInit ==
  /\ migration \in Migrations
  /\ audited = 0
  /\ verdict = "running"

(* Mutant: what is around a type is not compared.                          *)
MTypeSignature(ty, schema) ==
  <<<<Last(ty)>>, ExactLenOf(<<Last(ty)>>, schema)>>

(* Only an alias with a constraint shows more than its name.               *)
TypeSignature(ty, schema) ==
  <<ty, ExactLenOf(<<Last(ty)>>, schema)>>

FieldSignature(field, schema) ==
  [name |-> field.name, guard |-> field.guard,
   ty |-> TypeSignature(field.ty, schema), exact |-> field.exact]

FieldSignatures(fields, schema) ==
  [i \in DOMAIN fields |-> FieldSignature(fields[i], schema)]

VariantSignature(variant, schema) ==
  <<variant.value, variant.cid, FieldSignatures(variant.fields, schema)>>

(* Mutant: the fields of the variants are compared, their numbers not.     *)
MEnumKept(before, after) ==
  \A v \in Range(before.variants) :
    \E w \in Range(after.variants) :
      /\ w.name = v.name
      /\ FieldSignatures(w.fields, new) = FieldSignatures(v.fields, old)

(* Every variant is still there; more may have been added.                 *)
EnumKept(before, after) ==
  \A v \in Range(before.variants) :
    \E w \in Range(after.variants) :
      /\ w.name = v.name
      /\ VariantSignature(w, new) = VariantSignature(v, old)

FlagsKept(before, after) ==
  /\ before.underlying = after.underlying
  /\ \A b \in Range(before.bits) :
       \E c \in Range(after.bits) : c.name = b.name /\ c.value = b.value

ItemKept(before, after) ==
  /\ before.kind = after.kind
  /\ CASE before.kind = "struct" ->
            FieldSignatures(before.fields, old) = FieldSignatures(after.fields, new)
       [] before.kind = "enum" -> EnumKept(before, after)
       [] before.kind = "flags" -> FlagsKept(before, after)
       [] before.kind = "alias" -> before.ty = after.ty /\ before.exact = after.exact

(* An item that the new schema no longer has is passed over.               *)
Passes(item) == item.name \in Names(new) => ItemKept(item, ItemOf(item.name, new))

(* Mutant: the audit takes two items at a time and looks at the first.     *)
MAuditItem ==
  /\ verdict = "running"
  /\ audited < Len(old.items)
  /\ Passes(old.items[audited + 1])
  /\ audited' = audited + 2
  /\ UNCHANGED <<migration, verdict>>

AuditItem ==
  /\ verdict = "running"
  /\ audited < Len(old.items)
  /\ Passes(old.items[audited + 1])
  /\ audited' = audited + 1
  /\ UNCHANGED <<migration, verdict>>

RejectItem ==
  /\ verdict = "running"
  /\ audited < Len(old.items)
  /\ ~Passes(old.items[audited + 1])
  /\ verdict' = "rejected"
  /\ UNCHANGED <<migration, audited>>

Accept ==
  /\ verdict = "running"
  /\ audited = Len(old.items)
  /\ verdict' = "accepted"
  /\ UNCHANGED <<migration, audited>>

(* A release without the audit.                                            *)
DeployUnaudited ==
  /\ verdict = "running"
  /\ audited = 0
  /\ verdict' = "skipped"
  /\ UNCHANGED <<migration, audited>>

AuditNext == AuditItem \/ RejectItem \/ Accept \/ DeployUnaudited

AuditSpec == AuditInit /\ [][AuditNext]_auditVars
-----------------------------------------------------------------------------
(* The constructors an item stands for, with the IDs they have on the wire *)
Cids(item, schema) ==
  CASE item.kind = "struct" -> {<<item.name, StructCid(item, schema)>>}
    [] item.kind = "enum" /\ HasFields(item) ->
         {<<v.name, CidOfVariant(item, v, schema)>> : v \in Range(item.variants)}
    [] OTHER -> {}

(* "Constructor IDs are part of the wire contract, so changing them is     *)
(* rejected", and "New top-level items [...] are safe"                     *)
(* (compatibility.rs:13-15): after an audit that accepted, no constructor  *)
(* of an item that is still there has another ID.  As it stands this is not*)
(* so: see Shadows.                                                        *)
AuditKeepsCids ==
  verdict = "accepted" =>
    \A name \in Names(old) \cap Names(new) :
      Cids(ItemOf(name, old), old) \subseteq Cids(ItemOf(name, new), new)

(* An item that has the name of a primitive type, and is there in one of   *)
(* the schemas only.  Nothing forbids the name (validate.rs:7-18); an alias*)
(* of it stands for its type in the canonical forms (fingerprint.rs:103),  *)
(* and for its name in the signatures (compatibility.rs:141): to add       *)
(* `type u8 = bool;` changes the ID of a struct with a u8 field, and the   *)
(* audit accepts it.                                                       *)
Shadows ==
  \E name \in Primitives : (name \in Names(old)) # (name \in Names(new))

(* But for such names, it is so: the signatures the audit compares are at  *)
(* least as fine as the canonical forms, although an alias is a name in    *)
(* the ones and its type, and theirs in turn, in the others.               *)
AcceptedKeepsCids == ~Shadows => AuditKeepsCids
=============================================================================
