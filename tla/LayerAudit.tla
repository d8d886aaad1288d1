----------------------------- MODULE LayerAudit -----------------------------
(***************************************************************************)
(* A schema is replaced by a newer one while messages of the old one are   *)
(* still sent: after the audit, or without it, messages that the codec of  *)
(* the old schema has encoded are decoded by that of the new one.          *)
(***************************************************************************)
EXTENDS Audit, MessageCodec

CONSTANT
  Values(_, _)      \* Values(name, schema): values of an item to send

VARIABLES
  sent,             \* the message under way: its item, value and packet
  received          \* what the receiver made of it, once it has tried

messageVars == <<sent, received>>
vars == <<migration, audited, verdict, sent, received>>

NoMessage == [item |-> "", value |-> Absent, packet |-> << >>]

TypeOK ==
  /\ AuditTypeOK
  /\ sent.item \in Names(old) \cup {""}
  /\ Len(received) <= 1

Init ==
  /\ AuditInit
  /\ sent = NoMessage
  /\ received = None

(* The value with the flags that go on the wire.                           *)
Settled(name, value) ==
  IF IsA("struct", name, old)
  THEN [value EXCEPT !.parts = Effective(@, ItemOf(name, old).fields, old)]
  ELSE value

Send ==
  /\ verdict \in {"accepted", "skipped"}
  /\ sent = NoMessage
  /\ \E name \in Names(old) :
       /\ IsA("struct", name, old) \/ IsA("enum", name, old)
       /\ \E value \in Values(name, old) :
            sent' = [item |-> name, value |-> Settled(name, value),
                     packet |-> Encode(<<name>>, value, old)]
  /\ UNCHANGED <<migration, audited, verdict, received>>

(* A receiver that no longer has the item has no decoder for the message.  *)
Receive ==
  /\ sent # NoMessage
  /\ received = None
  /\ sent.item \in Names(new)
  /\ received' = Some(DecodeMessage(sent.item, sent.packet, new))
  /\ UNCHANGED <<migration, audited, verdict, sent>>

Audits == AuditNext /\ UNCHANGED messageVars

Next == Audits \/ Send \/ Receive

Spec == Init /\ [][Next]_vars

(***************************************************************************)
(* Properties                                                              *)
(***************************************************************************)

FieldsOf(item) ==
  CASE item.kind = "struct" -> Range(item.fields)
    [] item.kind = "enum" -> UNION {Range(v.fields) : v \in Range(item.variants)}
    [] OTHER -> {}

Mentions(item) ==
  IF item.kind = "alias" THEN Range(item.ty) ELSE UNION {Range(f.ty) : f \in FieldsOf(item)}

(* The items a message of an item is made of.                              *)
RECURSIVE Reach(_, _)
Reach(names, schema) ==
  LET more == UNION {Mentions(ItemOf(n, schema)) : n \in names} \cap Names(schema)
  IN IF more \subseteq names THEN names ELSE Reach(names \cup more, schema)

Involved == Reach({sent.item}, old)

(* An enum that was a number and has become one with constructor IDs.      *)
Widened(name) ==
  /\ IsA("enum", name, old) /\ ~HasFields(ItemOf(name, old))
  /\ IsA("enum", name, new) /\ HasFields(ItemOf(name, new))

(* The variants of an enum, with the IDs they have on the wire.            *)
Constructors(name, schema) ==
  IF IsA("enum", name, schema)
  THEN LET enum == ItemOf(name, schema)
       IN {[name |-> v.name, empty |-> v.fields = << >>, cid |-> CidOfVariant(enum, v, schema)] :
           v \in Range(enum.variants)}
  ELSE {}

(* A variant of the old enum has the ID of another one, of the old or the  *)
(* new enum.  Validation lets a variant without fields state any ID        *)
(* (validate.rs:77), be it stated by another variant or derived from it.   *)
SharesIds(name) ==
  \E v \in Constructors(name, old), w \in Constructors(name, old) \cup Constructors(name, new) :
    v # w /\ v.cid = w.cid

Arrived == received[1].ok /\ received[1].value = sent.value

(* After an audit that accepted, a message of the old schema whose item    *)
(* still exists is decoded to the value that was sent.  Excepted are the   *)
(* enums the audit wrongly lets pass (compatibility.rs:48-75): those that  *)
(* gained their first fields, and those with a shared ID, which the old    *)
(* enum had or a new variant has brought.                                  *)
AcceptedMessagesArrive ==
  verdict = "accepted" /\ received # None =>
    Arrived \/ \E name \in Involved : Widened(name) \/ SharesIds(name)

(* What constructor IDs leave out: the numbers of flags and of unit enums, *)
(* and the field that owns the bit of a guard.                             *)
NumbersChanged(name) ==
  /\ name \in Names(new)
  /\ \/ IsA("flags", name, old)
     \/ IsA("enum", name, old) /\ ~HasFields(ItemOf(name, old))
  /\ ItemOf(name, old) # ItemOf(name, new)

GuardsOf(name, schema) ==
  [i \in DOMAIN ItemOf(name, schema).fields |-> ItemOf(name, schema).fields[i].guard]
BitsOf(name, schema) ==
  [i \in DOMAIN GuardsOf(name, schema) |->
     [k \in DOMAIN GuardsOf(name, schema)[i] |-> GuardsOf(name, schema)[i][k].bit]]

OwnersChanged(name) ==
  /\ IsA("struct", name, old) /\ IsA("struct", name, new)
  /\ BitsOf(name, old) = BitsOf(name, new)
  /\ GuardsOf(name, old) # GuardsOf(name, new)

(* Without an audit, constructor IDs alone see to it that a message is     *)
(* never decoded, without an error, to another value than was sent, except *)
(* for what they leave out and where two variants share one.               *)
NothingIsMisread ==
  received # None /\ received[1].ok /\ ~Arrived =>
    \E name \in Involved : NumbersChanged(name) \/ SharesIds(name) \/ OwnersChanged(name)
=============================================================================
