------------------------------ MODULE PeerWire ------------------------------
(***************************************************************************)
(* What the Go and the TypeScript codecs printed by bridge.rs have in      *)
(* common: a wire runtime that reads as much as the Rust one but checks    *)
(* less (no padding, no bools, no UTF-8), and the shape of their readers.  *)
(* The limits on sizes and counts are left out: packets are small here.    *)
(***************************************************************************)
EXTENDS MessageCodec

(* Where generated code panics or throws instead of writing.               *)
Crash == Token("crash", 0, 0)

LaxInt(width, ty, packet) ==
  IF packet = << >> \/ Head(packet).width # width
  THEN Refused
  ELSE LET n == IF Head(packet).kind = "cid" THEN Garbage ELSE Head(packet).n
       IN Ok(Number(ty, IF ty = "bool" /\ n # 0 THEN 1 ELSE n), Tail(packet))

LaxBytes(packet) ==
  IF packet = << >> \/ Head(packet).kind # "bytes"
  THEN Refused
  ELSE Ok(Number("Vec", Head(packet).n), Tail(packet))

LaxCount(packet) ==
  IF packet = << >> \/ Head(packet).kind # "count"
  THEN Refused
  ELSE Ok(Head(packet).n, Tail(packet))

LaxOptional(packet, Read(_)) ==
  Then(LaxInt(1, "u8", packet), LAMBDA marker, rest :
    CASE marker.n = 0 -> Ok(Absent, rest)
      [] marker.n = 1 -> Then(Read(rest), LAMBDA value, after : Ok(Present(value), after))
      [] OTHER -> Refused)

WithExact(exact, result) ==
  Then(result, LAMBDA value, rest :
    IF exact # None /\ value.n # exact[1] THEN Refused ELSE result)

(* The part of a value at a place in its tree.                             *)
At(value, place) == FoldLeft(LAMBDA part, i : part.parts[i], value, place)

(* Fields in their order; a guard looks at a flags field read before.      *)
ReadFields(fields, packet, IsSet(_, _), Read(_, _)) ==
  FoldLeft(LAMBDA result, field :
             Then(result, LAMBDA parts, rest :
               IF field.guard # None /\ ~IsSet(field.guard[1], parts)
               THEN Ok(Append(parts, Absent), rest)
               ELSE Then(Read(field, rest), LAMBDA value, after :
                      Ok(Append(parts, IF field.guard = None THEN value ELSE Present(value)),
                         after))),
           Ok(<< >>, packet), fields)

(* The variants that have the ID; the first of them is meant.              *)
ArmsOf(enum, packet, schema) ==
  {i \in DOMAIN enum.variants :
     HasCid(packet, CidOfVariant(enum, enum.variants[i], schema))}

Always(guard, parts) == TRUE

(* Named types that have a view of their own.                              *)
HasView(item) == item.kind = "struct" \/ (item.kind = "enum" /\ HasFields(item))

Ordered(result) ==
  Then(result, LAMBDA parts, rest : IF Increasing(parts) THEN result ELSE Refused)

(* A lazy collection is where its items start, and how many they are.      *)
Lazy(ty, count, wire) == [is |-> "lazy", n |-> count, parts |-> wire, ty |-> ty]
IsCollection(ty) == Head(ty) \in {"Vec", "Map"} /\ ty # ByteVec
HasLazyView(item) ==
  item.kind = "struct" /\ \E i \in DOMAIN item.fields : IsCollection(item.fields[i].ty)
=============================================================================
