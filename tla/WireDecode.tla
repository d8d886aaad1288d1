----------------------------- MODULE WireDecode -----------------------------
(***************************************************************************)
(* How a packet is read: the Decoder's operations (src/src/wire.rs:480-718)*)
(* and, for each schema type, the three walks over its bytes - the owned   *)
(* decode (747-907), the scan that builds a lazy view, and the borrowed    *)
(* decode of a field or of an item of a view (84-268, 624-685).  Which     *)
(* borrowed codec a schema type gets is decided by the generator           *)
(* (src/src/codegen.rs:1115-1190).                                         *)
(*                                                                         *)
(* A walk starts at a position and gives [err, pos, val, key, view]: the   *)
(* error or "none", where the decoder is left, the value, its place in the *)
(* order of map keys, and the lazy view it holds, if any.  A value is given*)
(* as its canonical encoding, so that equal values are equal sequences and *)
(* re-encoding is comparing.                                               *)
(***************************************************************************)
EXTENDS VarInt, SequencesExt, TLC

CONSTANTS
  NotUtf8,          (* A byte that no UTF-8 string contains.               *)
  Types             (* The schema types in use.                            *)

(* Schema types: u8, str, fixed (bytes[N]), option, vec, map.              *)
Parts(t) ==
  CASE t.k \in {"option", "vec"} -> {t.of}
    [] t.k = "map" -> {t.key, t.of}
    [] OTHER -> {}

(* The parts of a type are types, and have no end of parts in them; a map  *)
(* key is a primitive or a String (src/src/validate.rs:180-206).           *)
ASSUME TypesAssumption ==
  /\ \A t \in Types :
       /\ t.k \in {"u8", "str", "fixed", "option", "vec", "map"}
       /\ t.k = "fixed" => t.n \in Nat
       /\ t.k = "map" => t.key.k \in {"u8", "str"}
       /\ Parts(t) \subseteq Types
  /\ \A T \in SUBSET Types : T # {} => \E t \in T : Parts(t) \cap T = {}

Value(pos, val, key) ==
  [err |-> "none", pos |-> pos, val |-> val, key |-> key, view |-> << >>]
Error(error, pos) ==
  [err |-> error, pos |-> pos, val |-> << >>, key |-> << >>, view |-> << >>]

(* The `?` of the code: the rest of a function is for a result that is no  *)
(* Err.                                                                    *)
Try(result, Rest(_)) ==
  IF result.err = "none" THEN Rest(result) ELSE Error(result.err, result.pos)

(* read_u8 and read_slice. *)
ReadU8(s, pos) ==
  IF pos = Len(s) THEN Error("UnexpectedEof", pos)
  ELSE Value(pos + 1, <<s[pos + 1]>>, <<s[pos + 1]>>)

ReadSlice(s, pos, len) ==
  IF pos + len > Len(s) THEN Error("UnexpectedEof", pos)
  ELSE LET slice == SubSeq(s, pos + 1, pos + len) IN Value(pos + len, slice, slice)

(* bytes_borrowed, and bytes, which copies its result. *)
ReadBytes(s, pos, limits) ==
  Try(ReadVarint(s, pos), LAMBDA len :
    IF len.val > limits.field THEN Error("PacketTooLarge", len.pos)
    ELSE Try(ReadSlice(s, len.pos, len.val), LAMBDA slice :
           Value(slice.pos, EncodeVarint[len.val] \o slice.val, slice.val)))

(* string_borrowed: the decoder has moved past a string that is refused. *)
ReadString(s, pos, limits) ==
  Try(ReadBytes(s, pos, limits), LAMBDA bytes :
    IF NotUtf8 \in Range(bytes.key) THEN Error("InvalidUtf8", bytes.pos) ELSE bytes)

(* The count that opens a collection. *)
ReadCount(s, pos, limits) ==
  Try(ReadVarint(s, pos), LAMBDA count :
    IF count.val > limits.items THEN Error("PacketTooLarge", count.pos) ELSE count)

(* The marker that opens an Option: 0 for None, 1 before an item.          *)
ReadMarker(s, pos) ==
  Try(ReadU8(s, pos), LAMBDA marker :
    IF marker.val \notin {<<0>>, <<1>>} THEN Error("MalformedConstructor", marker.pos)
    ELSE marker)

Some(result) == Try(result, LAMBDA item : [item EXCEPT !.val = <<1>> \o item.val])
-----------------------------------------------------------------------------
IsByteVec(t) == t.k = "vec" /\ t.of.k = "u8"

(* FIXED_ENCODED_LEN, 0 for None. *)
FixedLen(t) == IF t.k = "u8" THEN 1 ELSE IF t.k = "fixed" THEN t.n ELSE 0

(* A reader gives the outcome of a read at each position of a packet.  Two *)
(* readers, one after the other:                                           *)
Pair(keys, values) ==
  [pos \in DOMAIN keys |->
     Try(keys[pos], LAMBDA key :
       Try(values[key.pos], LAMBDA value :
         Value(value.pos, key.val \o value.val, key.key)))]

(* for _ in 0..count: the reader over and over, each time from where it was*)
(* left.                                                                   *)
Repeat(reader, pos, count) ==
  LET after[i \in 0 .. count] ==
        IF i = 0 THEN Value(pos, << >>, << >>)
        ELSE Try(after[i - 1], LAMBDA items :
               Try(reader[items.pos], LAMBDA item :
                 Value(item.pos, items.val \o item.val, << >>)))
  IN  after[count]

(* The order of the keys of a BTreeMap. *)
KeyLess(a, b) ==
  \E n \in 0 .. Len(a) :
    /\ n < Len(b)
    /\ SubSeq(a, 1, n) = SubSeq(b, 1, n)
    /\ n = Len(a) \/ a[n + 1] < b[n + 1]

(* result.insert(key, value).is_some() *)
IsDuplicate(key, entries) == \E i \in DOMAIN entries : entries[i].key = key

(* The entries of a BTreeMap in the order of its iteration: an entry comes *)
(* after those with a lesser key.                                          *)
Insert(entry, entries) ==
  LET lesser == {i \in DOMAIN entries : KeyLess(entries[i].key, entry.key)}
  IN  InsertAt(entries, Cardinality(lesser) + 1, entry)

(* The entries of an owned map: as Repeat, with the entries for its value. *)
Collect(reader, pos, count) ==
  LET after[i \in 0 .. count] ==
        IF i = 0 THEN Value(pos, << >>, << >>)
        ELSE Try(after[i - 1], LAMBDA entries :
               Try(reader[entries.pos], LAMBDA entry :
                 IF IsDuplicate(entry.key, entries.val)
                 THEN Error("MalformedConstructor", entry.pos)
                 ELSE Value(entry.pos,
                        Insert([key |-> entry.key, val |-> entry.val], entries.val), << >>)))
  IN  after[count]

Concat(entries) == FlattenSeq([i \in DOMAIN entries |-> entries[i].val])

(* Optional, Vec and BTreeMap: the last two refuse a count that the rest of*)
(* the packet cannot hold.                                                 *)
ReadOption(reader, s, pos) ==
  Try(ReadMarker(s, pos), LAMBDA marker :
    IF marker.val = <<0>> THEN marker ELSE Some(reader[marker.pos]))

OwnVec(t, reader, s, pos, limits) ==
  Try(ReadCount(s, pos, limits), LAMBDA count :
    IF count.val * FixedLen(t.of) > Len(s) - count.pos
    THEN Error("UnexpectedEof", count.pos)
    ELSE Try(Repeat(reader, count.pos, count.val), LAMBDA items :
           Value(items.pos, EncodeVarint[count.val] \o items.val, << >>)))

OwnMap(t, reader, s, pos, limits) ==
  Try(ReadCount(s, pos, limits), LAMBDA count :
    IF /\ FixedLen(t.key) > 0 /\ FixedLen(t.of) > 0
       /\ count.val * (FixedLen(t.key) + FixedLen(t.of)) > Len(s) - count.pos
    THEN Error("UnexpectedEof", count.pos)
    ELSE Try(Collect(reader, count.pos, count.val), LAMBDA entries :
           Value(entries.pos, EncodeVarint[count.val] \o Concat(entries.val), << >>)))

(* WireCodec::decode of the owned Rust type: the reader for a type, from   *)
(* those for its parts, and the readers for all of them.                   *)
OwnOf(t, own, s, limits) ==
  [pos \in 0 .. Len(s) |->
     CASE t.k = "u8" -> ReadU8(s, pos)
       [] t.k = "str" -> ReadString(s, pos, limits)
       [] t.k = "fixed" -> ReadSlice(s, pos, t.n)
       [] t.k = "option" -> ReadOption(own[t.of], s, pos)
       [] t.k = "vec" -> OwnVec(t, own[t.of], s, pos, limits)
       [] t.k = "map" -> OwnMap(t, Pair(own[t.key], own[t.of]), s, pos, limits)]

Own(s, limits) == LET own[t \in Types] == OwnOf(t, own, s, limits) IN own

(* The owned decode of a field: a Vec<u8> goes through Decoder::bytes and  *)
(* is checked against its exact_len, anything else through its codec.      *)
OwnField(field, s, limits) ==
  IF ~IsByteVec(field.ty) THEN Own(s, limits)[field.ty][0]
  ELSE Try(ReadBytes(s, 0, limits), LAMBDA bytes :
         IF field.exact # {} /\ Len(bytes.key) \notin field.exact
         THEN Error("MalformedConstructor", bytes.pos)
         ELSE bytes)

(* decode_value and decode_borrowed_value: the field, and then nothing.    *)
Finished(result, s) ==
  Try(result, LAMBDA value :
    IF value.pos # Len(s) THEN Error("MalformedConstructor", value.pos) ELSE value)

OwnedDecode(field, s, limits) == Finished(OwnField(field, s, limits), s)
-----------------------------------------------------------------------------
(* borrowed_type: &str, &[u8], BorrowedVec and BorrowedMap; anything else  *)
(* has the codec of the owned type (wire.rs:84-131), an Option in a vector *)
(* too, whatever it holds (codegen.rs:1142-1148, 1175-1181).               *)
Borrowed(t) ==
  CASE t.k = "str" -> "str"
    [] t.k = "fixed" \/ IsByteVec(t) -> "bytes"
    [] t.k = "map" \/ (t.k = "vec" /\ ~IsByteVec(t)) -> "view"
    [] OTHER -> "owned"

(* The parts of an item of a view. *)
Item(t, reader) == IF t.k = "map" THEN Pair(reader[t.key], reader[t.of]) ELSE reader[t.of]

(* skip_bytes, and skip_string, which does not look at the text.           *)
SkipBytes(s, pos, limits) == ReadBytes(s, pos, limits)

(* skip_borrowed of a collection: its count, and then its items. *)
SkipView(t, skip, s, pos, limits) ==
  Try(ReadCount(s, pos, limits), LAMBDA count : Repeat(Item(t, skip), count.pos, count.val))

(* skip_borrowed. *)
SkipOf(t, skip, s, limits) ==
  [pos \in 0 .. Len(s) |->
     CASE Borrowed(t) \in {"str", "bytes"} -> SkipBytes(s, pos, limits)
       [] Borrowed(t) = "view" -> SkipView(t, skip, s, pos, limits)
       [] OTHER -> Own(s, limits)[t][pos]]

Skip(s, limits) == LET skip[t \in Types] == SkipOf(t, skip, s, limits) IN skip

(* Mutant: a view can be no longer than a bytes field.                     *)
MViewSize(limits) == limits.field

(* The max_size of a view. *)
ViewSize(limits) == limits.packet

(* borrowed_vec and borrowed_map.  The value of a view is its count; the   *)
(* items are in the view.                                                  *)
View(t, s, pos, limits) ==
  Try(ReadCount(s, pos, limits), LAMBDA count :
    Try(Skip(s, limits)[t][pos], LAMBDA scan :
      [Value(scan.pos, EncodeVarint[count.val], << >>) EXCEPT
         !.view = <<[ty |-> t, bytes |-> SubSeq(s, count.pos + 1, scan.pos),
                     count |-> count.val, max_size |-> ViewSize(limits)]>>]))

(* decode_borrowed of a field or of an item. *)
Borrow(t, s, pos, limits) ==
  CASE Borrowed(t) = "str" -> ReadString(s, pos, limits)
    [] Borrowed(t) = "bytes" -> ReadBytes(s, pos, limits)
    [] Borrowed(t) = "view" -> View(t, s, pos, limits)
    [] OTHER -> Own(s, limits)[t][pos]

(* borrowed_decode_expression: the field itself knows that a bytes[N] has  *)
(* no length, and reads the marker of an option before what follows it.    *)
BorrowOf(t, borrow, s, limits) ==
  [pos \in 0 .. Len(s) |->
     CASE t.k = "fixed" -> ReadSlice(s, pos, t.n)
       [] t.k = "option" -> ReadOption(borrow[t.of], s, pos)
       [] OTHER -> Borrow(t, s, pos, limits)]

BorrowField(s, limits) == LET borrow[t \in Types] == BorrowOf(t, borrow, s, limits) IN borrow
=============================================================================
