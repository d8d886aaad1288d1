--------------------------- MODULE BorrowedViews ---------------------------
(***************************************************************************)
(* A consumer that reads a packet through the borrowed API of a generated  *)
(* message (decode_borrowed_value_with_limits, src/src/codec.rs:47-62) and *)
(* walks the lazy views it finds (BorrowedVecIter, BorrowedMapIter,        *)
(* src/src/wire.rs:133-268), next to decode_with_limits, which decodes the *)
(* same packet into an owned value.  A view is made by a scan that checks  *)
(* less than a decode does, and is walked later, by another decoder, under *)
(* limits rebuilt from one number: the two readings of a packet must still *)
(* agree.                                                                  *)
(*                                                                         *)
(* A message has one field here; its C-ID is left out.                     *)
(***************************************************************************)
EXTENDS WireDecode

CONSTANTS
  Fields,           (* The messages: [ty |-> type, exact |-> {} or {n}].   *)
  Limits,           (* DecodeLimits: [packet, items, field].               *)
  DefaultItems,     (* MAX_COLLECTION_ITEMS.                               *)
  Packets           (* The packets.                                        *)

ASSUME MessagesAssumption ==
  /\ \A f \in Fields : f.ty \in Types
  /\ Limits \subseteq [packet : Nat, items : Nat, field : Nat]
  /\ DefaultItems \in Nat
  /\ Packets \subseteq Seq(Byte)

VARIABLES
  packet, field, limits,
  phase,            (* "start", "walking", "done", or "refused".           *)
  iterators,        (* The iterators in use, the innermost first.          *)
  read,             (* The encoding of what has been read, in order.       *)
  failed            (* Whether an iterator has returned an Err.            *)

vars == <<packet, field, limits, phase, iterators, read, failed>>

Init ==
  /\ packet \in Packets
  /\ field \in Fields
  /\ limits \in Limits
  /\ Len(packet) <= limits.packet
  /\ phase = "start"
  /\ iterators = << >>
  /\ read = << >>
  /\ failed = FALSE

(* BorrowedVec::iter and BorrowedMap::iter. *)
Iter(view) == [view |-> view, pos |-> 0, remaining |-> view.count, previous |-> {}]

(* Mutant: the limit of a bytes field is that of a collection.             *)
MViewLimits(view) ==
  [packet |-> view.max_size, field |-> DefaultItems, items |-> DefaultItems]

(* Decoder::new: the limits of an iterator's decoder. *)
ViewLimits(view) ==
  [packet |-> view.max_size, field |-> view.max_size, items |-> DefaultItems]

Opened(result) == [i \in DOMAIN result.view |-> Iter(result.view[i])]

BorrowedDecode == Finished(BorrowField(packet, limits)[field.ty][0], packet)

Opening(result) ==
  /\ phase' = IF result.err = "none" THEN "walking" ELSE "refused"
  /\ iterators' = Opened(result)
  /\ read' = result.val

Open ==
  /\ phase = "start"
  /\ Opening(BorrowedDecode)
  /\ UNCHANGED <<packet, field, limits, failed>>

Top == Head(iterators)
TopBytes == Top.view.bytes

(* The outcome of a next(), with the key that the iterator keeps.          *)
Kept(result, previous) ==
  [err |-> result.err, pos |-> result.pos, val |-> result.val, view |-> result.view,
   previous |-> previous]

(* The outcome of one next() of a BorrowedVecIter.                         *)
NextOfVec ==
  Kept(Borrow(Top.view.ty.of, TopBytes, Top.pos, ViewLimits(Top.view)), Top.previous)

(* Mutant: keys that are equal are in order.                               *)
MInOrder(key) == \A previous \in Top.previous : ~KeyLess(key, previous)

InOrder(key) == \A previous \in Top.previous : KeyLess(previous, key)

(* The outcome of one next() of a BorrowedMapIter: `previous` is updated   *)
(* before the value is read, and an Err may leave the decoder between the  *)
(* key and the value.                                                      *)
Stopped(error, pos, previous) == Kept(Error(error, pos), previous)

ValueOfMap(key, value) ==
  IF value.err # "none" THEN Stopped(value.err, value.pos, {key.key})
  ELSE Kept([value EXCEPT !.val = key.val \o value.val], {key.key})

KeyOfMap(key) ==
  IF key.err # "none" THEN Stopped(key.err, key.pos, Top.previous)
  ELSE IF ~InOrder(key.key) THEN Stopped("MalformedConstructor", key.pos, Top.previous)
  ELSE ValueOfMap(key, Borrow(Top.view.ty.of, TopBytes, key.pos, ViewLimits(Top.view)))

NextOfMap == KeyOfMap(Borrow(Top.view.ty.key, TopBytes, Top.pos, ViewLimits(Top.view)))

NextOutcome == IF Top.view.ty.k = "map" THEN NextOfMap ELSE NextOfVec

(* Mutant: a key and its value count as two items.                         *)
MLeft(item) ==
  IF Top.view.ty.k = "map" THEN Top.remaining - 2 ELSE Top.remaining - 1

Left(item) == Top.remaining - 1

Advanced(item) ==
  /\ iterators' = Opened(item)
                  \o <<[Top EXCEPT !.pos = item.pos, !.remaining = Left(item),
                                   !.previous = item.previous]>>
                  \o Tail(iterators)
  /\ read' = read \o item.val
  /\ failed' = (failed \/ item.err # "none")

(* next().  A view among the items is walked before the next item.         *)
NextItem ==
  /\ phase = "walking"
  /\ iterators # << >>
  /\ Top.remaining > 0
  /\ Advanced(NextOutcome)
  /\ UNCHANGED <<packet, field, limits, phase>>

(* next() returns None, and the consumer returns to the outer view.        *)
EndOfView ==
  /\ phase = "walking"
  /\ iterators # << >>
  /\ Top.remaining = 0
  /\ iterators' = Tail(iterators)
  /\ UNCHANGED <<packet, field, limits, phase, read, failed>>

Done ==
  /\ phase = "walking"
  /\ iterators = << >>
  /\ phase' = "done"
  /\ UNCHANGED <<packet, field, limits, iterators, read, failed>>

Next == Open \/ NextItem \/ EndOfView \/ Done

Spec == Init /\ [][Next]_vars
-----------------------------------------------------------------------------
Owned == OwnedDecode(field, packet, limits)

(* The types of the state.                                                 *)
TypeOK ==
  /\ packet \in Packets
  /\ field \in Fields
  /\ limits \in Limits
  /\ phase \in {"start", "walking", "done", "refused"}
  /\ \A i \in DOMAIN iterators :
       /\ iterators[i].remaining \in 0 .. iterators[i].view.count
       /\ iterators[i].pos \in 0 .. Len(iterators[i].view.bytes)
  /\ read \in Seq(Byte)
  /\ failed \in BOOLEAN

(* iter() does not panic: Decoder::new refuses bytes that are longer than  *)
(* max_size, and expect("validated view range") unwraps its result         *)
(* (wire.rs:136, 217).  It is called on the views of a message and on the  *)
(* views that other iterators have made under their own limits.            *)
IterNeverPanics ==
  \A i \in DOMAIN iterators :
    Len(iterators[i].view.bytes) <= iterators[i].view.max_size

(* A view of bytes[N] is no view of what the owned decode reads: only that *)
(* one knows the length of its items (FixedItemsHaveNoLength).             *)
ItemsHaveLengths(types) == \A t \in types : Borrowed(t) = "view" => t.of.k # "fixed"

(* An item that is copied out of a view is an owned value, whatever is in  *)
(* it: of the types of items, an Option (codegen.rs:1142-1148, 1175-1181). *)
(* A map in it has been put in the order of its keys.                      *)
HasMap[t \in Types] == t.k = "map" \/ \E part \in Parts(t) : HasMap[part]
CopiesItems(t) == Borrowed(t) = "view" /\ Borrowed(t.of) = "owned"
CopiesMap[t \in Types] ==
  (CopiesItems(t) /\ HasMap[t.of]) \/ \E part \in Parts(t) : CopiesMap[part]

(* The types of which a walk gives every byte of the packet: no map is     *)
(* copied out of a view.                                                   *)
SameReadings(types) ==
  /\ ItemsHaveLengths(types)
  /\ \A t \in types : CopiesItems(t) => ~HasMap[t.of]

(* A field of exact_len has the length that its packet starts with.        *)
LengthIsExact == field.exact = {} \/ ReadVarint(packet, 0).val \in field.exact

(* A packet that can be walked to the end without an Err is what the owned *)
(* decode accepts, as the value that the walk has given; and it is the one *)
(* encoding of that value, unless a map was copied out of a view, whose    *)
(* keys may be in any order in the packet (wire.rs:84-131, 876-907).  Two  *)
(* exceptions: exact_len, which only the owned decode checks               *)
(* (codegen.rs:1115-1131), and its count limit, which it also applies to   *)
(* the length of a Vec<u8> inside a collection, where a view applies the   *)
(* limit of a bytes field (wire.rs:589-613, 817-829).                      *)
WalkedIsDecoded ==
  phase = "done" /\ ~failed =>
    /\ LengthIsExact => Owned.err \in {"none", "PacketTooLarge"}
    /\ Owned.err = "none" => Owned.val = read
    /\ read = packet \/ CopiesMap[field.ty]

(* The other way round: what the owned decode accepts, the borrowed decode *)
(* opens.  Again the limits on a Vec<u8> inside a collection differ        *)
(* (wire.rs:589-613, 624-662).                                             *)
DecodedIsOpened ==
  Owned.err = "none" /\ phase = "refused" => BorrowedDecode.err = "PacketTooLarge"

(* What the owned decode accepts, an iterator returns an Err for only if it*)
(* holds the keys of a map in an order that the owned decode has changed.  *)
ItemsDecode == Owned.err = "none" /\ failed => Owned.val # packet

(* What it accepts is opened, and can be walked; the iterators are held to *)
(* this only while the caller allows no more items than the default.       *)
DecodedIsWalked ==
  /\ DecodedIsOpened
  /\ limits.items <= DefaultItems => ItemsDecode

(* An iterator that has returned no Err ends where the scan ended: the     *)
(* scan and the decode of an item take the same bytes.                     *)
IteratorMeetsScan ==
  phase = "walking" /\ iterators # << >> /\ Top.remaining = 0 /\ ~failed =>
    Top.pos = Len(TopBytes)
-----------------------------------------------------------------------------
(* CHANGELOG.md:52, "Generated Rust codecs can now decode with             *)
(* caller-supplied packet, collection, and byte-field limits": what the    *)
(* limits of the caller let through, its iterators decode, also where the  *)
(* caller allows more items than the default.  Violated: an iterator's     *)
(* decoder goes back to the default (wire.rs:487-494).                     *)
CallerLimitsHold == ItemsDecode

(* README.en.md:161, "`bytes[N]` is encoded as `[u8; N]` without a length  *)
(* prefix": a packet of such items is opened.  Violated: the items of a    *)
(* view of bytes[N] are read as &[u8], with a length (codegen.rs:1166-1190)*)
FixedItemsHaveNoLength == Owned.err = "none" => phase # "refused"
=============================================================================
