-------------------------- MODULE MCBorrowedViews --------------------------
(***************************************************************************)
(* BorrowedViews with one-bit varint groups, so that a count or a length of*)
(* 2 takes two bytes, and with every packet of up to six bytes, and the   *)
(* longer packets of one Option of a map of two entries.  One choice of    *)
(* limits scales the defaults, where more bytes than items are allowed; the*)
(* other is a custom choice the other way round.                           *)
(***************************************************************************)
EXTENDS BorrowedViews

WeightValues == [i \in 0 .. MaxBytes - 1 |-> Base^i]

U8 == [k |-> "u8"]
Str == [k |-> "str"]
Fixed == [k |-> "fixed", n |-> 1]
Vec(t) == [k |-> "vec", of |-> t]
Map(k, v) == [k |-> "map", key |-> k, of |-> v]
Option(t) == [k |-> "option", of |-> t]

Plain(t) == [ty |-> t, exact |-> {}]

ViewFields ==
  {[ty |-> Vec(U8), exact |-> {2}]} \union
  {Plain(t) : t \in {Vec(U8), Fixed, Option(Str), Option(Fixed), Option(Vec(Str)),
                     Vec(Str), Vec(Vec(U8)), Vec(Vec(Str)), Vec(Option(U8)),
                     Vec(Option(Str)), Vec(Option(Vec(U8))), Vec(Option(Map(U8, U8))),
                     Map(U8, U8), Map(Str, U8), Map(U8, Str), Map(U8, Vec(Str))}}

(* Messages whose two readings differ. *)
FixedItems == {Plain(Vec(Fixed))}
NestedViews == {Plain(Vec(Vec(Str)))}

(* The types of messages and their parts, and theirs. *)
WithParts(types) == types \cup UNION {Parts(t) : t \in types}
TypesOf(fields) == WithParts(WithParts(WithParts({f.ty : f \in fields})))
ViewTypes == TypesOf(ViewFields)
AllTypes == TypesOf(ViewFields \cup FixedItems \cup NestedViews)

(* The fields that copy no map meet the hypothesis of the theorems, and all*)
(* of them that of DecodedWalks.                                           *)
PlainFields == {f \in ViewFields : ~CopiesMap[f.ty]}

ASSUME ViewsAssumption ==
  /\ ItemsHaveLengths(ViewTypes)
  /\ SameReadings(TypesOf(PlainFields))

ShortPackets == UNION {[1 .. n -> Byte] : n \in 0 .. 6}
MapHeader == EncodeVarint[1] \o <<1>> \o EncodeVarint[2]
AllPackets == ShortPackets \cup {MapHeader \o entries : entries \in [1 .. 4 -> Byte]}
LongestPacket == Len(MapHeader) + 4

DefaultChoice == {[packet |-> LongestPacket, items |-> 2, field |-> LongestPacket]}
CustomChoice == {[packet |-> LongestPacket, items |-> LongestPacket, field |-> 1]}
LimitChoices == DefaultChoice \union CustomChoice
=============================================================================
