----------------------------- MODULE MCEncoder -----------------------------
(***************************************************************************)
(* Encoder with values of every codec, nested once, and integers of one    *)
(* bit per byte, so that a length of 2 already takes two bytes and the     *)
(* limits fall inside a length, a payload and between the items.           *)
(***************************************************************************)
EXTENDS Encoder

Bytes == 0 .. 3
Varints == [n \in 0 .. 4 |-> << <<0>>, <<1>>, <<2, 1>>, <<3, 1>>, <<2, 2, 1>> >>[n + 1]]

Leaf(tag, payload, expected) ==
  [tag |-> tag, bytes |-> payload, expected |-> expected, items |-> << >>]
Compound(tag, items) ==
  [tag |-> tag, bytes |-> << >>, expected |-> 0, items |-> items]

U8 == Leaf("fixed", <<3>>, 0)
U16 == Leaf("fixed", <<2, 3>>, 0)
Empty == Leaf("bytes", << >>, 0)
Text == Leaf("bytes", <<2>>, 0)
Long == Leaf("bytes", <<1, 2>>, 0)
Exact == Leaf("exact", <<3>>, 1)
Wrong == Leaf("exact", <<3>>, 2)
None == Compound("option", << >>)
SomeText == Compound("option", <<Text>>)
Numbers == Compound("vec", <<U16, U16>>)
Texts == Compound("vec", <<Text, Empty>>)
Options == Compound("vec", <<None, SomeText>>)
Pairs == Compound("map", <<U8, U16>>)
Named == Compound("map", <<Text, Wrong>>)

Leaves == {U8, U16, Empty, Text, Long, Exact, Wrong}
AllValues == Leaves \cup {None, SomeText, Numbers, Texts, Options, Pairs, Named}
=============================================================================
