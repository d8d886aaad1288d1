------------------------ MODULE VarIntDecoderProofs ------------------------
(***************************************************************************)
(* For groups of any size, any number of bytes and any packet, the decoder *)
(* of integers stays inside the packet and the result inside the width of  *)
(* an integer; an integer is read from exactly the bytes it is written as; *)
(* what is refused is no integer; and varint_len and ReadVarint agree with *)
(* the loop.                                                               *)
(*                                                                         *)
(* EncodeVarint, Pow2 and GroupSum are recursive, so each is first shown to*)
(* satisfy its own equation (Recursion), then the loop is followed with a  *)
(* relation between the bytes taken and the integers written so: after i   *)
(* groups with the sum r at the place value p, r + h * p is written as     *)
(* those bytes and then h, for every h above zero (Writes), and nothing    *)
(* else the packet could go on with begins with them (OnlyFrom).           *)
(*                                                                         *)
(* What other modules need of integers comes last: what is written of one  *)
(* is read back from wherever it stands, no integer begins another, and so *)
(* for the sequences of bytes that are made of integers and of each other. *)
(***************************************************************************)
EXTENDS VarIntDecoder, Recursion

(* The bytes of a call are the groups it has read: `index` of them while   *)
(* it goes on.  The bounds on the result are those of ReadIsBounded.       *)
BoundInv ==
  /\ DecoderTypeOK
  /\ ReadIsBounded
  /\ status = "first" => position = start
  /\ status = "more" => index \in 1 .. MaxBytes - 1

(* The arithmetic of one group: added at its place to a result that fits   *)
(* below it, it fits below the next place.                                 *)
LEMMA GroupFits ==
  ASSUME NEW w \in Nat \ {0}, NEW r \in Nat, NEW g \in Nat, NEW b \in Nat,
         r < w, g < b
  PROVE  /\ g * w \in Nat
         /\ r + g * w < b * w
<1>1. g * w \in Nat
  OBVIOUS
<1>2. b * w >= (g + 1) * w
  <2>1. PICK d \in Nat : b = g + 1 + d
    <3>1. b - (g + 1) \in Nat /\ b = g + 1 + (b - (g + 1))
      OBVIOUS
    <3> QED BY <3>1
  <2>2. b * w = (g + 1) * w + d * w
    BY <2>1
  <2>3. d * w \in Nat
    OBVIOUS
  <2> QED BY <2>2, <2>3
<1>3. (g + 1) * w = g * w + w
  OBVIOUS
<1> DEFINE p == g * w
<1> DEFINE q == b * w
<1>4. p \in Nat /\ q \in Int /\ q >= p + w
  BY <1>1, <1>2, <1>3
<1> HIDE DEF p, q
<1>5. r + p < q
  BY <1>4
<1> QED BY <1>4, <1>5 DEF p, q

(* A product that still fits after an addition is not cut by %.            *)
LEMMA ModOfSmall ==
  ASSUME NEW limit \in Nat \ {0}, NEW r \in Nat, NEW p \in Nat, r + p < limit
  PROVE  p % limit = p /\ r + p \in 0 .. limit - 1
<1>1. p < limit
  OBVIOUS
<1>2. p % limit = p
  BY <1>1
<1> QED BY <1>2

-----------------------------------------------------------------------------
(* What Encoder::varint writes.                                            *)
Digits(f) == [value \in Nat |->
  IF value < Base THEN <<value>> ELSE <<Base + (value % Base)>> \o f[value \div Base]]

(* The continuation bit is the number of values of a group.                *)
LEMMA BaseFacts == Base \in Nat \ {0} /\ Base > 1
BY VarIntAssumption

(* Quotient and remainder.                                                 *)
LEMMA DivisionBy ==
  ASSUME NEW b \in Nat \ {0}, b > 1, NEW v \in Nat
  PROVE  /\ v \div b \in Nat /\ v % b \in 0 .. b - 1
         /\ v = (v % b) + (v \div b) * b
         /\ v >= b => v \div b < v /\ v \div b # 0
<1>1. v \div b \in Nat /\ v % b \in 0 .. b - 1
  OBVIOUS
<1>2. v = (v % b) + (v \div b) * b
  OBVIOUS
<1>3. ASSUME v >= b PROVE v \div b < v /\ v \div b # 0
  BY <1>3
<1> QED BY <1>1, <1>2, <1>3

(* And back: the number with a given remainder and quotient.               *)
LEMMA DivisionOf ==
  ASSUME NEW b \in Nat \ {0}, NEW g \in 0 .. b - 1, NEW h \in Nat
  PROVE  /\ g + h * b \in Nat
         /\ (g + h * b) \div b = h
         /\ (g + h * b) % b = g
         /\ h # 0 => g + h * b >= b
<1>1. (g + h * b) \div b = h /\ (g + h * b) % b = g
  OBVIOUS
<1>2. g + h * b \in Nat
  OBVIOUS
<1>3. ASSUME h # 0 PROVE g + h * b >= b
  BY <1>3
<1> QED BY <1>1, <1>2, <1>3

(* Encoder::varint ends on every integer, so EncodeVarint is the function  *)
(* its recursion describes.                                                *)
LEMMA EncodeEquation == EncodeVarint = Digits(EncodeVarint)
<1> DEFINE V == Seq(Byte)
           Rule(v, f) == IF v < Base THEN <<v>> ELSE <<Base + (v % Base)>> \o f[v \div Base]
           Rules == [v \in Nat |-> [f \in [Nat -> V] |-> Rule(v, f)]]
           Below == [v \in Nat |-> 0 .. v - 1]
           Eq(f) == f = Digits(f)
<1>1. \A v \in Nat, f \in [Nat -> V] : Rule(v, f) \in V
  <2> SUFFICES ASSUME NEW v \in Nat, NEW f \in [Nat -> V] PROVE Rule(v, f) \in V
    OBVIOUS
  <2>1. CASE v < Base
    <3>1. v \in Byte
      BY <2>1, BaseFacts DEF Byte
    <3> QED BY <2>1, <3>1
  <2>2. CASE ~(v < Base)
    <3>1. v \div Base \in Nat /\ v % Base \in 0 .. Base - 1
      BY BaseFacts, DivisionBy
    <3>2. Base + (v % Base) \in Byte
      BY <3>1, BaseFacts DEF Byte
    <3>3. <<Base + (v % Base)>> \in V /\ f[v \div Base] \in V
      BY <3>1, <3>2
    <3> QED BY <2>2, <3>3, ConcatProperties
  <2> QED BY <2>1, <2>2
<1>2. LocalTo(Nat, V, Below, Rules)
  <2> SUFFICES ASSUME NEW v \in Nat, NEW f \in [Nat -> V], NEW g \in [Nat -> V],
                      \A w \in Below[v] : f[w] = g[w]
               PROVE  Rules[v][f] = Rules[v][g]
    BY DEF LocalTo
  <2>1. ~(v < Base) => f[v \div Base] = g[v \div Base]
    <3> SUFFICES ASSUME ~(v < Base) PROVE f[v \div Base] = g[v \div Base]
      OBVIOUS
    <3>1. v \div Base \in 0 .. v - 1
      <4>1. v >= Base
        BY BaseFacts
      <4>2. v \div Base \in Nat /\ v \div Base < v
        BY <4>1, BaseFacts, DivisionBy
      <4> QED BY <4>2
    <3> QED BY <3>1
  <2>2. Rule(v, f) = Rule(v, g)
    BY <2>1
  <2> HIDE DEF Rule, V
  <2> QED BY <2>2
<1>3. Below \in [Nat -> SUBSET Nat] /\ WellFounded(Nat, Below)
  <2>1. Below \in [Nat -> SUBSET Nat] /\ \A n \in Nat : \A m \in Below[n] : m < n
    OBVIOUS
  <2>2. Nat \in SUBSET Nat
    OBVIOUS
  <2> HIDE DEF Below
  <2> QED BY <2>1, <2>2, NatWellFounded
<1>4. \E f : Eq(f)
  <2>1. Rules \in [Nat -> [[Nat -> V] -> V]]
    <3> HIDE DEF Rule, V
    <3> QED BY <1>1
  <2>2. V # {}
    BY EmptySeq
  <2> DEFINE D == Nat
  <2>3. IsRecursion(D, V, Below, Rules)
    <3> HIDE DEF Rules, V, Below
    <3> QED BY <1>2, <1>3, <2>1, <2>2 DEF IsRecursion
  <2>4. PICK f : Solves(f, D, V, Rules)
    <3> HIDE DEF Rules, V, Below, D
    <3> QED BY <2>3, RecursiveFunctionExists
  <2> HIDE DEF Rule, V
  <2>5. f \in [Nat -> V] /\ \A v \in Nat : f[v] = Rule(v, f)
    BY <2>4 DEF Solves
  <2>6. Eq(f)
    <3>1. Digits(f) = [v \in Nat |-> Rule(v, f)]
      BY Zenon DEF Digits, Rule
    <3> QED BY <2>5, <3>1
  <2> HIDE DEF Eq
  <2> QED BY <2>6
<1>5. EncodeVarint = CHOOSE f : Eq(f)
  BY Zenon DEF EncodeVarint, Digits
<1>6. Eq(EncodeVarint)
  <2> HIDE DEF Eq
  <2> QED BY <1>4, <1>5, Zenon
<1> QED BY <1>6

(* An integer of one group is one byte.                                    *)
LEMMA EncodeLast ==
  ASSUME NEW v \in 0 .. Base - 1
  PROVE  EncodeVarint[v] = <<v>>
<1>1. v \in Nat /\ v < Base
  BY BaseFacts
<1>2. EncodeVarint[v] =
        IF v < Base THEN <<v>> ELSE <<Base + (v % Base)>> \o EncodeVarint[v \div Base]
  BY <1>1, EncodeEquation, Zenon DEF Digits
<1> QED BY <1>1, <1>2

(* An integer of more has its lowest group first, with the continuation    *)
(* bit.                                                                    *)
LEMMA EncodeMore ==
  ASSUME NEW g \in 0 .. Base - 1, NEW h \in Nat \ {0}
  PROVE  EncodeVarint[g + h * Base] = <<Base + g>> \o EncodeVarint[h]
<1> DEFINE v == g + h * Base
<1>1. v \in Nat /\ ~(v < Base) /\ v \div Base = h /\ v % Base = g
  <2>1. v \in Nat /\ v >= Base /\ v \div Base = h /\ v % Base = g
    BY BaseFacts, DivisionOf
  <2> HIDE DEF v
  <2> QED BY <2>1, BaseFacts
<1> HIDE DEF v
<1>2. EncodeVarint[v] =
        IF v < Base THEN <<v>> ELSE <<Base + (v % Base)>> \o EncodeVarint[v \div Base]
  BY <1>1, EncodeEquation, Zenon DEF Digits
<1>3. EncodeVarint[v] = <<Base + g>> \o EncodeVarint[h]
  BY <1>1, <1>2
<1> QED BY <1>3 DEF v

(* An integer is written as bytes.                                         *)
LEMMA EncodeIsBytes == \A v \in Nat : EncodeVarint[v] \in Seq(Byte)
<1> DEFINE D == Nat
           Below == [v \in D |-> 0 .. v - 1]
           T == {v \in D : EncodeVarint[v] \in Seq(Byte)}
<1>1. ASSUME NEW v \in D, Below[v] \subseteq T PROVE v \in T
  <2>0. v \in Nat
    OBVIOUS
  <2>1. CASE v < Base
    <3>1. v \in Byte /\ v \in 0 .. Base - 1
      BY <2>1, BaseFacts DEF Byte
    <3>2. EncodeVarint[v] = <<v>>
      BY <3>1, EncodeLast
    <3>3. <<v>> \in Seq(Byte)
      BY <3>1
    <3> QED BY <3>2, <3>3
  <2>2. CASE ~(v < Base)
    <3> DEFINE h == v \div Base
               g == v % Base
    <3>1. h \in Nat \ {0} /\ h \in 0 .. v - 1 /\ g \in 0 .. Base - 1 /\ v = g + h * Base
      <4>1. h \in Nat /\ g \in 0 .. Base - 1 /\ v = g + h * Base /\ h < v /\ h # 0
        <5>1. v >= Base
          BY <2>2, BaseFacts
        <5> QED BY <5>1, BaseFacts, DivisionBy
      <4> HIDE DEF h, g
      <4> QED BY <4>1
    <3>2. EncodeVarint[h] \in Seq(Byte)
      <4>1. h \in Below[v]
        BY <3>1
      <4> HIDE DEF Below, h
      <4> QED BY <1>1, <4>1
    <3> HIDE DEF h, g
    <3>3. EncodeVarint[v] = <<Base + g>> \o EncodeVarint[h]
      BY <3>1, EncodeMore
    <3>4. Base + g \in Byte
      BY <3>1, BaseFacts DEF Byte
    <3>5. <<Base + g>> \in Seq(Byte)
      BY <3>4
    <3> QED BY <3>2, <3>3, <3>5, ConcatProperties
  <2> QED BY <2>1, <2>2
<1>2. T \in SUBSET D
  OBVIOUS
<1>3. Below \in [D -> SUBSET D] /\ WellFounded(D, Below)
  <2>1. Below \in [D -> SUBSET D] /\ \A n \in D : \A m \in Below[n] : m < n
    OBVIOUS
  <2>2. D \in SUBSET Nat
    OBVIOUS
  <2> HIDE DEF Below, D
  <2> QED BY <2>1, <2>2, NatWellFounded
<1>4. T = D
  <2> HIDE DEF T, D, Below
  <2> QED BY <1>1, <1>2, <1>3, TreeInduction
<1> QED BY <1>4

(* The first byte of an integer: the low group, and whether one follows.   *)
LEMMA EncodeFirst ==
  ASSUME NEW v \in Nat
  PROVE  /\ EncodeVarint[v] # << >>
         /\ v < Base => EncodeVarint[v][1] = v
         /\ v >= Base => EncodeVarint[v][1] = Base + (v % Base)
<1>1. CASE v < Base
  <2>1. v \in 0 .. Base - 1
    BY <1>1, BaseFacts
  <2>2. EncodeVarint[v] = <<v>>
    BY <2>1, EncodeLast
  <2>3. ~(v >= Base)
    BY <1>1, BaseFacts
  <2> QED BY <2>2, <2>3
<1>2. CASE v >= Base
  <2> DEFINE h == v \div Base
             g == v % Base
  <2>1. h \in Nat /\ g \in 0 .. Base - 1 /\ v = g + h * Base /\ h # 0
    BY <1>2, BaseFacts, DivisionBy
  <2> HIDE DEF h, g
  <2>3. EncodeVarint[v] = <<Base + g>> \o EncodeVarint[h]
    BY <2>1, EncodeMore
  <2>4. EncodeVarint[h] \in Seq(Byte) /\ Base + g \in Byte
    BY <2>1, BaseFacts, EncodeIsBytes DEF Byte
  <2>5. EncodeVarint[v][1] = Base + g /\ EncodeVarint[v] # << >>
    BY <2>3, <2>4
  <2>6. ~(v < Base)
    BY <1>2, BaseFacts
  <2> QED BY <2>5, <2>6 DEF g
<1> QED BY <1>1, <1>2, BaseFacts

-----------------------------------------------------------------------------
(* A call that has read the bytes w, all of which say that another follows,*)
(* with the result r, and is at the place value p.                         *)
(*                                                                         *)
(* Every integer that has r in the places below p, and something above, is *)
(* written as w and what is above.                                         *)
Writes(w, r, p) ==
  \A h \in Nat \ {0} : EncodeVarint[r + h * p] = w \o EncodeVarint[h]

(* The only integers the rest of the packet may begin with are those.      *)
OnlyFrom(rest, r, p) ==
  \A v \in Nat : IsPrefix(EncodeVarint[v], rest) => \E h \in Nat \ {0} : v = r + h * p

(* After a first byte that says that another follows.                      *)
LEMMA WritesFirst ==
  ASSUME NEW g \in 0 .. Base - 1
  PROVE  Writes(<<Base + g>>, g, Base)
BY EncodeMore DEF Writes

(* The places of what is above p, when its low group is g.                 *)
LEMMA Places ==
  ASSUME NEW r \in Nat, NEW g \in Nat, NEW b \in Nat, NEW h \in Nat, NEW p \in Nat
  PROVE  r + (g + h * b) * p = (r + g * p) + h * (b * p)
<1>1. (g + h * b) * p = g * p + (h * b) * p
  OBVIOUS
<1>2. (h * b) * p = h * (b * p)
  OBVIOUS
<1> DEFINE x == g * p
           y == h * (b * p)
<1>3. x \in Nat /\ y \in Nat /\ (g + h * b) * p = x + y
  BY <1>1, <1>2
<1> HIDE DEF x, y
<1>4. r + (x + y) = (r + x) + y
  BY <1>3
<1> QED BY <1>3, <1>4 DEF x, y

(* After one more of them, the place value is Base times larger.           *)
LEMMA WritesMore ==
  ASSUME NEW w \in Seq(Byte), NEW r \in Nat, NEW p \in Nat \ {0}, Writes(w, r, p),
         NEW g \in 0 .. Base - 1
  PROVE  Writes(Append(w, Base + g), r + g * p, Base * p)
<1> SUFFICES ASSUME NEW h \in Nat \ {0}
             PROVE  EncodeVarint[(r + g * p) + h * (Base * p)] = Append(w, Base + g) \o EncodeVarint[h]
  BY DEF Writes
<1> DEFINE h1 == g + h * Base
<1>1. h1 \in Nat \ {0}
  <2>1. h1 \in Nat /\ h1 >= Base
    BY BaseFacts, DivisionOf
  <2> HIDE DEF h1
  <2> QED BY <2>1, BaseFacts
<1>2. EncodeVarint[r + h1 * p] = w \o EncodeVarint[h1]
  <2> HIDE DEF h1
  <2> QED BY <1>1, Zenon DEF Writes
<1>3. EncodeVarint[h1] = <<Base + g>> \o EncodeVarint[h]
  BY EncodeMore
<1>4. r + h1 * p = (r + g * p) + h * (Base * p)
  BY BaseFacts, Places
<1>5. Base + g \in Byte /\ EncodeVarint[h] \in Seq(Byte)
  BY BaseFacts, EncodeIsBytes DEF Byte
<1> HIDE DEF h1
<1> DEFINE b == Base + g
           e == EncodeVarint[h]
<1> HIDE DEF b, e
<1>6. w \o (<<b>> \o e) = Append(w, b) \o e
  <2>1. b \in Byte /\ e \in Seq(Byte)
    BY <1>5 DEF b, e
  <2>2. Append(w, b) = w \o <<b>> /\ <<b>> \in Seq(Byte)
    BY <2>1
  <2>3. ConcatAssoc(Byte)
    BY ConcatIsAssoc
  <2>4. (w \o <<b>>) \o e = w \o (<<b>> \o e)
    BY <2>1, <2>2, <2>3, Zenon DEF ConcatAssoc
  <2> QED BY <2>2, <2>4
<1> QED BY <1>2, <1>3, <1>4, <1>6 DEF b, e

(* A last byte, which is not zero, ends the integer.                       *)
LEMMA WritesLast ==
  ASSUME NEW w \in Seq(Byte), NEW r \in Nat, NEW p \in Nat \ {0}, Writes(w, r, p),
         NEW g \in 1 .. Base - 1
  PROVE  EncodeVarint[r + g * p] = Append(w, g)
<1>1. g \in Nat \ {0} /\ g \in 0 .. Base - 1
  BY BaseFacts
<1>2. EncodeVarint[r + g * p] = w \o EncodeVarint[g]
  BY <1>1, Zenon DEF Writes
<1>3. EncodeVarint[g] = <<g>>
  BY <1>1, EncodeLast
<1>4. Append(w, g) = w \o <<g>>
  <2>1. g \in Byte
    BY BaseFacts DEF Byte
  <2> QED BY <2>1
<1> QED BY <1>2, <1>3, <1>4

(* The first byte says how large the integer is at least.                  *)
LEMMA FirstByteBounds ==
  ASSUME NEW h \in Nat, NEW byte \in Byte, EncodeVarint[h][1] = byte
  PROVE  /\ Continues(byte) => h >= Base /\ byte = Base + (h % Base)
         /\ ~Continues(byte) => h = byte
         /\ h >= Group(byte)
<1>1. byte \in Nat /\ byte < 2 * Base
  BY BaseFacts DEF Byte
<1>2. CASE h < Base
  <2>1. byte = h
    BY <1>2, EncodeFirst
  <2>2. ~Continues(byte)
    BY <1>2, <2>1, BaseFacts DEF Continues
  <2>3. Group(byte) = byte
    BY <1>2, <2>1, BaseFacts DEF Group
  <2> QED BY <2>1, <2>2, <2>3
<1>3. CASE h >= Base
  <2> DEFINE g == h % Base
  <2>1. byte = Base + g
    BY <1>3, EncodeFirst
  <2>2. g \in 0 .. Base - 1
    BY BaseFacts, DivisionBy
  <2> HIDE DEF g
  <2>3. Continues(byte)
    BY <2>1, <2>2, BaseFacts DEF Continues
  <2>4. Group(byte) = g
    <3> DEFINE b == Base
    <3>1. b \in Nat \ {0} /\ g \in 0 .. b - 1 /\ byte = b + g
      BY <2>1, <2>2, BaseFacts
    <3> HIDE DEF b
    <3>2. byte = g + 1 * b
      BY <3>1
    <3>3. byte % b = g
      BY <3>1, <3>2, DivisionOf
    <3> QED BY <3>3 DEF Group, b
  <2>5. h >= g
    BY <1>3, <2>2, BaseFacts
  <2> QED BY <1>3, <2>1, <2>3, <2>4, <2>5 DEF g
<1> QED BY <1>2, <1>3, BaseFacts

(* What a packet goes on with after a prefix of it.                        *)
LEMMA PrefixFirst ==
  ASSUME NEW s \in Seq(Byte), NEW t \in Seq(Byte), NEW rest \in Seq(Byte),
         t # << >>, IsPrefix(s \o t, rest)
  PROVE  Len(s) < Len(rest) /\ rest[Len(s) + 1] = t[1]
<1> DEFINE u == s \o t
           n == Len(s)
           m == Len(t)
           k == Len(rest)
<1>1. /\ u \in Seq(Byte) /\ Len(u) = n + m /\ n \in Nat /\ m \in Nat /\ m > 0 /\ k \in Nat
      /\ u[n + 1] = t[1]
  OBVIOUS
<1> HIDE DEF u
<1>2. Len(u) <= k /\ SubSeq(u, 1, Len(u)) = SubSeq(rest, 1, Len(u))
  BY DEF IsPrefix, u
<1> HIDE DEF n, m, k
<1>3. n + 1 \in 1 .. Len(u) /\ n + 1 \in 1 .. k /\ n < k /\ Len(u) \in Nat
  BY <1>1, <1>2
<1>4. SubSeq(u, 1, Len(u))[n + 1] = u[n + 1]
  BY <1>1, <1>3
<1>5. SubSeq(rest, 1, Len(u))[n + 1] = rest[n + 1]
  BY <1>1, <1>2, <1>3 DEF k
<1> QED BY <1>1, <1>2, <1>3, <1>4, <1>5 DEF n, k

(* The integer v goes on, after the bytes w, with the next byte of rest.   *)
GoesOn(w, r, p, rest, v) ==
  \E h \in Nat \ {0} :
    /\ v = r + h * p
    /\ Len(w) < Len(rest)
    /\ rest[Len(w) + 1] = EncodeVarint[h][1]

(* An integer the packet may go on with has the next byte at its place.    *)
LEMMA NextDigit ==
  ASSUME NEW w \in Seq(Byte), NEW r \in Nat, NEW p \in Nat \ {0}, NEW rest \in Seq(Byte),
         Writes(w, r, p), OnlyFrom(rest, r, p),
         NEW v \in Nat, IsPrefix(EncodeVarint[v], rest)
  PROVE  GoesOn(w, r, p, rest, v)
<1>1. PICK h \in Nat \ {0} : v = r + h * p
  BY Zenon DEF OnlyFrom
<1>2. EncodeVarint[v] = w \o EncodeVarint[h]
  BY <1>1, Zenon DEF Writes
<1>3. EncodeVarint[h] \in Seq(Byte) /\ EncodeVarint[h] # << >>
  BY EncodeIsBytes, EncodeFirst
<1>4. IsPrefix(w \o EncodeVarint[h], rest)
  BY <1>2
<1> DEFINE t == EncodeVarint[h]
<1> HIDE DEF t
<1>5. Len(w) < Len(rest) /\ rest[Len(w) + 1] = t[1]
  BY <1>3, <1>4, PrefixFirst DEF t
<1> QED BY <1>1, <1>5 DEF t, GoesOn

(* A first byte that says that another follows fixes the lowest group.     *)
LEMMA OnlyFirst ==
  ASSUME NEW rest \in Seq(Byte), NEW g \in 0 .. Base - 1, rest # << >>, rest[1] = Base + g
  PROVE  OnlyFrom(rest, g, Base)
<1> SUFFICES ASSUME NEW v \in Nat, IsPrefix(EncodeVarint[v], rest)
             PROVE  \E h \in Nat \ {0} : v = g + h * Base
  BY DEF OnlyFrom
<1>1. EncodeVarint[v] \in Seq(Byte) /\ EncodeVarint[v] # << >>
  BY EncodeIsBytes, EncodeFirst
<1>2. rest[1] = EncodeVarint[v][1]
  <2> DEFINE t == EncodeVarint[v]
             s == << >>
  <2>1. s \in Seq(Byte) /\ Len(s) = 0 /\ s \o t = t
    BY <1>1
  <2> HIDE DEF s, t
  <2>2. rest[Len(s) + 1] = t[1]
    BY <1>1, <2>1, PrefixFirst DEF t
  <2> QED BY <2>1, <2>2 DEF t
<1>3. Base + g \in Byte /\ Continues(Base + g)
  BY BaseFacts DEF Byte, Continues
<1>4. v >= Base /\ Base + g = Base + (v % Base)
  BY <1>2, <1>3, FirstByteBounds
<1> DEFINE m == v % Base
           q == v \div Base
<1>5. v = m + q * Base /\ q \in Nat \ {0} /\ m \in 0 .. Base - 1
  BY <1>4, BaseFacts, DivisionBy
<1>6. Base + g = Base + m
  BY <1>4
<1> HIDE DEF m, q
<1>7. g = m
  BY <1>5, <1>6, BaseFacts
<1> QED BY <1>5, <1>7

(* And each one after it the group at its place.                           *)
LEMMA OnlyMore ==
  ASSUME NEW w \in Seq(Byte), NEW r \in Nat, NEW p \in Nat \ {0}, NEW rest \in Seq(Byte),
         Writes(w, r, p), OnlyFrom(rest, r, p),
         NEW g \in 0 .. Base - 1, rest[Len(w) + 1] = Base + g
  PROVE  OnlyFrom(rest, r + g * p, Base * p)
<1> SUFFICES ASSUME NEW v \in Nat, IsPrefix(EncodeVarint[v], rest)
             PROVE  \E h \in Nat \ {0} : v = (r + g * p) + h * (Base * p)
  BY DEF OnlyFrom
<1>1. PICK h \in Nat \ {0} : v = r + h * p /\ Base + g = EncodeVarint[h][1]
  <2>1. GoesOn(w, r, p, rest, v)
    BY NextDigit
  <2> QED BY <2>1 DEF GoesOn
<1>2. Base + g \in Byte /\ Continues(Base + g)
  BY BaseFacts DEF Byte, Continues
<1>3. h >= Base /\ Base + g = Base + (h % Base)
  BY <1>1, <1>2, FirstByteBounds
<1> DEFINE m == h % Base
           q == h \div Base
<1>4. h = m + q * Base /\ q \in Nat \ {0} /\ m \in 0 .. Base - 1
  BY <1>3, BaseFacts, DivisionBy
<1>5. Base + g = Base + m
  BY <1>3
<1> HIDE DEF m, q
<1>6. g = m
  BY <1>4, <1>5, BaseFacts
<1>7. v = r + (g + q * Base) * p
  BY <1>1, <1>4, <1>6
<1>8. v = (r + g * p) + q * (Base * p)
  BY <1>4, <1>7, BaseFacts, Places
<1> QED BY <1>4, <1>8

-----------------------------------------------------------------------------
(* The groups of n bytes from pos add up to r.                             *)
Sums(f, s, pos, n) ==
  /\ f \in [0 .. n -> Nat]
  /\ f[0] = 0
  /\ \A i \in 1 .. n : f[i] = f[i - 1] + Group(s[pos + i]) * Weight[i - 1]

SumsTo(s, pos, n, r) == \E f : Sums(f, s, pos, n) /\ f[n] = r

(* No groups add up to nothing.                                            *)
LEMMA SumsNothing ==
  ASSUME NEW s, NEW pos \in Nat
  PROVE  SumsTo(s, pos, 0, 0)
<1> DEFINE f == [i \in 0 .. 0 |-> 0]
<1>1. Sums(f, s, pos, 0) /\ f[0] = 0
  BY DEF Sums
<1> HIDE DEF f
<1> QED BY <1>1 DEF SumsTo

(* One more group is added at its place.                                   *)
LEMMA SumsMore ==
  ASSUME NEW s, NEW pos \in Nat, NEW n \in Nat, NEW r \in Nat, SumsTo(s, pos, n, r),
         Group(s[pos + n + 1]) * Weight[n] \in Nat
  PROVE  SumsTo(s, pos, n + 1, r + Group(s[pos + n + 1]) * Weight[n])
<1> DEFINE x == Group(s[pos + n + 1]) * Weight[n]
<1>1. PICK f : Sums(f, s, pos, n) /\ f[n] = r
  BY DEF SumsTo
<1> DEFINE m == n + 1
           g == [i \in 0 .. m |-> IF i = m THEN r + x ELSE f[i]]
<1>2. x \in Nat /\ f \in [0 .. n -> Nat] /\ f[0] = 0
  BY <1>1 DEF Sums
<1>3. g[m] = r + x /\ \A i \in 0 .. n : g[i] = f[i]
  OBVIOUS
<1>4. g \in [0 .. m -> Nat] /\ g[0] = 0
  <2> HIDE DEF x
  <2>1. \A i \in 0 .. m : i = m \/ i \in 0 .. n
    OBVIOUS
  <2> QED BY <1>2, <2>1
<1> HIDE DEF g
<1>5. \A i \in 1 .. m : g[i] = g[i - 1] + Group(s[pos + i]) * Weight[i - 1]
  <2> SUFFICES ASSUME NEW i \in 1 .. m
               PROVE  g[i] = g[i - 1] + Group(s[pos + i]) * Weight[i - 1]
    OBVIOUS
  <2>1. CASE i = m
    <3>1. i - 1 = n /\ pos + i = pos + n + 1 /\ n \in 0 .. n
      BY <2>1
    <3>2. g[i - 1] = r
      BY <1>1, <1>3, <3>1
    <3> QED BY <1>3, <2>1, <3>1, <3>2
  <2>2. CASE i # m
    <3>1. i \in 1 .. n /\ i \in 0 .. n /\ i - 1 \in 0 .. n
      BY <2>2
    <3>2. f[i] = f[i - 1] + Group(s[pos + i]) * Weight[i - 1]
      BY <1>1, <3>1 DEF Sums
    <3> QED BY <1>3, <3>1, <3>2
  <2> QED BY <2>1, <2>2
<1>6. Sums(g, s, pos, m) /\ g[m] = r + x
  BY <1>3, <1>4, <1>5 DEF Sums
<1>7. SumsTo(s, pos, m, r + x)
  BY <1>6 DEF SumsTo
<1> QED BY <1>7

(* GroupSum, defined by recursion, is that sum.                            *)
LEMMA SumIsGroupSum ==
  ASSUME NEW s, NEW pos \in Nat, NEW n \in Nat, NEW r \in Nat, SumsTo(s, pos, n, r)
  PROVE  GroupSum(s, pos, n) = r
<1> DEFINE Eq(sum) == sum = [i \in 0 .. n |->
                        IF i = 0 THEN 0 ELSE sum[i - 1] + Group(s[pos + i]) * Weight[i - 1]]
           sum0 == CHOOSE sum : Eq(sum)
<1>1. PICK f : Sums(f, s, pos, n) /\ f[n] = r
  BY DEF SumsTo
<1>2. /\ f \in [0 .. n -> Nat] /\ f[0] = 0
      /\ \A i \in 1 .. n : f[i] = f[i - 1] + Group(s[pos + i]) * Weight[i - 1]
  BY <1>1 DEF Sums
<1>3. Eq(f)
  <2>1. \A i \in 0 .. n : i = 0 \/ i \in 1 .. n
    OBVIOUS
  <2>2. \A i \in 0 .. n :
          f[i] = IF i = 0 THEN 0 ELSE f[i - 1] + Group(s[pos + i]) * Weight[i - 1]
    BY <1>2, <2>1
  <2> QED BY <1>2, <2>2
<1>4. Eq(sum0)
  <2> HIDE DEF Eq
  <2> QED BY <1>3, Zenon
<1>5. GroupSum(s, pos, n) = sum0[n]
  BY Zenon DEF GroupSum
<1> HIDE DEF sum0
<1>6. \A i \in 0 .. n :
        sum0[i] = IF i = 0 THEN 0 ELSE sum0[i - 1] + Group(s[pos + i]) * Weight[i - 1]
  BY <1>4
<1> DEFINE T == {i \in Nat : i <= n => sum0[i] = f[i]}
<1>7. 0 \in T
  BY <1>2, <1>6
<1>8. \A i \in T : i + 1 \in T
  <2> SUFFICES ASSUME NEW i \in T, i + 1 <= n PROVE sum0[i + 1] = f[i + 1]
    OBVIOUS
  <2> DEFINE k == i + 1
  <2>1. k \in 1 .. n /\ k \in 0 .. n /\ k # 0 /\ k - 1 = i /\ sum0[i] = f[i]
    OBVIOUS
  <2> HIDE DEF k, T
  <2>2. sum0[k] = sum0[k - 1] + Group(s[pos + k]) * Weight[k - 1]
    BY <1>6, <2>1
  <2>3. f[k] = f[k - 1] + Group(s[pos + k]) * Weight[k - 1]
    BY <1>2, <2>1
  <2> QED BY <2>1, <2>2, <2>3 DEF k
<1>9. T \in SUBSET Nat
  OBVIOUS
<1>10. n \in T
  <2>1. T = Nat
    <3> HIDE DEF T
    <3> QED BY <1>7, <1>8, <1>9, NatInductionOnSets
  <2> QED BY <2>1
<1> QED BY <1>1, <1>5, <1>10

(* Where ReadVarint stops: at the first byte that does not say that another*)
(* follows, that is not there, or that is the last a call may take.        *)
LEMMA ReadStops ==
  ASSUME NEW s, NEW pos \in Nat, NEW n \in 1 .. MaxBytes,
         \A j \in 1 .. n - 1 : pos + j <= Len(s) /\ Continues(s[pos + j]),
         n = MaxBytes \/ pos + n > Len(s) \/ ~Continues(s[pos + n])
  PROVE  n = Min({i \in 1 .. MaxBytes :
                    i = MaxBytes \/ pos + i > Len(s) \/ ~Continues(s[pos + i])})
<1> DEFINE S == {i \in 1 .. MaxBytes :
                    i = MaxBytes \/ pos + i > Len(s) \/ ~Continues(s[pos + i])}
<1>1. n \in S
  OBVIOUS
<1>2. MaxBytes \in Nat
  BY VarIntAssumption
<1>3. \A i \in S : n <= i
  <2> SUFFICES ASSUME NEW i \in S, i < n PROVE FALSE
    BY <1>2
  <2>1. i \in 1 .. n - 1 /\ i # MaxBytes
    BY <1>2
  <2> QED BY <2>1
<1>4. \A i \in S : i \in Nat
  BY <1>2
<1> HIDE DEF S
<1>5. Min(S) \in S /\ \A i \in S : Min(S) <= i
  <2>1. \E x \in S : \A y \in S : x <= y
    BY <1>1, <1>3
  <2> QED BY <2>1, Zenon DEF Min
<1>6. n = Min(S)
  <2> DEFINE m == Min(S)
  <2>1. m \in Nat /\ n \in Nat /\ m <= n /\ n <= m
    BY <1>1, <1>2, <1>3, <1>4, <1>5
  <2> HIDE DEF m
  <2>2. m = n
    BY <2>1
  <2> QED BY <2>2 DEF m
<1> QED BY <1>6 DEF S

(* ReadVarint, when it is known where it stops.                            *)
LEMMA ReadIs ==
  ASSUME NEW s, NEW pos \in Nat, NEW n \in 1 .. MaxBytes,
         \A j \in 1 .. n - 1 : pos + j <= Len(s) /\ Continues(s[pos + j]),
         n = MaxBytes \/ pos + n > Len(s) \/ ~Continues(s[pos + n])
  PROVE  ReadVarint(s, pos) =
           IF pos + n > Len(s) THEN Err("UnexpectedEof", Len(s))
           ELSE IF n = MaxBytes /\ Group(s[pos + n]) >= TopGroup
             THEN Err("IntegerOverflow", pos + n)
           ELSE IF Continues(s[pos + n]) \/ (n > 1 /\ s[pos + n] = 0)
             THEN Err("InvalidVarInt", pos + n)
           ELSE Ok(pos + n, GroupSum(s, pos, n))
<1>1. n = Min({i \in 1 .. MaxBytes :
                 i = MaxBytes \/ pos + i > Len(s) \/ ~Continues(s[pos + i])})
  BY ReadStops, Zenon
<1> QED BY <1>1, Zenon DEF ReadVarint

-----------------------------------------------------------------------------
(* The powers of two.                                                      *)
LEMMA PowEquation ==
  /\ Pow2 \in [Nat -> Nat \ {0}]
  /\ Pow2[0] = 1
  /\ \A n \in Nat : Pow2[n + 1] = 2 * Pow2[n]
<1> DEFINE V == Nat \ {0}
           D == Nat
           Rule(n, f) == IF n = 0 THEN 1 ELSE 2 * f[n - 1]
           Rules == [n \in D |-> [f \in [D -> V] |-> Rule(n, f)]]
           Below == [n \in D |-> 0 .. n - 1]
           Eq(f) == f = [n \in Nat |-> IF n = 0 THEN 1 ELSE 2 * f[n - 1]]
<1>1. Rules \in [D -> [[D -> V] -> V]]
  <2>1. \A n \in D, f \in [D -> V] : Rule(n, f) \in V
    <3> SUFFICES ASSUME NEW n \in D, NEW f \in [D -> V] PROVE Rule(n, f) \in V
      OBVIOUS
    <3>1. CASE n = 0
      BY <3>1
    <3>2. CASE n # 0
      <4>1. n - 1 \in D
        BY <3>2
      <4>2. f[n - 1] \in V
        BY <4>1
      <4> QED BY <3>2, <4>2
    <3> QED BY <3>1, <3>2
  <2> HIDE DEF Rule, V, D
  <2> QED BY <2>1
<1>2. LocalTo(D, V, Below, Rules)
  <2> SUFFICES ASSUME NEW n \in D, NEW f \in [D -> V], NEW g \in [D -> V],
                      \A m \in Below[n] : f[m] = g[m]
               PROVE  Rules[n][f] = Rules[n][g]
    BY DEF LocalTo
  <2>1. n # 0 => f[n - 1] = g[n - 1]
    OBVIOUS
  <2> HIDE DEF V, D
  <2> QED BY <2>1
<1>3. Below \in [D -> SUBSET D] /\ WellFounded(D, Below)
  <2>1. Below \in [D -> SUBSET D] /\ \A n \in D : \A m \in Below[n] : m < n
    OBVIOUS
  <2>2. D \in SUBSET Nat
    OBVIOUS
  <2> HIDE DEF Below, D
  <2> QED BY <2>1, <2>2, NatWellFounded
<1>4. \E f : Eq(f)
  <2>1. V # {}
    <3>1. 1 \in V
      OBVIOUS
    <3> QED BY <3>1
  <2>2. PICK f : Solves(f, D, V, Rules)
    <3>1. IsRecursion(D, V, Below, Rules)
      <4> HIDE DEF D, V, Below, Rules
      <4> QED BY <1>1, <1>2, <1>3, <2>1 DEF IsRecursion
    <3> HIDE DEF D, V, Below, Rules
    <3> QED BY <3>1, RecursiveFunctionExists
  <2>3. f \in [D -> V] /\ \A n \in D : f[n] = Rule(n, f)
    <3> HIDE DEF Rule, V
    <3> QED BY <2>2 DEF Solves
  <2>4. Eq(f)
    BY <2>3
  <2> HIDE DEF Eq
  <2> QED BY <2>4
<1>5. Eq(Pow2)
  <2>1. Pow2 = CHOOSE f : Eq(f)
    BY Zenon DEF Pow2
  <2> HIDE DEF Eq
  <2> QED BY <1>4, <2>1, Zenon
<1>6. Pow2[0] = 1 /\ \A n \in Nat : Pow2[n + 1] = 2 * Pow2[n]
  <2>1. \A n \in Nat : Pow2[n] = IF n = 0 THEN 1 ELSE 2 * Pow2[n - 1]
    BY <1>5
  <2>2. Pow2[0] = 1
    BY <2>1
  <2>3. ASSUME NEW n \in Nat PROVE Pow2[n + 1] = 2 * Pow2[n]
    <3>1. n + 1 \in Nat /\ n + 1 # 0 /\ n + 1 - 1 = n
      OBVIOUS
    <3> DEFINE k == n + 1
    <3> HIDE DEF k
    <3>2. k \in Nat /\ k # 0 /\ k - 1 = n
      BY <3>1 DEF k
    <3>3. Pow2[k] = 2 * Pow2[k - 1]
      BY <2>1, <3>2
    <3> QED BY <3>2, <3>3 DEF k
  <2> QED BY <2>2, <2>3
<1> DEFINE T == {n \in Nat : Pow2[n] \in Nat \ {0}}
<1>7. T \in SUBSET Nat /\ 0 \in T /\ \A n \in T : n + 1 \in T
  BY <1>6
<1>8. T = Nat
  <2> HIDE DEF T
  <2> QED BY <1>7, NatInductionOnSets
<1>9. Pow2 \in [Nat -> Nat \ {0}]
  <2>1. \A n \in Nat : Pow2[n] \in Nat \ {0}
    BY <1>8
  <2> QED BY <1>5, <2>1
<1> QED BY <1>6, <1>9

(* They grow.                                                              *)
LEMMA PowMonotone ==
  ASSUME NEW m \in Nat, NEW n \in Nat, m <= n
  PROVE  Pow2[m] <= Pow2[n]
<1> DEFINE T == {d \in Nat : Pow2[m] <= Pow2[m + d]}
<1>1. 0 \in T
  BY PowEquation
<1>2. \A d \in T : d + 1 \in T
  <2> SUFFICES ASSUME NEW d \in T PROVE Pow2[m] <= Pow2[m + (d + 1)]
    OBVIOUS
  <2> DEFINE k == m + d
  <2>1. k \in Nat /\ m + (d + 1) = k + 1 /\ Pow2[m] <= Pow2[k]
    OBVIOUS
  <2> HIDE DEF k
  <2>2. Pow2[k + 1] = 2 * Pow2[k] /\ Pow2[k] \in Nat /\ Pow2[m] \in Nat
    BY <2>1, PowEquation
  <2>3. Pow2[m] <= Pow2[k + 1]
    BY <2>1, <2>2
  <2> QED BY <2>1, <2>3
<1>3. T \in SUBSET Nat
  OBVIOUS
<1>4. n - m \in T
  <2>1. n - m \in Nat
    OBVIOUS
  <2> HIDE DEF T
  <2>2. T = Nat
    BY <1>1, <1>2, <1>3, NatInductionOnSets
  <2> QED BY <2>1, <2>2
<1>5. m + (n - m) = n
  OBVIOUS
<1> QED BY <1>4, <1>5

(* The exponents of a product add up.                                      *)
LEMMA PowSum ==
  ASSUME NEW m \in Nat, NEW n \in Nat
  PROVE  Pow2[m + n] = Pow2[m] * Pow2[n]
<1> DEFINE T == {d \in Nat : Pow2[m + d] = Pow2[m] * Pow2[d]}
<1>1. 0 \in T
  <2>1. Pow2[m] \in Nat /\ Pow2[0] = 1 /\ m + 0 = m
    BY PowEquation
  <2> QED BY <2>1
<1>2. \A d \in T : d + 1 \in T
  <2> SUFFICES ASSUME NEW d \in T PROVE Pow2[m + (d + 1)] = Pow2[m] * Pow2[d + 1]
    OBVIOUS
  <2> DEFINE k == m + d
  <2>1. k \in Nat /\ m + (d + 1) = k + 1 /\ Pow2[k] = Pow2[m] * Pow2[d]
    OBVIOUS
  <2> HIDE DEF k
  <2>2. /\ Pow2[k + 1] = 2 * Pow2[k] /\ Pow2[d + 1] = 2 * Pow2[d]
        /\ Pow2[k] \in Nat /\ Pow2[m] \in Nat /\ Pow2[d] \in Nat
    BY <2>1, PowEquation
  <2> DEFINE x == Pow2[m]
             y == Pow2[d]
  <2>3. x \in Nat /\ y \in Nat
    BY <2>2
  <2>4. Pow2[k + 1] = 2 * (x * y) /\ Pow2[d + 1] = 2 * y
    BY <2>1, <2>2
  <2> HIDE DEF x, y
  <2>5. 2 * (x * y) = x * (2 * y)
    BY <2>3
  <2>6. Pow2[k + 1] = x * Pow2[d + 1]
    BY <2>4, <2>5
  <2> QED BY <2>1, <2>6 DEF x
<1>3. T \in SUBSET Nat
  OBVIOUS
<1>4. n \in T
  <2>1. T = Nat
    <3> HIDE DEF T
    <3> QED BY <1>1, <1>2, <1>3, NatInductionOnSets
  <2> QED BY <2>1
<1> QED BY <1>4

(* The place value of group i is the power of two of the bits below it.    *)
LEMMA WeightIsPow ==
  ASSUME NEW i \in 0 .. MaxBytes - 1
  PROVE  Weight[i] = Pow2[GroupBits * i] /\ GroupBits * i \in Nat
<1> DEFINE T == {k \in Nat : k <= MaxBytes - 1 => Weight[k] = Pow2[GroupBits * k]}
<1>0. MaxBytes \in Nat /\ MaxBytes > 1 /\ GroupBits \in Nat /\ Base = Pow2[GroupBits]
  BY VarIntAssumption
<1>1. 0 \in T
  <2>1. GroupBits * 0 = 0
    BY <1>0
  <2> QED BY <2>1, PowEquation, WeightAssumption
<1>2. \A k \in T : k + 1 \in T
  <2> SUFFICES ASSUME NEW k \in T, k + 1 <= MaxBytes - 1
               PROVE  Weight[k + 1] = Pow2[GroupBits * (k + 1)]
    OBVIOUS
  <2> DEFINE l == k + 1
  <2>1. l \in 1 .. MaxBytes - 1 /\ l - 1 = k /\ Weight[k] = Pow2[GroupBits * k] /\ k \in Nat
    BY <1>0
  <2> HIDE DEF l, T
  <2>2. Weight[l] = Base * Weight[l - 1]
    BY <2>1, WeightAssumption
  <2>3. GroupBits * (k + 1) = GroupBits + GroupBits * k /\ GroupBits * k \in Nat
    BY <1>0, <2>1
  <2> DEFINE b == GroupBits * k
  <2>4. b \in Nat /\ Weight[k] = Pow2[b]
    BY <2>1, <2>3
  <2> HIDE DEF b
  <2>5. Pow2[GroupBits + b] = Pow2[GroupBits] * Pow2[b]
    BY <1>0, <2>4, PowSum
  <2>6. Weight[l] = Pow2[GroupBits + b]
    BY <1>0, <2>1, <2>2, <2>4, <2>5
  <2> QED BY <2>3, <2>6 DEF b, l
<1>3. T \in SUBSET Nat
  OBVIOUS
<1>4. i \in T /\ i \in Nat /\ i <= MaxBytes - 1
  <2>1. T = Nat
    <3> HIDE DEF T
    <3> QED BY <1>1, <1>2, <1>3, NatInductionOnSets
  <2> QED BY <2>1, <1>0
<1>5. GroupBits * i \in Nat
  BY <1>0, <1>4
<1> QED BY <1>4, <1>5

(* The position of the highest bit of a value that fits the width.         *)
LEMMA BitsOf ==
  ASSUME NEW v \in Nat, NEW top \in Nat, top = GroupBits * MaxBytes, v < Pow2[top]
  PROVE  /\ Bits(v) \in 0 .. top
         /\ v < Pow2[Bits(v)]
         /\ Bits(v) = 0 \/ v >= Pow2[Bits(v) - 1]
<1> DEFINE Is(n) == v < Pow2[n] /\ (n = 0 \/ v >= Pow2[n - 1])
           S == {n \in Nat : v < Pow2[n]}
<1>1. top \in S /\ S \in SUBSET Nat /\ S # {}
  OBVIOUS
<1>2. PICK n \in S : \A m \in S : n <= m
  <2> HIDE DEF S
  <2> QED BY <1>1, NatMinimum
<1>3. n \in 0 .. top
  BY <1>1, <1>2
<1>4. n # 0 => v >= Pow2[n - 1]
  <2> SUFFICES ASSUME n # 0, ~(v >= Pow2[n - 1]) PROVE FALSE
    OBVIOUS
  <2>1. n - 1 \in Nat
    BY <1>3
  <2>2. Pow2[n - 1] \in Nat
    BY <2>1, PowEquation
  <2>3. n - 1 \in S
    BY <2>1, <2>2
  <2> QED BY <1>2, <1>3, <2>3
<1>5. Is(n)
  BY <1>4
<1>6. Bits(v) = CHOOSE k \in 0 .. top : Is(k)
  BY Zenon DEF Bits
<1>7. Bits(v) \in 0 .. top /\ Is(Bits(v))
  <2> HIDE DEF Is
  <2> QED BY <1>3, <1>5, <1>6, Zenon
<1> QED BY <1>7

(* A value that needs n groups has the length n.                           *)
LEMMA LenOf ==
  ASSUME NEW v \in Nat, NEW n \in 1 .. MaxBytes, v < Pow2[GroupBits * n],
         n > 1 => v >= Pow2[GroupBits * (n - 1)]
  PROVE  VarintLen(v) = n
<1> DEFINE g == GroupBits
           lo == g * (n - 1)
           hi == g * n
           top == g * MaxBytes
           b == Bits(v)
<1>1. g \in Nat \ {0} /\ MaxBytes \in Nat /\ n \in Nat /\ n - 1 \in Nat
  BY VarIntAssumption
<1>2. lo \in Nat /\ hi \in Nat /\ top \in Nat /\ hi <= top /\ hi = lo + g /\ (n = 1 => lo = 0)
  <2> HIDE DEF g
  <2>1. g * (n - 1) \in Nat /\ g * n \in Nat /\ g * MaxBytes \in Nat
    BY <1>1
  <2>2. g * n = g * (n - 1) + g
    BY <1>1
  <2>3. g * n <= g * MaxBytes
    <3>1. n <= MaxBytes
      BY <1>1
    <3> QED BY <1>1, <3>1
  <2>4. n = 1 => g * (n - 1) = 0
    BY <1>1
  <2> QED BY <2>1, <2>2, <2>3, <2>4
<1>3. v < Pow2[hi] /\ (n > 1 => v >= Pow2[lo])
  OBVIOUS
<1>a. top = GroupBits * MaxBytes /\ VarintLen(v) = IF b = 0 THEN 1 ELSE (b + g - 1) \div g
  BY DEF VarintLen
<1> HIDE DEF lo, hi, top, b, g
<1>4. v < Pow2[top]
  BY <1>2, <1>3, PowMonotone, PowEquation
<1>5. b \in 0 .. top /\ v < Pow2[b] /\ (b = 0 \/ v >= Pow2[b - 1])
  BY <1>2, <1>4, <1>a, BitsOf DEF b
<1>6. b \in Nat /\ b <= hi
  <2>1. b \in Nat
    BY <1>2, <1>5
  <2> SUFFICES ASSUME b > hi PROVE FALSE
    BY <1>2, <2>1
  <2>2. b - 1 \in Nat /\ hi <= b - 1
    BY <1>2, <2>1
  <2>3. Pow2[hi] <= Pow2[b - 1] /\ Pow2[hi] \in Nat /\ Pow2[b - 1] \in Nat
    BY <1>2, <2>2, PowMonotone, PowEquation
  <2> QED BY <1>2, <1>3, <1>5, <2>3
<1>7. n > 1 => b > lo
  <2> SUFFICES ASSUME n > 1, b <= lo PROVE FALSE
    BY <1>2, <1>6
  <2>1. Pow2[b] <= Pow2[lo] /\ Pow2[b] \in Nat /\ Pow2[lo] \in Nat
    BY <1>2, <1>6, PowMonotone, PowEquation
  <2> QED BY <1>3, <1>5, <2>1
<1>8. CASE b = 0
  <2>1. n = 1
    BY <1>1, <1>2, <1>7, <1>8
  <2> QED BY <1>8, <1>a, <2>1
<1>9. CASE b # 0
  <2>1. b > lo
    BY <1>1, <1>2, <1>6, <1>7, <1>9
  <2> DEFINE m == b - 1 - lo
  <2>2. m \in 0 .. g - 1 /\ b + g - 1 = m + hi
    BY <1>1, <1>2, <1>6, <2>1
  <2> HIDE DEF m
  <2>3. hi = n * g
    BY <1>1 DEF hi
  <2>4. (m + n * g) \div g = n
    BY <1>1, <2>2, DivisionOf
  <2> QED BY <1>9, <1>a, <2>2, <2>3, <2>4
<1> QED BY <1>8, <1>9

(* A group is less than the continuation bit.                              *)
LEMMA ByteParts ==
  ASSUME NEW byte \in Byte
  PROVE  /\ Group(byte) \in 0 .. Base - 1
         /\ Group(byte) \in Nat
BY BaseFacts DEF Byte, Group

(* The place value of the second group.                                    *)
LEMMA FirstWeight == Weight[1] = Base
<1>1. 1 \in 1 .. MaxBytes - 1 /\ 1 - 1 = 0 /\ Base * 1 = Base
  BY VarIntAssumption
<1>2. Weight[1] = Base * Weight[1 - 1]
  BY <1>1, WeightAssumption
<1> QED BY <1>1, <1>2, WeightAssumption

(* The width of an integer holds every place value.                        *)
LEMMA LimitIsNat ==
  /\ Limit \in Nat \ {0}
  /\ \A i \in 0 .. MaxBytes - 1 : Weight[i] <= Limit /\ Weight[i] \in Nat \ {0}
<1> DEFINE top == Weight[MaxBytes - 1]
<1>1. top \in Nat \ {0} /\ TopGroup \in Nat \ {0}
  BY VarIntAssumption, WeightAssumption
<1>2. Limit = TopGroup * top
  BY DEF Limit
<1>3. TopGroup * top >= top
  <2>1. top * 1 = top
    BY <1>1
  <2>2. TopGroup = 1 \/ 1 < TopGroup
    BY <1>1
  <2>3. CASE TopGroup = 1
    BY <2>1, <2>3, <1>1
  <2>4. CASE 1 < TopGroup
    <3> HIDE DEF top
    <3>1. 0 < top /\ 0 \in Nat
      BY <1>1
    <3>2. 0 + 1 * top < TopGroup * top
      BY <3>1, <2>4, <1>1, GroupFits
    <3> QED BY <3>2, <1>1
  <2> QED BY <2>2, <2>3, <2>4
<1> HIDE DEF top
<1>4. TopGroup * top \in Nat
  BY <1>1
<1>5. Limit \in Nat \ {0} /\ top <= Limit
  BY <1>1, <1>2, <1>3, <1>4
<1> QED
  <2> SUFFICES ASSUME NEW i \in 0 .. MaxBytes - 1
               PROVE  Weight[i] <= Limit /\ Weight[i] \in Nat \ {0}
    BY <1>5
  <2>1. Weight[i] <= top /\ Weight[i] \in Nat \ {0}
    BY VarIntAssumption, WeightAssumption DEF top
  <2> QED BY <2>1, <1>1, <1>5

(* A byte that is not refused keeps the result within the places it has    *)
(* read, and in particular within the width: nothing is shifted out.       *)
LEMMA ShiftKeepsAllBits ==
  ASSUME NEW byte \in Byte, DecoderTypeOK, BoundInv, status = "more",
         StatusAfter(byte) # "IntegerOverflow"
  PROVE  /\ Shifted(byte) = Group(byte) * Weight[index]
         /\ result + Shifted(byte) \in 0 .. Limit - 1
         /\ index < MaxBytes - 1 => result + Shifted(byte) < Weight[index + 1]
<1> DEFINE w == Weight[index]
<1> DEFINE g == Group(byte)
<1>1. index \in 1 .. MaxBytes - 1 /\ result < w /\ result \in Nat
  <2>1. result \in 0 .. Limit - 1 /\ index \in 1 .. MaxBytes - 1 /\ result < w
    BY DEF BoundInv, DecoderTypeOK, ReadIsBounded
  <2> HIDE DEF w
  <2> QED BY <2>1, LimitIsNat
<1>2. w \in Nat \ {0} /\ g \in Nat /\ g < Base
  <2>1. g \in 0 .. Base - 1
    BY ByteParts
  <2>2. w \in Nat \ {0}
    <3>1. index \in 0 .. MaxBytes - 1
      BY <1>1, BaseFacts, VarIntAssumption
    <3> QED BY <3>1, WeightAssumption
  <2> HIDE DEF g, w
  <2> QED BY <2>1, <2>2, BaseFacts
<1>3. g * w \in Nat
  BY <1>2
<1>4. CASE index < MaxBytes - 1
  <2>1. Weight[index + 1] = Base * w /\ index + 1 \in 0 .. MaxBytes - 1
    <3> DEFINE j == index + 1
    <3>1. j \in 1 .. MaxBytes - 1 /\ j - 1 = index
      BY <1>1, <1>4, VarIntAssumption, WeightAssumption
    <3> HIDE DEF j
    <3>2. Weight[j] = Base * Weight[j - 1]
      BY <3>1, VarIntAssumption, WeightAssumption
    <3>3. Weight[j] = Base * w
      BY <3>1, <3>2
    <3>4. j \in 0 .. MaxBytes - 1
      BY <3>1
    <3> HIDE DEF w
    <3> QED BY <3>3, <3>4 DEF j
  <2>2. result + g * w < Base * w
    <3> HIDE DEF w, g
    <3> QED BY <1>1, <1>2, GroupFits, VarIntAssumption, WeightAssumption
  <2>3. Weight[index + 1] <= Limit /\ Weight[index + 1] \in Nat
    BY <2>1, LimitIsNat
  <2> HIDE DEF w, g
  <2>4. result + g * w < Limit
    <3> DEFINE p == g * w
    <3> DEFINE q == Base * w
    <3>1. p \in Nat /\ q <= Limit /\ q \in Nat /\ result + p < q
      BY <1>3, <2>1, <2>2, <2>3
    <3> HIDE DEF p, q
    <3>2. result + p < Limit
      BY <3>1, <1>1, LimitIsNat
    <3> QED BY <3>2 DEF p
  <2>5. (g * w) % Limit = g * w
    BY <1>1, <1>3, <2>4, LimitIsNat, ModOfSmall
  <2>6. Shifted(byte) = g * w
    BY <2>5 DEF Shifted, w, g
  <2>7. result + g * w \in 0 .. Limit - 1
    BY <1>1, <1>3, <2>4, LimitIsNat, ModOfSmall
  <2> QED BY <2>1, <2>2, <2>6, <2>7 DEF w, g
<1>5. CASE index = MaxBytes - 1
  <2>1. g < TopGroup
    BY <1>5, <1>2, ByteParts, VarIntAssumption, WeightAssumption DEF StatusAfter
  <2>2. Limit = TopGroup * w
    BY <1>5 DEF Limit
  <2>3. TopGroup \in Nat
    BY VarIntAssumption, WeightAssumption
  <2> HIDE DEF w, g
  <2>4. result + g * w < Limit
    BY <1>1, <1>2, <2>1, <2>2, <2>3, GroupFits
  <2>5. (g * w) % Limit = g * w
    BY <1>1, <1>3, <2>4, LimitIsNat, ModOfSmall
  <2>6. Shifted(byte) = g * w
    BY <2>5 DEF Shifted, w, g
  <2>7. result + g * w \in 0 .. Limit - 1
    BY <1>1, <1>3, <2>4, LimitIsNat, ModOfSmall
  <2> QED BY <1>5, <2>6, <2>7, <1>1 DEF w, g
<1> QED BY <1>1, <1>4, <1>5, VarIntAssumption, WeightAssumption

(* The bounds hold at the start of a packet.                               *)
LEMMA BoundInit == DecoderInit => BoundInv
<1> SUFFICES ASSUME DecoderInit PROVE BoundInv
  OBVIOUS
<1>1. bytes \in Seq(Byte)
  <2>1. PICK n \in 0 .. MaxInput : bytes \in [1 .. n -> Byte]
    BY DEF DecoderInit
  <2>2. n \in Nat
    OBVIOUS
  <2> QED BY <2>1, <2>2
<1>2. DecoderTypeOK
  BY <1>1, LimitIsNat, VarIntAssumption, WeightAssumption DEF DecoderInit, DecoderTypeOK, Errors
<1> QED BY <1>1, <1>2, VarIntAssumption, WeightAssumption DEF DecoderInit, BoundInv, ReadIsBounded

(* No step leaves them: the one that could is the shift of a group into    *)
(* the result.                                                             *)
LEMMA BoundStep == BoundInv /\ [DecoderNext]_decoderVars => BoundInv'
<1> SUFFICES ASSUME BoundInv, [DecoderNext]_decoderVars PROVE BoundInv'
  OBVIOUS
<1> USE DEF BoundInv
<1>0. NextByte \in Byte \/ AtEnd
  BY DEF DecoderTypeOK, NextByte, AtEnd
<1>1. CASE Eof
  BY <1>1 DEF Eof, DecoderTypeOK, ReadIsBounded, Errors
<1>2. CASE First
  <2>1. NextByte \in Byte /\ position < Len(bytes)
    BY <1>0, <1>2 DEF First, AtEnd, DecoderTypeOK
  <2>2. Group(NextByte) \in 0 .. Base - 1
    BY <2>1, ByteParts
  <2>3. Weight[1] = Base
    BY FirstWeight
  <2>4. Base <= Limit
    BY <2>3, LimitIsNat, VarIntAssumption, WeightAssumption
  <2>5. DecoderTypeOK'
    <3>1. Group(NextByte) \in 0 .. Limit - 1
      BY <2>2, <2>4, LimitIsNat, BaseFacts
    <3>2. /\ bytes' = bytes /\ decoded' = decoded /\ start' = start
          /\ position' = position + 1 /\ index' = 1 /\ result' = Group(NextByte)
          /\ status' \in {"more", "ok"}
      BY <1>2 DEF First
    <3>3. 1 \in 0 .. MaxBytes - 1
      BY VarIntAssumption
    <3> QED BY <2>1, <3>1, <3>2, <3>3 DEF DecoderTypeOK, Errors
  <2>6. ReadIsBounded'
    <3>1. /\ start' = start /\ position' = position + 1 /\ index' = 1
          /\ result' = Group(NextByte) /\ position = start
      BY <1>2 DEF First, DecoderTypeOK, ReadIsBounded
    <3>2. result' < Base /\ 1 \in 1 .. MaxBytes - 1 /\ 1 <= MaxBytes
      BY <2>2, <3>1, BaseFacts, VarIntAssumption
    <3> QED BY <1>2, <2>1, <2>3, <3>1, <3>2 DEF First, DecoderTypeOK, ReadIsBounded
  <2>7. /\ status' = "first" => position' = start'
        /\ status' = "more" => index' \in 1 .. MaxBytes - 1
    <3>1. status' # "first" /\ index' = 1
      BY <1>2 DEF First
    <3>2. 1 \in 1 .. MaxBytes - 1
      BY VarIntAssumption
    <3> QED BY <3>1, <3>2
  <2> QED BY <2>5, <2>6, <2>7
<1>3. CASE More
  <2>1. NextByte \in Byte /\ position < Len(bytes)
    BY <1>0, <1>3 DEF More, AtEnd, DecoderTypeOK
  <2>2. status = "more" /\ index \in 1 .. MaxBytes - 1
    BY <1>3 DEF More
  <2>3. /\ status' = StatusAfter(NextByte)
        /\ status' \in {"more", "ok", "IntegerOverflow", "InvalidVarInt"}
        /\ status' = "more" => index < MaxBytes - 1
    BY <1>3, <2>2, VarIntAssumption, WeightAssumption DEF More, StatusAfter
  <2>4. /\ result' \in 0 .. Limit - 1
        /\ status' = "more" => result' < Weight[index + 1]
    <3>1. CASE status' = "IntegerOverflow"
      BY <1>3, <3>1 DEF More, DecoderTypeOK
    <3>2. CASE status' # "IntegerOverflow"
      <4>1. result' = result + Shifted(NextByte)
        BY <1>3, <3>2 DEF More
      <4> QED BY <4>1, <2>1, <2>2, <2>3, <3>2, ShiftKeepsAllBits
    <3> QED BY <3>1, <3>2
  <2>5. index' = (IF status' = "more" THEN index + 1 ELSE index)
    BY <1>3 DEF More
  <2>6. UNCHANGED <<bytes, start, decoded>> /\ position' = position + 1
    BY <1>3 DEF More
  <2>7. DecoderTypeOK'
    <3>1. index' \in 0 .. MaxBytes - 1
      BY <2>2, <2>3, <2>5, VarIntAssumption
    <3>2. position' \in 0 .. Len(bytes)
      BY <2>1, <2>6 DEF DecoderTypeOK
    <3> QED BY <2>3, <2>4, <2>6, <3>1, <3>2 DEF DecoderTypeOK, Errors
  <2>8. index = position - start
    BY <2>2 DEF ReadIsBounded
  <2>9. /\ position' - start' = index + 1
        /\ position' - start' <= MaxBytes
    BY <2>2, <2>6, <2>8, VarIntAssumption, WeightAssumption DEF DecoderTypeOK
  <2>10. status' = "more" => /\ index' = position' - start'
                             /\ index' = index + 1
                             /\ index' \in 1 .. MaxBytes - 1
    BY <2>2, <2>3, <2>5, <2>9, VarIntAssumption, WeightAssumption
  <2>11. ReadIsBounded'
    BY <2>4, <2>9, <2>10 DEF ReadIsBounded
  <2> QED BY <2>3, <2>7, <2>10, <2>11
<1>4. CASE NextCall
  BY <1>4, LimitIsNat, VarIntAssumption, WeightAssumption DEF NextCall, DecoderTypeOK, ReadIsBounded
<1>5. CASE UNCHANGED decoderVars
  BY <1>5 DEF decoderVars, DecoderTypeOK, ReadIsBounded
<1> QED BY <1>1, <1>2, <1>3, <1>4, <1>5 DEF DecoderNext, DecoderStep

-----------------------------------------------------------------------------
(* What the current call has taken, and what it may take.                  *)
Taken == SubSeq(bytes, start + 1, position)
Rest == SubSeq(bytes, start + 1, Len(bytes))

(* The call in progress, as a relation between what it has taken, the      *)
(* integers that are written so, and what they add up to.                  *)
CallInv ==
  /\ status = "first" => position = start /\ index = 0
  /\ status = "more" =>
       /\ Writes(Taken, result, Weight[index])
       /\ OnlyFrom(Rest, result, Weight[index])
       /\ SumsTo(bytes, start, index, result)
       /\ \A j \in 1 .. index : Continues(bytes[start + j])

EndInv == RefusesOnlyInvalid /\ LenIsExact /\ OneOperation

(* The two halves of Canonical.                                            *)
LastCanonical == status = "ok" => Taken = EncodeVarint[result]
PastCanonical ==
  SubSeq(bytes, 1, start) =
    FlattenSeq([i \in 1 .. Len(decoded) |-> EncodeVarint[decoded[i]]])

(* The calls that have returned, and the last.                             *)
LEMMA CanonicalParts == Canonical <=> LastCanonical /\ PastCanonical
BY DEF Canonical, LastCanonical, PastCanonical, Taken

(* A part of a sequence.                                                   *)
LEMMA SubSeqFacts ==
  ASSUME NEW S, NEW s \in Seq(S), NEW m \in 1 .. Len(s) + 1, NEW n \in m - 1 .. Len(s)
  PROVE  /\ SubSeq(s, m, n) \in Seq(S)
         /\ Len(SubSeq(s, m, n)) = n - m + 1
         /\ \A i \in 1 .. n - m + 1 : SubSeq(s, m, n)[i] = s[m + i - 1]
BY SubSeqProperties

(* A part that is one longer has one more at its end.                      *)
LEMMA SubSeqGrows ==
  ASSUME NEW S, NEW s \in Seq(S), NEW m \in 1 .. Len(s) + 1, NEW n \in m - 1 .. Len(s) - 1
  PROVE  SubSeq(s, m, n + 1) = Append(SubSeq(s, m, n), s[n + 1])
<1> DEFINE t == SubSeq(s, m, n)
           u == SubSeq(s, m, n + 1)
           l == n - m + 1
           v == Append(t, s[n + 1])
<1>0. Len(s) \in Nat /\ m \in Nat /\ n \in Nat /\ l \in Nat /\ n + 1 - m + 1 = l + 1 /\ m + (l + 1) - 1 = n + 1
  OBVIOUS
<1>1. t \in Seq(S) /\ Len(t) = l /\ \A i \in 1 .. l : t[i] = s[m + i - 1]
  <2>1. n \in m - 1 .. Len(s)
    BY <1>0
  <2> QED BY <2>1, SubSeqFacts
<1>2. u \in Seq(S) /\ Len(u) = l + 1 /\ \A i \in 1 .. l + 1 : u[i] = s[m + i - 1]
  <2>1. n + 1 \in m - 1 .. Len(s)
    BY <1>0
  <2> DEFINE k == n + 1
  <2>2. k \in m - 1 .. Len(s) /\ k - m + 1 = l + 1
    BY <1>0, <2>1
  <2> HIDE DEF k, l
  <2>3. /\ SubSeq(s, m, k) \in Seq(S) /\ Len(SubSeq(s, m, k)) = k - m + 1
        /\ \A i \in 1 .. k - m + 1 : SubSeq(s, m, k)[i] = s[m + i - 1]
    BY <2>2, SubSeqFacts
  <2> QED BY <2>2, <2>3 DEF k
<1>3. s[n + 1] \in S
  BY <1>0
<1> HIDE DEF t, u, l
<1>4. v \in Seq(S) /\ Len(v) = l + 1 /\ (\A i \in 1 .. l : v[i] = t[i]) /\ v[l + 1] = s[n + 1]
  <2> DEFINE x == s[n + 1]
  <2>1. x \in S
    BY <1>3
  <2> HIDE DEF x
  <2> QED BY <1>0, <1>1, <2>1, AppendProperties DEF x
<1> HIDE DEF v
<1>5. \A i \in 1 .. l + 1 : u[i] = v[i]
  <2> SUFFICES ASSUME NEW i \in 1 .. l + 1 PROVE u[i] = v[i]
    OBVIOUS
  <2>1. CASE i = l + 1
    <3>1. u[l + 1] = s[m + (l + 1) - 1]
      BY <1>0, <1>2
    <3> QED BY <1>0, <1>4, <2>1, <3>1
  <2>2. CASE i # l + 1
    <3>1. i \in 1 .. l
      BY <1>0, <2>2
    <3> QED BY <1>1, <1>2, <1>4, <3>1
  <2> QED BY <2>1, <2>2
<1> QED BY <1>2, <1>4, <1>5, SeqEqual DEF u, v, t

(* As one predicate, which a proof can cite for the set it is about.       *)
AppendAssoc(S) ==
  \A x \in Seq(S), y \in Seq(S), z \in S : x \o Append(y, z) = Append(x \o y, z)

(* What is appended to the second of two sequences is appended to both.    *)
LEMMA AppendIsAssoc ==
  ASSUME NEW S
  PROVE  AppendAssoc(S)
<1> SUFFICES ASSUME NEW x \in Seq(S), NEW y \in Seq(S), NEW z \in S
             PROVE  x \o Append(y, z) = Append(x \o y, z)
  BY DEF AppendAssoc
<1> QED BY ConcatAppend

(* The beginning of a sequence is a shorter beginning and what follows it. *)
LEMMA SubSeqSplits ==
  ASSUME NEW S, NEW s \in Seq(S), NEW m \in 0 .. Len(s), NEW n \in m .. Len(s)
  PROVE  SubSeq(s, 1, n) = SubSeq(s, 1, m) \o SubSeq(s, m + 1, n)
<1> DEFINE T == {d \in Nat : m + d <= Len(s) =>
                   SubSeq(s, 1, m + d) = SubSeq(s, 1, m) \o SubSeq(s, m + 1, m + d)}
<1>0. Len(s) \in Nat /\ m \in Nat /\ n \in Nat
  OBVIOUS
<1>1. 0 \in T
  <2>1. SubSeq(s, 1, m) \in Seq(S)
    OBVIOUS
  <2>2. SubSeq(s, m + 1, m) = << >>
    OBVIOUS
  <2>3. SubSeq(s, 1, m) \o << >> = SubSeq(s, 1, m)
    BY <2>1, ConcatEmptySeq
  <2> QED BY <1>0, <2>2, <2>3
<1>2. \A d \in T : d + 1 \in T
  <2> SUFFICES ASSUME NEW d \in T, m + (d + 1) <= Len(s)
               PROVE  SubSeq(s, 1, m + (d + 1)) = SubSeq(s, 1, m) \o SubSeq(s, m + 1, m + (d + 1))
    OBVIOUS
  <2> DEFINE k == m + d
  <2>1. /\ k \in m .. Len(s) - 1 /\ k \in Nat /\ m + (d + 1) = k + 1
        /\ SubSeq(s, 1, k) = SubSeq(s, 1, m) \o SubSeq(s, m + 1, k)
    BY <1>0
  <2> HIDE DEF k, T
  <2> DEFINE a == SubSeq(s, 1, m)
             b == SubSeq(s, m + 1, k)
             e == s[k + 1]
  <2>2. a \in Seq(S) /\ b \in Seq(S) /\ e \in S
    <3>1. k + 1 \in 1 .. Len(s)
      BY <1>0, <2>1
    <3>2. m + 1 \in 1 .. Len(s) + 1 /\ k \in m + 1 - 1 .. Len(s)
      BY <1>0, <2>1
    <3>3. b \in Seq(S)
      <4> DEFINE p == m + 1
      <4> HIDE DEF p
      <4>1. p \in 1 .. Len(s) + 1 /\ k \in p - 1 .. Len(s)
        BY <3>2 DEF p
      <4>2. SubSeq(s, p, k) \in Seq(S)
        BY <4>1, SubSeqFacts
      <4> QED BY <4>2 DEF p
    <3> QED BY <3>1, <3>3
  <2>3. SubSeq(s, 1, k + 1) = Append(SubSeq(s, 1, k), e)
    <3>1. 1 \in 1 .. Len(s) + 1 /\ k \in 1 - 1 .. Len(s) - 1
      BY <1>0, <2>1
    <3> QED BY <3>1, SubSeqGrows
  <2>4. SubSeq(s, m + 1, k + 1) = Append(b, e)
    <3> DEFINE p == m + 1
    <3>1. p \in 1 .. Len(s) + 1 /\ k \in p - 1 .. Len(s) - 1
      BY <1>0, <2>1
    <3> HIDE DEF p
    <3>2. SubSeq(s, p, k + 1) = Append(SubSeq(s, p, k), s[k + 1])
      BY <3>1, SubSeqGrows
    <3> QED BY <3>2 DEF p
  <2>5. SubSeq(s, 1, k) = a \o b
    BY <2>1
  <2> HIDE DEF a, b, e
  <2>6. AppendAssoc(S)
    BY AppendIsAssoc
  <2>7. a \o Append(b, e) = Append(a \o b, e)
    BY <2>2, <2>6, Zenon DEF AppendAssoc
  <2> QED BY <2>1, <2>3, <2>4, <2>5, <2>7 DEF a
<1>3. T \in SUBSET Nat
  OBVIOUS
<1>4. n - m \in T
  <2>1. n - m \in Nat
    BY <1>0
  <2> HIDE DEF T
  <2>2. T = Nat
    BY <1>1, <1>2, <1>3, NatInductionOnSets
  <2> QED BY <2>1, <2>2
<1>5. m + (n - m) = n /\ n <= Len(s)
  BY <1>0
<1> QED BY <1>4, <1>5

(* The bytes the call has taken, and those it could take.                  *)
LEMMA TakenFacts ==
  ASSUME DecoderTypeOK
  PROVE  /\ Taken \in Seq(Byte) /\ Len(Taken) = position - start
         /\ Rest \in Seq(Byte) /\ Len(Rest) = Len(bytes) - start
         /\ \A k \in 1 .. Len(bytes) - start : Rest[k] = bytes[start + k]
         /\ position \in Nat /\ start \in Nat /\ Len(bytes) \in Nat /\ start <= position
         /\ position <= Len(bytes)
<1>1. /\ bytes \in Seq(Byte) /\ Len(bytes) \in Nat
      /\ position \in 0 .. Len(bytes) /\ start \in 0 .. position
  BY DEF DecoderTypeOK
<1> DEFINE m == start + 1
<1>2. /\ m \in 1 .. Len(bytes) + 1 /\ position \in m - 1 .. Len(bytes)
      /\ Len(bytes) \in m - 1 .. Len(bytes)
      /\ position - m + 1 = position - start /\ Len(bytes) - m + 1 = Len(bytes) - start
      /\ \A k \in 1 .. Len(bytes) - start : m + k - 1 = start + k
  BY <1>1
<1> HIDE DEF m
<1>3. SubSeq(bytes, m, position) \in Seq(Byte) /\ Len(SubSeq(bytes, m, position)) = position - start
  BY <1>1, <1>2, SubSeqFacts
<1>4. /\ SubSeq(bytes, m, Len(bytes)) \in Seq(Byte)
      /\ Len(SubSeq(bytes, m, Len(bytes))) = Len(bytes) - start
      /\ \A k \in 1 .. Len(bytes) - start : SubSeq(bytes, m, Len(bytes))[k] = bytes[start + k]
  BY <1>1, <1>2, SubSeqFacts
<1> QED BY <1>1, <1>3, <1>4 DEF Taken, Rest, m

(* The next byte, as the last that will have been taken.                   *)
LEMMA TakenGrows ==
  ASSUME DecoderTypeOK, ~AtEnd
  PROVE  /\ NextByte \in Byte
         /\ position + 1 <= Len(bytes)
         /\ SubSeq(bytes, start + 1, position + 1) = Append(Taken, NextByte)
         /\ Rest[position - start + 1] = NextByte
         /\ bytes[start + (position - start + 1)] = NextByte
<1>1. /\ bytes \in Seq(Byte) /\ Len(bytes) \in Nat
      /\ position \in 0 .. Len(bytes) /\ start \in 0 .. position /\ position # Len(bytes)
  BY DEF DecoderTypeOK, AtEnd
<1>2. NextByte \in Byte /\ position + 1 <= Len(bytes)
  BY <1>1 DEF NextByte
<1>3. SubSeq(bytes, start + 1, position + 1) = Append(Taken, NextByte)
  <2> DEFINE m == start + 1
  <2>1. m \in 1 .. Len(bytes) + 1 /\ position \in m - 1 .. Len(bytes) - 1
    BY <1>1
  <2> HIDE DEF m
  <2>2. SubSeq(bytes, m, position + 1) = Append(SubSeq(bytes, m, position), bytes[position + 1])
    BY <1>1, <2>1, SubSeqGrows
  <2> QED BY <2>2 DEF m, Taken, NextByte
<1> DEFINE k == position - start + 1
<1>4. k \in 1 .. Len(bytes) - start /\ start + k = position + 1
  BY <1>1
<1> HIDE DEF k
<1>5. Rest[k] = bytes[start + k]
  BY <1>4, TakenFacts
<1> QED BY <1>2, <1>3, <1>4, <1>5 DEF k, NextByte

-----------------------------------------------------------------------------
(* The inductive invariant.                                                *)
DecoderInv == BoundInv /\ CallInv /\ LastCanonical /\ PastCanonical /\ EndInv

(* Nothing is a prefix of everything, and a sequence of what follows it.   *)
LEMMA ExtensionIsStrict ==
  ASSUME NEW S, NEW s \in Seq(S), NEW e \in S
  PROVE  IsStrictPrefix(s, s \o <<e>>)
<1> DEFINE t == Append(s, e)
           n == Len(s)
<1>1. t \in Seq(S) /\ Len(t) = n + 1 /\ n \in Nat /\ (\A i \in 1 .. n : t[i] = s[i]) /\ s \o <<e>> = t
  OBVIOUS
<1> HIDE DEF t, n
<1>2. 1 \in 1 .. Len(t) + 1 /\ n \in 1 - 1 .. Len(t) /\ 1 \in 1 .. Len(s) + 1 /\ n \in 1 - 1 .. Len(s)
  BY <1>1 DEF n
<1>3. SubSeq(s, 1, n) = s
  BY DEF n
<1>4. SubSeq(t, 1, n) \in Seq(S) /\ Len(SubSeq(t, 1, n)) = n /\ \A i \in 1 .. n : SubSeq(t, 1, n)[i] = t[i]
  <2>1. n - 1 + 1 = n /\ \A i \in 1 .. n : 1 + i - 1 = i
    BY <1>1
  <2> QED BY <1>1, <1>2, <2>1, SubSeqFacts
<1>5. SubSeq(t, 1, n) = s
  <2> DEFINE u == SubSeq(t, 1, n)
  <2> HIDE DEF u
  <2>1. u \in Seq(S) /\ Len(u) = Len(s) /\ \A i \in 1 .. Len(s) : u[i] = s[i]
    BY <1>1, <1>4 DEF u, n
  <2>2. u = s
    BY <2>1, SeqEqual
  <2> QED BY <2>2 DEF u
<1>6. s # t
  <2>1. Len(s) # Len(t)
    BY <1>1 DEF n
  <2> QED BY <2>1
<1>7. n <= Len(t)
  BY <1>1
<1> QED BY <1>1, <1>3, <1>5, <1>6, <1>7 DEF IsStrictPrefix, IsPrefix, n

(* The bounds on the constants that the cases of the loop compare with.    *)
LEMMA Widths ==
  /\ MaxBytes \in Nat /\ MaxBytes > 1
  /\ TopGroup \in Nat /\ TopGroup > 1 /\ TopGroup <= Base
  /\ Weight[0] = 1 /\ Weight[1] = Base
  /\ Limit \in Nat \ {0}
  /\ \A i \in 0 .. MaxBytes - 1 : Weight[i] \in Nat \ {0} /\ Weight[i] <= Weight[MaxBytes - 1]
<1>1. MaxBytes \in Nat /\ MaxBytes > 1 /\ TopGroup \in Nat /\ TopGroup > 1 /\ TopGroup <= Base
  BY VarIntAssumption
<1>2. Weight[0] = 1
  BY WeightAssumption
<1>3. Weight[1] = Base
  BY FirstWeight
<1>4. Limit \in Nat \ {0}
  BY LimitIsNat, VarIntAssumption, WeightAssumption
<1>5. \A i \in 0 .. MaxBytes - 1 : Weight[i] \in Nat \ {0} /\ Weight[i] <= Weight[MaxBytes - 1]
  BY WeightAssumption
<1> QED BY <1>1, <1>2, <1>3, <1>4, <1>5

(* Above the places read there is room for one more.                       *)
LEMMA RoomAbove ==
  ASSUME NEW i \in 0 .. MaxBytes - 1, NEW r \in Nat, r < Weight[i]
  PROVE  r + 1 * Weight[i] \in 0 .. Limit - 1
<1> DEFINE w == Weight[i]
           top == Weight[MaxBytes - 1]
           t == TopGroup
           limit == t * top
<1>1. w \in Nat \ {0} /\ top \in Nat \ {0} /\ w <= top /\ t \in Nat /\ t > 1 /\ Limit = limit
  <2>1. MaxBytes - 1 \in 0 .. MaxBytes - 1
    BY Widths
  <2> QED BY <2>1, Widths DEF Limit
<1> HIDE DEF w, top, t
<1>2. limit \in Nat /\ limit >= 2 * top
  <2>1. PICK d \in Nat : t = 2 + d
    <3>1. t - 2 \in Nat /\ t = 2 + (t - 2)
      BY <1>1
    <3> QED BY <3>1
  <2>2. t * top = 2 * top + d * top /\ d * top \in Nat
    BY <1>1, <2>1
  <2>3. t * top \in Nat /\ 2 * top \in Nat
    BY <1>1
  <2> QED BY <2>2, <2>3
<1> HIDE DEF limit
<1>3. r + w < limit /\ r + w \in Nat
  <2>1. r < w
    BY DEF w
  <2> QED BY <1>1, <1>2, <2>1
<1>4. 1 * w = w /\ Limit \in Nat
  BY <1>1, <1>2
<1>5. r + 1 * w \in 0 .. Limit - 1
  BY <1>1, <1>3, <1>4
<1> QED BY <1>5 DEF w

(* No call has begun.                                                      *)
LEMMA DecoderInitHolds == DecoderInit => DecoderInv
<1> SUFFICES ASSUME DecoderInit PROVE DecoderInv
  OBVIOUS
<1>1. BoundInv
  BY BoundInit
<1>2. CallInv /\ LastCanonical /\ EndInv
  BY DEF DecoderInit, CallInv, LastCanonical, EndInv, RefusesOnlyInvalid, LenIsExact, OneOperation, Errors
<1>3. PastCanonical
  <2>1. SubSeq(bytes, 1, start) = << >>
    <3>1. DecoderTypeOK /\ start = 0
      BY <1>1 DEF DecoderInit, BoundInv
    <3>2. bytes \in Seq(Byte)
      BY <3>1 DEF DecoderTypeOK
    <3> QED BY <3>1, <3>2
  <2>2. [i \in 1 .. Len(decoded) |-> EncodeVarint[decoded[i]]] = << >>
    <3>1. Len(decoded) = 0
      BY DEF DecoderInit
    <3> QED BY <3>1
  <2>3. FlattenSeq([i \in 1 .. Len(decoded) |-> EncodeVarint[decoded[i]]]) = << >>
    BY <2>2, FlattenEmpty
  <2> QED BY <2>1, <2>3 DEF PastCanonical
<1> QED BY <1>1, <1>2, <1>3 DEF DecoderInv

(* At the end of the packet the call fails, and the packet may go on.      *)
LEMMA EofStep ==
  ASSUME DecoderInv, Eof
  PROVE  CallInv' /\ LastCanonical' /\ PastCanonical' /\ EndInv'
<1>1. /\ DecoderTypeOK /\ ReadIsBounded /\ status \in {"first", "more"} /\ position = Len(bytes)
      /\ status = "first" => position = start
      /\ status = "more" => index \in 1 .. MaxBytes - 1
      /\ status' = "UnexpectedEof"
      /\ bytes' = bytes /\ position' = position /\ start' = start /\ result' = result
      /\ decoded' = decoded /\ index' = index
  BY DEF DecoderInv, BoundInv, Eof, AtEnd
<1>2. CallInv' /\ LastCanonical' /\ LenIsExact'
  BY <1>1 DEF CallInv, LastCanonical, LenIsExact
<1>3. PastCanonical'
  BY <1>1 DEF PastCanonical, DecoderInv
<1>4. /\ Taken \in Seq(Byte) /\ Rest = Taken /\ position \in Nat /\ start \in Nat
      /\ Len(bytes) \in Nat /\ Len(Taken) = position - start /\ start <= position
  BY <1>1, TakenFacts DEF Taken, Rest
<1>5. \E v \in 0 .. Limit - 1 : IsStrictPrefix(Rest, EncodeVarint[v])
  <2>1. CASE status = "first"
    <3>1. 0 \in 0 .. Base - 1 /\ 0 \in 0 .. Limit - 1 /\ 0 \in Byte
      BY BaseFacts, Widths DEF Byte
    <3>2. EncodeVarint[0] = <<0>>
      BY <3>1, EncodeLast
    <3>3. Taken = << >>
      BY <1>1, <1>4, <2>1
    <3>4. << >> \o <<0>> = <<0>> /\ << >> \in Seq(Byte)
      OBVIOUS
    <3>5. IsStrictPrefix(<< >>, << >> \o <<0>>)
      BY <3>1, <3>4, ExtensionIsStrict
    <3>6. IsStrictPrefix(Rest, EncodeVarint[0])
      BY <1>4, <3>2, <3>3, <3>4, <3>5
    <3> QED BY <3>1, <3>6
  <2>2. CASE status = "more"
    <3>1. 1 \in 0 .. Base - 1 /\ 1 \in Byte /\ 1 \in Nat \ {0}
      BY BaseFacts DEF Byte
    <3> DEFINE v == result + 1 * Weight[index]
    <3>2. v \in 0 .. Limit - 1
      <4>1. index \in 0 .. MaxBytes - 1 /\ result \in Nat /\ result < Weight[index]
        BY <1>1, <2>2, Widths DEF DecoderTypeOK, ReadIsBounded
      <4> QED BY <4>1, RoomAbove
    <3>3. EncodeVarint[v] = Taken \o EncodeVarint[1]
      <4>1. Writes(Taken, result, Weight[index])
        BY <2>2 DEF DecoderInv, CallInv
      <4> QED BY <3>1, <4>1, Zenon DEF Writes
    <3>4. EncodeVarint[1] = <<1>>
      BY <3>1, EncodeLast
    <3> HIDE DEF v
    <3>5. IsStrictPrefix(Taken, Taken \o <<1>>)
      BY <1>4, <3>1, ExtensionIsStrict
    <3>6. IsStrictPrefix(Rest, EncodeVarint[v])
      BY <1>4, <3>3, <3>4, <3>5
    <3> QED BY <3>2, <3>6
  <2> QED BY <1>1, <2>1, <2>2
<1>6. RefusesOnlyInvalid'
  <2>1. RefusesOnlyInvalid' <=>
          \E v \in 0 .. Limit - 1 : IsStrictPrefix(Rest, EncodeVarint[v])
    BY <1>1, Zenon DEF RefusesOnlyInvalid, Rest
  <2> QED BY <1>5, <2>1
<1>7. ReadVarint(bytes, start) = Err("UnexpectedEof", position)
  <2> DEFINE n == position - start + 1
  <2>1. /\ n \in 1 .. MaxBytes /\ start + n > Len(bytes)
        /\ \A j \in 1 .. n - 1 : start + j <= Len(bytes) /\ Continues(bytes[start + j])
    <3>1. CASE status = "first"
      <4>1. n = 1
        BY <1>1, <1>4, <3>1
      <4> QED BY <1>1, <1>4, <3>1, <4>1, Widths
    <3>2. CASE status = "more"
      <4>1. n = index + 1 /\ index \in 1 .. MaxBytes - 1 /\ \A j \in 1 .. index : Continues(bytes[start + j])
        BY <1>1, <1>4, <3>2 DEF DecoderInv, CallInv, ReadIsBounded
      <4>2. n \in 1 .. MaxBytes /\ n - 1 = index
        BY <4>1, Widths
      <4> QED BY <1>1, <1>4, <4>1, <4>2
    <3> QED BY <1>1, <3>1, <3>2
  <2> HIDE DEF n
  <2> QED BY <1>1, <1>4, <2>1, ReadIs
<1>8. OneOperation'
  BY <1>1, <1>7 DEF OneOperation
<1> QED BY <1>2, <1>3, <1>6, <1>8 DEF EndInv


(* A first byte that says that another follows leaves the integers that    *)
(* have its group lowest; any other is the integer.                        *)
LEMMA FirstStep ==
  ASSUME DecoderInv, First
  PROVE  CallInv' /\ LastCanonical' /\ PastCanonical' /\ EndInv'
<1> DEFINE b == NextByte
           g == Group(b)
<1>1. /\ DecoderTypeOK /\ status = "first" /\ ~AtEnd /\ position = start
      /\ position' = position + 1 /\ result' = g /\ index' = 1
      /\ status' = (IF Continues(b) THEN "more" ELSE "ok")
      /\ bytes' = bytes /\ start' = start /\ decoded' = decoded
  BY DEF DecoderInv, BoundInv, First
<1>2. /\ b \in Byte /\ position + 1 <= Len(bytes)
      /\ SubSeq(bytes, start + 1, position + 1) = Append(Taken, b)
      /\ Rest[position - start + 1] = b /\ bytes[start + (position - start + 1)] = b
  BY <1>1, TakenGrows
<1>3. /\ Taken \in Seq(Byte) /\ Len(Taken) = position - start /\ Rest \in Seq(Byte)
      /\ Len(Rest) = Len(bytes) - start
      /\ position \in Nat /\ start \in Nat /\ Len(bytes) \in Nat
  BY <1>1, TakenFacts
<1>4. position - start + 1 = 1 /\ start + 1 = position + 1 /\ start + 0 + 1 = start + 1
  BY <1>1, <1>3
<1>5. Taken' = <<b>> /\ Rest' = Rest
  <2>1. Taken = << >>
    BY <1>1, <1>3
  <2>2. Append(<< >>, b) = <<b>>
    OBVIOUS
  <2> QED BY <1>1, <1>2, <2>1, <2>2 DEF Taken, Rest
<1>6. Rest # << >> /\ Rest[1] = b /\ bytes[start + 1] = b
  <2>1. Len(Rest) # 0
    BY <1>1, <1>2, <1>3
  <2> QED BY <1>2, <1>4, <2>1
<1>7. g \in 0 .. Base - 1 /\ g \in Nat /\ b \in Nat
  BY <1>2, BaseFacts, ByteParts DEF Byte
<1>8. PastCanonical'
  BY <1>1 DEF PastCanonical, DecoderInv
<1>9. SumsTo(bytes, start, 1, g)
  <2>1. SumsTo(bytes, start, 0, 0)
    BY <1>3, SumsNothing
  <2>2. Group(bytes[start + 0 + 1]) * Weight[0] = g
    <3>1. g * 1 = g
      BY <1>7
    <3> QED BY <1>4, <1>6, <3>1, Widths
  <2>3. SumsTo(bytes, start, 0 + 1, 0 + Group(bytes[start + 0 + 1]) * Weight[0])
    BY <1>3, <1>7, <2>1, <2>2, SumsMore
  <2>4. 0 + 1 = 1 /\ 0 + g = g
    BY <1>7
  <2> QED BY <2>2, <2>3, <2>4
<1> HIDE DEF b, g
<1>10. CASE Continues(b)
  <2>1. status' = "more"
    BY <1>1, <1>10
  <2>2. b = Base + g
    <3>1. b >= Base /\ b < 2 * Base
      BY <1>2, <1>7, <1>10, BaseFacts DEF Continues, Byte
    <3> DEFINE m == b - Base
    <3>2. m \in 0 .. Base - 1 /\ b = m + 1 * Base
      BY <1>7, <3>1, BaseFacts
    <3> HIDE DEF m
    <3>3. b % Base = m
      BY <3>2, BaseFacts, DivisionOf
    <3>4. g = m
      BY <3>3 DEF g, Group
    <3> QED BY <3>2, <3>4, BaseFacts
  <2>3. Writes(<<b>>, g, Base)
    BY <1>7, <2>2, WritesFirst
  <2>4. OnlyFrom(Rest, g, Base)
    BY <1>3, <1>6, <1>7, <2>2, OnlyFirst
  <2>5. \A j \in 1 .. 1 : Continues(bytes[start + j])
    BY <1>6, <1>10
  <2>6. CallInv'
    BY <1>1, <1>5, <1>9, <2>1, <2>3, <2>4, <2>5, Widths DEF CallInv
  <2>7. LastCanonical' /\ EndInv'
    BY <2>1 DEF LastCanonical, EndInv, RefusesOnlyInvalid, LenIsExact, OneOperation, Errors
  <2> QED BY <1>8, <2>6, <2>7
<1>11. CASE ~Continues(b)
  <2>1. status' = "ok"
    BY <1>1, <1>11
  <2>2. b = g
    <3>1. b \in 0 .. Base - 1
      BY <1>7, <1>11, BaseFacts DEF Continues
    <3>2. b = b + 0 * Base /\ 0 \in Nat
      BY <1>7, BaseFacts
    <3>3. (b + 0 * Base) % Base = b
      BY <3>1, <3>2, BaseFacts, DivisionOf
    <3> QED BY <3>2, <3>3 DEF g, Group
  <2>3. LastCanonical'
    <3>1. EncodeVarint[g] = <<g>>
      BY <1>7, EncodeLast
    <3> QED BY <1>1, <1>5, <2>2, <3>1 DEF LastCanonical
  <2>4. CallInv'
    BY <2>1 DEF CallInv
  <2>5. VarintLen(g) = 1
    <3>1. GroupBits * 1 = GroupBits /\ g < Base /\ 1 \in 1 .. MaxBytes
      BY <1>7, BaseFacts, Widths, VarIntAssumption
    <3>2. g < Pow2[GroupBits * 1]
      BY <3>1, VarIntAssumption
    <3> QED BY <1>7, <3>1, <3>2, LenOf
  <2>6. LenIsExact'
    <3>1. position' - start' = 1
      BY <1>1, <1>3
    <3> QED BY <1>1, <2>5, <3>1 DEF LenIsExact
  <2>7. RefusesOnlyInvalid'
    BY <2>1 DEF RefusesOnlyInvalid
  <2>8. ReadVarint(bytes, start) = Ok(position + 1, g)
    <3> DEFINE n == 1
    <3>1. n \in 1 .. MaxBytes /\ n # MaxBytes /\ n <= 1 /\ 1 .. n - 1 = {}
      BY Widths
    <3>2. ~(start + n > Len(bytes)) /\ bytes[start + n] = b /\ start + n = position + 1
      BY <1>1, <1>2, <1>3, <1>6
    <3>3. GroupSum(bytes, start, n) = g
      BY <1>3, <1>7, <1>9, SumIsGroupSum
    <3>4. ~(n > 1)
      BY <3>1
    <3> HIDE DEF n
    <3>5. ReadVarint(bytes, start) =
           IF start + n > Len(bytes) THEN Err("UnexpectedEof", Len(bytes))
           ELSE IF n = MaxBytes /\ Group(bytes[start + n]) >= TopGroup
             THEN Err("IntegerOverflow", start + n)
           ELSE IF Continues(bytes[start + n]) \/ (n > 1 /\ bytes[start + n] = 0)
             THEN Err("InvalidVarInt", start + n)
           ELSE Ok(start + n, GroupSum(bytes, start, n))
      BY <1>3, <1>11, <3>1, <3>2, ReadIs
    <3> QED BY <1>11, <3>1, <3>2, <3>3, <3>4, <3>5
  <2>9. OneOperation'
    BY <1>1, <2>1, <2>8 DEF OneOperation, Errors
  <2> QED BY <1>8, <2>3, <2>4, <2>6, <2>7, <2>9 DEF EndInv
<1> QED BY <1>10, <1>11

(* The integer returned joins those before, and its bytes theirs.          *)
LEMMA NextCallStep ==
  ASSUME DecoderInv, NextCall
  PROVE  CallInv' /\ LastCanonical' /\ PastCanonical' /\ EndInv'
<1>1. /\ DecoderTypeOK /\ status = "ok" /\ decoded' = Append(decoded, result) /\ start' = position
      /\ index' = 0 /\ result' = 0 /\ status' = "first" /\ bytes' = bytes /\ position' = position
  BY DEF DecoderInv, BoundInv, NextCall
<1>2. CallInv' /\ LastCanonical' /\ EndInv'
  BY <1>1 DEF CallInv, LastCanonical, EndInv, RefusesOnlyInvalid, LenIsExact, OneOperation, Errors
<1> DEFINE E(d) == [i \in 1 .. Len(d) |-> EncodeVarint[d[i]]]
           d1 == Append(decoded, result)
<1>3. bytes \in Seq(Byte) /\ decoded \in Seq(Nat) /\ result \in Nat
  BY <1>1 DEF DecoderTypeOK
<1>4. SubSeq(bytes, 1, position) = SubSeq(bytes, 1, start) \o Taken
  <2>1. start \in 0 .. Len(bytes) /\ position \in start .. Len(bytes)
    BY <1>1, TakenFacts
  <2> QED BY <1>3, <2>1, SubSeqSplits DEF Taken
<1>5. Taken = EncodeVarint[result] /\ EncodeVarint[result] \in Seq(Byte)
  BY <1>1, <1>3, EncodeIsBytes DEF DecoderInv, LastCanonical
<1>6. SubSeq(bytes, 1, start) = FlattenSeq(E(decoded))
  BY DEF DecoderInv, PastCanonical
<1>7. E(d1) = Append(E(decoded), EncodeVarint[result]) /\ E(decoded) \in Seq(Seq(Byte))
  <2> DEFINE n == Len(decoded)
  <2>1. /\ d1 \in Seq(Nat) /\ Len(d1) = n + 1 /\ n \in Nat /\ d1[n + 1] = result
        /\ \A i \in 1 .. n : d1[i] = decoded[i] /\ decoded[i] \in Nat
    BY <1>3
  <2> HIDE DEF d1, n
  <2>2. E(decoded) \in Seq(Seq(Byte)) /\ Len(E(decoded)) = n
    <3>1. \A i \in 1 .. n : EncodeVarint[decoded[i]] \in Seq(Byte)
      BY <2>1, EncodeIsBytes
    <3> DEFINE X == Seq(Byte)
               F(i) == EncodeVarint[decoded[i]]
    <3> HIDE DEF X, F
    <3>2. \A i \in 1 .. n : F(i) \in X
      BY <3>1 DEF X, F
    <3>3. [i \in 1 .. n |-> F(i)] \in Seq(X) /\ Len([i \in 1 .. n |-> F(i)]) = n
      BY <2>1, <3>2
    <3> QED BY <3>3 DEF X, F, n
  <2> DEFINE u == Append(E(decoded), EncodeVarint[result])
             v == E(d1)
  <2>3. /\ u \in Seq(Seq(Byte)) /\ Len(u) = n + 1 /\ u[n + 1] = EncodeVarint[result]
        /\ \A i \in 1 .. n : u[i] = EncodeVarint[decoded[i]]
    <3>1. \A i \in 1 .. n : E(decoded)[i] = EncodeVarint[decoded[i]]
      BY DEF n
    <3> DEFINE X == Seq(Byte)
               e == E(decoded)
               x == EncodeVarint[result]
    <3>2. e \in Seq(X) /\ Len(e) = n /\ x \in X
      BY <1>5, <2>2
    <3> HIDE DEF X, e, x
    <3>3. Append(e, x) \in Seq(X) /\ Len(Append(e, x)) = n + 1 /\ Append(e, x)[n + 1] = x /\ \A i \in 1 .. n : Append(e, x)[i] = e[i]
      BY <2>1, <3>2
    <3> QED BY <3>1, <3>3 DEF X, e, x
  <2>4. DOMAIN v = 1 .. n + 1 /\ \A i \in 1 .. n + 1 : v[i] = EncodeVarint[d1[i]]
    BY <2>1
  <2>5. DOMAIN u = 1 .. n + 1 /\ \A i \in 1 .. n + 1 : u[i] = v[i]
    <3> HIDE DEF u, v
    <3>1. DOMAIN u = 1 .. n + 1
      BY <2>1, <2>3
    <3>2. ASSUME NEW i \in 1 .. n + 1 PROVE u[i] = v[i]
      <4>1. i = n + 1 \/ i \in 1 .. n
        BY <2>1
      <4> QED BY <2>1, <2>3, <2>4, <4>1
    <3> QED BY <3>1, <3>2
  <2>6. v = u
    <3>1. v = [i \in DOMAIN v |-> v[i]]
      BY <2>4
    <3>2. u = [i \in DOMAIN u |-> u[i]]
      <4> HIDE DEF u
      <4> QED BY <2>3
    <3> HIDE DEF u, v
    <3> QED BY <2>4, <2>5, <3>1, <3>2
  <2> QED BY <2>2, <2>6
<1>8. PastCanonical' <=> SubSeq(bytes, 1, position) = FlattenSeq(E(d1))
  BY <1>1 DEF PastCanonical
<1>9. FlattenSeq(E(d1)) = FlattenSeq(E(decoded)) \o EncodeVarint[result]
  <2> DEFINE e == E(decoded)
             x == EncodeVarint[result]
             f == E(d1)
  <2>1. e \in Seq(Seq(Byte)) /\ x \in Seq(Byte) /\ f = Append(e, x)
    BY <1>5, <1>7
  <2> HIDE DEF e, x, f
  <2>2. FlattenSeq(f) = FlattenSeq(e) \o x
    BY <2>1, FlattenAppend
  <2> QED BY <2>2 DEF e, x, f
<1> HIDE DEF E, d1
<1>10. PastCanonical'
  BY <1>4, <1>5, <1>6, <1>8, <1>9
<1> QED BY <1>2, <1>10

(* The outcome of ReadVarint when the byte after those read is the last.   *)
LEMMA ReadAfter ==
  ASSUME DecoderInv, status = "more", ~AtEnd,
         index = MaxBytes - 1 \/ ~Continues(NextByte)
  PROVE  ReadVarint(bytes, start) =
           IF index = MaxBytes - 1 /\ Group(NextByte) >= TopGroup
             THEN Err("IntegerOverflow", position + 1)
           ELSE IF Continues(NextByte) \/ NextByte = 0 THEN Err("InvalidVarInt", position + 1)
           ELSE Ok(position + 1, GroupSum(bytes, start, index + 1))
<1> DEFINE n == index + 1
<1>1. /\ DecoderTypeOK /\ index \in 1 .. MaxBytes - 1 /\ index = position - start
      /\ \A j \in 1 .. index : Continues(bytes[start + j])
  BY DEF DecoderInv, BoundInv, ReadIsBounded, CallInv
<1>2. /\ position \in Nat /\ start \in Nat /\ Len(bytes) \in Nat /\ position + 1 <= Len(bytes)
      /\ bytes[start + (position - start + 1)] = NextByte
  BY <1>1, TakenFacts, TakenGrows
<1>3. /\ n \in 1 .. MaxBytes /\ n - 1 = index /\ n > 1 /\ start + n = position + 1
      /\ (n = MaxBytes <=> index = MaxBytes - 1) /\ ~(start + n > Len(bytes))
      /\ n = position - start + 1
  BY <1>1, <1>2, Widths
<1> HIDE DEF n
<1>4. bytes[start + n] = NextByte
  BY <1>2, <1>3
<1>5. \A j \in 1 .. n - 1 : start + j <= Len(bytes) /\ Continues(bytes[start + j])
  <2> SUFFICES ASSUME NEW j \in 1 .. n - 1
               PROVE  start + j <= Len(bytes) /\ Continues(bytes[start + j])
    OBVIOUS
  <2>1. j \in 1 .. index
    BY <1>3
  <2>2. start + j <= Len(bytes)
    BY <1>1, <1>2, <2>1
  <2> QED BY <1>1, <2>1, <2>2
<1>6. n = MaxBytes \/ start + n > Len(bytes) \/ ~Continues(bytes[start + n])
  BY <1>3, <1>4
<1>7. ReadVarint(bytes, start) =
        IF start + n > Len(bytes) THEN Err("UnexpectedEof", Len(bytes))
        ELSE IF n = MaxBytes /\ Group(bytes[start + n]) >= TopGroup
          THEN Err("IntegerOverflow", start + n)
        ELSE IF Continues(bytes[start + n]) \/ (n > 1 /\ bytes[start + n] = 0)
          THEN Err("InvalidVarInt", start + n)
        ELSE Ok(start + n, GroupSum(bytes, start, n))
  BY <1>2, <1>3, <1>5, <1>6, ReadIs
<1> QED BY <1>3, <1>4, <1>7, Zenon DEF n

(* Of two products with the same factor.                                   *)
LEMMA TimesMonotone ==
  ASSUME NEW a \in Nat, NEW b \in Nat, a <= b, NEW p \in Nat
  PROVE  a * p <= b * p /\ a * p \in Nat /\ b * p \in Nat
<1>1. PICK d \in Nat : b = a + d
  <2>1. b - a \in Nat /\ b = a + (b - a)
    OBVIOUS
  <2> QED BY <2>1
<1>2. b * p = a * p + d * p /\ d * p \in Nat /\ a * p \in Nat
  BY <1>1
<1> QED BY <1>2

(* The last byte of an integer of more than one: what was read is the      *)
(* integer, and its length is the number of bytes.                         *)
LEMMA LastLen ==
  ASSUME NEW i \in 1 .. MaxBytes - 1, NEW r \in Nat, NEW g \in 1 .. Base - 1, r < Weight[i]
  PROVE  VarintLen(r + g * Weight[i]) = i + 1
<1> DEFINE w == Weight[i]
           v == r + g * w
           n == i + 1
           lo == GroupBits * i
<1>1. w \in Nat \ {0} /\ w = Pow2[lo] /\ lo \in Nat /\ GroupBits \in Nat /\ Base = Pow2[GroupBits]
  <2>1. i \in 0 .. MaxBytes - 1
    BY Widths
  <2> QED BY <2>1, Widths, WeightIsPow, VarIntAssumption
<1>2. n \in 1 .. MaxBytes /\ n - 1 = i /\ GroupBits * n = lo + GroupBits
  BY <1>1, Widths
<1>3. g \in Nat /\ g < Base /\ 1 <= g
  BY BaseFacts
<1>4. v \in Nat /\ v < Base * w /\ v >= w
  <2>1. g * w \in Nat /\ r + g * w < Base * w
    <3> HIDE DEF w
    <3>1. r < w
      BY DEF w
    <3> QED BY <1>1, <1>3, <3>1, BaseFacts, GroupFits
  <2>2. 1 * w <= g * w
    <3> HIDE DEF w
    <3> QED BY <1>1, <1>3, TimesMonotone
  <2> DEFINE x == g * w
  <2> HIDE DEF w, x
  <2>3. 1 * w = w /\ 1 * w <= x /\ x \in Nat
    BY <1>1, <2>1, <2>2 DEF x
  <2>4. v = r + x
    BY DEF x
  <2>5. v \in Nat /\ v >= w
    BY <1>1, <2>3, <2>4
  <2> QED BY <2>1, <2>5
<1>5. Base * w = Pow2[lo + GroupBits]
  <2> HIDE DEF lo, w
  <2>1. Pow2[lo + GroupBits] = Pow2[lo] * Pow2[GroupBits]
    BY <1>1, PowSum
  <2> QED BY <1>1, <2>1, BaseFacts
<1>6. v < Pow2[GroupBits * n] /\ v >= Pow2[GroupBits * (n - 1)]
  BY <1>1, <1>2, <1>4, <1>5
<1> HIDE DEF v, n
<1>7. VarintLen(v) = n
  BY <1>2, <1>4, <1>6, LenOf
<1> QED BY <1>7 DEF v, n

(* No integer goes on where the code refuses.                              *)
LEMMA RefusedDigit ==
  ASSUME NEW i \in 1 .. MaxBytes - 1, NEW r \in Nat, NEW h \in Nat \ {0}, NEW b \in Byte,
         EncodeVarint[h][1] = b,
         \/ i = MaxBytes - 1 /\ Group(b) >= TopGroup
         \/ i = MaxBytes - 1 /\ Continues(b)
         \/ b = 0
  PROVE  r + h * Weight[i] >= Limit
<1>1. h \in Nat /\ (Continues(b) => h >= Base) /\ (~Continues(b) => h = b) /\ h >= Group(b)
  BY FirstByteBounds
<1>2. b # 0
  <2>1. b = 0 => ~Continues(b)
    BY BaseFacts DEF Continues
  <2> QED BY <1>1, <2>1
<1>3. i = MaxBytes - 1 /\ h >= TopGroup
  <2>1. Group(b) \in Nat
    BY ByteParts
  <2> QED BY <1>1, <1>2, <2>1, Widths, BaseFacts
<1>4. Weight[i] \in Nat /\ Limit = TopGroup * Weight[i]
  <2>1. i \in 0 .. MaxBytes - 1
    BY Widths
  <2> QED BY <1>3, <2>1, Widths DEF Limit
<1> DEFINE w == Weight[i]
           x == h * w
           y == TopGroup * w
<1>5. y <= x /\ x \in Nat /\ y \in Nat /\ Limit = y
  <2>1. w \in Nat /\ Limit = TopGroup * w
    BY <1>4
  <2> HIDE DEF w
  <2> QED BY <1>1, <1>3, <2>1, Widths, TimesMonotone
<1> HIDE DEF x, y
<1>6. r + x >= Limit
  BY <1>5
<1> QED BY <1>6 DEF x

(* A byte after the first: the next group of an integer that goes on, the  *)
(* last of one that ends, or one that no integer has there.                *)
LEMMA MoreStep ==
  ASSUME DecoderInv, More
  PROVE  CallInv' /\ LastCanonical' /\ PastCanonical' /\ EndInv'
<1> DEFINE b == NextByte
           g == Group(b)
           w == Weight[index]
<1>1. /\ DecoderTypeOK /\ BoundInv /\ status = "more" /\ ~AtEnd
      /\ index \in 1 .. MaxBytes - 1 /\ index = position - start /\ result < w
      /\ position' = position + 1 /\ status' = StatusAfter(b)
      /\ result' = (IF status' = "IntegerOverflow" THEN result ELSE result + Shifted(b))
      /\ index' = (IF status' = "more" THEN index + 1 ELSE index)
      /\ bytes' = bytes /\ start' = start /\ decoded' = decoded
  BY DEF DecoderInv, BoundInv, More, ReadIsBounded
<1>2. /\ b \in Byte /\ position + 1 <= Len(bytes)
      /\ SubSeq(bytes, start + 1, position + 1) = Append(Taken, b)
      /\ Rest[position - start + 1] = b /\ bytes[start + (position - start + 1)] = b
  BY <1>1, TakenGrows
<1>3. /\ Taken \in Seq(Byte) /\ Len(Taken) = position - start /\ Rest \in Seq(Byte)
      /\ Len(Rest) = Len(bytes) - start
      /\ position \in Nat /\ start \in Nat /\ Len(bytes) \in Nat
  BY <1>1, TakenFacts
<1>4. /\ result \in Nat /\ index \in Nat /\ index \in 0 .. MaxBytes - 1
      /\ position - start + 1 = index + 1 /\ Len(Taken) = index
      /\ start + index + 1 = start + (position - start + 1)
  BY <1>1, <1>3, Widths DEF DecoderTypeOK
<1>5. Taken' = Append(Taken, b) /\ Rest' = Rest
  BY <1>1, <1>2 DEF Taken, Rest
<1>6. Rest[Len(Taken) + 1] = b /\ bytes[start + index + 1] = b
  BY <1>2, <1>4
<1>7. g \in 0 .. Base - 1 /\ g \in Nat /\ b \in Nat /\ w \in Nat \ {0}
  BY <1>2, <1>4, BaseFacts, ByteParts, Widths DEF Byte
<1>8. /\ Writes(Taken, result, w) /\ OnlyFrom(Rest, result, w)
      /\ SumsTo(bytes, start, index, result)
      /\ \A j \in 1 .. index : Continues(bytes[start + j])
  BY <1>1 DEF DecoderInv, CallInv
<1>9. PastCanonical'
  BY <1>1 DEF PastCanonical, DecoderInv
<1>10. status' # "IntegerOverflow" => result' = result + g * w
  BY <1>1, <1>2, ShiftKeepsAllBits
<1>11. SumsTo(bytes, start, index + 1, result + g * w)
  <2>1. g * w \in Nat
    BY <1>7
  <2> QED BY <1>3, <1>4, <1>6, <1>8, <2>1, SumsMore
<1>12. /\ status' \in {"more", "ok", "IntegerOverflow", "InvalidVarInt"}
       /\ status' = "more" => Continues(b) /\ index < MaxBytes - 1
       /\ status' = "ok" =>
            ~Continues(b) /\ b # 0 /\ ~(index = MaxBytes - 1 /\ g >= TopGroup)
       /\ status' = "IntegerOverflow" => index = MaxBytes - 1 /\ g >= TopGroup
       /\ status' = "InvalidVarInt" =>
            /\ ~(index = MaxBytes - 1 /\ g >= TopGroup)
            /\ (Continues(b) /\ index = MaxBytes - 1) \/ (~Continues(b) /\ b = 0)
  BY <1>1, Widths DEF StatusAfter
<1> HIDE DEF b, g, w
<1>13. CASE status' = "more"
  <2>1. b = Base + g
    <3>1. b >= Base /\ b < 2 * Base
      BY <1>2, <1>7, <1>12, <1>13, BaseFacts DEF Continues, Byte
    <3> DEFINE m == b - Base
    <3>2. m \in 0 .. Base - 1 /\ b = m + 1 * Base
      BY <1>7, <3>1, BaseFacts
    <3> HIDE DEF m
    <3>3. b % Base = m
      BY <3>2, BaseFacts, DivisionOf
    <3>4. g = m
      BY <3>3 DEF g, Group
    <3> QED BY <3>2, <3>4, BaseFacts
  <2>2. Weight[index + 1] = Base * w
    <3> DEFINE k == index + 1
    <3>1. k \in 1 .. MaxBytes - 1 /\ k - 1 = index
      BY <1>1, <1>12, <1>13, Widths
    <3> HIDE DEF k
    <3>2. Weight[k] = Base * Weight[k - 1]
      BY <3>1, WeightAssumption
    <3> QED BY <3>1, <3>2 DEF k, w
  <2>3. Writes(Append(Taken, b), result + g * w, Base * w)
    BY <1>3, <1>4, <1>7, <1>8, <2>1, WritesMore
  <2>4. OnlyFrom(Rest, result + g * w, Base * w)
    BY <1>3, <1>4, <1>6, <1>7, <1>8, <2>1, OnlyMore
  <2>5. \A j \in 1 .. index + 1 : Continues(bytes[start + j])
    <3> SUFFICES ASSUME NEW j \in 1 .. index + 1 PROVE Continues(bytes[start + j])
      OBVIOUS
    <3>1. CASE j = index + 1
      <4>1. start + j = start + index + 1
        BY <1>3, <1>4, <3>1
      <4> QED BY <1>6, <1>12, <1>13, <4>1
    <3>2. CASE j # index + 1
      <4>1. j \in 1 .. index
        BY <1>4, <3>2
      <4> QED BY <1>8, <4>1
    <3> QED BY <3>1, <3>2
  <2>6. result' = result + g * w /\ index' = index + 1
    BY <1>1, <1>10, <1>13
  <2>7. CallInv'
    BY <1>1, <1>5, <1>11, <1>13, <2>2, <2>3, <2>4, <2>5, <2>6 DEF CallInv
  <2>8. LastCanonical' /\ EndInv'
    BY <1>13 DEF LastCanonical, EndInv, RefusesOnlyInvalid, LenIsExact, OneOperation, Errors
  <2> QED BY <1>9, <2>7, <2>8
<1>14. CASE status' = "ok"
  <2>1. b = g /\ g \in 1 .. Base - 1
    <3>1. b \in 0 .. Base - 1 /\ b # 0
      BY <1>7, <1>12, <1>14, BaseFacts DEF Continues
    <3>2. b = b + 0 * Base /\ 0 \in Nat
      BY <1>7, BaseFacts
    <3>3. (b + 0 * Base) % Base = b
      BY <3>1, <3>2, BaseFacts, DivisionOf
    <3>4. b = g
      BY <3>2, <3>3 DEF g, Group
    <3> QED BY <3>1, <3>4, BaseFacts
  <2>2. result' = result + g * w
    BY <1>10, <1>14
  <2>3. LastCanonical'
    <3>1. EncodeVarint[result + g * w] = Append(Taken, g)
      BY <1>3, <1>4, <1>7, <1>8, <2>1, WritesLast
    <3> QED BY <1>5, <2>1, <2>2, <3>1 DEF LastCanonical
  <2>4. CallInv' /\ RefusesOnlyInvalid'
    BY <1>14 DEF CallInv, RefusesOnlyInvalid
  <2>5. LenIsExact'
    <3>1. position' - start' = index + 1
      BY <1>1, <1>3
    <3>2. VarintLen(result + g * w) = index + 1
      <4>1. result < Weight[index]
        BY <1>1 DEF w
      <4> QED BY <1>1, <1>4, <2>1, <4>1, LastLen DEF w
    <3> QED BY <2>2, <3>1, <3>2 DEF LenIsExact
  <2>6. ReadVarint(bytes, start) = Ok(position + 1, result + g * w)
    <3>1. GroupSum(bytes, start, index + 1) = result + g * w
      <4>1. g * w \in Nat
        BY <1>7
      <4>2. result + g * w \in Nat /\ index + 1 \in Nat
        BY <1>4, <4>1
      <4> DEFINE k == index + 1
                 x == result + g * w
      <4>3. k \in Nat /\ x \in Nat /\ SumsTo(bytes, start, k, x)
        BY <1>11, <4>2
      <4> HIDE DEF k, x
      <4>4. GroupSum(bytes, start, k) = x
        BY <1>3, <4>3, SumIsGroupSum
      <4> QED BY <4>4 DEF k, x
    <3>2. ~Continues(b) /\ b # 0 /\ ~(index = MaxBytes - 1 /\ g >= TopGroup)
      BY <1>12, <1>14
    <3>3. ReadVarint(bytes, start) = Ok(position + 1, GroupSum(bytes, start, index + 1))
      BY <1>1, <3>2, ReadAfter DEF b, g
    <3> QED BY <3>1, <3>3
  <2>7. OneOperation'
    BY <1>1, <1>14, <2>2, <2>6 DEF OneOperation, Errors
  <2> QED BY <1>9, <2>3, <2>4, <2>5, <2>7 DEF EndInv
<1>15. CASE status' \in {"IntegerOverflow", "InvalidVarInt"}
  <2>1. CallInv' /\ LastCanonical' /\ LenIsExact'
    BY <1>15 DEF CallInv, LastCanonical, LenIsExact
  <2>2. ASSUME NEW v \in 0 .. Limit - 1, IsPrefix(EncodeVarint[v], Rest) PROVE FALSE
    <3>1. v \in Nat /\ v < Limit
      BY Widths
    <3>2. PICK h \in Nat \ {0} : v = result + h * w /\ EncodeVarint[h][1] = b
      <4>1. GoesOn(Taken, result, w, Rest, v)
        <5> DEFINE P == Taken
                   R == Rest
                   r == result
        <5>1. /\ P \in Seq(Byte) /\ R \in Seq(Byte) /\ r \in Nat /\ w \in Nat \ {0}
              /\ Writes(P, r, w) /\ OnlyFrom(R, r, w) /\ IsPrefix(EncodeVarint[v], R)
          BY <1>3, <1>4, <1>7, <1>8, <2>2
        <5> HIDE DEF P, R, r
        <5>2. GoesOn(P, r, w, R, v)
          BY <3>1, <5>1, NextDigit
        <5> QED BY <5>2 DEF P, R, r
      <4> QED BY <1>6, <4>1 DEF GoesOn
    <3>3. \/ index = MaxBytes - 1 /\ g >= TopGroup
          \/ index = MaxBytes - 1 /\ Continues(b)
          \/ b = 0
      BY <1>12, <1>15
    <3>4. result + h * w >= Limit
      BY <1>1, <1>2, <1>4, <3>2, <3>3, RefusedDigit DEF w, g
    <3> QED BY <3>1, <3>2, <3>4, Widths
  <2>3. RefusesOnlyInvalid'
    <3>1. status' # "UnexpectedEof"
      BY <1>15
    <3>2. \A v \in 0 .. Limit - 1 : ~IsPrefix(EncodeVarint[v], Rest)
      BY <2>2
    <3> QED BY <1>1, <3>1, <3>2, Zenon DEF RefusesOnlyInvalid, Rest
  <2>4. ReadVarint(bytes, start) = Err(status', position + 1)
    <3>1. index = MaxBytes - 1 \/ ~Continues(b)
      BY <1>12, <1>15
    <3>2. ReadVarint(bytes, start) =
           IF index = MaxBytes - 1 /\ g >= TopGroup
             THEN Err("IntegerOverflow", position + 1)
           ELSE IF Continues(b) \/ b = 0 THEN Err("InvalidVarInt", position + 1)
           ELSE Ok(position + 1, GroupSum(bytes, start, index + 1))
      BY <1>1, <3>1, ReadAfter, Zenon DEF b, g
    <3> QED BY <1>12, <1>15, <3>2
  <2>5. OneOperation'
    BY <1>1, <1>15, <2>4 DEF OneOperation, Errors
  <2> QED BY <1>9, <2>1, <2>3, <2>5 DEF EndInv
<1> QED BY <1>12, <1>13, <1>14, <1>15

(* Every step keeps the invariant.                                         *)
LEMMA DecoderStepKeeps == DecoderInv /\ [DecoderNext]_decoderVars => DecoderInv'
<1> SUFFICES ASSUME DecoderInv, [DecoderNext]_decoderVars PROVE DecoderInv'
  OBVIOUS
<1>0. BoundInv'
  BY BoundStep DEF DecoderInv
<1>1. CASE Eof
  BY <1>0, <1>1, EofStep DEF DecoderInv
<1>2. CASE First
  BY <1>0, <1>2, FirstStep DEF DecoderInv
<1>3. CASE More
  BY <1>0, <1>3, MoreStep DEF DecoderInv
<1>4. CASE NextCall
  BY <1>0, <1>4, NextCallStep DEF DecoderInv
<1>5. CASE UNCHANGED decoderVars
  <2>1. /\ bytes' = bytes /\ position' = position /\ start' = start /\ index' = index
        /\ result' = result /\ status' = status /\ decoded' = decoded
    BY <1>5 DEF decoderVars
  <2>2. CallInv' /\ LastCanonical' /\ PastCanonical'
    BY <2>1 DEF DecoderInv, CallInv, LastCanonical, PastCanonical, Taken, Rest
  <2>3. EndInv'
    BY <2>1 DEF DecoderInv, EndInv, RefusesOnlyInvalid, LenIsExact, OneOperation
  <2> QED BY <1>0, <2>2, <2>3 DEF DecoderInv
<1> QED BY <1>1, <1>2, <1>3, <1>4, <1>5 DEF DecoderNext, DecoderStep

(* The inductive invariant, from which the theorems follow.                *)
THEOREM DecoderInvariance == DecoderSpec => []DecoderInv
<1> QED BY DecoderInitHolds, DecoderStepKeeps, PTL DEF DecoderSpec

(* Every variable stays in its range: the position within the packet, the  *)
(* result within the width of an integer.                                  *)
THEOREM DecoderTypeCorrect == DecoderSpec => []DecoderTypeOK
<1>1. DecoderInv => DecoderTypeOK
  BY DEF DecoderInv, BoundInv
<1> QED BY DecoderInvariance, <1>1, PTL

(* No call takes more than MaxBytes bytes, and what is read fits its place.*)
THEOREM BoundedRead == DecoderSpec => []ReadIsBounded
<1>1. DecoderInv => ReadIsBounded
  BY DEF DecoderInv, BoundInv
<1> QED BY DecoderInvariance, <1>1, PTL

(* What is read as an integer is what is written for it, in the call that  *)
(* has just returned and in all before it: the wire has one encoding of    *)
(* each integer (wire.rs:526-530).                                         *)
THEOREM CanonicalCorrect == DecoderSpec => []Canonical
<1>1. DecoderInv => Canonical
  BY CanonicalParts DEF DecoderInv
<1> QED BY DecoderInvariance, <1>1, PTL

(* No integer that is written is refused, and a packet that ends in the    *)
(* middle of one could have gone on: the checks at the last group and of a *)
(* last byte of zero refuse only what no value is written as.              *)
THEOREM RefusalCorrect == DecoderSpec => []RefusesOnlyInvalid
<1>1. DecoderInv => RefusesOnlyInvalid
  BY DEF DecoderInv, EndInv
<1> QED BY DecoderInvariance, <1>1, PTL

(* varint_len, computed from the position of the highest bit, is the       *)
(* number of bytes the integer is read from.                               *)
THEOREM LenCorrect == DecoderSpec => []LenIsExact
<1>1. DecoderInv => LenIsExact
  BY DEF DecoderInv, EndInv
<1> QED BY DecoderInvariance, <1>1, PTL

(* ReadVarint, which the other modules read integers with, is the loop.    *)
THEOREM OperationCorrect == DecoderSpec => []OneOperation
<1>1. DecoderInv => OneOperation
  BY DEF DecoderInv, EndInv
<1> QED BY DecoderInvariance, <1>1, PTL

-----------------------------------------------------------------------------
(* Bytes                                                                   *)

Bytes == Seq(Byte)

(* The bytes of s from position p to position q, and all of them from p.   *)
Slice(s, p, q) == SubSeq(s, p + 1, q)
From(s, p) == Slice(s, p, Len(s))

(* A slice is as long as its ends say, and has the bytes between them.     *)
LEMMA SliceFacts ==
  ASSUME NEW s \in Bytes, NEW p \in 0 .. Len(s), NEW q \in p .. Len(s)
  PROVE  /\ Slice(s, p, q) \in Bytes
         /\ Len(Slice(s, p, q)) = q - p
         /\ \A i \in 1 .. q - p : Slice(s, p, q)[i] = s[p + i]
<1> DEFINE m == p + 1
           t == SubSeq(s, m, q)
<1>1. m \in 1 .. Len(s) + 1 /\ q \in m - 1 .. Len(s) /\ s \in Seq(Byte)
  BY DEF Bytes
<1>2. q - m + 1 = q - p /\ \A i \in 1 .. q - p : m + i - 1 = p + i
  OBVIOUS
<1> HIDE DEF m
<1>3. /\ t \in Seq(Byte) /\ Len(t) = q - m + 1
      /\ \A i \in 1 .. q - m + 1 : t[i] = s[m + i - 1]
  BY <1>1, SubSeqFacts
<1>4. Slice(s, p, q) = t
  BY DEF Slice, m
<1> HIDE DEF t
<1> QED BY <1>2, <1>3, <1>4 DEF Bytes

(* Sequences of the same bytes are equal.                                  *)
LEMMA SameBytes ==
  ASSUME NEW s \in Bytes, NEW t \in Bytes, Len(s) = Len(t),
         \A i \in 1 .. Len(s) : s[i] = t[i]
  PROVE  s = t
BY DEF Bytes

(* What a concatenation is.                                                *)
LEMMA JoinFacts ==
  ASSUME NEW s \in Bytes, NEW t \in Bytes
  PROVE  /\ s \o t \in Bytes /\ Len(s \o t) = Len(s) + Len(t)
         /\ Len(s) \in Nat /\ Len(t) \in Nat
         /\ \A i \in 1 .. Len(s) : (s \o t)[i] = s[i]
         /\ \A i \in 1 .. Len(t) : (s \o t)[Len(s) + i] = t[i]
BY DEF Bytes

(* Two slices that meet are one.                                           *)
LEMMA SliceJoin ==
  ASSUME NEW s \in Bytes, NEW p \in 0 .. Len(s), NEW q \in p .. Len(s), NEW r \in q .. Len(s)
  PROVE  Slice(s, p, r) = Slice(s, p, q) \o Slice(s, q, r)
<1> DEFINE a == Slice(s, p, q)
           b == Slice(s, q, r)
           c == Slice(s, p, r)
           n == q - p
           k == r - q
<1>0. Len(s) \in Nat /\ q \in 0 .. Len(s) /\ r \in p .. Len(s) /\ n \in Nat /\ k \in Nat
      /\ n + k = r - p /\ p + n = q /\ p \in Nat
  BY DEF Bytes
<1>1. a \in Bytes /\ Len(a) = n /\ \A i \in 1 .. n : a[i] = s[p + i]
  BY SliceFacts
<1>2. b \in Bytes /\ Len(b) = k /\ \A i \in 1 .. k : b[i] = s[q + i]
  BY <1>0, SliceFacts
<1>3. c \in Bytes /\ Len(c) = r - p /\ \A i \in 1 .. r - p : c[i] = s[p + i]
  BY <1>0, SliceFacts
<1> HIDE DEF a, b, c, n, k
<1>4. /\ a \o b \in Bytes /\ Len(a \o b) = n + k
      /\ \A i \in 1 .. n : (a \o b)[i] = a[i]
      /\ \A i \in 1 .. k : (a \o b)[n + i] = b[i]
  BY <1>1, <1>2, JoinFacts
<1>5. \A i \in 1 .. r - p : c[i] = (a \o b)[i]
  <2> SUFFICES ASSUME NEW i \in 1 .. r - p PROVE c[i] = (a \o b)[i]
    OBVIOUS
  <2>1. CASE i <= n
    <3>1. i \in 1 .. n
      BY <1>0, <2>1
    <3> QED BY <1>1, <1>3, <1>4, <3>1
  <2>2. CASE ~(i <= n)
    <3> DEFINE j == i - n
    <3>1. j \in 1 .. k /\ n + j = i /\ q + j = p + i
      BY <1>0, <2>2
    <3> HIDE DEF j
    <3>2. (a \o b)[n + j] = s[q + j]
      BY <1>2, <1>4, <3>1
    <3> QED BY <1>3, <3>1, <3>2
  <2> QED BY <2>1, <2>2
<1>6. c = a \o b
  BY <1>0, <1>3, <1>4, <1>5, SameBytes
<1> QED BY <1>6 DEF a, b, c

(* No bytes.                                                               *)
LEMMA SliceEmpty ==
  ASSUME NEW s \in Bytes, NEW p \in 0 .. Len(s)
  PROVE  Slice(s, p, p) = << >>
<1>1. p \in p .. Len(s) /\ p - p = 0
  BY DEF Bytes
<1>2. Slice(s, p, p) \in Bytes /\ Len(Slice(s, p, p)) = 0
  BY <1>1, SliceFacts
<1> QED BY <1>2 DEF Bytes

(* All of the bytes, and none of them.                                     *)
LEMMA SliceAll ==
  ASSUME NEW s \in Bytes
  PROVE  From(s, 0) = s /\ From(s, Len(s)) = << >>
<1>1. 0 \in 0 .. Len(s) /\ Len(s) \in 0 .. Len(s) /\ Len(s) \in Nat /\ Len(s) - 0 = Len(s)
  BY DEF Bytes
<1>2. /\ Slice(s, 0, Len(s)) \in Bytes /\ Len(Slice(s, 0, Len(s))) = Len(s) - 0
      /\ \A i \in 1 .. Len(s) - 0 : Slice(s, 0, Len(s))[i] = s[0 + i]
  BY <1>1, SliceFacts
<1>3. \A i \in 1 .. Len(s) : 0 + i = i
  BY <1>1
<1>4. Slice(s, 0, Len(s)) = s
  BY <1>1, <1>2, <1>3, SameBytes
<1> QED BY <1>1, <1>4, SliceEmpty DEF From

(* A slice of a slice is one of the whole.                                 *)
LEMMA SliceOfSlice ==
  ASSUME NEW s \in Bytes, NEW p \in 0 .. Len(s), NEW q \in p .. Len(s),
         NEW a \in 0 .. q - p, NEW b \in a .. q - p
  PROVE  Slice(Slice(s, p, q), a, b) = Slice(s, p + a, p + b)
<1> DEFINE t == Slice(s, p, q)
           u == Slice(t, a, b)
           v == Slice(s, p + a, p + b)
<1>0. Len(s) \in Nat /\ p + a \in 0 .. Len(s) /\ p + b \in p + a .. Len(s)
      /\ (p + b) - (p + a) = b - a /\ b - a \in Nat
  BY DEF Bytes
<1>1. t \in Bytes /\ Len(t) = q - p /\ \A i \in 1 .. q - p : t[i] = s[p + i]
  BY SliceFacts
<1>2. v \in Bytes /\ Len(v) = b - a /\ \A i \in 1 .. b - a : v[i] = s[p + a + i]
  <2> DEFINE m == p + a
             k == p + b
  <2>1. m \in 0 .. Len(s) /\ k \in m .. Len(s) /\ k - m = b - a
    BY <1>0
  <2> HIDE DEF m, k
  <2>2. /\ Slice(s, m, k) \in Bytes /\ Len(Slice(s, m, k)) = k - m
        /\ \A i \in 1 .. k - m : Slice(s, m, k)[i] = s[m + i]
    BY <2>1, SliceFacts
  <2> QED BY <2>1, <2>2 DEF m, k
<1> HIDE DEF t, v
<1>3. u \in Bytes /\ Len(u) = b - a /\ \A i \in 1 .. b - a : u[i] = t[a + i]
  <2>1. a \in 0 .. Len(t) /\ b \in a .. Len(t) /\ t \in Bytes
    BY <1>1
  <2> QED BY <2>1, SliceFacts
<1> HIDE DEF u
<1>4. \A i \in 1 .. b - a : u[i] = v[i]
  <2> SUFFICES ASSUME NEW i \in 1 .. b - a PROVE u[i] = v[i]
    OBVIOUS
  <2>1. a + i \in 1 .. q - p /\ p + (a + i) = p + a + i
    OBVIOUS
  <2> QED BY <1>1, <1>2, <1>3, <2>1
<1>5. u = v
  BY <1>2, <1>3, <1>4, SameBytes
<1> QED BY <1>5 DEF t, u, v

(* What is in front of a sequence that two sequences begin with. *)
LEMMA JoinAssoc ==
  ASSUME NEW a \in Bytes, NEW b \in Bytes, NEW c \in Bytes
  PROVE  (a \o b) \o c = a \o (b \o c)
BY ConcatIsAssoc DEF Bytes

(* Of \o, no more than that: with all that they know of it, the provers get*)
(* lost in a context of many sequences.                                    *)
Then(a, b) == a \o b

LEMMA ThenAssoc ==
  ASSUME NEW a \in Bytes, NEW b \in Bytes, NEW c \in Bytes
  PROVE  Then(Then(a, b), c) = Then(a, Then(b, c))
BY JoinAssoc DEF Then

(* The empty sequence adds nothing.                                        *)
LEMMA JoinEmpty ==
  ASSUME NEW a \in Bytes
  PROVE  a \o << >> = a /\ << >> \o a = a
BY DEF Bytes

(* Two sequences with the same beginning go on the same. *)
LEMMA JoinCancels ==
  ASSUME NEW a \in Bytes, NEW x \in Bytes, NEW b \in Bytes, NEW y \in Bytes,
         a \o x = b \o y, Len(a) = Len(b)
  PROVE  a = b /\ x = y
<1> DEFINE u == a \o x
           v == b \o y
<1>1. /\ Len(u) = Len(a) + Len(x)
      /\ \A i \in 1 .. Len(a) : u[i] = a[i]
      /\ \A i \in 1 .. Len(x) : u[Len(a) + i] = x[i]
      /\ Len(a) \in Nat /\ Len(x) \in Nat
  BY JoinFacts
<1>2. /\ Len(v) = Len(b) + Len(y)
      /\ \A i \in 1 .. Len(b) : v[i] = b[i]
      /\ \A i \in 1 .. Len(y) : v[Len(b) + i] = y[i]
      /\ Len(b) \in Nat /\ Len(y) \in Nat
  BY JoinFacts
<1>3. u = v
  OBVIOUS
<1> HIDE DEF u, v
<1>4. \A i \in 1 .. Len(a) : a[i] = b[i]
  BY <1>1, <1>2, <1>3
<1>5. Len(x) = Len(y)
  BY <1>1, <1>2, <1>3
<1>6. \A i \in 1 .. Len(x) : x[i] = y[i]
  BY <1>1, <1>2, <1>3, <1>5
<1> QED BY <1>4, <1>5, <1>6, SameBytes

(* A position in the packet, and what it goes on with. *)
LEMMA SliceFront ==
  ASSUME NEW s \in Bytes, NEW p \in 0 .. Len(s), NEW e \in Bytes, NEW x \in Bytes,
         From(s, p) = Then(e, x), NEW q, q = p + Len(e)
  PROVE  /\ q \in p .. Len(s)
         /\ Slice(s, p, q) = e
         /\ From(s, q) = x
<1> DEFINE n == Len(s)
<1>1. n \in Nat /\ n \in p .. n /\ Len(e) \in Nat /\ Len(x) \in Nat
  BY DEF Bytes
<1>2. Len(From(s, p)) = n - p
  BY <1>1, SliceFacts DEF From
<1>3. Len(Then(e, x)) = Len(e) + Len(x)
  BY JoinFacts DEF Then
<1>4. q \in p .. n /\ n \in q .. n /\ q \in 0 .. n
  BY <1>1, <1>2, <1>3
<1> DEFINE a == Slice(s, p, q)
           b == Slice(s, q, n)
<1>5. From(s, p) = a \o b
  BY <1>4, SliceJoin DEF From
<1>6. a \in Bytes /\ b \in Bytes /\ Len(a) = q - p
  BY <1>4, SliceFacts
<1>7. Len(a) = Len(e)
  BY <1>1, <1>6
<1> HIDE DEF a, b
<1>8. a = e /\ b = x
  BY <1>5, <1>6, <1>7, JoinCancels DEF Then
<1> QED BY <1>4, <1>8 DEF a, b, From

(* What is left at a position is a slice and what is left after it.        *)
LEMMA FromSplits ==
  ASSUME NEW s \in Bytes, NEW p \in 0 .. Len(s), NEW q \in p .. Len(s)
  PROVE  /\ From(s, p) = Slice(s, p, q) \o From(s, q)
         /\ From(s, p) \in Bytes /\ From(s, q) \in Bytes /\ Slice(s, p, q) \in Bytes
         /\ Len(From(s, p)) = Len(s) - p /\ Len(Slice(s, p, q)) = q - p
<1>1. Len(s) \in q .. Len(s) /\ q \in 0 .. Len(s) /\ Len(s) \in p .. Len(s)
  BY DEF Bytes
<1> QED BY <1>1, SliceJoin, SliceFacts DEF From

-----------------------------------------------------------------------------
(* Integers that are read back                                             *)

(* After i bytes of an integer at pos that all say that another follows:   *)
(* what they add up to, and the integers the packet may go on with.        *)
Reading(s, pos, i) ==
  \E r \in Nat :
    /\ r < Weight[i]
    /\ SumsTo(s, pos, i, r)
    /\ Writes(SubSeq(s, pos + 1, pos + i), r, Weight[i])
    /\ OnlyFrom(SubSeq(s, pos + 1, Len(s)), r, Weight[i])

(* A byte that says that another follows is its group and that bit.        *)
LEMMA ContinuesIs ==
  ASSUME NEW byte \in Byte, Continues(byte)
  PROVE  byte = Base + Group(byte)
<1> DEFINE b == Base
           g == byte - b
<1>1. b \in Nat \ {0} /\ g \in 0 .. b - 1 /\ byte = g + 1 * b
  BY BaseFacts DEF Byte, Continues
<1> HIDE DEF b, g
<1>2. byte % b = g
  BY <1>1, DivisionOf
<1> QED BY <1>1, <1>2 DEF b, Group

(* The slice of the next byte.                                             *)
LEMMA SingleByte ==
  ASSUME NEW s \in Seq(Byte), NEW pos \in 0 .. Len(s), pos + 1 <= Len(s)
  PROVE  SubSeq(s, pos + 1, pos + 1) = <<s[pos + 1]>>
<1> DEFINE m == pos + 1
           one == SubSeq(s, m, m)
<1>1. m \in 1 .. Len(s) + 1 /\ m \in m - 1 .. Len(s) /\ m - m + 1 = 1 /\ 1 \in 1 .. 1
      /\ m + 1 - 1 = m
  OBVIOUS
<1> HIDE DEF m
<1>2. /\ one \in Seq(Byte) /\ Len(one) = m - m + 1
      /\ \A i \in 1 .. m - m + 1 : one[i] = s[m + i - 1]
  BY <1>1, SubSeqFacts
<1>3. one[1] = s[m] /\ Len(one) = 1 /\ one \in Seq(Byte)
  BY <1>1, <1>2
<1> HIDE DEF one
<1>4. one = <<s[m]>>
  BY <1>3
<1> QED BY <1>4 DEF one, m

(* A slice of one more byte.                                               *)
LEMMA LastByte ==
  ASSUME NEW s \in Seq(Byte), NEW pos \in 0 .. Len(s), NEW i \in Nat, pos + i + 1 <= Len(s)
  PROVE  /\ SubSeq(s, pos + 1, pos + i) \in Seq(Byte)
         /\ Len(SubSeq(s, pos + 1, pos + i)) = i
         /\ SubSeq(s, pos + 1, pos + i + 1) = Append(SubSeq(s, pos + 1, pos + i), s[pos + i + 1])
<1>1. /\ pos + 1 \in 1 .. Len(s) + 1 /\ pos + i \in pos + 1 - 1 .. Len(s) - 1
      /\ pos + i \in pos + 1 - 1 .. Len(s)
      /\ pos + i - (pos + 1) + 1 = i
  OBVIOUS
<1>2. SubSeq(s, pos + 1, pos + i + 1) = Append(SubSeq(s, pos + 1, pos + i), s[pos + i + 1])
  BY <1>1, SubSeqGrows
<1>3. SubSeq(s, pos + 1, pos + i) \in Seq(Byte)
      /\ Len(SubSeq(s, pos + 1, pos + i)) = pos + i - (pos + 1) + 1
  BY <1>1, SubSeqFacts
<1> QED BY <1>1, <1>2, <1>3

(* An integer goes on after its first byte.                                *)
LEMMA ReadingFirst ==
  ASSUME NEW s \in Seq(Byte), NEW pos \in 0 .. Len(s), pos + 1 <= Len(s),
         Continues(s[pos + 1])
  PROVE  Reading(s, pos, 1)
<1> DEFINE b == s[pos + 1]
           g == Group(b)
           rest == SubSeq(s, pos + 1, Len(s))
<1>1. b \in Byte /\ g \in 0 .. Base - 1 /\ b = Base + g
  <2>1. b \in Byte
    OBVIOUS
  <2> HIDE DEF b
  <2>2. b = Base + g
    BY <2>1, ContinuesIs DEF b
  <2> QED BY <2>1, <2>2, ByteParts
<1>2. rest \in Seq(Byte) /\ rest # << >> /\ rest[1] = b /\ SubSeq(s, pos + 1, pos + 1) = <<b>>
  <2>1. /\ pos + 1 \in 1 .. Len(s) + 1 /\ pos + 1 \in pos + 1 - 1 .. Len(s)
        /\ Len(s) \in pos + 1 - 1 .. Len(s) /\ 1 \in 1 .. Len(s) - (pos + 1) + 1
        /\ 1 \in 1 .. pos + 1 - (pos + 1) + 1 /\ pos + 1 + 1 - 1 = pos + 1
        /\ pos + 1 - (pos + 1) + 1 = 1
    OBVIOUS
  <2>2. rest \in Seq(Byte) /\ Len(rest) = Len(s) - (pos + 1) + 1 /\ rest[1] = s[pos + 1 + 1 - 1]
    BY <2>1, SubSeqFacts
  <2>3. SubSeq(s, pos + 1, pos + 1) = <<b>>
    BY SingleByte
  <2> HIDE DEF rest, b
  <2> QED BY <2>1, <2>2, <2>3 DEF b
<1> HIDE DEF b, g, rest
<1>3. Writes(<<b>>, g, Base)
  BY <1>1, WritesFirst
<1>4. OnlyFrom(rest, g, Base)
  BY <1>1, <1>2, OnlyFirst
<1>5. SumsTo(s, pos, 1, g)
  <2>1. SumsTo(s, pos, 0, 0)
    BY SumsNothing
  <2> DEFINE x == Group(s[pos + 0 + 1]) * Weight[0]
  <2>2. x = g /\ x \in Nat
    BY <1>1, Widths DEF b, g
  <2>3. SumsTo(s, pos, 0 + 1, 0 + x)
    BY <2>1, <2>2, SumsMore
  <2> HIDE DEF x
  <2>4. 0 + 1 = 1 /\ 0 + x = g
    BY <1>1, <2>2
  <2> QED BY <2>3, <2>4
<1>6. g \in Nat /\ g < Weight[1] /\ Weight[1] = Base
  BY <1>1, Widths, BaseFacts
<1> QED BY <1>2, <1>3, <1>4, <1>5, <1>6 DEF Reading, rest, b

(* An integer goes on after another byte.                                  *)
LEMMA ReadingMore ==
  ASSUME NEW s \in Seq(Byte), NEW pos \in 0 .. Len(s), NEW i \in 1 .. MaxBytes - 2,
         Reading(s, pos, i), pos + i + 1 <= Len(s), Continues(s[pos + i + 1])
  PROVE  Reading(s, pos, i + 1)
<1> DEFINE b == s[pos + i + 1]
           g == Group(b)
           p == Weight[i]
           w == SubSeq(s, pos + 1, pos + i)
           rest == SubSeq(s, pos + 1, Len(s))
           k == i + 1
<1>1. b \in Byte /\ g \in 0 .. Base - 1 /\ b = Base + g
  <2>1. b \in Byte
    BY Widths
  <2> HIDE DEF b
  <2>2. b = Base + g
    BY <2>1, ContinuesIs DEF b
  <2> QED BY <2>1, <2>2, ByteParts
<1>2. i \in Nat /\ k \in 1 .. MaxBytes - 1 /\ k - 1 = i /\ i \in 0 .. MaxBytes - 1
  BY Widths
<1>3. p \in Nat \ {0} /\ Weight[k] = Base * p
  BY <1>2, Widths, WeightAssumption
<1>4. /\ w \in Seq(Byte) /\ Len(w) = i /\ rest \in Seq(Byte)
      /\ rest[i + 1] = b
      /\ SubSeq(s, pos + 1, pos + k) = Append(w, b)
  <2>1. /\ pos + 1 \in 1 .. Len(s) + 1 /\ pos + i \in pos + 1 - 1 .. Len(s) - 1
        /\ pos + i \in pos + 1 - 1 .. Len(s)
        /\ Len(s) \in pos + 1 - 1 .. Len(s) /\ pos + i + 1 = pos + k
        /\ i + 1 \in 1 .. Len(s) - (pos + 1) + 1
        /\ pos + i - (pos + 1) + 1 = i /\ pos + 1 + (i + 1) - 1 = pos + i + 1
    BY <1>2
  <2>2. SubSeq(s, pos + 1, pos + i + 1) = Append(w, b)
    BY <2>1, SubSeqGrows
  <2>3. w \in Seq(Byte) /\ Len(w) = i
    <3>1. w \in Seq(Byte) /\ Len(w) = pos + i - (pos + 1) + 1
      BY <2>1, SubSeqFacts
    <3> QED BY <2>1, <3>1
  <2>4. rest \in Seq(Byte) /\ rest[i + 1] = s[pos + 1 + (i + 1) - 1]
    BY <2>1, SubSeqFacts
  <2> QED BY <2>1, <2>2, <2>3, <2>4
<1>5. PICK r \in Nat : r < p /\ SumsTo(s, pos, i, r) /\ Writes(w, r, p) /\ OnlyFrom(rest, r, p)
  BY DEF Reading
<1> DEFINE x == g * p
<1>6. x \in Nat /\ r + x < Base * p
  <2>1. g \in 0 .. Base - 1 /\ p \in Nat \ {0} /\ r \in Nat /\ r < p /\ Base \in Nat
    BY <1>1, <1>3, <1>5, BaseFacts
  <2> HIDE DEF g, p
  <2> QED BY <2>1, GroupFits
<1>7. SumsTo(s, pos, i + 1, r + x)
  BY <1>2, <1>5, <1>6, SumsMore
<1> HIDE DEF b, g, p, w, rest, x
<1>8. Writes(Append(w, b), r + x, Base * p)
  BY <1>1, <1>3, <1>4, <1>5, WritesMore DEF x
<1>9. OnlyFrom(rest, r + x, Base * p)
  BY <1>1, <1>3, <1>4, <1>5, OnlyMore DEF x
<1>10. r + x \in Nat
  BY <1>6
<1> HIDE DEF k
<1> QED
  <2>1. Reading(s, pos, k)
    BY <1>3, <1>4, <1>6, <1>7, <1>8, <1>9, <1>10 DEF Reading, rest, k
  <2> QED BY <2>1 DEF k

(* Where ReadVarint stops.                                                 *)
Stop(s, pos, n) ==
  /\ n \in 1 .. MaxBytes
  /\ \A j \in 1 .. n - 1 : pos + j <= Len(s) /\ Continues(s[pos + j])
  /\ n = MaxBytes \/ pos + n > Len(s) \/ ~Continues(s[pos + n])

(* Some byte of an integer is the last that is read.                       *)
LEMMA StopExists ==
  ASSUME NEW s \in Seq(Byte), NEW pos \in 0 .. Len(s)
  PROVE  \E n : Stop(s, pos, n)
<1> DEFINE S == {i \in 1 .. MaxBytes :
                  i = MaxBytes \/ pos + i > Len(s) \/ ~Continues(s[pos + i])}
<1>1. S \in SUBSET Nat /\ MaxBytes \in S
  BY Widths
<1>2. PICK n \in S : \A m \in S : n <= m
  <2> HIDE DEF S
  <2> QED BY <1>1, NatMinimum
<1>3. \A j \in 1 .. n - 1 : pos + j <= Len(s) /\ Continues(s[pos + j])
  <2> SUFFICES ASSUME NEW j \in 1 .. n - 1 PROVE pos + j <= Len(s) /\ Continues(s[pos + j])
    OBVIOUS
  <2>1. j \in 1 .. MaxBytes /\ j < n /\ pos + j \in Nat /\ Len(s) \in Nat
    BY Widths
  <2>2. j \notin S
    BY <1>2, <2>1
  <2> QED BY <2>1, <2>2
<1> QED BY <1>2, <1>3 DEF Stop

(* Every byte before the last one goes on.                                 *)
LEMMA ReadingTo ==
  ASSUME NEW s \in Seq(Byte), NEW pos \in 0 .. Len(s), NEW n, Stop(s, pos, n), n > 1
  PROVE  Reading(s, pos, n - 1)
<1>1. /\ n \in 1 .. MaxBytes
      /\ \A j \in 1 .. n - 1 : pos + j <= Len(s) /\ Continues(s[pos + j])
  BY DEF Stop
<1> DEFINE T == {i \in Nat : i + 1 < n => Reading(s, pos, i + 1)}
<1>2. 0 \in T
  BY <1>1, ReadingFirst, Widths
<1>3. \A i \in T : i + 1 \in T
  <2> SUFFICES ASSUME NEW i \in T, i + 1 + 1 < n PROVE Reading(s, pos, i + 1 + 1)
    OBVIOUS
  <2> DEFINE k == i + 1
  <2>1. k \in 1 .. MaxBytes - 2 /\ k + 1 \in 1 .. n - 1 /\ Reading(s, pos, k)
        /\ pos + k + 1 = pos + (k + 1)
    BY <1>1, Widths
  <2> HIDE DEF T, k
  <2>2. pos + k + 1 <= Len(s) /\ Continues(s[pos + k + 1])
    BY <1>1, <2>1
  <2>3. Reading(s, pos, k + 1)
    BY <2>1, <2>2, ReadingMore
  <2> QED BY <2>3 DEF k
<1>4. T = Nat
  <2>1. T \in SUBSET Nat
    OBVIOUS
  <2> HIDE DEF T
  <2> QED BY <1>2, <1>3, <2>1, NatInductionOnSets
<1>5. n - 2 \in Nat /\ n - 2 + 1 = n - 1 /\ n - 2 + 1 < n
  BY <1>1, Widths
<1>6. n - 2 \in T
  <2> HIDE DEF T
  <2> QED BY <1>4, <1>5
<1> QED BY <1>5, <1>6

(* ReadVarint takes the bytes an integer is written as, or goes no further *)
(* than the packet.                                                        *)
ReadsRight(s, pos, res) ==
  /\ res.err = "none" =>
       /\ res.val \in 0 .. Limit - 1
       /\ res.pos \in pos + 1 .. Len(s)
       /\ SubSeq(s, pos + 1, res.pos) = EncodeVarint[res.val]
  /\ res.err # "none" => res.err \in Errors /\ res.pos \in pos .. Len(s)

(* What ReadVarint returns, whatever the bytes are: the integer that is    *)
(* encoded there, or an error.                                             *)
LEMMA ReadReturns ==
  ASSUME NEW s \in Seq(Byte), NEW pos \in 0 .. Len(s)
  PROVE  ReadsRight(s, pos, ReadVarint(s, pos))
<1>1. PICK n : Stop(s, pos, n)
  BY StopExists
<1>2. /\ n \in 1 .. MaxBytes /\ n \in Nat /\ pos \in Nat /\ Len(s) \in Nat
      /\ n = MaxBytes \/ pos + n > Len(s) \/ ~Continues(s[pos + n])
      /\ \A j \in 1 .. n - 1 : pos + j <= Len(s) /\ Continues(s[pos + j])
  BY <1>1, Widths DEF Stop
<1>3. ReadVarint(s, pos) =
           IF pos + n > Len(s) THEN Err("UnexpectedEof", Len(s))
           ELSE IF n = MaxBytes /\ Group(s[pos + n]) >= TopGroup
             THEN Err("IntegerOverflow", pos + n)
           ELSE IF Continues(s[pos + n]) \/ (n > 1 /\ s[pos + n] = 0)
             THEN Err("InvalidVarInt", pos + n)
           ELSE Ok(pos + n, GroupSum(s, pos, n))
  BY <1>2, ReadIs, Zenon
<1> DEFINE b == s[pos + n]
           g == Group(b)
<1>4. CASE pos + n > Len(s)
  BY <1>2, <1>3, <1>4 DEF ReadsRight, Err, Errors
<1>5. CASE pos + n <= Len(s) /\ n = MaxBytes /\ g >= TopGroup
  <2>1. ReadVarint(s, pos) = Err("IntegerOverflow", pos + n)
    BY <1>2, <1>3, <1>5
  <2> QED BY <1>2, <1>5, <2>1 DEF ReadsRight, Err, Errors
<1>6. CASE /\ pos + n <= Len(s) /\ ~(n = MaxBytes /\ g >= TopGroup)
           /\ Continues(b) \/ (n > 1 /\ b = 0)
  <2>1. ReadVarint(s, pos) = Err("InvalidVarInt", pos + n)
    BY <1>2, <1>3, <1>6
  <2> QED BY <1>2, <1>6, <2>1 DEF ReadsRight, Err, Errors
<1>7. CASE /\ pos + n <= Len(s) /\ ~(n = MaxBytes /\ g >= TopGroup)
           /\ ~Continues(b) /\ ~(n > 1 /\ b = 0)
  <2> DEFINE sum == GroupSum(s, pos, n)
  <2>1. ReadVarint(s, pos) = Ok(pos + n, sum)
    BY <1>2, <1>3, <1>7
  <2>2. b \in Byte /\ pos + n \in pos + 1 .. Len(s)
    BY <1>2, <1>7
  <2>3. b \in 0 .. Base - 1 /\ g = b
    <3>1. b \in 0 .. Base - 1
      BY <1>7, <2>2, BaseFacts DEF Byte, Continues
    <3> HIDE DEF b
    <3>2. b \in Nat /\ 0 \in Nat /\ Base \in Nat \ {0} /\ 0 + b < Base
      BY <3>1, BaseFacts
    <3>3. b % Base = b
      BY <3>2, ModOfSmall
    <3> QED BY <3>1, <3>3 DEF Group
  <2> SUFFICES sum \in 0 .. Limit - 1 /\ SubSeq(s, pos + 1, pos + n) = EncodeVarint[sum]
    BY <2>1, <2>2 DEF ReadsRight, Ok
  <2>4. CASE n = 1
    <3>1. SumsTo(s, pos, 0, 0)
      BY SumsNothing
    <3> DEFINE x == Group(s[pos + 0 + 1]) * Weight[0]
    <3>2. x = b /\ x \in Nat
      BY <1>2, <2>3, <2>4, Widths
    <3>3. SumsTo(s, pos, 0 + 1, 0 + x)
      BY <3>1, <3>2, SumsMore
    <3> HIDE DEF x, b, g
    <3>4. 0 + 1 = 1 /\ 0 + x = b
      BY <2>3, <3>2
    <3>5. sum = b
      BY <2>3, <2>4, <3>3, <3>4, SumIsGroupSum
    <3>6. EncodeVarint[b] = <<b>>
      BY <2>3, EncodeLast
    <3>7. SubSeq(s, pos + 1, pos + n) = <<b>>
      BY <1>2, <2>2, <2>4, SingleByte DEF b
    <3>8. b < Limit
      <4> DEFINE w == Weight[1]
      <4>1. w = Base /\ 1 \in 0 .. MaxBytes - 1
        BY Widths
      <4>2. w <= Limit /\ Limit \in Nat
        BY <4>1, LimitIsNat
      <4> QED BY <2>3, <4>1, <4>2, BaseFacts
    <3> QED BY <2>3, <3>5, <3>6, <3>7, <3>8, LimitIsNat
  <2>5. CASE n > 1
    <3> DEFINE i == n - 1
               p == Weight[i]
               w == SubSeq(s, pos + 1, pos + i)
    <3>1. i \in 1 .. MaxBytes - 1 /\ n = i + 1 /\ i \in 0 .. MaxBytes - 1 /\ pos + n = pos + i + 1
      BY <1>2, <2>5, Widths
    <3>2. p \in Nat \ {0} /\ g \in 1 .. Base - 1
      <4>1. p \in Nat \ {0}
        BY <3>1, Widths
      <4>2. g \in 1 .. Base - 1
        BY <1>7, <2>3, <2>5
      <4> QED BY <4>1, <4>2
    <3>3. Reading(s, pos, i)
      BY <1>1, <2>5, ReadingTo
    <3>4. PICK r \in Nat : r < p /\ SumsTo(s, pos, i, r) /\ Writes(w, r, p)
      BY <3>3 DEF Reading
    <3> DEFINE x == g * p
               v == r + x
    <3>5. x \in Nat /\ v \in Nat
      <4> HIDE DEF p, g
      <4> QED BY <3>2, <3>4
    <3>6. sum = v
      <4>1. SumsTo(s, pos, i + 1, v)
        <5>1. i \in Nat /\ Group(s[pos + i + 1]) * Weight[i] = x
          BY <3>1
        <5> HIDE DEF i, x, p, g, b, w
        <5> QED BY <1>2, <3>4, <3>5, <5>1, SumsMore
      <4> HIDE DEF v, i
      <4> QED BY <1>2, <3>1, <3>5, <4>1, SumIsGroupSum
    <3>7. w \in Seq(Byte) /\ SubSeq(s, pos + 1, pos + n) = Append(w, b)
      BY <1>2, <2>2, <3>1, LastByte
    <3>8. EncodeVarint[v] = Append(w, g)
      <4> HIDE DEF g, p, w
      <4> QED BY <3>2, <3>4, <3>7, WritesLast
    <3>9. v < Limit
      <4>1. CASE n = MaxBytes
        <5>1. g < TopGroup /\ g \in Nat
          BY <1>7, <2>3, <4>1, Widths
        <5>2. v < TopGroup * p
          <6> HIDE DEF p, g
          <6> QED BY <3>2, <3>4, <5>1, Widths, GroupFits
        <5> QED BY <3>1, <4>1, <5>2 DEF Limit
      <4>2. CASE n # MaxBytes
        <5>1. n \in 1 .. MaxBytes - 1 /\ n \in 0 .. MaxBytes - 1
          BY <1>2, <4>2, Widths
        <5>2. Weight[n] = Base * p /\ Weight[n] <= Limit /\ Weight[n] \in Nat /\ Limit \in Nat
          BY <3>1, <5>1, WeightAssumption, LimitIsNat
        <5>3. v < Base * p
          <6> HIDE DEF p, g
          <6> QED BY <3>2, <3>4, BaseFacts, GroupFits
        <5> HIDE DEF v
        <5> QED BY <3>5, <5>2, <5>3
      <4> QED BY <4>1, <4>2
    <3>10. SubSeq(s, pos + 1, pos + n) = EncodeVarint[v]
      BY <2>3, <3>7, <3>8
    <3> HIDE DEF v, sum
    <3> QED BY <3>5, <3>6, <3>9, <3>10, LimitIsNat
  <2> QED BY <1>2, <2>4, <2>5
<1> QED BY <1>2, <1>4, <1>5, <1>6, <1>7

(* A sequence begins with its first part.                                  *)
LEMMA PrefixJoins ==
  ASSUME NEW e \in Bytes, NEW x \in Bytes
  PROVE  IsPrefix(e, e \o x)
<1> DEFINE m == Len(e)
           u == e \o x
           f == SubSeq(u, 1, m)
<1>1. /\ u \in Bytes /\ Len(u) = m + Len(x) /\ m \in Nat /\ Len(x) \in Nat
      /\ \A i \in 1 .. m : u[i] = e[i]
  BY JoinFacts
<1> HIDE DEF u
<1>2. f = Slice(u, 0, m)
  BY DEF Slice
<1>3. f \in Bytes /\ Len(f) = m /\ \A i \in 1 .. m : f[i] = u[i]
  <2> DEFINE g == Slice(u, 0, m)
  <2>1. 0 \in 0 .. Len(u) /\ m \in 0 .. Len(u) /\ m - 0 = m /\ \A i \in 1 .. m : 0 + i = i
    BY <1>1
  <2>2. g \in Bytes /\ Len(g) = m - 0 /\ \A i \in 1 .. m - 0 : g[i] = u[0 + i]
    BY <1>1, <2>1, SliceFacts
  <2> HIDE DEF g, m
  <2>3. g \in Bytes /\ Len(g) = m /\ \A i \in 1 .. m : g[i] = u[i]
    BY <2>1, <2>2
  <2> QED BY <1>2, <2>3 DEF g
<1> HIDE DEF f
<1>4. f = e
  BY <1>1, <1>3, SameBytes
<1>5. SubSeq(e, 1, m) = e
  BY DEF Bytes
<1> QED BY <1>1, <1>4, <1>5 DEF IsPrefix, u, f

(* The integer v, of which the packet goes on with the bytes, has the digit*)
(* h at byte n and all that comes after it.                                *)
Digit(s, pos, n, v, h) ==
  /\ pos + n <= Len(s)
  /\ s[pos + n] = EncodeVarint[h][1]
  /\ n = 1 => v = h
  /\ n > 1 => \E r \in Nat : h # 0 /\ v = r + h * Weight[n - 1] /\ SumsTo(s, pos, n - 1, r)

(* What an integer is written as is read as that integer, and nothing more *)
(* is read.                                                                *)
LEMMA ReadsBack ==
  ASSUME NEW s \in Bytes, NEW pos \in 0 .. Len(s), NEW v \in 0 .. Limit - 1,
         NEW x \in Bytes, From(s, pos) = EncodeVarint[v] \o x
  PROVE  ReadVarint(s, pos) = Ok(pos + Len(EncodeVarint[v]), v)
<1> DEFINE e == EncodeVarint[v]
           rest == SubSeq(s, pos + 1, Len(s))
<1>1. v \in Nat /\ e \in Seq(Byte) /\ e # << >> /\ s \in Seq(Byte)
  BY LimitIsNat, EncodeIsBytes, EncodeFirst DEF Bytes
<1>2. rest = e \o x /\ rest = From(s, pos)
  BY DEF From, Slice
<1>3. IsPrefix(e, rest)
  BY <1>1, <1>2, PrefixJoins DEF Bytes
<1>4. /\ rest \in Seq(Byte) /\ Len(rest) = Len(s) - pos /\ Len(s) \in Nat /\ pos \in Nat
      /\ \A i \in 1 .. Len(s) - pos : rest[i] = s[pos + i]
  <2>1. Len(s) \in pos .. Len(s) /\ Len(s) \in Nat
    BY DEF Bytes
  <2>2. /\ From(s, pos) \in Bytes /\ Len(From(s, pos)) = Len(s) - pos
        /\ \A i \in 1 .. Len(s) - pos : From(s, pos)[i] = s[pos + i]
    BY <2>1, SliceFacts DEF From
  <2> QED BY <1>2, <2>1, <2>2 DEF Bytes
<1> HIDE DEF rest
<1>5. PICK n : Stop(s, pos, n)
  BY <1>1, StopExists
<1>6. /\ n \in 1 .. MaxBytes /\ n \in Nat
      /\ n = MaxBytes \/ pos + n > Len(s) \/ ~Continues(s[pos + n])
      /\ \A j \in 1 .. n - 1 : pos + j <= Len(s) /\ Continues(s[pos + j])
  BY <1>5, Widths DEF Stop
<1> DEFINE b == s[pos + n]
           g == Group(b)
(* The digit of v at the byte where the reading stops. *)
<1>7. \E h \in Nat : Digit(s, pos, n, v, h)
  <2>1. CASE n = 1
    <3>1. IsPrefix(<< >> \o e, rest) /\ << >> \in Seq(Byte) /\ Len(<< >>) = 0
      BY <1>1, <1>3
    <3>2. Len(<< >>) < Len(rest) /\ rest[Len(<< >>) + 1] = e[1]
      <4>1. e \in Seq(Byte) /\ e # << >> /\ rest \in Seq(Byte)
        BY <1>1, <1>4
      <4> DEFINE none == << >>
      <4>2. IsPrefix(none \o e, rest) /\ none \in Seq(Byte)
        BY <3>1
      <4> HIDE DEF none, e
      <4>3. Len(none) < Len(rest) /\ rest[Len(none) + 1] = e[1]
        BY <4>1, <4>2, PrefixFirst
      <4> QED BY <4>3 DEF none
    <3>3. 0 < Len(rest) /\ rest[1] = e[1]
      BY <3>1, <3>2
    <3>4. pos + n <= Len(s) /\ 1 \in 1 .. Len(s) - pos
      <4>1. Len(rest) = Len(s) - pos /\ Len(s) \in Nat /\ pos \in Nat /\ 0 < Len(rest)
        BY <1>4, <3>3
      <4> QED BY <2>1, <4>1
    <3>5. b = e[1]
      BY <1>4, <2>1, <3>3, <3>4
    <3> QED BY <1>1, <2>1, <3>4, <3>5 DEF Digit
  <2>2. CASE n > 1
    <3> DEFINE i == n - 1
               p == Weight[i]
               w == SubSeq(s, pos + 1, pos + i)
    <3>1. i \in 1 .. MaxBytes - 1 /\ n = i + 1 /\ i \in 0 .. MaxBytes - 1 /\ i \in 1 .. n - 1
      BY <1>6, <2>2, Widths
    <3>0. pos + i <= Len(s) /\ pos + i \in Nat
      BY <1>4, <1>6, <3>1
    <3>2. Reading(s, pos, i)
      BY <1>1, <1>5, <2>2, ReadingTo
    <3>3. PICK r \in Nat : r < p /\ SumsTo(s, pos, i, r) /\ Writes(w, r, p) /\ OnlyFrom(rest, r, p)
      BY <3>2 DEF Reading, rest
    <3>4. w \in Seq(Byte) /\ Len(w) = i
      <4> DEFINE q == pos + i
      <4>1. q \in pos .. Len(s) /\ q - pos = i
        BY <1>4, <3>0, <3>1
      <4> HIDE DEF q
      <4>2. Slice(s, pos, q) \in Bytes /\ Len(Slice(s, pos, q)) = q - pos
        BY <4>1, SliceFacts
      <4>3. w = Slice(s, pos, q)
        BY DEF Slice, q
      <4> QED BY <4>1, <4>2, <4>3 DEF Bytes
    <3>5. p \in Nat \ {0}
      BY <3>1, Widths
    <3>6. GoesOn(w, r, p, rest, v)
      <4> HIDE DEF w, p
      <4> QED BY <1>1, <1>3, <1>4, <3>3, <3>4, <3>5, NextDigit
    <3>7. PICK h \in Nat \ {0} : /\ v = r + h * p /\ Len(w) < Len(rest)
                                 /\ rest[Len(w) + 1] = EncodeVarint[h][1]
      BY <3>6 DEF GoesOn
    <3>8. i < Len(s) - pos
      BY <1>4, <3>4, <3>7
    <3>9. n \in 1 .. Len(s) - pos /\ pos + n <= Len(s)
      BY <1>4, <3>1, <3>8
    <3>10. rest[n] = EncodeVarint[h][1]
      <4>1. Len(w) + 1 = n
        BY <3>1, <3>4
      <4> QED BY <3>7, <4>1
    <3>11. b = EncodeVarint[h][1]
      BY <1>4, <3>9, <3>10
    <3>12. \E z \in Nat : h # 0 /\ v = z + h * Weight[n - 1] /\ SumsTo(s, pos, n - 1, z)
      BY <3>3, <3>7
    <3> HIDE DEF b, i, p, w, e, g
    <3>13. Digit(s, pos, n, v, h)
      BY <2>2, <3>9, <3>11, <3>12, <1>6 DEF Digit, b
    <3> QED BY <3>13
  <2> QED BY <1>6, <2>1, <2>2
<1>8. PICK h \in Nat : Digit(s, pos, n, v, h)
  BY <1>7
<1>81. pos + n <= Len(s) /\ b = EncodeVarint[h][1] /\ (n = 1 => v = h)
  BY <1>8 DEF Digit
<1>9. b \in Byte
  BY <1>1, <1>4, <1>6, <1>81
<1>10. ~(n = MaxBytes /\ g >= TopGroup) /\ ~Continues(b) /\ ~(n > 1 /\ b = 0)
  <2>1. CASE n = 1
    BY <1>6, <1>81, <2>1, Widths
  <2>2. CASE n > 1
    <3> DEFINE i == n - 1
    <3>1. i \in 1 .. MaxBytes - 1 /\ (n = MaxBytes <=> i = MaxBytes - 1)
      BY <1>6, <2>2, Widths
    <3>2. PICK r \in Nat : h # 0 /\ v = r + h * Weight[i]
      BY <1>8, <2>2 DEF Digit
    <3>3. v < Limit
      BY LimitIsNat
    <3> DEFINE y == r + h * Weight[i]
    <3>4. y < Limit /\ y \in Nat
      BY <1>1, <3>2, <3>3
    <3>5. h \in Nat \ {0}
      BY <3>2
    <3>6. ~ \/ i = MaxBytes - 1 /\ Group(b) >= TopGroup
            \/ i = MaxBytes - 1 /\ Continues(b)
            \/ b = 0
      <4>1. SUFFICES ASSUME \/ i = MaxBytes - 1 /\ Group(b) >= TopGroup
                            \/ i = MaxBytes - 1 /\ Continues(b)
                            \/ b = 0
                     PROVE  FALSE
        OBVIOUS
      <4> HIDE DEF i, b
      <4>2. y >= Limit
        BY <1>81, <1>9, <3>1, <3>5, <4>1, RefusedDigit
      <4> HIDE DEF y
      <4> QED BY <3>4, <4>2, LimitIsNat
    <3> QED BY <1>6, <1>81, <2>2, <3>1, <3>6
  <2> QED BY <1>6, <2>1, <2>2
<1>11. ReadVarint(s, pos) = Ok(pos + n, GroupSum(s, pos, n))
  <2>1. ReadVarint(s, pos) =
           IF pos + n > Len(s) THEN Err("UnexpectedEof", Len(s))
           ELSE IF n = MaxBytes /\ Group(s[pos + n]) >= TopGroup
             THEN Err("IntegerOverflow", pos + n)
           ELSE IF Continues(s[pos + n]) \/ (n > 1 /\ s[pos + n] = 0)
             THEN Err("InvalidVarInt", pos + n)
           ELSE Ok(pos + n, GroupSum(s, pos, n))
    BY <1>4, <1>6, ReadIs, Zenon
  <2>2. ~(pos + n > Len(s))
    BY <1>4, <1>6, <1>81
  <2> QED BY <1>10, <2>1, <2>2
<1> DEFINE q == pos + n
           val == GroupSum(s, pos, n)
           e1 == EncodeVarint[val]
<1>12. val \in 0 .. Limit - 1 /\ q \in pos + 1 .. Len(s) /\ Slice(s, pos, q) = e1
  <2>1. ReadsRight(s, pos, ReadVarint(s, pos))
    BY <1>1, ReadReturns
  <2> QED BY <1>11, <2>1 DEF ReadsRight, Ok, Slice
<1>13. h = b /\ g = b
  <2>1. h = b
    BY <1>9, <1>10, <1>81, FirstByteBounds
  <2>2. b \in 0 .. Base - 1
    BY <1>9, <1>10, BaseFacts DEF Byte, Continues
  <2> HIDE DEF b
  <2>3. b \in Nat /\ 0 \in Nat /\ Base \in Nat \ {0} /\ 0 + b < Base
    BY <2>2, BaseFacts
  <2>4. b % Base = b
    BY <2>3, ModOfSmall
  <2> QED BY <2>1, <2>4 DEF Group
<1>14. val = v
  <2>1. CASE n = 1
    <3>1. SumsTo(s, pos, 0, 0)
      BY SumsNothing
    <3> DEFINE y == Group(s[pos + 0 + 1]) * Weight[0]
    <3>2. y = b /\ y \in Nat
      <4>1. s[pos + 0 + 1] = b
        BY <1>4, <2>1
      <4>2. g = b /\ b \in Nat /\ Weight[0] = 1
        BY <1>9, <1>13, Widths DEF Byte
      <4> HIDE DEF b
      <4> QED BY <4>1, <4>2
    <3>3. SumsTo(s, pos, 0 + 1, 0 + y)
      BY <1>4, <3>1, <3>2, SumsMore
    <3> HIDE DEF y, b, g
    <3>4. 0 + 1 = 1 /\ 0 + y = b
      BY <3>2
    <3> QED BY <1>1, <1>4, <1>13, <1>81, <2>1, <3>3, <3>4, SumIsGroupSum
  <2>2. CASE n > 1
    <3> DEFINE i == n - 1
               y == h * Weight[i]
    <3>1. i \in Nat /\ i + 1 = n /\ i \in 0 .. MaxBytes - 1
      BY <1>6, <2>2, Widths
    <3>2. PICK r \in Nat : v = r + y /\ SumsTo(s, pos, i, r)
      BY <1>8, <2>2 DEF Digit
    <3>3. y \in Nat
      <4>1. Weight[i] \in Nat
        BY <3>1, Widths
      <4> QED BY <4>1
    <3>4. Group(s[pos + i + 1]) * Weight[i] = y
      <4>1. pos + i + 1 = pos + n
        BY <1>4, <3>1
      <4> QED BY <1>13, <4>1
    <3> HIDE DEF i, y, b, g
    <3>5. SumsTo(s, pos, i + 1, r + y)
      BY <1>4, <3>1, <3>2, <3>3, <3>4, SumsMore
    <3> QED BY <1>1, <1>4, <3>1, <3>2, <3>5, SumIsGroupSum
  <2> QED BY <1>6, <2>1, <2>2
<1>15. Len(e) = q - pos /\ q = pos + (q - pos)
  <2>1. e1 = e
    BY <1>14
  <2>2. q \in pos .. Len(s)
    BY <1>4, <1>12
  <2> HIDE DEF q, e, e1
  <2>3. Len(Slice(s, pos, q)) = q - pos
    BY <2>2, SliceFacts
  <2> QED BY <1>4, <1>12, <2>1, <2>2, <2>3
<1> QED BY <1>11, <1>14, <1>15

(* Two integers that the same bytes begin with are the same.               *)
LEMMA IntegersArePrefixFree ==
  ASSUME NEW v \in 0 .. Limit - 1, NEW u \in 0 .. Limit - 1, NEW x \in Bytes, NEW y \in Bytes,
         EncodeVarint[v] \o x = EncodeVarint[u] \o y
  PROVE  v = u /\ x = y
<1> DEFINE e == EncodeVarint[v]
           f == EncodeVarint[u]
           s == e \o x
<1>1. e \in Bytes /\ f \in Bytes
  <2>1. v \in Nat /\ u \in Nat
    BY LimitIsNat
  <2> QED BY <2>1, EncodeIsBytes DEF Bytes
<1>2. s \in Bytes
  BY <1>1, JoinFacts
<1>3. s = e \o x /\ s = f \o y /\ From(s, 0) = s /\ 0 \in 0 .. Len(s)
  <2>1. s = e \o x /\ s = f \o y
    OBVIOUS
  <2> HIDE DEF s
  <2>2. From(s, 0) = s /\ Len(s) \in Nat
    BY <1>2, SliceAll DEF Bytes
  <2> QED BY <2>1, <2>2
<1> HIDE DEF s, e, f
<1>4. ReadVarint(s, 0) = Ok(0 + Len(e), v) /\ ReadVarint(s, 0) = Ok(0 + Len(f), u)
  <2>1. From(s, 0) = e \o x /\ From(s, 0) = f \o y
    BY <1>3
  <2> QED BY <1>2, <1>3, <2>1, ReadsBack DEF e, f
<1>5. v = u
  BY <1>4 DEF Ok
<1>6. e = f
  BY <1>5 DEF e, f
<1>7. e \o x = f \o y /\ Len(e) = Len(f)
  BY <1>3, <1>6
<1>8. x = y
  BY <1>1, <1>7, JoinCancels
<1> QED BY <1>5, <1>8

-----------------------------------------------------------------------------
(* Languages                                                               *)

(* A language is a set of encodings.  No encoding of a prefix-free language*)
(* goes on as another one: the bytes say where it ends.                    *)
PrefixFree(L) ==
  /\ L \subseteq Bytes
  /\ \A e \in L, f \in L, x \in Bytes, y \in Bytes : e \o x = f \o y => e = f

(* An encoding of the one language, and then one of the other.             *)
TwoOf(L, M) == {u \in Bytes : \E a \in L : \E b \in M : u = a \o b}

(* Two encodings in a row end where their parts end.                       *)
LEMMA TwoOfPrefixFree ==
  ASSUME NEW L, NEW M, PrefixFree(L), PrefixFree(M)
  PROVE  PrefixFree(TwoOf(L, M))
<1>1. L \subseteq Bytes /\ M \subseteq Bytes /\ TwoOf(L, M) \subseteq Bytes
  BY DEF PrefixFree, TwoOf
<1>2. ASSUME NEW e \in TwoOf(L, M), NEW f \in TwoOf(L, M), NEW x \in Bytes, NEW y \in Bytes,
             e \o x = f \o y
      PROVE  e = f
  <2>1. PICK a \in L : \E b \in M : e = a \o b
    BY DEF TwoOf
  <2>2. PICK b \in M : e = a \o b
    BY <2>1
  <2>3. PICK c \in L : \E d \in M : f = c \o d
    BY DEF TwoOf
  <2>4. PICK d \in M : f = c \o d
    BY <2>3
  <2>5. a \in Bytes /\ b \in Bytes /\ c \in Bytes /\ d \in Bytes
    BY <1>1
  <2> DEFINE u == b \o x
             v == d \o y
  <2>6. u \in Bytes /\ v \in Bytes
    BY <2>5, JoinFacts
  <2>7. Then(Then(a, b), x) = Then(a, Then(b, x))
    BY <2>5, ThenAssoc
  <2>8. Then(Then(c, d), y) = Then(c, Then(d, y))
    BY <2>5, ThenAssoc
  <2>9. a \o u = c \o v
    BY <1>2, <2>2, <2>4, <2>7, <2>8, Zenon DEF Then
  <2> HIDE DEF u, v
  <2>10. a = c
    BY <2>6, <2>9, Zenon DEF PrefixFree
  <2>11. a \o u = a \o v
    BY <2>9, <2>10
  <2>12. u = v
    BY <2>5, <2>6, <2>11, JoinCancels
  <2>13. b \o x = d \o y
    BY <2>12 DEF u, v
  <2>14. b = d
    BY <2>13, Zenon DEF PrefixFree
  <2> QED BY <2>2, <2>4, <2>10, <2>14
<1> QED BY <1>1, <1>2 DEF PrefixFree

(* The encodings of n items of the language, one after the other: what has *)
(* been written after each of them.                                        *)
Writing(f, L, n) ==
  /\ f \in [0 .. n -> Bytes]
  /\ f[0] = << >>
  /\ \A i \in 1 .. n : \E e \in L : f[i] = f[i - 1] \o e

Joined(L, n) == {u \in Bytes : \E f : Writing(f, L, n) /\ u = f[n]}

(* No items take no bytes.                                                 *)
LEMMA JoinedNone ==
  ASSUME NEW L
  PROVE  Joined(L, 0) = {<< >>}
<1>1. << >> \in Bytes
  BY DEF Bytes
<1>2. Writing([i \in 0 .. 0 |-> << >>], L, 0)
  BY <1>1 DEF Writing
<1>3. << >> \in Joined(L, 0)
  <2> DEFINE f == [i \in 0 .. 0 |-> << >>]
  <2>1. f[0] = << >>
    OBVIOUS
  <2> HIDE DEF f
  <2> QED BY <1>1, <1>2, <2>1 DEF Joined, f
<1>4. \A u \in Joined(L, 0) : u = << >>
  BY DEF Joined, Writing
<1> QED BY <1>3, <1>4

(* One more item at the end.                                               *)
LEMMA JoinedMore ==
  ASSUME NEW L, L \subseteq Bytes, NEW n \in Nat
  PROVE  Joined(L, n + 1) = TwoOf(Joined(L, n), L)
<1>1. ASSUME NEW u \in Joined(L, n + 1) PROVE u \in TwoOf(Joined(L, n), L)
  <2>1. PICK f : Writing(f, L, n + 1) /\ u = f[n + 1]
    BY DEF Joined
  <2> DEFINE g == [i \in 0 .. n |-> f[i]]
  <2>2. /\ f \in [0 .. n + 1 -> Bytes] /\ f[0] = << >>
        /\ \A i \in 1 .. n + 1 : \E e \in L : f[i] = f[i - 1] \o e
    BY <2>1 DEF Writing
  <2>3. Writing(g, L, n)
    <3>1. g \in [0 .. n -> Bytes] /\ g[0] = << >> /\ \A i \in 0 .. n : g[i] = f[i]
      BY <2>2
    <3> HIDE DEF g
    <3>2. ASSUME NEW i \in 1 .. n PROVE \E e \in L : g[i] = g[i - 1] \o e
      <4>1. i \in 1 .. n + 1 /\ i \in 0 .. n /\ i - 1 \in 0 .. n
        OBVIOUS
      <4> QED BY <2>2, <3>1, <4>1
    <3> QED BY <3>1, <3>2 DEF Writing
  <2>4. n \in 0 .. n /\ n \in 0 .. n + 1 /\ n + 1 \in 1 .. n + 1 /\ n + 1 - 1 = n
    OBVIOUS
  <2>5. g[n] = f[n] /\ f[n] \in Bytes
    BY <2>2, <2>4
  <2> HIDE DEF g
  <2>6. f[n] \in Joined(L, n)
    BY <2>3, <2>5 DEF Joined
  <2>61. PICK i \in 1 .. n + 1 : i = n + 1 /\ i - 1 = n
    BY <2>4
  <2>62. \E e \in L : f[i] = f[i - 1] \o e
    BY <2>2
  <2>7. PICK e \in L : f[n + 1] = f[n] \o e
    BY <2>61, <2>62
  <2> QED BY <2>1, <2>6, <2>7 DEF TwoOf, Joined
<1>2. ASSUME NEW u \in TwoOf(Joined(L, n), L) PROVE u \in Joined(L, n + 1)
  <2>1. PICK a \in Joined(L, n) : \E e \in L : u = a \o e
    BY DEF TwoOf
  <2>2. PICK e \in L : u = a \o e
    BY <2>1
  <2>3. PICK f : Writing(f, L, n) /\ a = f[n]
    BY DEF Joined
  <2>4. /\ f \in [0 .. n -> Bytes] /\ f[0] = << >>
        /\ \A i \in 1 .. n : \E d \in L : f[i] = f[i - 1] \o d
    BY <2>3 DEF Writing
  <2> DEFINE g == [i \in 0 .. n + 1 |-> IF i = n + 1 THEN u ELSE f[i]]
  <2>5. u \in Bytes
    BY DEF TwoOf
  <2>6. g \in [0 .. n + 1 -> Bytes] /\ (\A i \in 0 .. n : g[i] = f[i]) /\ g[n + 1] = u
        /\ 0 \in 0 .. n
    BY <2>4, <2>5
  <2> HIDE DEF g
  <2>7. ASSUME NEW i \in 1 .. n + 1 PROVE \E d \in L : g[i] = g[i - 1] \o d
    <3>1. CASE i = n + 1
      <4>1. i - 1 = n /\ n \in 0 .. n
        BY <3>1
      <4>2. g[i] = u /\ g[i - 1] = a
        BY <2>3, <2>6, <3>1, <4>1
      <4> QED BY <2>2, <4>2
    <3>2. CASE i # n + 1
      <4>1. i \in 1 .. n /\ i \in 0 .. n /\ i - 1 \in 0 .. n
        BY <3>2
      <4>2. g[i] = f[i] /\ g[i - 1] = f[i - 1]
        BY <2>6, <4>1
      <4> QED BY <2>4, <4>1, <4>2
    <3> QED BY <3>1, <3>2
  <2>8. Writing(g, L, n + 1)
    <3>1. g[0] = << >>
      BY <2>4, <2>6
    <3> QED BY <2>6, <2>7, <3>1 DEF Writing
  <2> QED BY <2>5, <2>6, <2>8 DEF Joined
<1> QED BY <1>1, <1>2

(* Items are bytes.                                                        *)
LEMMA JoinedBytes ==
  ASSUME NEW L, NEW n
  PROVE  Joined(L, n) \subseteq Bytes
BY DEF Joined

(* So many items in a row end where they end.                              *)
LEMMA JoinedPrefixFree ==
  ASSUME NEW L, PrefixFree(L), NEW n \in Nat
  PROVE  PrefixFree(Joined(L, n))
<1> DEFINE T == {m \in Nat : PrefixFree(Joined(L, m))}
<1>1. L \subseteq Bytes
  BY DEF PrefixFree
<1>2. PrefixFree(Joined(L, 0))
  <2>1. << >> \in Bytes
    BY DEF Bytes
  <2> QED BY <2>1, JoinedNone DEF PrefixFree
<1>3. ASSUME NEW m \in Nat, PrefixFree(Joined(L, m)) PROVE PrefixFree(Joined(L, m + 1))
  BY <1>1, <1>3, JoinedMore, TwoOfPrefixFree
<1>4. T = Nat
  <2>1. T \in SUBSET Nat /\ 0 \in T /\ \A m \in T : m + 1 \in T
    BY <1>2, <1>3
  <2> HIDE DEF T
  <2> QED BY <2>1, NatInductionOnSets
<1> QED BY <1>4

(* Three encodings in a row.                                               *)
LEMMA TwoOfAssoc ==
  ASSUME NEW L, NEW M, NEW N, L \subseteq Bytes, M \subseteq Bytes, N \subseteq Bytes
  PROVE  TwoOf(TwoOf(L, M), N) = TwoOf(L, TwoOf(M, N))
<1>1. ASSUME NEW u \in TwoOf(TwoOf(L, M), N) PROVE u \in TwoOf(L, TwoOf(M, N))
  <2>1. PICK ab \in TwoOf(L, M) : \E c \in N : u = ab \o c
    BY DEF TwoOf
  <2>2. PICK c \in N : u = ab \o c
    BY <2>1
  <2>3. PICK a \in L : \E b \in M : ab = a \o b
    BY DEF TwoOf
  <2>4. PICK b \in M : ab = a \o b
    BY <2>3
  <2>5. a \in Bytes /\ b \in Bytes /\ c \in Bytes /\ b \o c \in Bytes
    <3>1. a \in Bytes /\ b \in Bytes /\ c \in Bytes
      OBVIOUS
    <3> QED BY <3>1, JoinFacts
  <2>6. u = a \o (b \o c)
    <3>1. Then(Then(a, b), c) = Then(a, Then(b, c))
      BY <2>5, ThenAssoc
    <3> QED BY <2>2, <2>4, <3>1, Zenon DEF Then
  <2>7. b \o c \in TwoOf(M, N) /\ u \in Bytes
    BY <2>5 DEF TwoOf
  <2> QED BY <2>6, <2>7 DEF TwoOf
<1>2. ASSUME NEW u \in TwoOf(L, TwoOf(M, N)) PROVE u \in TwoOf(TwoOf(L, M), N)
  <2>1. PICK a \in L : \E bc \in TwoOf(M, N) : u = a \o bc
    BY DEF TwoOf
  <2>2. PICK bc \in TwoOf(M, N) : u = a \o bc
    BY <2>1
  <2>3. PICK b \in M : \E c \in N : bc = b \o c
    BY DEF TwoOf
  <2>4. PICK c \in N : bc = b \o c
    BY <2>3
  <2>5. a \in Bytes /\ b \in Bytes /\ c \in Bytes /\ a \o b \in Bytes
    <3>1. a \in Bytes /\ b \in Bytes /\ c \in Bytes
      OBVIOUS
    <3> QED BY <3>1, JoinFacts
  <2>6. u = (a \o b) \o c
    <3>1. Then(Then(a, b), c) = Then(a, Then(b, c))
      BY <2>5, ThenAssoc
    <3> QED BY <2>2, <2>4, <3>1, Zenon DEF Then
  <2>7. a \o b \in TwoOf(L, M) /\ u \in Bytes
    BY <2>5 DEF TwoOf
  <2> QED BY <2>6, <2>7 DEF TwoOf
<1> QED BY <1>1, <1>2

(* The first of the items is as well taken off as the last. *)
LEMMA JoinedFirst ==
  ASSUME NEW L, L \subseteq Bytes, NEW n \in Nat
  PROVE  Joined(L, n + 1) = TwoOf(L, Joined(L, n))
<1> DEFINE Turns(m) == Joined(L, m + 1) = TwoOf(L, Joined(L, m))
           T == {m \in Nat : Turns(m)}
<1>1. Turns(0)
  <2>1. Joined(L, 0 + 1) = TwoOf({<< >>}, L)
    BY JoinedMore, JoinedNone
  <2>2. << >> \in Bytes
    BY DEF Bytes
  <2>3. \A a \in L : a \in Bytes /\ a \o << >> = a /\ << >> \o a = a
    BY JoinEmpty
  <2>4. TwoOf({<< >>}, L) = L /\ TwoOf(L, {<< >>}) = L
    <3>1. \A u : u \in TwoOf({<< >>}, L) <=> u \in L
      BY <2>3 DEF TwoOf
    <3>2. \A u : u \in TwoOf(L, {<< >>}) <=> u \in L
      BY <2>3 DEF TwoOf
    <3> QED BY <3>1, <3>2
  <2> QED BY <2>1, <2>4, JoinedNone
<1>2. ASSUME NEW m \in Nat, Turns(m) PROVE Turns(m + 1)
  <2> DEFINE J == Joined(L, m)
  <2>1. J \subseteq Bytes
    BY JoinedBytes
  <2>2. Joined(L, m + 1 + 1) = TwoOf(Joined(L, m + 1), L) /\ Joined(L, m + 1) = TwoOf(J, L)
    BY JoinedMore
  <2>3. Joined(L, m + 1) = TwoOf(L, J)
    BY <1>2
  <2> HIDE DEF J
  <2>4. TwoOf(TwoOf(L, J), L) = TwoOf(L, TwoOf(J, L))
    BY <2>1, TwoOfAssoc
  <2> QED BY <2>2, <2>3, <2>4
<1> HIDE DEF Turns
<1>3. T = Nat
  <2>1. T \in SUBSET Nat /\ 0 \in T /\ \A m \in T : m + 1 \in T
    BY <1>1, <1>2
  <2> HIDE DEF T
  <2> QED BY <2>1, NatInductionOnSets
<1>4. Turns(n)
  BY <1>3
<1> QED BY <1>4 DEF Turns

(* Where the bytes go on with items, and one of them is next. *)
LEMMA NextOfJoined ==
  ASSUME NEW L, PrefixFree(L), NEW n \in Nat, NEW s \in Bytes, NEW p \in 0 .. Len(s),
         NEW q \in p .. Len(s), From(s, p) \in Joined(L, n + 1), Slice(s, p, q) \in L
  PROVE  From(s, q) \in Joined(L, n)
<1> DEFINE a == Slice(s, p, q)
           x == From(s, q)
           u == From(s, p)
<1>1. u = a \o x /\ a \in Bytes /\ x \in Bytes
  BY FromSplits
<1>2. u \in TwoOf(L, Joined(L, n))
  BY JoinedFirst DEF PrefixFree
<1>3. PICK e \in L : \E y \in Joined(L, n) : u = e \o y
  BY <1>2 DEF TwoOf
<1>4. PICK y \in Joined(L, n) : u = e \o y
  BY <1>3
<1>5. e \in Bytes /\ y \in Bytes
  BY JoinedBytes DEF PrefixFree
<1>6. a \in L
  OBVIOUS
<1> HIDE DEF a, x, u
<1>7. a \o x = e \o y
  BY <1>1, <1>4
<1>8. a = e
  BY <1>1, <1>5, <1>6, <1>7, Zenon DEF PrefixFree
<1>9. x = y
  <2>1. a \o x = a \o y
    BY <1>7, <1>8
  <2> QED BY <1>1, <1>5, <2>1, JoinCancels
<1>10. x \in Joined(L, n)
  BY <1>4, <1>9
<1> QED BY <1>10 DEF x

(* An integer n, and then an encoding of the n-th language.                *)
Headed(F) ==
  {u \in Bytes : \E n \in 0 .. Limit - 1 : \E w \in F[n] : u = EncodeVarint[n] \o w}

(* An integer, and what it announces.                                      *)
LEMMA HeadedPrefixFree ==
  ASSUME NEW F, \A n \in 0 .. Limit - 1 : PrefixFree(F[n])
  PROVE  PrefixFree(Headed(F))
<1>1. Headed(F) \subseteq Bytes
  BY DEF Headed
<1>2. ASSUME NEW e \in Headed(F), NEW f \in Headed(F), NEW x \in Bytes, NEW y \in Bytes,
             e \o x = f \o y
      PROVE  e = f
  <2>1. PICK n \in 0 .. Limit - 1 : \E w \in F[n] : e = EncodeVarint[n] \o w
    BY DEF Headed
  <2>2. PICK w \in F[n] : e = EncodeVarint[n] \o w
    BY <2>1
  <2>3. PICK m \in 0 .. Limit - 1 : \E v \in F[m] : f = EncodeVarint[m] \o v
    BY DEF Headed
  <2>4. PICK v \in F[m] : f = EncodeVarint[m] \o v
    BY <2>3
  <2> DEFINE a == EncodeVarint[n]
             b == EncodeVarint[m]
  <2>5. a \in Bytes /\ b \in Bytes
    <3>1. n \in Nat /\ m \in Nat
      BY LimitIsNat
    <3> QED BY <3>1, EncodeIsBytes DEF Bytes
  <2>6. w \in Bytes /\ v \in Bytes
    BY DEF PrefixFree
  <2> DEFINE u == w \o x
             z == v \o y
  <2>7. u \in Bytes /\ z \in Bytes
    BY <2>6, JoinFacts
  <2>8. e = a \o w /\ f = b \o v
    BY <2>2, <2>4
  <2>9. /\ Then(Then(a, w), x) = Then(a, Then(w, x))
        /\ Then(Then(b, v), y) = Then(b, Then(v, y))
    <3> HIDE DEF a, b
    <3>1. Then(Then(a, w), x) = Then(a, Then(w, x))
      BY <2>5, <2>6, ThenAssoc
    <3>2. Then(Then(b, v), y) = Then(b, Then(v, y))
      BY <2>5, <2>6, ThenAssoc
    <3> QED BY <3>1, <3>2
  <2>10. a \o u = b \o z
    BY <1>2, <2>8, <2>9, Zenon DEF Then
  <2> HIDE DEF u, z
  <2>11. n = m /\ u = z
    <3>1. EncodeVarint[n] \o u = EncodeVarint[m] \o z
      BY <2>10
    <3>2. \A v1 \in 0 .. Limit - 1, u1 \in 0 .. Limit - 1, x1 \in Bytes, y1 \in Bytes :
            EncodeVarint[v1] \o x1 = EncodeVarint[u1] \o y1 => v1 = u1 /\ x1 = y1
      BY IntegersArePrefixFree
    <3> HIDE DEF a, b
    <3>3. n \in 0 .. Limit - 1 /\ m \in 0 .. Limit - 1
      OBVIOUS
    <3>4. \A x1 \in Bytes, y1 \in Bytes :
            EncodeVarint[n] \o x1 = EncodeVarint[m] \o y1 => n = m /\ x1 = y1
      BY <3>2, <3>3
    <3> QED BY <2>7, <3>1, <3>4, Zenon
  <2>12. w \o x = v \o y
    BY <2>11 DEF u, z
  <2>13. v \in F[n]
    BY <2>11
  <2>14. w = v
    <3>1. PrefixFree(F[n])
      OBVIOUS
    <3> QED BY <2>12, <2>13, <3>1, Zenon DEF PrefixFree
  <2> QED BY <2>2, <2>4, <2>11, <2>14
<1> QED BY <1>1, <1>2 DEF PrefixFree

(* Some number of bytes, a length and its bytes, a count and its items, and*)
(* nothing or an item.                                                     *)
Exactly(n) == {u \in Bytes : Len(u) = n}
Sized == Headed([n \in 0 .. Limit - 1 |-> Exactly(n)])
Counted(L) == Headed([n \in 0 .. Limit - 1 |-> Joined(L, n)])
Marked(L) == {<<0>>} \cup {u \in Bytes : \E a \in L : u = <<1>> \o a}

(* So many bytes end where they end.                                       *)
LEMMA ExactlyPrefixFree ==
  ASSUME NEW n
  PROVE  PrefixFree(Exactly(n))
<1>1. ASSUME NEW e \in Exactly(n), NEW f \in Exactly(n), NEW x \in Bytes, NEW y \in Bytes,
             e \o x = f \o y
      PROVE  e = f
  <2>1. e \in Bytes /\ f \in Bytes /\ Len(e) = Len(f)
    BY DEF Exactly
  <2> QED BY <1>1, <2>1, JoinCancels
<1> QED BY <1>1 DEF PrefixFree, Exactly

(* So do bytes after their length,                                         *)
LEMMA SizedPrefixFree == PrefixFree(Sized)
<1> DEFINE F == [n \in 0 .. Limit - 1 |-> Exactly(n)]
<1>1. \A n \in 0 .. Limit - 1 : PrefixFree(F[n])
  BY ExactlyPrefixFree
<1> HIDE DEF F
<1>2. PrefixFree(Headed(F))
  BY <1>1, HeadedPrefixFree
<1> QED BY <1>2 DEF F, Sized

(* items after their count,                                                *)
LEMMA CountedPrefixFree ==
  ASSUME NEW L, PrefixFree(L)
  PROVE  PrefixFree(Counted(L))
<1> DEFINE F == [n \in 0 .. Limit - 1 |-> Joined(L, n)]
<1>1. \A n \in 0 .. Limit - 1 : PrefixFree(F[n])
  <2>1. \A n \in 0 .. Limit - 1 : n \in Nat
    BY LimitIsNat
  <2> QED BY <2>1, JoinedPrefixFree
<1> HIDE DEF F
<1>2. PrefixFree(Headed(F))
  BY <1>1, HeadedPrefixFree
<1> QED BY <1>2 DEF F, Counted

(* The two markers are different first bytes.                              *)
LEMMA OneByte ==
  /\ <<0>> \in Bytes /\ <<1>> \in Bytes
  /\ \A x \in Bytes : (<<0>> \o x)[1] = 0 /\ (<<1>> \o x)[1] = 1
<1>1. 0 \in Byte /\ 1 \in Byte
  BY BaseFacts DEF Byte
<1>2. <<0>> \in Bytes /\ <<1>> \in Bytes
  BY <1>1 DEF Bytes
<1>3. ASSUME NEW x \in Bytes PROVE (<<0>> \o x)[1] = 0 /\ (<<1>> \o x)[1] = 1
  <2>1. 1 \in 1 .. Len(<<0>>) /\ 1 \in 1 .. Len(<<1>>)
    OBVIOUS
  <2>2. (<<0>> \o x)[1] = <<0>>[1] /\ (<<1>> \o x)[1] = <<1>>[1]
    BY <1>2, <2>1, JoinFacts
  <2> QED BY <2>2
<1> QED BY <1>2, <1>3

(* and an item after its marker.                                           *)
LEMMA MarkedPrefixFree ==
  ASSUME NEW L, PrefixFree(L)
  PROVE  PrefixFree(Marked(L))
<1>0. L \subseteq Bytes
  BY DEF PrefixFree
<1>1. Marked(L) \subseteq Bytes
  BY OneByte DEF Marked
<1>2. ASSUME NEW e \in Marked(L), NEW f \in Marked(L), NEW x \in Bytes, NEW y \in Bytes,
             e \o x = f \o y
      PROVE  e = f
  <2>1. ASSUME NEW g \in Marked(L), NEW z \in Bytes
        PROVE  \/ g = <<0>> /\ (g \o z)[1] = 0
               \/ (g \o z)[1] = 1 /\ \E a \in L : g = <<1>> \o a
    <3>1. CASE g = <<0>>
      BY <3>1, OneByte
    <3>2. CASE \E a \in L : g = <<1>> \o a
      <4>1. PICK a \in L : g = <<1>> \o a
        BY <3>2
      <4>2. a \in Bytes /\ a \o z \in Bytes
        <5>1. a \in Bytes
          BY <1>0
        <5> QED BY <5>1, JoinFacts
      <4>3. g \o z = <<1>> \o (a \o z)
        <5> DEFINE one == <<1>>
        <5>1. one \in Bytes /\ g = one \o a
          BY <4>1, OneByte
        <5> HIDE DEF one
        <5>2. Then(Then(one, a), z) = Then(one, Then(a, z))
          BY <4>2, <5>1, ThenAssoc
        <5> QED BY <5>1, <5>2, Zenon DEF Then, one
      <4>4. (g \o z)[1] = 1
        BY <4>2, <4>3, OneByte
      <4> QED BY <4>1, <4>4
    <3> QED BY <3>1, <3>2 DEF Marked
  <2> DEFINE s == e \o x
  <2>2. \/ e = <<0>> /\ s[1] = 0
        \/ s[1] = 1 /\ \E a \in L : e = <<1>> \o a
    BY <2>1
  <2>3. \/ f = <<0>> /\ s[1] = 0
        \/ s[1] = 1 /\ \E a \in L : f = <<1>> \o a
    <3>1. s = f \o y
      BY <1>2
    <3> HIDE DEF s
    <3> QED BY <2>1, <3>1
  <2>4. CASE s[1] = 0
    BY <2>2, <2>3, <2>4
  <2>5. CASE s[1] = 1
    <3>1. PICK a \in L : e = <<1>> \o a
      BY <2>2, <2>5
    <3>2. PICK b \in L : f = <<1>> \o b
      BY <2>3, <2>5
    <3>3. a \in Bytes /\ b \in Bytes
      BY <1>0
    <3> DEFINE u == a \o x
               v == b \o y
    <3>4. u \in Bytes /\ v \in Bytes
      BY <3>3, JoinFacts
    <3>5. e \o x = <<1>> \o u /\ f \o y = <<1>> \o v
      <4>1. <<1>> \in Bytes
        BY OneByte
      <4> DEFINE one == <<1>>
      <4>2. one \in Bytes /\ e = one \o a /\ f = one \o b
        BY <3>1, <3>2, <4>1
      <4> HIDE DEF one
      <4>3. Then(Then(one, a), x) = Then(one, Then(a, x))
        BY <3>3, <4>2, ThenAssoc
      <4>4. Then(Then(one, b), y) = Then(one, Then(b, y))
        BY <3>3, <4>2, ThenAssoc
      <4> QED BY <4>2, <4>3, <4>4, Zenon DEF Then, one
    <3>6. <<1>> \o u = <<1>> \o v
      BY <1>2, <3>5
    <3> HIDE DEF u, v
    <3>7. u = v
      BY <3>4, <3>6, OneByte, JoinCancels
    <3>8. a \o x = b \o y
      BY <3>7 DEF u, v
    <3>9. a = b
      BY <3>8, Zenon DEF PrefixFree
    <3> QED BY <3>1, <3>2, <3>9
  <2> QED BY <2>2, <2>4, <2>5
<1> QED BY <1>1, <1>2 DEF PrefixFree
=============================================================================
