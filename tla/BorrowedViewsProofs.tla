------------------------ MODULE BorrowedViewsProofs ------------------------
(***************************************************************************)
(* The walk over borrowed views, for every packet, schema type and limit.  *)
(*                                                                         *)
(* The scan of a view and the decode of its items are two readers of the   *)
(* same bytes.  They meet because what each of them takes is an encoding   *)
(* of the same language, and because the language is prefix-free: the bytes*)
(* alone say where an encoding ends.  The languages of the types follow    *)
(* from those of VarIntDecoderProofs, of integers and of sequences, by     *)
(* recursion over the types; what a reader takes (Returns) follows from its*)
(* code, by recursion over the types and over the items; and the invariant *)
(* of the walk is that what is left of a view are its remaining items.     *)
(* That the walk and the owned decode agree on the value takes a smaller   *)
(* language: the canonical encodings, with the keys of each map in order.  *)
(* A walk without an Err shows that the packet is one (WalksAreDecoded),   *)
(* unless a map was copied out of a view: the owned decode of an item, as  *)
(* that of a field, takes its keys in any order, and only what it gives    *)
(* back is canonical.  On a canonical packet the borrowed decode and its   *)
(* iterators return no Err (DecodedWalks).                                 *)
(***************************************************************************)
EXTENDS BorrowedViews, VarIntDecoderProofs

-----------------------------------------------------------------------------
(* The languages of the types                                              *)

(* The types, each above its parts. *)
Below == [t \in Types |-> Parts(t)]

(* A type and its parts, from TypesAssumption.                             *)
LEMMA PartsAre ==
  ASSUME NEW t \in Types
  PROVE  /\ t.k \in {"u8", "str", "fixed", "option", "vec", "map"}
         /\ t.k = "fixed" => t.n \in Nat
         /\ t.k \in {"option", "vec"} => t.of \in Types /\ t.of \in Parts(t)
         /\ t.k = "map" => /\ t.of \in Types /\ t.of \in Parts(t)
                           /\ t.key \in Types /\ t.key \in Parts(t)
                           /\ t.key.k \in {"u8", "str"}
         /\ Parts(t) \subseteq Types
<1>1. /\ t.k \in {"u8", "str", "fixed", "option", "vec", "map"}
      /\ t.k = "fixed" => t.n \in Nat
      /\ t.k = "map" => t.key.k \in {"u8", "str"}
      /\ Parts(t) \subseteq Types
  BY TypesAssumption
<1>2. t.k \in {"option", "vec"} => t.of \in Parts(t)
  BY DEF Parts
<1>3. t.k = "map" => t.of \in Parts(t) /\ t.key \in Parts(t)
  BY DEF Parts
<1> QED BY <1>1, <1>2, <1>3

(* Types are trees.                                                        *)
LEMMA BelowWellFounded ==
  Below \in [Types -> SUBSET Types] /\ WellFounded(Types, Below)
<1>1. \A t \in Types : Parts(t) \in SUBSET Types
  BY TypesAssumption
<1>2. Below \in [Types -> SUBSET Types] /\ \A t \in Types : Below[t] = Parts(t)
  BY <1>1 DEF Below
<1>3. WellFounded(Types, Below)
  <2> SUFFICES ASSUME NEW T \in SUBSET Types, T # {}
               PROVE  \E t \in T : Below[t] \cap T = {}
    BY DEF WellFounded
  <2>1. PICK t \in T : Parts(t) \cap T = {}
    BY TypesAssumption
  <2> QED BY <1>2, <2>1
<1> QED BY <1>2, <1>3

(* What holds of a type as soon as it holds of its parts holds of all types.*)
LEMMA TypeInduction ==
  ASSUME NEW T \in SUBSET Types, \A t \in Types : Parts(t) \subseteq T => t \in T
  PROVE  T = Types
<1>1. \A t \in Types : Below[t] = Parts(t)
  BY DEF Below
<1>2. \A t \in Types : Below[t] \subseteq T => t \in T
  BY <1>1
<1>3. \A t \in Types : Below[t] \subseteq Types
  BY BelowWellFounded
<1> QED BY <1>2, <1>3, BelowWellFounded, TreeInduction

(* A recursion over the types whose right side looks at the parts only.    *)
LooksAtParts(V, Step) ==
  \A t \in Types, g \in [Types -> V], h \in [Types -> V] :
    (\A p \in Parts(t) : g[p] = h[p]) => Step[t][g] = Step[t][h]

(* A recursion over the types has a solution.                              *)
LEMMA TypeRecursion ==
  ASSUME NEW V, V # {}, NEW Step \in [Types -> [[Types -> V] -> V]], LooksAtParts(V, Step)
  PROVE  \E f : Solves(f, Types, V, Step)
<1>1. \A t \in Types : Below[t] = Parts(t)
  BY DEF Below
<1>2. LocalTo(Types, V, Below, Step)
  <2> SUFFICES ASSUME NEW t \in Types, NEW g \in [Types -> V], NEW h \in [Types -> V],
                      \A p \in Below[t] : g[p] = h[p]
               PROVE  Step[t][g] = Step[t][h]
    BY DEF LocalTo
  <2>1. \A p \in Parts(t) : g[p] = h[p]
    BY <1>1
  <2> QED BY <2>1 DEF LooksAtParts
<1>3. IsRecursion(Types, V, Below, Step)
  BY <1>2, BelowWellFounded DEF IsRecursion
<1> QED BY <1>3, RecursiveFunctionExists

(* What an owned value of the type may be encoded as, with the entries of a*)
(* map in any order: in terms of the encodings of its parts.               *)
OwnForm(t, g) ==
  CASE t.k = "u8" -> Exactly(1)
    [] t.k = "str" -> Sized
    [] t.k = "fixed" -> Exactly(t.n)
    [] t.k = "option" -> Marked(g[t.of])
    [] t.k = "vec" -> Counted(g[t.of])
    [] t.k = "map" -> Counted(TwoOf(g[t.key], g[t.of]))

OwnForms == [t \in Types |-> [g \in [Types -> SUBSET Bytes] |-> OwnForm(t, g)]]
Encoded == CHOOSE f : Solves(f, Types, SUBSET Bytes, OwnForms)

(* What the scan of a borrowed value, or of an item, takes.                *)
LazyForm(t, g) ==
  CASE Borrowed(t) \in {"str", "bytes"} -> Sized
    [] Borrowed(t) = "view" /\ t.k = "map" -> Counted(TwoOf(g[t.key], g[t.of]))
    [] Borrowed(t) = "view" /\ t.k = "vec" -> Counted(g[t.of])
    [] OTHER -> Encoded[t]

LazyForms == [t \in Types |-> [g \in [Types -> SUBSET Bytes] |-> LazyForm(t, g)]]
Scanned == CHOOSE f : Solves(f, Types, SUBSET Bytes, LazyForms)

(* Languages are sets of bytes.                                            *)
LEMMA FormsAreBytes ==
  /\ \A n : Exactly(n) \in SUBSET Bytes
  /\ Sized \in SUBSET Bytes
  /\ \A L \in SUBSET Bytes : Marked(L) \in SUBSET Bytes
  /\ \A L \in SUBSET Bytes : Counted(L) \in SUBSET Bytes
  /\ \A L, M : TwoOf(L, M) \in SUBSET Bytes
<1>1. \A F : Headed(F) \in SUBSET Bytes
  BY DEF Headed
<1>2. Sized \in SUBSET Bytes
  BY <1>1 DEF Sized
<1>3. \A L \in SUBSET Bytes : Counted(L) \in SUBSET Bytes
  BY <1>1 DEF Counted
<1>4. \A L \in SUBSET Bytes : Marked(L) \in SUBSET Bytes
  BY OneByte DEF Marked
<1>5. \A n : Exactly(n) \in SUBSET Bytes
  BY DEF Exactly
<1>6. \A L, M : TwoOf(L, M) \in SUBSET Bytes
  BY DEF TwoOf
<1> QED BY <1>2, <1>3, <1>4, <1>5, <1>6

(* OwnForm by the kind of the type.                                        *)
LEMMA OwnFormIs ==
  ASSUME NEW t \in Types, NEW g
  PROVE  /\ t.k = "u8" => OwnForm(t, g) = Exactly(1)
         /\ t.k = "str" => OwnForm(t, g) = Sized
         /\ t.k = "fixed" => OwnForm(t, g) = Exactly(t.n)
         /\ t.k = "option" => OwnForm(t, g) = Marked(g[t.of])
         /\ t.k = "vec" => OwnForm(t, g) = Counted(g[t.of])
         /\ t.k = "map" => OwnForm(t, g) = Counted(TwoOf(g[t.key], g[t.of]))
BY DEF OwnForm

(* The kinds of types, and what the borrowed API makes of them.            *)
LEMMA BorrowedIs ==
  ASSUME NEW t \in Types
  PROVE  /\ Borrowed(t) \in {"str", "bytes", "view", "owned"}
         /\ Borrowed(t) = "str" <=> t.k = "str"
         /\ Borrowed(t) = "bytes" => t.k = "fixed" \/ t.k = "vec"
         /\ Borrowed(t) = "view" => t.k = "map" \/ (t.k = "vec" /\ ~IsByteVec(t))
         /\ Borrowed(t) = "owned" <=> t.k \in {"u8", "option"}
BY PartsAre DEF Borrowed, IsByteVec

(* LazyForm by the borrowed type.                                          *)
LEMMA LazyFormIs ==
  ASSUME NEW t \in Types, NEW g
  PROVE  /\ Borrowed(t) \in {"str", "bytes"} => LazyForm(t, g) = Sized
         /\ Borrowed(t) = "view" /\ t.k = "map" => LazyForm(t, g) = Counted(TwoOf(g[t.key], g[t.of]))
         /\ Borrowed(t) = "view" /\ t.k = "vec" => LazyForm(t, g) = Counted(g[t.of])
         /\ Borrowed(t) = "owned" => LazyForm(t, g) = Encoded[t]
<1>1. Borrowed(t) = "view" => t.k = "map" \/ t.k = "vec"
  BY BorrowedIs
<1> QED BY <1>1 DEF LazyForm

(* Encoded is the solution of its equation.                                *)
LEMMA EncodedIs ==
  /\ Encoded \in [Types -> SUBSET Bytes]
  /\ \A t \in Types : Encoded[t] = OwnForm(t, Encoded)
<1> DEFINE V == SUBSET Bytes
<1>1. V # {}
  OBVIOUS
<1>2. ASSUME NEW t \in Types, NEW g \in [Types -> V] PROVE OwnForm(t, g) \in V
  <2>1. t.k \in {"option", "vec"} => g[t.of] \in V
    BY PartsAre
  <2>2. t.k = "map" => g[t.of] \in V /\ g[t.key] \in V
    BY PartsAre
  <2> QED BY <2>1, <2>2, PartsAre, OwnFormIs, FormsAreBytes
<1>3. ASSUME NEW t \in Types, NEW g \in [Types -> V], NEW h \in [Types -> V],
             \A p \in Parts(t) : g[p] = h[p]
      PROVE  OwnForm(t, g) = OwnForm(t, h)
  <2>1. t.k \in {"option", "vec"} => g[t.of] = h[t.of]
    BY <1>3, PartsAre
  <2>2. t.k = "map" => g[t.of] = h[t.of] /\ g[t.key] = h[t.key]
    BY <1>3, PartsAre
  <2> QED BY <2>1, <2>2, PartsAre, OwnFormIs
<1> HIDE DEF V
<1>4. \A t \in Types, g \in [Types -> V] : OwnForms[t][g] = OwnForm(t, g)
  BY DEF OwnForms, V
<1>5. OwnForms \in [Types -> [[Types -> V] -> V]]
  BY <1>2 DEF OwnForms, V
<1>6. LooksAtParts(V, OwnForms)
  <2> SUFFICES ASSUME NEW t \in Types, NEW g \in [Types -> V], NEW h \in [Types -> V],
                      \A p \in Parts(t) : g[p] = h[p]
               PROVE  OwnForms[t][g] = OwnForms[t][h]
    BY DEF LooksAtParts
  <2> QED BY <1>3, <1>4
<1>7. \E f : Solves(f, Types, V, OwnForms)
  BY <1>1, <1>5, <1>6, TypeRecursion
<1>8. Solves(Encoded, Types, V, OwnForms)
  BY <1>7, Zenon DEF Encoded, V
<1> QED BY <1>4, <1>8 DEF Solves, V

(* Scanned is the solution of its equation.                                *)
LEMMA ScannedIs ==
  /\ Scanned \in [Types -> SUBSET Bytes]
  /\ \A t \in Types : Scanned[t] = LazyForm(t, Scanned)
<1> DEFINE V == SUBSET Bytes
<1>1. V # {}
  OBVIOUS
<1>2. ASSUME NEW t \in Types, NEW g \in [Types -> V] PROVE LazyForm(t, g) \in V
  <2>1. t.k = "vec" => g[t.of] \in V
    BY PartsAre
  <2>2. t.k = "map" => g[t.of] \in V /\ g[t.key] \in V
    BY PartsAre
  <2>3. Encoded[t] \in V
    BY EncodedIs
  <2> QED BY <2>1, <2>2, <2>3, BorrowedIs, LazyFormIs, FormsAreBytes
<1>3. ASSUME NEW t \in Types, NEW g \in [Types -> V], NEW h \in [Types -> V],
             \A p \in Parts(t) : g[p] = h[p]
      PROVE  LazyForm(t, g) = LazyForm(t, h)
  <2>1. t.k \in {"option", "vec"} => g[t.of] = h[t.of]
    BY <1>3, PartsAre
  <2>2. t.k = "map" => g[t.of] = h[t.of] /\ g[t.key] = h[t.key]
    BY <1>3, PartsAre
  <2> QED BY <2>1, <2>2, BorrowedIs, LazyFormIs
<1> HIDE DEF V
<1>4. \A t \in Types, g \in [Types -> V] : LazyForms[t][g] = LazyForm(t, g)
  BY DEF LazyForms, V
<1>5. LazyForms \in [Types -> [[Types -> V] -> V]]
  BY <1>2 DEF LazyForms, V
<1>6. LooksAtParts(V, LazyForms)
  <2> SUFFICES ASSUME NEW t \in Types, NEW g \in [Types -> V], NEW h \in [Types -> V],
                      \A p \in Parts(t) : g[p] = h[p]
               PROVE  LazyForms[t][g] = LazyForms[t][h]
    BY DEF LooksAtParts
  <2> QED BY <1>3, <1>4
<1>7. \E f : Solves(f, Types, V, LazyForms)
  BY <1>1, <1>5, <1>6, TypeRecursion
<1>8. Solves(Scanned, Types, V, LazyForms)
  BY <1>7, Zenon DEF Scanned, V
<1> QED BY <1>4, <1>8 DEF Solves, V

(* An owned value ends where it ends, whatever follows it.                 *)
LEMMA EncodedPrefixFree ==
  ASSUME NEW t \in Types
  PROVE  PrefixFree(Encoded[t])
<1> DEFINE T == {p \in Types : PrefixFree(Encoded[p])}
<1>1. ASSUME NEW p \in Types, Parts(p) \subseteq T PROVE p \in T
  <2>1. Encoded[p] = OwnForm(p, Encoded)
    BY EncodedIs
  <2>2. p.k \in {"option", "vec"} => PrefixFree(Encoded[p.of])
    BY <1>1, PartsAre
  <2>3. p.k = "map" => PrefixFree(TwoOf(Encoded[p.key], Encoded[p.of]))
    BY <1>1, PartsAre, TwoOfPrefixFree
  <2>4. CASE p.k \in {"u8", "str", "fixed"}
    BY <2>1, <2>4, OwnFormIs, ExactlyPrefixFree, SizedPrefixFree
  <2>5. CASE p.k = "option"
    BY <2>1, <2>2, <2>5, OwnFormIs, MarkedPrefixFree
  <2>6. CASE p.k = "vec"
    BY <2>1, <2>2, <2>6, OwnFormIs, CountedPrefixFree
  <2>7. CASE p.k = "map"
    BY <2>1, <2>3, <2>7, OwnFormIs, CountedPrefixFree
  <2> QED BY <2>4, <2>5, <2>6, <2>7, PartsAre
<1>2. T \in SUBSET Types
  OBVIOUS
<1> HIDE DEF T
<1>3. T = Types
  BY <1>1, <1>2, TypeInduction
<1> QED BY <1>3 DEF T

(* So does what a scan takes.                                              *)
LEMMA ScannedPrefixFree ==
  ASSUME NEW t \in Types
  PROVE  PrefixFree(Scanned[t])
<1> DEFINE T == {p \in Types : PrefixFree(Scanned[p])}
<1>1. ASSUME NEW p \in Types, Parts(p) \subseteq T PROVE p \in T
  <2>1. Scanned[p] = LazyForm(p, Scanned)
    BY ScannedIs
  <2>2. p.k \in {"option", "vec"} => PrefixFree(Scanned[p.of])
    BY <1>1, PartsAre
  <2>3. p.k = "map" => PrefixFree(TwoOf(Scanned[p.key], Scanned[p.of]))
    BY <1>1, PartsAre, TwoOfPrefixFree
  <2>4. CASE Borrowed(p) \in {"str", "bytes"}
    BY <2>1, <2>4, LazyFormIs, SizedPrefixFree
  <2>5. CASE Borrowed(p) = "view" /\ p.k = "vec"
    BY <2>1, <2>2, <2>5, LazyFormIs, CountedPrefixFree
  <2>6. CASE Borrowed(p) = "view" /\ p.k = "map"
    BY <2>1, <2>3, <2>6, LazyFormIs, CountedPrefixFree
  <2>7. CASE Borrowed(p) = "owned"
    BY <2>1, <2>7, LazyFormIs, EncodedPrefixFree
  <2> QED BY <2>4, <2>5, <2>6, <2>7, BorrowedIs
<1>2. T \in SUBSET Types
  OBVIOUS
<1> HIDE DEF T
<1>3. T = Types
  BY <1>1, <1>2, TypeInduction
<1> QED BY <1>3 DEF T

-----------------------------------------------------------------------------
(* What the operations of the Decoder return                               *)

(* The outcomes of the readers at position p of the packet s, with views of*)
(* W, that take an encoding of the language L when they return no Err.     *)
Failures == {"UnexpectedEof", "IntegerOverflow", "InvalidVarInt", "PacketTooLarge",
             "InvalidUtf8", "MalformedConstructor"}
Codes == Failures \cup {"none"}
Outcome(s, W) == [err : Codes, pos : 0 .. Len(s), val : Bytes, key : Bytes, view : W]

Returns(res, s, p, W, L) ==
  /\ res \in Outcome(s, W)
  /\ res.pos >= p
  /\ res.err = "none" => Slice(s, p, res.pos) \in L

NoView == {<< >>}

(* No bytes are bytes.                                                     *)
LEMMA EmptyBytes == << >> \in Bytes
BY DEF Bytes

(* An Err takes nothing of a language.                                     *)
LEMMA ErrorReturns ==
  ASSUME NEW s \in Bytes, NEW p \in 0 .. Len(s), NEW q \in p .. Len(s), NEW W, << >> \in W,
         NEW L, NEW error \in Failures
  PROVE  Returns(Error(error, q), s, p, W, L) /\ Error(error, q).err # "none"
<1>1. q \in 0 .. Len(s) /\ q >= p
  BY DEF Bytes
<1>2. error \in Codes /\ error # "none"
  BY DEF Codes, Failures
<1> QED BY <1>1, <1>2, EmptyBytes DEF Returns, Error, Outcome

(* A value takes the bytes up to its position.                             *)
LEMMA ValueReturns ==
  ASSUME NEW s \in Bytes, NEW p \in 0 .. Len(s), NEW q \in p .. Len(s), NEW W, << >> \in W,
         NEW L, NEW val \in Bytes, NEW key \in Bytes, Slice(s, p, q) \in L
  PROVE  Returns(Value(q, val, key), s, p, W, L)
<1>1. q \in 0 .. Len(s) /\ q >= p
  BY DEF Bytes
<1>2. "none" \in Codes
  BY DEF Codes
<1> QED BY <1>1, <1>2, EmptyBytes DEF Returns, Value, Outcome

(* The one byte that read_u8 takes is its value.                           *)
LEMMA ReadU8Returns ==
  ASSUME NEW s \in Bytes, NEW p \in 0 .. Len(s)
  PROVE  /\ Returns(ReadU8(s, p), s, p, NoView, Exactly(1))
         /\ ReadU8(s, p).err = "none" =>
              /\ ReadU8(s, p).val = Slice(s, p, ReadU8(s, p).pos)
              /\ ReadU8(s, p).key = ReadU8(s, p).val
              /\ \E b \in Byte : ReadU8(s, p).val = <<b>>
<1> DEFINE q == p + 1
<1>0. Len(s) \in Nat /\ << >> \in NoView
  BY DEF Bytes, NoView
<1>1. CASE p = Len(s)
  <2>1. ReadU8(s, p) = Error("UnexpectedEof", p)
    BY <1>1 DEF ReadU8
  <2>2. p \in p .. Len(s) /\ "UnexpectedEof" \in Failures
    BY <1>1 DEF Failures
  <2>3. Returns(Error("UnexpectedEof", p), s, p, NoView, Exactly(1))
    BY <1>0, <2>2, ErrorReturns
  <2>4. Error("UnexpectedEof", p).err # "none"
    BY DEF Error
  <2> QED BY <2>1, <2>3, <2>4
<1>2. CASE p # Len(s)
  <2> DEFINE x == <<s[p + 1]>>
  <2>1. q \in p .. Len(s) /\ q - p = 1 /\ p + 1 <= Len(s)
    BY <1>0, <1>2
  <2>2. Slice(s, p, q) = x
    BY <2>1, SingleByte DEF Slice, Bytes
  <2>3. Slice(s, p, q) \in Exactly(1)
    <3> HIDE DEF q
    <3> QED BY <2>1, SliceFacts DEF Exactly
  <2>4. x \in Bytes /\ \E b \in Byte : x = <<b>>
    BY <1>0, <2>1 DEF Bytes
  <2>5. ReadU8(s, p) = Value(q, x, x)
    BY <1>2 DEF ReadU8
  <2> HIDE DEF q, x
  <2>6. Returns(Value(q, x, x), s, p, NoView, Exactly(1))
    BY <1>0, <2>1, <2>3, <2>4, ValueReturns
  <2>7. Value(q, x, x).pos = q /\ Value(q, x, x).val = x /\ Value(q, x, x).key = x
    BY DEF Value
  <2> QED BY <2>2, <2>4, <2>5, <2>6, <2>7
<1> QED BY <1>1, <1>2

(* ReadBytes without its Try.                                              *)
LEMMA ReadBytesIs ==
  ASSUME NEW s, NEW p, NEW lim
  PROVE  LET len == ReadVarint(s, p) IN
         ReadBytes(s, p, lim) =
           IF len.err # "none" THEN Error(len.err, len.pos)
           ELSE IF len.val > lim.field THEN Error("PacketTooLarge", len.pos)
           ELSE IF len.pos + len.val > Len(s) THEN Error("UnexpectedEof", len.pos)
           ELSE LET slice == SubSeq(s, len.pos + 1, len.pos + len.val)
                IN  Value(len.pos + len.val, EncodeVarint[len.val] \o slice, slice)
<1> DEFINE len == ReadVarint(s, p)
<1> HIDE DEF len
<1> QED BY DEF ReadBytes, ReadSlice, Try, Value, Error, len

(* The bytes that read_slice takes are its value.                          *)
LEMMA ReadSliceReturns ==
  ASSUME NEW s \in Bytes, NEW p \in 0 .. Len(s), NEW n \in Nat
  PROVE  /\ Returns(ReadSlice(s, p, n), s, p, NoView, Exactly(n))
         /\ ReadSlice(s, p, n).err = "none" =>
              /\ ReadSlice(s, p, n).pos = p + n
              /\ ReadSlice(s, p, n).val = Slice(s, p, p + n)
              /\ ReadSlice(s, p, n).key = Slice(s, p, p + n)
<1> DEFINE q == p + n
           x == Slice(s, p, q)
<1>0. Len(s) \in Nat /\ << >> \in NoView
  BY DEF Bytes, NoView
<1>1. CASE p + n > Len(s)
  <2>1. ReadSlice(s, p, n) = Error("UnexpectedEof", p)
    BY <1>1 DEF ReadSlice
  <2>2. p \in p .. Len(s) /\ "UnexpectedEof" \in Failures
    BY <1>0 DEF Failures
  <2>3. Returns(Error("UnexpectedEof", p), s, p, NoView, Exactly(n))
    BY <1>0, <2>2, ErrorReturns
  <2>4. Error("UnexpectedEof", p).err # "none"
    BY DEF Error
  <2> QED BY <2>1, <2>3, <2>4
<1>2. CASE ~(p + n > Len(s))
  <2>1. q \in p .. Len(s) /\ q - p = n
    BY <1>0, <1>2
  <2>2. x \in Exactly(n) /\ x \in Bytes
    <3> HIDE DEF q
    <3> QED BY <2>1, SliceFacts DEF Exactly
  <2>3. ReadSlice(s, p, n) = Value(q, x, x)
    BY <1>2 DEF ReadSlice, Slice
  <2> HIDE DEF q
  <2>4. Returns(Value(q, x, x), s, p, NoView, Exactly(n))
    BY <1>0, <2>1, <2>2, ValueReturns
  <2>5. Value(q, x, x).pos = q /\ Value(q, x, x).val = x /\ Value(q, x, x).key = x
    BY DEF Value
  <2> HIDE DEF x
  <2>6. /\ Returns(ReadSlice(s, p, n), s, p, NoView, Exactly(n))
        /\ ReadSlice(s, p, n).pos = q
        /\ ReadSlice(s, p, n).val = x
        /\ ReadSlice(s, p, n).key = x
    BY <2>3, <2>4, <2>5
  <2> QED BY <2>6 DEF q, x
<1> QED BY <1>1, <1>2

(* What has been read when an integer has been read.                       *)
IntegerRead(res, s, p) ==
  /\ res.err = "none" =>
       /\ res.val \in 0 .. Limit - 1 /\ res.val \in Nat
       /\ res.pos \in p .. Len(s) /\ res.pos \in 0 .. Len(s)
       /\ Slice(s, p, res.pos) = EncodeVarint[res.val]
       /\ EncodeVarint[res.val] \in Bytes
  /\ res.err # "none" => res.err \in Failures /\ res.pos \in p .. Len(s)

(* The bytes of an integer that has been read are its encoding.            *)
LEMMA VarintRead ==
  ASSUME NEW s \in Bytes, NEW p \in 0 .. Len(s)
  PROVE  IntegerRead(ReadVarint(s, p), s, p)
<1> DEFINE res == ReadVarint(s, p)
<1>1. ReadsRight(s, p, res)
  BY ReadReturns DEF Bytes
<1> HIDE DEF res
<1>2. CASE res.err = "none"
  <2>1. /\ res.val \in 0 .. Limit - 1 /\ res.pos \in p + 1 .. Len(s)
        /\ SubSeq(s, p + 1, res.pos) = EncodeVarint[res.val]
    BY <1>1, <1>2 DEF ReadsRight
  <2>2. res.val \in Nat
    BY <2>1, LimitIsNat
  <2>3. EncodeVarint[res.val] \in Bytes
    BY <2>2, EncodeIsBytes DEF Bytes
  <2>4. res.pos \in p .. Len(s) /\ res.pos \in 0 .. Len(s)
    BY <2>1 DEF Bytes
  <2> QED BY <1>2, <2>1, <2>2, <2>3, <2>4 DEF IntegerRead, Slice, res
<1>3. CASE res.err # "none"
  BY <1>1, <1>3 DEF ReadsRight, IntegerRead, Errors, Failures, res
<1> QED BY <1>2, <1>3

(* ReadCount without its Try.                                              *)
LEMMA CountIs ==
  ASSUME NEW s, NEW p, NEW lim
  PROVE  LET count == ReadVarint(s, p) IN
         ReadCount(s, p, lim) =
           IF count.err # "none" THEN Error(count.err, count.pos)
           ELSE IF count.val > lim.items THEN Error("PacketTooLarge", count.pos)
           ELSE count
<1> DEFINE count == ReadVarint(s, p)
<1> HIDE DEF count
<1> QED BY DEF ReadCount, Try, count

(* A count is an integer within the limit.                                 *)
LEMMA CountRead ==
  ASSUME NEW s \in Bytes, NEW p \in 0 .. Len(s), NEW lim
  PROVE  /\ IntegerRead(ReadCount(s, p, lim), s, p)
         /\ ReadCount(s, p, lim).err = "none" =>
              ReadCount(s, p, lim) = ReadVarint(s, p) /\ ~(ReadVarint(s, p).val > lim.items)
<1> DEFINE count == ReadVarint(s, p)
           res == ReadCount(s, p, lim)
<1>1. IntegerRead(count, s, p)
  BY VarintRead
<1>2. res = IF count.err # "none" THEN Error(count.err, count.pos)
            ELSE IF count.val > lim.items THEN Error("PacketTooLarge", count.pos)
            ELSE count
  BY CountIs
<1> HIDE DEF count, res
<1>3. CASE count.err # "none"
  <2>1. res.err = count.err /\ res.pos = count.pos
    BY <1>2, <1>3 DEF Error
  <2> QED BY <1>1, <1>3, <2>1 DEF IntegerRead, count, res
<1>4. CASE count.err = "none" /\ count.val > lim.items
  <2>1. res.err = "PacketTooLarge" /\ res.pos = count.pos
    BY <1>2, <1>4 DEF Error
  <2>2. count.pos \in p .. Len(s)
    BY <1>1, <1>4 DEF IntegerRead
  <2> QED BY <2>1, <2>2 DEF IntegerRead, Failures, count, res
<1>5. CASE count.err = "none" /\ ~(count.val > lim.items)
  <2>1. res = count
    BY <1>2, <1>5
  <2> QED BY <1>1, <1>5, <2>1 DEF count, res
<1> QED BY <1>3, <1>4, <1>5

(* An integer, and then an encoding of the language that it chooses.       *)
LEMMA HeadedRead ==
  ASSUME NEW s \in Bytes, NEW p \in 0 .. Len(s), NEW m \in p .. Len(s), NEW q \in m .. Len(s),
         NEW n \in 0 .. Limit - 1, Slice(s, p, m) = EncodeVarint[n],
         NEW F, Slice(s, m, q) \in F[n]
  PROVE  Slice(s, p, q) \in Headed(F) /\ Slice(s, p, q) = EncodeVarint[n] \o Slice(s, m, q)
<1>1. Slice(s, p, q) = Slice(s, p, m) \o Slice(s, m, q)
  BY SliceJoin
<1>2. q \in p .. Len(s)
  BY DEF Bytes
<1>3. Slice(s, p, q) \in Bytes
  BY <1>2, SliceFacts
<1>4. Slice(s, p, q) = EncodeVarint[n] \o Slice(s, m, q)
  BY <1>1
<1> QED BY <1>3, <1>4 DEF Headed

(* The length and the bytes that bytes() takes are its value.              *)
LEMMA ReadBytesReturns ==
  ASSUME NEW s \in Bytes, NEW p \in 0 .. Len(s), NEW lim
  PROVE  /\ Returns(ReadBytes(s, p, lim), s, p, NoView, Sized)
         /\ ReadBytes(s, p, lim).err = "none" =>
              ReadBytes(s, p, lim).val = Slice(s, p, ReadBytes(s, p, lim).pos)
<1> DEFINE len == ReadVarint(s, p)
           res == ReadBytes(s, p, lim)
<1>0. Len(s) \in Nat /\ << >> \in NoView
  BY DEF Bytes, NoView
<1>1. IntegerRead(len, s, p)
  BY VarintRead
<1>2. res = IF len.err # "none" THEN Error(len.err, len.pos)
            ELSE IF len.val > lim.field THEN Error("PacketTooLarge", len.pos)
            ELSE IF len.pos + len.val > Len(s) THEN Error("UnexpectedEof", len.pos)
            ELSE LET slice == SubSeq(s, len.pos + 1, len.pos + len.val)
                 IN  Value(len.pos + len.val, EncodeVarint[len.val] \o slice, slice)
  BY ReadBytesIs
<1> HIDE DEF len, res
<1>3. len.pos \in p .. Len(s)
  BY <1>1 DEF IntegerRead
<1>4. CASE \/ len.err # "none"
           \/ len.val > lim.field
           \/ len.pos + len.val > Len(s)
  <2>1. PICK error \in Failures : res = Error(error, len.pos)
    BY <1>1, <1>2, <1>4 DEF IntegerRead, Failures
  <2>2. Returns(res, s, p, NoView, Sized) /\ res.err # "none"
    BY <1>0, <1>3, <2>1, ErrorReturns
  <2> QED BY <2>2 DEF res
<1>5. CASE /\ len.err = "none"
           /\ ~(len.val > lim.field)
           /\ ~(len.pos + len.val > Len(s))
  <2> DEFINE m == len.pos
             n == len.val
             q == m + n
             x == Slice(s, m, q)
             e == EncodeVarint[n]
             F == [k \in 0 .. Limit - 1 |-> Exactly(k)]
  <2>1. /\ n \in 0 .. Limit - 1 /\ n \in Nat /\ m \in 0 .. Len(s) /\ e \in Bytes
        /\ Slice(s, p, m) = e
    BY <1>1, <1>5 DEF IntegerRead
  <2>2. res = Value(q, e \o x, x)
    BY <1>2, <1>5 DEF Slice
  <2>3. q \in m .. Len(s) /\ q - m = n /\ q \in p .. Len(s)
    BY <1>0, <1>3, <1>5, <2>1
  <2> HIDE DEF m, n, q
  <2>4. x \in Exactly(n) /\ x \in Bytes
    BY <2>1, <2>3, SliceFacts DEF Exactly
  <2>5. F[n] = Exactly(n)
    BY <2>1
  <2> HIDE DEF F
  <2>6. m \in p .. Len(s)
    BY <1>3 DEF m
  <2>7. Slice(s, p, q) \in Headed(F) /\ Slice(s, p, q) = e \o x
    <3>1. Slice(s, m, q) \in F[n] /\ Slice(s, p, m) = EncodeVarint[n]
      BY <2>1, <2>4, <2>5
    <3> QED BY <2>1, <2>3, <2>6, <3>1, HeadedRead
  <2> HIDE DEF e, x
  <2>8. Slice(s, p, q) \in Sized
    BY <2>7 DEF Sized, F
  <2>9. e \o x \in Bytes
    BY <2>1, <2>4, JoinFacts
  <2> DEFINE val == e \o x
  <2> HIDE DEF val
  <2>10. Returns(Value(q, val, x), s, p, NoView, Sized)
    BY <1>0, <2>3, <2>4, <2>8, <2>9, ValueReturns DEF val
  <2>11. Value(q, val, x).pos = q /\ Value(q, val, x).val = val
    BY DEF Value
  <2>12. Returns(res, s, p, NoView, Sized) /\ res.pos = q /\ res.val = Slice(s, p, q)
    BY <2>2, <2>7, <2>10, <2>11 DEF val
  <2> QED BY <2>12 DEF res
<1> QED BY <1>4, <1>5

(* ReadString without its Try.                                             *)
LEMMA ReadStringIs ==
  ASSUME NEW s, NEW p, NEW lim
  PROVE  LET res == ReadBytes(s, p, lim) IN
         ReadString(s, p, lim) =
           IF res.err # "none" THEN Error(res.err, res.pos)
           ELSE IF NotUtf8 \in Range(res.key) THEN Error("InvalidUtf8", res.pos)
           ELSE res
<1> DEFINE res == ReadBytes(s, p, lim)
<1> HIDE DEF res
<1> QED BY DEF ReadString, Try, res

(* The parts of an outcome.                                                *)
LEMMA ReturnsParts ==
  ASSUME NEW s \in Bytes, NEW p \in 0 .. Len(s), NEW W, NEW L, NEW res, Returns(res, s, p, W, L)
  PROVE  /\ res.pos \in p .. Len(s) /\ res.pos \in 0 .. Len(s)
         /\ res.val \in Bytes /\ res.key \in Bytes /\ res.view \in W
         /\ res.err = "none" => Slice(s, p, res.pos) \in L
         /\ res.err # "none" => res.err \in Failures
<1>1. /\ res.err \in Codes /\ res.pos \in 0 .. Len(s) /\ res.val \in Bytes /\ res.key \in Bytes
      /\ res.view \in W /\ res.pos >= p
  BY DEF Returns, Outcome
<1>2. res.pos \in p .. Len(s)
  BY <1>1 DEF Bytes
<1> QED BY <1>1, <1>2 DEF Returns, Codes

(* A string takes what its bytes take.                                     *)
LEMMA ReadStringReturns ==
  ASSUME NEW s \in Bytes, NEW p \in 0 .. Len(s), NEW lim
  PROVE  /\ Returns(ReadString(s, p, lim), s, p, NoView, Sized)
         /\ ReadString(s, p, lim).err = "none" =>
              ReadString(s, p, lim).val = Slice(s, p, ReadString(s, p, lim).pos)
<1> DEFINE res == ReadBytes(s, p, lim)
           out == ReadString(s, p, lim)
<1>0. << >> \in NoView
  BY DEF NoView
<1>1. Returns(res, s, p, NoView, Sized) /\ (res.err = "none" => res.val = Slice(s, p, res.pos))
  BY ReadBytesReturns
<1>2. out = IF res.err # "none" THEN Error(res.err, res.pos)
            ELSE IF NotUtf8 \in Range(res.key) THEN Error("InvalidUtf8", res.pos)
            ELSE res
  BY ReadStringIs
<1> HIDE DEF res, out
<1>3. res.pos \in p .. Len(s) /\ (res.err # "none" => res.err \in Failures)
  BY <1>1, ReturnsParts
<1>4. CASE res.err # "none" \/ NotUtf8 \in Range(res.key)
  <2>1. PICK error \in Failures : out = Error(error, res.pos)
    BY <1>2, <1>3, <1>4 DEF Failures
  <2>2. Returns(out, s, p, NoView, Sized) /\ out.err # "none"
    BY <1>0, <1>3, <2>1, ErrorReturns
  <2> QED BY <2>2 DEF out
<1>5. CASE res.err = "none" /\ NotUtf8 \notin Range(res.key)
  <2>1. out = res
    BY <1>2, <1>5
  <2> QED BY <1>1, <2>1 DEF out
<1> QED BY <1>4, <1>5

-----------------------------------------------------------------------------
(* Readers, and readers of several items                                   *)

(* A reader of the packet: what it returns at each position.               *)
ReaderOf(reader, s, W, L) ==
  /\ DOMAIN reader = 0 .. Len(s)
  /\ \A p \in 0 .. Len(s) : Returns(reader[p], s, p, W, L)

(* An outcome is one of a greater language too.                            *)
LEMMA ReturnsWider ==
  ASSUME NEW s, NEW p, NEW V, NEW W, V \subseteq W, NEW L, NEW M, L \subseteq M,
         NEW res, Returns(res, s, p, V, L)
  PROVE  Returns(res, s, p, W, M)
BY DEF Returns, Outcome

(* Two reads, one after the other. *)
LEMMA BothRead ==
  ASSUME NEW s \in Bytes, NEW p \in 0 .. Len(s), NEW m \in p .. Len(s), NEW q \in m .. Len(s),
         NEW L, NEW M, Slice(s, p, m) \in L, Slice(s, m, q) \in M
  PROVE  Slice(s, p, q) \in TwoOf(L, M) /\ Slice(s, p, q) = Slice(s, p, m) \o Slice(s, m, q)
<1>1. Slice(s, p, q) = Slice(s, p, m) \o Slice(s, m, q)
  BY SliceJoin
<1>2. q \in p .. Len(s)
  BY DEF Bytes
<1>3. Slice(s, p, q) \in Bytes
  BY <1>2, SliceFacts
<1> QED BY <1>1, <1>3 DEF TwoOf

(* A reader after an outcome; the value is that of both.                   *)
After(reader, x, key) ==
  IF x.err # "none" THEN Error(x.err, x.pos)
  ELSE IF reader[x.pos].err # "none" THEN Error(reader[x.pos].err, reader[x.pos].pos)
  ELSE Value(reader[x.pos].pos, x.val \o reader[x.pos].val, key)

(* The two reads take an encoding of each language.                        *)
LEMMA AfterReturns ==
  ASSUME NEW s \in Bytes, NEW p \in 0 .. Len(s), NEW V, NEW W, << >> \in W, NEW L, NEW M,
         NEW x, NEW U, Returns(x, s, p, U, L), NEW reader, ReaderOf(reader, s, V, M),
         NEW key \in Bytes
  PROVE  Returns(After(reader, x, key), s, p, W, TwoOf(L, M))
<1> DEFINE y == reader[x.pos]
           res == After(reader, x, key)
           N == TwoOf(L, M)
<1>1. /\ x.pos \in p .. Len(s) /\ x.pos \in 0 .. Len(s) /\ x.val \in Bytes
      /\ x.err = "none" => Slice(s, p, x.pos) \in L
      /\ x.err # "none" => x.err \in Failures
  BY ReturnsParts
<1>2. Returns(y, s, x.pos, V, M)
  BY <1>1 DEF ReaderOf
<1> HIDE DEF y
<1>3. /\ y.pos \in x.pos .. Len(s) /\ y.val \in Bytes
      /\ y.err = "none" => Slice(s, x.pos, y.pos) \in M
      /\ y.err # "none" => y.err \in Failures
  BY <1>1, <1>2, ReturnsParts
<1>4. res = IF x.err # "none" THEN Error(x.err, x.pos)
            ELSE IF y.err # "none" THEN Error(y.err, y.pos)
            ELSE Value(y.pos, x.val \o y.val, key)
  BY DEF After, y
<1> HIDE DEF res, N
<1>5. y.pos \in p .. Len(s)
  BY <1>1, <1>3 DEF Bytes
<1>6. CASE x.err # "none"
  <2>1. Returns(Error(x.err, x.pos), s, p, W, N)
    BY <1>1, <1>6, ErrorReturns
  <2> QED BY <1>4, <1>6, <2>1 DEF res, N
<1>7. CASE x.err = "none" /\ y.err # "none"
  <2>1. Returns(Error(y.err, y.pos), s, p, W, N)
    BY <1>3, <1>5, <1>7, ErrorReturns
  <2> QED BY <1>4, <1>7, <2>1 DEF res, N
<1>8. CASE x.err = "none" /\ y.err = "none"
  <2> DEFINE val == x.val \o y.val
             m == x.pos
             q == y.pos
  <2>1. val \in Bytes
    BY <1>1, <1>3, JoinFacts
  <2>2. m \in p .. Len(s) /\ q \in m .. Len(s) /\ Slice(s, p, m) \in L /\ Slice(s, m, q) \in M
    BY <1>1, <1>3, <1>8
  <2> HIDE DEF val, m, q
  <2>3. Slice(s, p, q) \in N
    BY <2>2, BothRead DEF N
  <2>4. q \in p .. Len(s)
    BY <1>5 DEF q
  <2>5. Returns(Value(q, val, key), s, p, W, N)
    BY <2>1, <2>3, <2>4, ValueReturns
  <2> QED BY <1>4, <1>8, <2>5 DEF res, N, q, val
<1> QED BY <1>6, <1>7, <1>8

(* Pair without its Try.                                                   *)
LEMMA PairIs ==
  ASSUME NEW keys, NEW values, NEW p \in DOMAIN keys
  PROVE  Pair(keys, values)[p] = After(values, keys[p], keys[p].key)
<1>1. Pair(keys, values)[p] =
        IF keys[p].err # "none" THEN Error(keys[p].err, keys[p].pos)
        ELSE IF values[keys[p].pos].err # "none"
          THEN Error(values[keys[p].pos].err, values[keys[p].pos].pos)
        ELSE Value(values[keys[p].pos].pos, keys[p].val \o values[keys[p].pos].val, keys[p].key)
  BY DEF Pair, Try
<1> QED BY <1>1 DEF After

(* Two readers, one after the other, are a reader.                         *)
LEMMA PairReads ==
  ASSUME NEW s \in Bytes, NEW U, NEW V, NEW L, NEW M, NEW keys, NEW values,
         ReaderOf(keys, s, U, L), ReaderOf(values, s, V, M)
  PROVE  ReaderOf(Pair(keys, values), s, NoView, TwoOf(L, M))
<1>1. DOMAIN keys = 0 .. Len(s) /\ DOMAIN Pair(keys, values) = 0 .. Len(s)
  BY DEF ReaderOf, Pair
<1>2. ASSUME NEW p \in 0 .. Len(s)
      PROVE  Returns(Pair(keys, values)[p], s, p, NoView, TwoOf(L, M))
  <2>1. Returns(keys[p], s, p, U, L)
    BY DEF ReaderOf
  <2>2. keys[p].key \in Bytes /\ << >> \in NoView
    BY <2>1, ReturnsParts DEF NoView
  <2>3. Returns(After(values, keys[p], keys[p].key), s, p, NoView, TwoOf(L, M))
    BY <2>1, <2>2, AfterReturns
  <2>4. Pair(keys, values)[p] = After(values, keys[p], keys[p].key)
    BY <1>1, PairIs
  <2> QED BY <2>3, <2>4
<1> QED BY <1>1, <1>2 DEF ReaderOf

(* The recursion of Repeat has a solution, which is its value.             *)
Repeats(f, reader, p, n) ==
  /\ DOMAIN f = 0 .. n
  /\ f[0] = Value(p, << >>, << >>)
  /\ \A i \in 1 .. n : f[i] = After(reader, f[i - 1], << >>)

(* The recursion of Repeat has a solution, which is its value.             *)
LEMMA RepeatIs ==
  ASSUME NEW s \in Bytes, NEW p \in 0 .. Len(s), NEW n \in Nat, NEW W,
         NEW reader, ReaderOf(reader, s, W, Bytes)
  PROVE  \E f : Repeats(f, reader, p, n) /\ Repeat(reader, p, n) = f[n]
<1> DEFINE V == {x \in Outcome(s, NoView) : Returns(x, s, 0, NoView, Bytes)}
           base == Value(p, << >>, << >>)
           Steps == [i \in 1 .. n |-> [x \in V |-> After(reader, x, << >>)]]
           Eq(f) == f = [i \in 0 .. n |->
                           IF i = 0 THEN Value(p, << >>, << >>)
                           ELSE Try(f[i - 1], LAMBDA items :
                                  Try(reader[items.pos], LAMBDA item :
                                    Value(item.pos, items.val \o item.val, << >>)))]
<1>1. 0 \in 0 .. Len(s) /\ << >> \in NoView /\ p \in 0 .. Len(s)
  BY DEF Bytes, NoView
<1>2. base \in V
  <2>1. Slice(s, 0, p) \in Bytes
    BY <1>1, SliceFacts
  <2>2. Returns(base, s, 0, NoView, Bytes)
    BY <1>1, <2>1, EmptyBytes, ValueReturns
  <2> QED BY <2>2 DEF Returns
<1>3. ASSUME NEW x \in V PROVE After(reader, x, << >>) \in V
  <2>1. Returns(x, s, 0, NoView, Bytes)
    OBVIOUS
  <2>2. Returns(After(reader, x, << >>), s, 0, NoView, TwoOf(Bytes, Bytes))
    BY <1>1, <2>1, EmptyBytes, AfterReturns
  <2>3. Returns(After(reader, x, << >>), s, 0, NoView, Bytes)
    <3>1. TwoOf(Bytes, Bytes) \subseteq Bytes
      BY DEF TwoOf
    <3> QED BY <2>2, <3>1, ReturnsWider
  <2> QED BY <2>3 DEF Returns
<1> HIDE DEF V
<1>4. Steps \in [1 .. n -> [V -> V]]
  BY <1>3
<1> HIDE DEF base
<1>5. PICK f : Counts(f, n, V, base, Steps)
  <2> HIDE DEF Steps
  <2> QED BY <1>2, <1>4, CountedRecursion
<1>6. f \in [0 .. n -> V] /\ f[0] = base /\ \A i \in 1 .. n : f[i] = Steps[i][f[i - 1]]
  BY <1>5 DEF Counts
<1>7. \A i \in 1 .. n : f[i] = After(reader, f[i - 1], << >>)
  <2> SUFFICES ASSUME NEW i \in 1 .. n PROVE f[i] = After(reader, f[i - 1], << >>)
    OBVIOUS
  <2>1. i - 1 \in 0 .. n
    OBVIOUS
  <2>2. f[i - 1] \in V
    BY <1>6, <2>1
  <2> QED BY <1>6, <2>2
<1>8. \A g, i : Try(g[i - 1], LAMBDA items :
                  Try(reader[items.pos], LAMBDA item :
                    Value(item.pos, items.val \o item.val, << >>)))
                = After(reader, g[i - 1], << >>)
  BY DEF Try, After
<1>9. Eq(f)
  <2> DEFINE R(g, i) == IF i = 0 THEN Value(p, << >>, << >>)
                        ELSE Try(g[i - 1], LAMBDA items :
                               Try(reader[items.pos], LAMBDA item :
                                 Value(item.pos, items.val \o item.val, << >>)))
  <2>1. \A i \in 0 .. n : f[i] = R(f, i)
    <3> SUFFICES ASSUME NEW i \in 0 .. n PROVE f[i] = R(f, i)
      OBVIOUS
    <3>1. CASE i = 0
      BY <1>6, <3>1 DEF base
    <3>2. CASE i # 0
      <4>1. i \in 1 .. n
        BY <3>2
      <4>2. R(f, i) = After(reader, f[i - 1], << >>)
        BY <1>8, <3>2
      <4> QED BY <1>7, <4>1, <4>2
    <3> QED BY <3>1, <3>2
  <2> HIDE DEF R
  <2>2. f = [i \in 0 .. n |-> R(f, i)]
    BY <1>6, <2>1
  <2> QED BY <2>2 DEF R
<1> DEFINE g == CHOOSE h : Eq(h)
<1>10. Repeat(reader, p, n) = g[n]
  BY Zenon DEF Repeat
<1>11. Eq(g)
  <2> HIDE DEF Eq
  <2> QED BY <1>9, Zenon
<1> HIDE DEF g
<1>12. /\ DOMAIN g = 0 .. n
       /\ \A i \in 0 .. n : g[i] = IF i = 0 THEN Value(p, << >>, << >>)
                                   ELSE After(reader, g[i - 1], << >>)
  <2>1. g = [i \in 0 .. n |-> IF i = 0 THEN Value(p, << >>, << >>)
                              ELSE After(reader, g[i - 1], << >>)]
    BY <1>8, <1>11
  <2> QED BY <2>1
<1>13. Repeats(g, reader, p, n)
  <2>1. 0 \in 0 .. n /\ \A i \in 1 .. n : i \in 0 .. n /\ i # 0
    OBVIOUS
  <2> QED BY <1>12, <2>1 DEF Repeats
<1> QED BY <1>10, <1>13

(* What Repeat takes are so many items.                                    *)
LEMMA RepeatReturns ==
  ASSUME NEW s \in Bytes, NEW p \in 0 .. Len(s), NEW n \in Nat, NEW W, NEW L, L \subseteq Bytes,
         NEW reader, ReaderOf(reader, s, W, L)
  PROVE  Returns(Repeat(reader, p, n), s, p, NoView, Joined(L, n))
<1>1. ReaderOf(reader, s, W, Bytes)
  <2>1. \A q \in 0 .. Len(s) : Returns(reader[q], s, q, W, Bytes)
    BY ReturnsWider DEF ReaderOf
  <2> QED BY <2>1 DEF ReaderOf
<1>2. PICK f : Repeats(f, reader, p, n) /\ Repeat(reader, p, n) = f[n]
  BY <1>1, RepeatIs
<1>3. f[0] = Value(p, << >>, << >>) /\ \A i \in 1 .. n : f[i] = After(reader, f[i - 1], << >>)
  BY <1>2 DEF Repeats
<1> DEFINE Good(i) == i <= n => Returns(f[i], s, p, NoView, Joined(L, i))
           T == {i \in Nat : Good(i)}
<1>4. Good(0)
  <2>1. p \in p .. Len(s) /\ << >> \in NoView
    BY DEF Bytes, NoView
  <2>2. Slice(s, p, p) \in Joined(L, 0)
    BY SliceEmpty, JoinedNone
  <2>3. Returns(Value(p, << >>, << >>), s, p, NoView, Joined(L, 0))
    BY <2>1, <2>2, EmptyBytes, ValueReturns
  <2> QED BY <1>3, <2>3
<1>5. ASSUME NEW i \in Nat, Good(i) PROVE Good(i + 1)
  <2> SUFFICES ASSUME i + 1 <= n PROVE Returns(f[i + 1], s, p, NoView, Joined(L, i + 1))
    OBVIOUS
  <2>1. Returns(f[i], s, p, NoView, Joined(L, i))
    BY <1>5
  <2>2. << >> \in NoView
    BY DEF NoView
  <2>3. Returns(After(reader, f[i], << >>), s, p, NoView, TwoOf(Joined(L, i), L))
    BY <2>1, <2>2, EmptyBytes, AfterReturns
  <2>4. i + 1 \in 1 .. n /\ i + 1 - 1 = i
    OBVIOUS
  <2> DEFINE k == i + 1
  <2>5. f[k] = After(reader, f[k - 1], << >>)
    <3> HIDE DEF k
    <3> QED BY <1>3, <2>4 DEF k
  <2>6. f[i + 1] = After(reader, f[i], << >>)
    BY <2>4, <2>5
  <2> QED BY <2>3, <2>6, JoinedMore
<1> HIDE DEF Good
<1>6. T = Nat
  <2>1. T \in SUBSET Nat /\ 0 \in T /\ \A i \in T : i + 1 \in T
    BY <1>4, <1>5
  <2> HIDE DEF T
  <2> QED BY <2>1, NatInductionOnSets
<1>7. Good(n)
  BY <1>6
<1> QED BY <1>2, <1>7 DEF Good

(* The entries of a map. *)
Piece == [key : Bytes, val : Bytes]

(* InsertAt without its CASE.                                              *)
LEMMA InsertAtIs ==
  ASSUME NEW t, NEW i, NEW e
  PROVE  InsertAt(t, i, e) = SubSeq(t, 1, i - 1) \o <<e>> \o SubSeq(t, i, Len(t))
BY DEF InsertAt

(* An entry that is inserted keeps the others.                             *)
LEMMA InsertType ==
  ASSUME NEW entry \in Piece, NEW entries \in Seq(Piece)
  PROVE  Insert(entry, entries) \in Seq(Piece)
<1> DEFINE D == DOMAIN entries
           lesser == {i \in D : KeyLess(entries[i].key, entry.key)}
           n == Cardinality(lesser)
<1>1. D = 1 .. Len(entries) /\ Len(entries) \in Nat
  OBVIOUS
<1>2. IsFiniteSet(D) /\ Cardinality(D) = Len(entries)
  <2> DEFINE m == Len(entries)
  <2>1. m \in Nat /\ m \in Int /\ 1 \in Int
    BY <1>1
  <2> HIDE DEF m
  <2>2. IsFiniteSet(1 .. m) /\ Cardinality(1 .. m) = IF 1 > m THEN 0 ELSE m - 1 + 1
    BY <2>1, FS_Interval
  <2>3. Cardinality(1 .. m) = m
    BY <2>1, <2>2
  <2> QED BY <1>1, <2>2, <2>3 DEF m
<1>3. lesser \subseteq D
  OBVIOUS
<1> HIDE DEF lesser, D
<1>4. n \in Nat /\ n <= Len(entries)
  BY <1>1, <1>2, <1>3, FS_Subset, FS_CardinalityType
<1> DEFINE k == n + 1
           a == SubSeq(entries, 1, k - 1)
           b == <<entry>>
           c == SubSeq(entries, k, Len(entries))
<1>5. Insert(entry, entries) = InsertAt(entries, k, entry)
  BY DEF Insert, lesser, D
<1> HIDE DEF n
<1>51. k \in 1 .. Len(entries) + 1 /\ k - 1 \in 0 .. Len(entries)
  BY <1>1, <1>4
<1> HIDE DEF k
<1>6. InsertAt(entries, k, entry) = a \o b \o c
  BY InsertAtIs
<1>7. a \in Seq(Piece)
  BY <1>1, <1>51
<1>8. c \in Seq(Piece)
  BY <1>1, <1>51
<1>9. b \in Seq(Piece)
  OBVIOUS
<1> HIDE DEF a, b, c
<1>10. a \o b \o c \in Seq(Piece)
  BY <1>7, <1>8, <1>9
<1> QED BY <1>5, <1>6, <1>10

(* An entry more, as Collect takes it. *)
Adding(reader, x) ==
  IF x.err # "none" THEN Error(x.err, x.pos)
  ELSE LET entry == reader[x.pos] IN
       IF entry.err # "none" THEN Error(entry.err, entry.pos)
       ELSE IF IsDuplicate(entry.key, x.val) THEN Error("MalformedConstructor", entry.pos)
       ELSE Value(entry.pos, Insert([key |-> entry.key, val |-> entry.val], x.val), << >>)

Collects(f, reader, p, n) ==
  /\ DOMAIN f = 0 .. n
  /\ f[0] = Value(p, << >>, << >>)
  /\ \A i \in 1 .. n : f[i] = Adding(reader, f[i - 1])

(* What Collect returns on the way. *)
Entries(s) == [err : Codes, pos : 0 .. Len(s), val : Seq(Piece), key : Bytes, view : NoView]

(* A round of Collect.                                                     *)
LEMMA AddingType ==
  ASSUME NEW s \in Bytes, NEW W, NEW L, NEW reader, ReaderOf(reader, s, W, L),
         NEW x \in Entries(s)
  PROVE  /\ Adding(reader, x) \in Entries(s)
         /\ x.err = "none" => Adding(reader, x).pos = reader[x.pos].pos
         /\ Adding(reader, x).err = "none" => x.err = "none" /\ reader[x.pos].err = "none"
         /\ x.err # "none" => Adding(reader, x).pos = x.pos
<1> DEFINE y == reader[x.pos]
           e == [key |-> y.key, val |-> y.val]
           more == Insert(e, x.val)
           res == Adding(reader, x)
<1>1. x.err \in Codes /\ x.pos \in 0 .. Len(s) /\ x.val \in Seq(Piece)
  BY DEF Entries
<1>2. Returns(y, s, x.pos, W, L)
  BY <1>1 DEF ReaderOf
<1> HIDE DEF y
<1>3. y.err \in Codes /\ y.pos \in 0 .. Len(s) /\ y.val \in Bytes /\ y.key \in Bytes
  BY <1>2 DEF Returns, Outcome
<1>4. more \in Seq(Piece)
  <2>1. e \in Piece
    BY <1>3 DEF Piece
  <2> HIDE DEF e
  <2> QED BY <1>1, <2>1, InsertType
<1>5. res = IF x.err # "none" THEN Error(x.err, x.pos)
            ELSE IF y.err # "none" THEN Error(y.err, y.pos)
            ELSE IF IsDuplicate(y.key, x.val) THEN Error("MalformedConstructor", y.pos)
            ELSE Value(y.pos, more, << >>)
  BY DEF Adding, y
<1> HIDE DEF more, res
<1>6. << >> \in Seq(Piece) /\ << >> \in Bytes /\ << >> \in NoView /\ "MalformedConstructor" \in Codes
      /\ "none" \in Codes
  BY EmptyBytes DEF NoView, Codes, Failures
<1>7. \A error \in Codes, q \in 0 .. Len(s) : Error(error, q) \in Entries(s)
  BY <1>6 DEF Error, Entries
<1>8. \A q \in 0 .. Len(s), v \in Seq(Piece) : Value(q, v, << >>) \in Entries(s)
  BY <1>6 DEF Value, Entries
<1>9. res \in Entries(s)
  BY <1>1, <1>3, <1>4, <1>5, <1>6, <1>7, <1>8
<1>10. \A error, q : Error(error, q).err = error /\ Error(error, q).pos = q
  BY DEF Error
<1>11. \A q, v : Value(q, v, << >>).err = "none" /\ Value(q, v, << >>).pos = q
  BY DEF Value
<1>12. x.err = "none" => res.pos = y.pos
  BY <1>5, <1>10, <1>11
<1>13. res.err = "none" => x.err = "none" /\ y.err = "none"
  BY <1>5, <1>10, <1>11
<1>14. x.err # "none" => res.pos = x.pos
  BY <1>5, <1>10, <1>11
<1> QED BY <1>9, <1>12, <1>13, <1>14 DEF res, y

(* The recursion of Collect has a solution, which is its value.            *)
LEMMA CollectIs ==
  ASSUME NEW s \in Bytes, NEW p \in 0 .. Len(s), NEW n \in Nat, NEW W, NEW L,
         NEW reader, ReaderOf(reader, s, W, L)
  PROVE  \E f : Collects(f, reader, p, n) /\ Collect(reader, p, n) = f[n]
<1> DEFINE V == Entries(s)
           base == Value(p, << >>, << >>)
           Steps == [i \in 1 .. n |-> [x \in V |-> Adding(reader, x)]]
           Step(x) == Try(x, LAMBDA entries :
                        Try(reader[entries.pos], LAMBDA entry :
                          IF IsDuplicate(entry.key, entries.val)
                          THEN Error("MalformedConstructor", entry.pos)
                          ELSE Value(entry.pos,
                                 Insert([key |-> entry.key, val |-> entry.val], entries.val),
                                 << >>)))
           Eq(f) == f = [i \in 0 .. n |->
                           IF i = 0 THEN Value(p, << >>, << >>)
                           ELSE Try(f[i - 1], LAMBDA entries :
                                  Try(reader[entries.pos], LAMBDA entry :
                                    IF IsDuplicate(entry.key, entries.val)
                                    THEN Error("MalformedConstructor", entry.pos)
                                    ELSE Value(entry.pos,
                                           Insert([key |-> entry.key, val |-> entry.val],
                                                  entries.val), << >>)))]
<1>1. << >> \in Seq(Piece) /\ << >> \in Bytes /\ << >> \in NoView /\ "none" \in Codes
  BY EmptyBytes DEF NoView, Codes
<1>2. base \in V
  BY <1>1 DEF Value, Entries
<1>3. \A x \in V : Adding(reader, x) \in V
  BY AddingType
<1> HIDE DEF V
<1>4. Steps \in [1 .. n -> [V -> V]]
  BY <1>3
<1> HIDE DEF base
<1>5. PICK f : Counts(f, n, V, base, Steps)
  <2> HIDE DEF Steps
  <2> QED BY <1>2, <1>4, CountedRecursion
<1>6. f \in [0 .. n -> V] /\ f[0] = base /\ \A i \in 1 .. n : f[i] = Steps[i][f[i - 1]]
  BY <1>5 DEF Counts
<1>7. \A i \in 1 .. n : f[i] = Adding(reader, f[i - 1])
  <2> SUFFICES ASSUME NEW i \in 1 .. n PROVE f[i] = Adding(reader, f[i - 1])
    OBVIOUS
  <2>1. i - 1 \in 0 .. n
    OBVIOUS
  <2>2. f[i - 1] \in V
    BY <1>6, <2>1
  <2> QED BY <1>6, <2>2
<1>8. \A x : Step(x) = Adding(reader, x)
  BY DEF Try, Adding
<1>9. Eq(f)
  <2> DEFINE R(h, i) == IF i = 0 THEN Value(p, << >>, << >>) ELSE Step(h[i - 1])
  <2>1. \A i \in 0 .. n : f[i] = R(f, i)
    <3> HIDE DEF Step
    <3> SUFFICES ASSUME NEW i \in 0 .. n PROVE f[i] = R(f, i)
      OBVIOUS
    <3>1. CASE i = 0
      BY <1>6, <3>1 DEF base
    <3>2. CASE i # 0
      <4>1. i \in 1 .. n
        BY <3>2
      <4>2. R(f, i) = Adding(reader, f[i - 1])
        BY <1>8, <3>2
      <4> QED BY <1>7, <4>1, <4>2
    <3> QED BY <3>1, <3>2
  <2> HIDE DEF R
  <2>2. f = [i \in 0 .. n |-> R(f, i)]
    BY <1>6, <2>1
  <2> QED BY <2>2 DEF R
<1> DEFINE g == CHOOSE h : Eq(h)
<1>10. Collect(reader, p, n) = g[n]
  BY Zenon DEF Collect
<1>11. Eq(g)
  <2> HIDE DEF Eq
  <2> QED BY <1>9, Zenon
<1> HIDE DEF g
<1>12. g = [i \in 0 .. n |-> IF i = 0 THEN Value(p, << >>, << >>) ELSE Step(g[i - 1])]
  BY <1>11
<1> HIDE DEF Step, Eq
<1>13. /\ DOMAIN g = 0 .. n
       /\ \A i \in 0 .. n : g[i] = IF i = 0 THEN Value(p, << >>, << >>)
                                   ELSE Adding(reader, g[i - 1])
  <2>1. g = [i \in 0 .. n |-> IF i = 0 THEN Value(p, << >>, << >>)
                              ELSE Adding(reader, g[i - 1])]
    BY <1>8, <1>12
  <2> QED BY <2>1
<1>14. Collects(g, reader, p, n)
  <2>1. 0 \in 0 .. n /\ \A i \in 1 .. n : i \in 0 .. n /\ i # 0
    OBVIOUS
  <2> QED BY <1>13, <2>1 DEF Collects
<1> QED BY <1>10, <1>14

(* What Collect takes are so many entries, in the order of the packet.     *)
LEMMA CollectReturns ==
  ASSUME NEW s \in Bytes, NEW p \in 0 .. Len(s), NEW n \in Nat, NEW W, NEW L, L \subseteq Bytes,
         NEW reader, ReaderOf(reader, s, W, L)
  PROVE  /\ Collect(reader, p, n) \in Entries(s)
         /\ Collect(reader, p, n).pos \in p .. Len(s)
         /\ Collect(reader, p, n).err = "none" =>
              Slice(s, p, Collect(reader, p, n).pos) \in Joined(L, n)
<1>1. PICK f : Collects(f, reader, p, n) /\ Collect(reader, p, n) = f[n]
  BY CollectIs
<1>2. f[0] = Value(p, << >>, << >>) /\ \A i \in 1 .. n : f[i] = Adding(reader, f[i - 1])
  BY <1>1 DEF Collects
<1> DEFINE Good(i) == i <= n => /\ f[i] \in Entries(s)
                                /\ f[i].pos \in p .. Len(s)
                                /\ f[i].err = "none" => Slice(s, p, f[i].pos) \in Joined(L, i)
           T == {i \in Nat : Good(i)}
<1>3. Good(0)
  <2> DEFINE x == Value(p, << >>, << >>)
  <2>1. << >> \in Seq(Piece) /\ << >> \in Bytes /\ << >> \in NoView /\ "none" \in Codes
        /\ p \in p .. Len(s)
    BY EmptyBytes DEF NoView, Codes, Bytes
  <2>2. x \in Entries(s) /\ x.pos = p
    BY <2>1 DEF Value, Entries
  <2>3. Slice(s, p, p) \in Joined(L, 0)
    BY SliceEmpty, JoinedNone
  <2> HIDE DEF x
  <2>4. f[0] = x
    BY <1>2 DEF x
  <2> QED BY <2>1, <2>2, <2>3, <2>4
<1>4. ASSUME NEW i \in Nat, Good(i) PROVE Good(i + 1)
  <2> SUFFICES ASSUME i + 1 <= n
               PROVE  /\ f[i + 1] \in Entries(s)
                      /\ f[i + 1].pos \in p .. Len(s)
                      /\ f[i + 1].err = "none" => Slice(s, p, f[i + 1].pos) \in Joined(L, i + 1)
    OBVIOUS
  <2> DEFINE x == f[i]
             y == reader[x.pos]
             k == i + 1
             z == f[k]
  <2>1. x \in Entries(s) /\ x.pos \in p .. Len(s)
        /\ (x.err = "none" => Slice(s, p, x.pos) \in Joined(L, i))
    BY <1>4
  <2>2. k \in 1 .. n /\ k - 1 = i
    OBVIOUS
  <2>3. z = Adding(reader, f[k - 1])
    <3> HIDE DEF k
    <3> QED BY <1>2, <2>2
  <2>4. z = Adding(reader, x)
    BY <2>2, <2>3
  <2> HIDE DEF z, x
  <2>5. x.pos \in 0 .. Len(s)
    BY <2>1 DEF Entries
  <2>6. Returns(y, s, x.pos, W, L)
    BY <2>5 DEF ReaderOf
  <2>7. y.pos \in x.pos .. Len(s) /\ (y.err = "none" => Slice(s, x.pos, y.pos) \in L)
    BY <2>5, <2>6, ReturnsParts
  <2>8. /\ z \in Entries(s)
        /\ x.err = "none" => z.pos = y.pos
        /\ z.err = "none" => x.err = "none" /\ y.err = "none"
        /\ x.err # "none" => z.pos = x.pos
    BY <2>1, <2>4, AddingType
  <2> HIDE DEF y, k
  <2>9. z.pos \in p .. Len(s)
    BY <2>1, <2>7, <2>8
  <2>10. z.err = "none" => Slice(s, p, z.pos) \in TwoOf(Joined(L, i), L)
    BY <2>1, <2>7, <2>8, BothRead
  <2>11. Joined(L, k) = TwoOf(Joined(L, i), L)
    BY JoinedMore DEF k
  <2> QED BY <2>8, <2>9, <2>10, <2>11 DEF z, k
<1> HIDE DEF Good
<1>5. T = Nat
  <2>1. T \in SUBSET Nat /\ 0 \in T /\ \A i \in T : i + 1 \in T
    BY <1>3, <1>4
  <2> HIDE DEF T
  <2> QED BY <2>1, NatInductionOnSets
<1>6. Good(n)
  BY <1>5
<1> QED BY <1>1, <1>6 DEF Good

(* The bytes of a map's entries. *)
LEMMA ConcatIsBytes ==
  ASSUME NEW entries \in Seq(Piece)
  PROVE  Concat(entries) \in Bytes
<1> DEFINE vals == [i \in DOMAIN entries |-> entries[i].val]
<1>1. vals \in Seq(Seq(Byte))
  <2>1. /\ Len(entries) \in Nat /\ DOMAIN entries = 1 .. Len(entries)
        /\ \A i \in 1 .. Len(entries) : entries[i] \in Piece
    OBVIOUS
  <2>2. \A i \in 1 .. Len(entries) : entries[i].val \in Seq(Byte)
    BY <2>1 DEF Piece, Bytes
  <2> QED BY <2>1, <2>2
<1> HIDE DEF vals
<1>2. FlattenSeq(vals) \in Seq(Byte)
  BY <1>1, FlattenType
<1> QED BY <1>2 DEF Concat, vals, Bytes

-----------------------------------------------------------------------------
(* Options, vectors and maps                                               *)

(* ReadMarker without its Try.                                             *)
LEMMA MarkerIs ==
  ASSUME NEW s, NEW p
  PROVE  LET marker == ReadU8(s, p) IN
         ReadMarker(s, p) =
           IF marker.err # "none" THEN Error(marker.err, marker.pos)
           ELSE IF marker.val \notin {<<0>>, <<1>>} THEN Error("MalformedConstructor", marker.pos)
           ELSE marker
<1> DEFINE marker == ReadU8(s, p)
<1> HIDE DEF marker
<1> QED BY DEF ReadMarker, Try, marker

(* A marker is one byte, of two.                                           *)
LEMMA MarkerReturns ==
  ASSUME NEW s \in Bytes, NEW p \in 0 .. Len(s)
  PROVE  /\ Returns(ReadMarker(s, p), s, p, NoView, Exactly(1))
         /\ ReadMarker(s, p).err = "none" =>
              /\ ReadMarker(s, p).val \in {<<0>>, <<1>>}
              /\ ReadMarker(s, p).val = Slice(s, p, ReadMarker(s, p).pos)
<1> DEFINE x == ReadU8(s, p)
           y == ReadMarker(s, p)
<1>1. Returns(x, s, p, NoView, Exactly(1)) /\ (x.err = "none" => x.val = Slice(s, p, x.pos))
  BY ReadU8Returns
<1>2. y = IF x.err # "none" THEN Error(x.err, x.pos)
          ELSE IF x.val \notin {<<0>>, <<1>>} THEN Error("MalformedConstructor", x.pos)
          ELSE x
  BY MarkerIs
<1>3. << >> \in NoView /\ "MalformedConstructor" \in Failures
  BY DEF NoView, Failures
<1> HIDE DEF x, y
<1>4. x.pos \in p .. Len(s) /\ (x.err # "none" => x.err \in Failures)
  BY <1>1, ReturnsParts
<1>5. CASE x.err # "none" \/ x.val \notin {<<0>>, <<1>>}
  <2>1. PICK error \in Failures : y = Error(error, x.pos)
    BY <1>2, <1>3, <1>4, <1>5
  <2>2. Returns(y, s, p, NoView, Exactly(1)) /\ y.err # "none"
    BY <1>3, <1>4, <2>1, ErrorReturns
  <2> QED BY <2>2 DEF y
<1>6. CASE x.err = "none" /\ x.val \in {<<0>>, <<1>>}
  <2>1. y = x
    BY <1>2, <1>6
  <2> QED BY <1>1, <1>6, <2>1 DEF y
<1> QED BY <1>5, <1>6

(* ReadOption without its Try.                                             *)
LEMMA OptionIs ==
  ASSUME NEW reader, NEW s, NEW p
  PROVE  LET marker == ReadMarker(s, p)
             item == reader[marker.pos]
         IN  ReadOption(reader, s, p) =
               IF marker.err # "none" THEN Error(marker.err, marker.pos)
               ELSE IF marker.val = <<0>> THEN marker
               ELSE IF item.err # "none" THEN Error(item.err, item.pos)
               ELSE [item EXCEPT !.val = <<1>> \o item.val]
<1> DEFINE marker == ReadMarker(s, p)
<1> HIDE DEF marker
<1> QED BY DEF ReadOption, Some, Try, marker

(* An option takes a marker, and an item after the marker of one.          *)
LEMMA OptionReturns ==
  ASSUME NEW s \in Bytes, NEW p \in 0 .. Len(s), NEW W, << >> \in W, NEW L, L \subseteq Bytes,
         NEW reader, ReaderOf(reader, s, W, L)
  PROVE  Returns(ReadOption(reader, s, p), s, p, W, Marked(L))
<1> DEFINE x == ReadMarker(s, p)
           y == reader[x.pos]
           z == ReadOption(reader, s, p)
           M == Marked(L)
<1>1. /\ Returns(x, s, p, NoView, Exactly(1))
      /\ x.err = "none" => x.val \in {<<0>>, <<1>>} /\ x.val = Slice(s, p, x.pos)
  BY MarkerReturns
<1>2. z = IF x.err # "none" THEN Error(x.err, x.pos)
          ELSE IF x.val = <<0>> THEN x
          ELSE IF y.err # "none" THEN Error(y.err, y.pos)
          ELSE [y EXCEPT !.val = <<1>> \o y.val]
  BY OptionIs
<1> HIDE DEF x
<1>3. x.pos \in p .. Len(s) /\ x.pos \in 0 .. Len(s) /\ (x.err # "none" => x.err \in Failures)
  BY <1>1, ReturnsParts
<1>4. Returns(y, s, x.pos, W, L)
  BY <1>3 DEF ReaderOf
<1> HIDE DEF y
<1>5. /\ y.pos \in x.pos .. Len(s) /\ y.pos \in 0 .. Len(s) /\ y.val \in Bytes
      /\ y.err = "none" => Slice(s, x.pos, y.pos) \in L
      /\ y.err # "none" => y.err \in Failures
  BY <1>3, <1>4, ReturnsParts
<1>6. y.pos \in p .. Len(s)
  BY <1>3, <1>5
<1> HIDE DEF z, M
<1>7. CASE x.err # "none"
  <2>1. Returns(Error(x.err, x.pos), s, p, W, M)
    BY <1>3, <1>7, ErrorReturns
  <2> QED BY <1>2, <1>7, <2>1 DEF z, M
<1>8. CASE x.err = "none" /\ x.val = <<0>>
  <2>1. Slice(s, p, x.pos) \in M
    BY <1>1, <1>8 DEF M, Marked
  <2>2. Returns(x, s, p, W, M)
    BY <1>1, <2>1 DEF Returns, Outcome, NoView
  <2> QED BY <1>2, <1>8, <2>2 DEF z, M
<1>9. CASE x.err = "none" /\ x.val # <<0>> /\ y.err # "none"
  <2>1. Returns(Error(y.err, y.pos), s, p, W, M)
    BY <1>5, <1>6, <1>9, ErrorReturns
  <2> QED BY <1>2, <1>9, <2>1 DEF z, M
<1>10. CASE x.err = "none" /\ x.val # <<0>> /\ y.err = "none"
  <2> DEFINE val == <<1>> \o y.val
             q == y.pos
             m == x.pos
  <2>1. Slice(s, p, m) = <<1>> /\ Slice(s, m, q) \in L
    BY <1>1, <1>5, <1>10
  <2>2. m \in p .. Len(s) /\ q \in m .. Len(s) /\ q \in p .. Len(s)
    BY <1>3, <1>5, <1>6
  <2>3. val \in Bytes
    BY <1>5, OneByte, JoinFacts
  <2> HIDE DEF val, q, m
  <2>4. Slice(s, p, q) = Slice(s, p, m) \o Slice(s, m, q) /\ Slice(s, p, q) \in Bytes
    BY <2>2, SliceJoin, SliceFacts
  <2>5. Slice(s, p, q) \in M
    BY <2>1, <2>4 DEF M, Marked
  <2>6. z = [y EXCEPT !.val = val]
    BY <1>2, <1>10 DEF val
  <2>7. y \in Outcome(s, W)
    BY <1>4 DEF Returns
  <2>8. z \in Outcome(s, W) /\ z.pos = q
    BY <2>3, <2>6, <2>7 DEF Outcome, q
  <2>9. q >= p
    BY <1>6 DEF q
  <2>10. Returns(z, s, p, W, M)
    BY <2>5, <2>8, <2>9 DEF Returns
  <2> QED BY <2>10 DEF z, M
<1> QED BY <1>7, <1>8, <1>9, <1>10

(* A count, and then as many items. *)
LEMMA CountedRead ==
  ASSUME NEW s \in Bytes, NEW p \in 0 .. Len(s), NEW count, IntegerRead(count, s, p),
         count.err = "none", NEW q \in count.pos .. Len(s), NEW L,
         Slice(s, count.pos, q) \in Joined(L, count.val)
  PROVE  /\ Slice(s, p, q) \in Counted(L)
         /\ Slice(s, p, q) = EncodeVarint[count.val] \o Slice(s, count.pos, q)
         /\ q \in p .. Len(s)
<1> DEFINE n == count.val
           m == count.pos
           F == [k \in 0 .. Limit - 1 |-> Joined(L, k)]
<1>1. /\ n \in 0 .. Limit - 1 /\ m \in p .. Len(s)
      /\ Slice(s, p, m) = EncodeVarint[n]
  BY DEF IntegerRead
<1>2. Slice(s, m, q) \in F[n] /\ q \in m .. Len(s)
  BY <1>1
<1>3. q \in p .. Len(s)
  BY <1>1, <1>2
<1> HIDE DEF n, m, F
<1>4. Slice(s, p, q) \in Headed(F) /\ Slice(s, p, q) = EncodeVarint[n] \o Slice(s, m, q)
  BY <1>1, <1>2, HeadedRead
<1> QED BY <1>3, <1>4 DEF F, n, m, Counted

(* OwnVec without its Try.                                                 *)
LEMMA OwnVecIs ==
  ASSUME NEW t, NEW reader, NEW s, NEW p, NEW lim
  PROVE  LET count == ReadCount(s, p, lim)
             items == Repeat(reader, count.pos, count.val)
         IN  OwnVec(t, reader, s, p, lim) =
               IF count.err # "none" THEN Error(count.err, count.pos)
               ELSE IF count.val * FixedLen(t.of) > Len(s) - count.pos
                 THEN Error("UnexpectedEof", count.pos)
               ELSE IF items.err # "none" THEN Error(items.err, items.pos)
               ELSE Value(items.pos, EncodeVarint[count.val] \o items.val, << >>)
<1> DEFINE count == ReadCount(s, p, lim)
<1> HIDE DEF count
<1> QED BY DEF OwnVec, Try, count

(* OwnMap without its Try.                                                 *)
LEMMA OwnMapIs ==
  ASSUME NEW t, NEW reader, NEW s, NEW p, NEW lim
  PROVE  LET count == ReadCount(s, p, lim)
             entries == Collect(reader, count.pos, count.val)
         IN  OwnMap(t, reader, s, p, lim) =
               IF count.err # "none" THEN Error(count.err, count.pos)
               ELSE IF /\ FixedLen(t.key) > 0 /\ FixedLen(t.of) > 0
                       /\ count.val * (FixedLen(t.key) + FixedLen(t.of)) > Len(s) - count.pos
                 THEN Error("UnexpectedEof", count.pos)
               ELSE IF entries.err # "none" THEN Error(entries.err, entries.pos)
               ELSE Value(entries.pos, EncodeVarint[count.val] \o Concat(entries.val), << >>)
<1> DEFINE count == ReadCount(s, p, lim)
<1> HIDE DEF count
<1> QED BY DEF OwnMap, Try, count

(* A vector takes a count and that many items,                             *)
LEMMA OwnVecReturns ==
  ASSUME NEW s \in Bytes, NEW p \in 0 .. Len(s), NEW W, NEW L, L \subseteq Bytes,
         NEW reader, ReaderOf(reader, s, W, L), NEW t, NEW lim
  PROVE  Returns(OwnVec(t, reader, s, p, lim), s, p, NoView, Counted(L))
<1> DEFINE c == ReadCount(s, p, lim)
           y == Repeat(reader, c.pos, c.val)
           z == OwnVec(t, reader, s, p, lim)
           M == Counted(L)
<1>1. IntegerRead(c, s, p)
  BY CountRead
<1>2. z = IF c.err # "none" THEN Error(c.err, c.pos)
          ELSE IF c.val * FixedLen(t.of) > Len(s) - c.pos THEN Error("UnexpectedEof", c.pos)
          ELSE IF y.err # "none" THEN Error(y.err, y.pos)
          ELSE Value(y.pos, EncodeVarint[c.val] \o y.val, << >>)
  BY OwnVecIs
<1>3. << >> \in NoView /\ "UnexpectedEof" \in Failures
  BY DEF NoView, Failures
<1> HIDE DEF c, z
<1>4. c.pos \in p .. Len(s) /\ (c.err # "none" => c.err \in Failures)
  BY <1>1 DEF IntegerRead
<1> HIDE DEF M
<1>5. CASE c.err # "none" \/ c.val * FixedLen(t.of) > Len(s) - c.pos
  <2>1. PICK error \in Failures : z = Error(error, c.pos)
    BY <1>2, <1>3, <1>4, <1>5
  <2>2. Returns(z, s, p, NoView, M)
    BY <1>3, <1>4, <2>1, ErrorReturns
  <2> QED BY <2>2 DEF z, M
<1>6. CASE c.err = "none" /\ ~(c.val * FixedLen(t.of) > Len(s) - c.pos)
  <2>1. c.val \in Nat /\ c.pos \in 0 .. Len(s) /\ EncodeVarint[c.val] \in Bytes
    BY <1>1, <1>6 DEF IntegerRead
  <2>2. Returns(y, s, c.pos, NoView, Joined(L, c.val))
    BY <2>1, RepeatReturns
  <2> HIDE DEF y
  <2>3. /\ y.pos \in c.pos .. Len(s) /\ y.val \in Bytes
        /\ y.err = "none" => Slice(s, c.pos, y.pos) \in Joined(L, c.val)
        /\ y.err # "none" => y.err \in Failures
    BY <2>1, <2>2, ReturnsParts
  <2>4. y.pos \in p .. Len(s)
    BY <1>4, <2>3
  <2>5. CASE y.err # "none"
    <3>1. Returns(Error(y.err, y.pos), s, p, NoView, M)
      BY <1>3, <2>3, <2>4, <2>5, ErrorReturns
    <3> QED BY <1>2, <1>6, <2>5, <3>1 DEF z, M
  <2>6. CASE y.err = "none"
    <3> DEFINE val == EncodeVarint[c.val] \o y.val
    <3>1. Slice(s, p, y.pos) \in M
      BY <1>1, <1>6, <2>3, <2>6, CountedRead DEF M
    <3>2. val \in Bytes
      BY <2>1, <2>3, JoinFacts
    <3> HIDE DEF val
    <3>3. Returns(Value(y.pos, val, << >>), s, p, NoView, M)
      BY <1>3, <2>4, <3>1, <3>2, EmptyBytes, ValueReturns
    <3> QED BY <1>2, <1>6, <2>6, <3>3 DEF z, M, val
  <2> QED BY <2>5, <2>6
<1> QED BY <1>5, <1>6

(* and a map takes a count and that many entries.                          *)
LEMMA OwnMapReturns ==
  ASSUME NEW s \in Bytes, NEW p \in 0 .. Len(s), NEW W, NEW L, L \subseteq Bytes,
         NEW reader, ReaderOf(reader, s, W, L), NEW t, NEW lim
  PROVE  Returns(OwnMap(t, reader, s, p, lim), s, p, NoView, Counted(L))
<1> DEFINE c == ReadCount(s, p, lim)
           y == Collect(reader, c.pos, c.val)
           z == OwnMap(t, reader, s, p, lim)
           M == Counted(L)
           Full == /\ FixedLen(t.key) > 0 /\ FixedLen(t.of) > 0
                   /\ c.val * (FixedLen(t.key) + FixedLen(t.of)) > Len(s) - c.pos
<1>1. IntegerRead(c, s, p)
  BY CountRead
<1>2. z = IF c.err # "none" THEN Error(c.err, c.pos)
          ELSE IF Full THEN Error("UnexpectedEof", c.pos)
          ELSE IF y.err # "none" THEN Error(y.err, y.pos)
          ELSE Value(y.pos, EncodeVarint[c.val] \o Concat(y.val), << >>)
  BY OwnMapIs
<1>3. << >> \in NoView /\ "UnexpectedEof" \in Failures
  BY DEF NoView, Failures
<1> HIDE DEF c, z, Full
<1>4. c.pos \in p .. Len(s) /\ (c.err # "none" => c.err \in Failures)
  BY <1>1 DEF IntegerRead
<1> HIDE DEF M
<1>5. CASE c.err # "none" \/ Full
  <2>1. PICK error \in Failures : z = Error(error, c.pos)
    BY <1>2, <1>3, <1>4, <1>5
  <2>2. Returns(z, s, p, NoView, M)
    BY <1>3, <1>4, <2>1, ErrorReturns
  <2> QED BY <2>2 DEF z, M
<1>6. CASE c.err = "none" /\ ~Full
  <2>1. c.val \in Nat /\ c.pos \in 0 .. Len(s) /\ EncodeVarint[c.val] \in Bytes
    BY <1>1, <1>6 DEF IntegerRead
  <2>2. /\ y \in Entries(s) /\ y.pos \in c.pos .. Len(s)
        /\ y.err = "none" => Slice(s, c.pos, y.pos) \in Joined(L, c.val)
    BY <2>1, CollectReturns
  <2> HIDE DEF y
  <2>3. Concat(y.val) \in Bytes /\ (y.err # "none" => y.err \in Failures)
    BY <2>2, ConcatIsBytes DEF Entries, Codes
  <2>4. y.pos \in p .. Len(s)
    BY <1>4, <2>2
  <2>5. CASE y.err # "none"
    <3>1. Returns(Error(y.err, y.pos), s, p, NoView, M)
      BY <1>3, <2>3, <2>4, <2>5, ErrorReturns
    <3> QED BY <1>2, <1>6, <2>5, <3>1 DEF z, M
  <2>6. CASE y.err = "none"
    <3> DEFINE val == EncodeVarint[c.val] \o Concat(y.val)
    <3>1. Slice(s, p, y.pos) \in M
      BY <1>1, <1>6, <2>2, <2>6, CountedRead DEF M
    <3>2. val \in Bytes
      BY <2>1, <2>3, JoinFacts
    <3> HIDE DEF val
    <3>3. Returns(Value(y.pos, val, << >>), s, p, NoView, M)
      BY <1>3, <2>4, <3>1, <3>2, EmptyBytes, ValueReturns
    <3> QED BY <1>2, <1>6, <2>6, <3>3 DEF z, M, val
  <2> QED BY <2>5, <2>6
<1> QED BY <1>5, <1>6

-----------------------------------------------------------------------------
(* The owned decode                                                        *)

(* OwnOf by the kind of the type.                                          *)
LEMMA OwnOfIs ==
  ASSUME NEW t \in Types, NEW g, NEW s, NEW lim, NEW p \in 0 .. Len(s)
  PROVE  /\ t.k = "u8" => OwnOf(t, g, s, lim)[p] = ReadU8(s, p)
         /\ t.k = "str" => OwnOf(t, g, s, lim)[p] = ReadString(s, p, lim)
         /\ t.k = "fixed" => OwnOf(t, g, s, lim)[p] = ReadSlice(s, p, t.n)
         /\ t.k = "option" => OwnOf(t, g, s, lim)[p] = ReadOption(g[t.of], s, p)
         /\ t.k = "vec" => OwnOf(t, g, s, lim)[p] = OwnVec(t, g[t.of], s, p, lim)
         /\ t.k = "map" =>
              OwnOf(t, g, s, lim)[p] = OwnMap(t, Pair(g[t.key], g[t.of]), s, p, lim)
BY DEF OwnOf

(* OwnOf is a function of the position.                                    *)
LEMMA OwnOfFcn ==
  ASSUME NEW t, NEW g, NEW s, NEW lim
  PROVE  OwnOf(t, g, s, lim) = [pos \in 0 .. Len(s) |-> OwnOf(t, g, s, lim)[pos]]
<1> DEFINE D == 0 .. Len(s)
           e(pos) == CASE t.k = "u8" -> ReadU8(s, pos)
                       [] t.k = "str" -> ReadString(s, pos, lim)
                       [] t.k = "fixed" -> ReadSlice(s, pos, t.n)
                       [] t.k = "option" -> ReadOption(g[t.of], s, pos)
                       [] t.k = "vec" -> OwnVec(t, g[t.of], s, pos, lim)
                       [] t.k = "map" -> OwnMap(t, Pair(g[t.key], g[t.of]), s, pos, lim)
           f == [pos \in D |-> e(pos)]
<1>1. OwnOf(t, g, s, lim) = f
  BY Zenon DEF OwnOf
<1> HIDE DEF D, e
<1>2. f = [pos \in D |-> f[pos]]
  OBVIOUS
<1> HIDE DEF f
<1> QED BY <1>1, <1>2 DEF D

(* Readers of the parts that take encodings of the parts give a reader that*)
(* takes encodings of the type.                                            *)
LEMMA OwnStep ==
  ASSUME NEW s \in Bytes, NEW lim, NEW t \in Types, NEW G \in [Types -> SUBSET Bytes], NEW g,
         \A q \in Parts(t) : ReaderOf(g[q], s, NoView, G[q])
  PROVE  ReaderOf(OwnOf(t, g, s, lim), s, NoView, OwnForm(t, G))
<1> DEFINE f == OwnOf(t, g, s, lim)
           L == OwnForm(t, G)
<1>0. << >> \in NoView
  BY DEF NoView
<1>1. ASSUME NEW p \in 0 .. Len(s) PROVE Returns(f[p], s, p, NoView, L)
  <2>1. CASE t.k = "u8"
    <3>1. f[p] = ReadU8(s, p) /\ L = Exactly(1)
      BY <2>1, OwnOfIs, OwnFormIs
    <3> QED BY <3>1, ReadU8Returns
  <2>2. CASE t.k = "str"
    <3>1. f[p] = ReadString(s, p, lim) /\ L = Sized
      BY <2>2, OwnOfIs, OwnFormIs
    <3> QED BY <3>1, ReadStringReturns
  <2>3. CASE t.k = "fixed"
    <3>1. f[p] = ReadSlice(s, p, t.n) /\ L = Exactly(t.n) /\ t.n \in Nat
      BY <2>3, OwnOfIs, OwnFormIs, PartsAre
    <3> QED BY <3>1, ReadSliceReturns
  <2>4. CASE t.k = "option"
    <3> DEFINE h == g[t.of]
               M == G[t.of]
    <3>1. f[p] = ReadOption(h, s, p) /\ L = Marked(M)
      BY <2>4, OwnOfIs, OwnFormIs
    <3>2. ReaderOf(h, s, NoView, M) /\ M \subseteq Bytes
      BY <2>4, PartsAre
    <3> HIDE DEF f, L, h, M
    <3>3. Returns(f[p], s, p, NoView, L)
      BY <1>0, <3>1, <3>2, OptionReturns
    <3> QED BY <3>3 DEF f, L
  <2>5. CASE t.k = "vec"
    <3> DEFINE h == g[t.of]
               M == G[t.of]
    <3>1. f[p] = OwnVec(t, h, s, p, lim) /\ L = Counted(M)
      BY <2>5, OwnOfIs, OwnFormIs
    <3>2. ReaderOf(h, s, NoView, M) /\ M \subseteq Bytes
      BY <2>5, PartsAre
    <3> HIDE DEF f, L, h, M
    <3>3. Returns(f[p], s, p, NoView, L)
      BY <3>1, <3>2, OwnVecReturns
    <3> QED BY <3>3 DEF f, L
  <2>6. CASE t.k = "map"
    <3> DEFINE h == Pair(g[t.key], g[t.of])
               M == TwoOf(G[t.key], G[t.of])
    <3>1. f[p] = OwnMap(t, h, s, p, lim) /\ L = Counted(M)
      BY <2>6, OwnOfIs, OwnFormIs
    <3>2. M \subseteq Bytes
      BY DEF TwoOf
    <3>3. ReaderOf(h, s, NoView, M)
      <4>1. ReaderOf(g[t.key], s, NoView, G[t.key]) /\ ReaderOf(g[t.of], s, NoView, G[t.of])
        BY <2>6, PartsAre
      <4> QED BY <4>1, PairReads
    <3> HIDE DEF f, L, h, M
    <3>4. Returns(f[p], s, p, NoView, L)
      BY <3>1, <3>2, <3>3, OwnMapReturns
    <3> QED BY <3>4 DEF f, L
  <2> QED BY <2>1, <2>2, <2>3, <2>4, <2>5, <2>6, PartsAre
<1>2. DOMAIN f = 0 .. Len(s)
  BY DEF OwnOf
<1> HIDE DEF f, L
<1>3. ReaderOf(f, s, NoView, L)
  BY <1>1, <1>2 DEF ReaderOf
<1> QED BY <1>3 DEF f, L

(* The readers in which the recursions over the types are solved.          *)
Readers(s, W) ==
  {f \in [0 .. Len(s) -> Outcome(s, W)] : ReaderOf(f, s, W, Bytes)}

(* What it takes for a reader to be one of Readers.                        *)
LEMMA ReadersAre ==
  ASSUME NEW s, NEW W, NEW f, NEW L, L \subseteq Bytes, ReaderOf(f, s, W, L),
         f = [pos \in 0 .. Len(s) |-> f[pos]]
  PROVE  f \in Readers(s, W)
<1>1. \A p \in 0 .. Len(s) : Returns(f[p], s, p, W, Bytes)
  BY ReturnsWider DEF ReaderOf
<1>2. ReaderOf(f, s, W, Bytes)
  BY <1>1 DEF ReaderOf
<1>3. \A p \in 0 .. Len(s) : f[p] \in Outcome(s, W)
  BY <1>1 DEF Returns
<1>4. f \in [0 .. Len(s) -> Outcome(s, W)]
  BY <1>3
<1> QED BY <1>2, <1>4 DEF Readers

(* There are readers.                                                      *)
LEMMA ReadersExist ==
  ASSUME NEW s \in Bytes, NEW W, << >> \in W
  PROVE  Readers(s, W) # {}
<1> DEFINE y(p) == Error("UnexpectedEof", p)
           f == [pos \in 0 .. Len(s) |-> y(pos)]
<1>1. ASSUME NEW p \in 0 .. Len(s) PROVE Returns(f[p], s, p, W, Bytes)
  <2>1. p \in p .. Len(s) /\ "UnexpectedEof" \in Failures
    BY DEF Failures
  <2>2. Returns(y(p), s, p, W, Bytes)
    BY <2>1, ErrorReturns
  <2>3. f[p] = y(p)
    OBVIOUS
  <2> QED BY <2>2, <2>3
<1>2. DOMAIN f = 0 .. Len(s) /\ f = [pos \in 0 .. Len(s) |-> f[pos]]
  OBVIOUS
<1> HIDE DEF f
<1>3. ReaderOf(f, s, W, Bytes)
  BY <1>1, <1>2 DEF ReaderOf
<1>4. f \in Readers(s, W)
  BY <1>2, <1>3, ReadersAre
<1> QED BY <1>4

OwnOfs(s, lim, V) == [t \in Types |-> [g \in [Types -> V] |-> OwnOf(t, g, s, lim)]]

(* Own is the solution of its equation,                                    *)
LEMMA OwnEquation ==
  ASSUME NEW s \in Bytes, NEW lim
  PROVE  Own(s, lim) = [t \in Types |-> OwnOf(t, Own(s, lim), s, lim)]
<1> DEFINE V == Readers(s, NoView)
           Steps == OwnOfs(s, lim, V)
           B == [t \in Types |-> Bytes]
           Eq(f) == f = [t \in Types |-> OwnOf(t, f, s, lim)]
<1>1. B \in [Types -> SUBSET Bytes]
  OBVIOUS
<1>2. ASSUME NEW t \in Types, NEW g \in [Types -> V] PROVE OwnOf(t, g, s, lim) \in V
  <2>1. \A q \in Parts(t) : ReaderOf(g[q], s, NoView, B[q])
    BY PartsAre DEF Readers
  <2>2. ReaderOf(OwnOf(t, g, s, lim), s, NoView, OwnForm(t, B))
    BY <1>1, <2>1, OwnStep
  <2>3. OwnForm(t, B) \subseteq Bytes
    <3>1. \A q \in Types : B[q] \in SUBSET Bytes
      OBVIOUS
    <3> HIDE DEF B
    <3>2. t.k = "option" => B[t.of] \in SUBSET Bytes
      BY <3>1, PartsAre
    <3>3. t.k = "vec" => B[t.of] \in SUBSET Bytes
      BY <3>1, PartsAre
    <3>4. t.k = "map" => TwoOf(B[t.key], B[t.of]) \in SUBSET Bytes
      BY FormsAreBytes
    <3> QED BY <3>2, <3>3, <3>4, PartsAre, OwnFormIs, FormsAreBytes
  <2>4. OwnOf(t, g, s, lim) = [pos \in 0 .. Len(s) |-> OwnOf(t, g, s, lim)[pos]]
    BY OwnOfFcn
  <2> QED BY <2>2, <2>3, <2>4, ReadersAre
<1>3. ASSUME NEW t \in Types, NEW g \in [Types -> V], NEW h \in [Types -> V],
             \A q \in Parts(t) : g[q] = h[q]
      PROVE  OwnOf(t, g, s, lim) = OwnOf(t, h, s, lim)
  <2>1. t.k \in {"option", "vec"} => g[t.of] = h[t.of]
    BY <1>3, PartsAre
  <2>2. t.k = "map" => g[t.of] = h[t.of] /\ g[t.key] = h[t.key]
    BY <1>3, PartsAre
  <2>3. \A pos \in 0 .. Len(s) : OwnOf(t, g, s, lim)[pos] = OwnOf(t, h, s, lim)[pos]
    BY <2>1, <2>2, PartsAre, OwnOfIs
  <2>4. OwnOf(t, g, s, lim) = [pos \in 0 .. Len(s) |-> OwnOf(t, g, s, lim)[pos]]
    BY OwnOfFcn
  <2>5. OwnOf(t, h, s, lim) = [pos \in 0 .. Len(s) |-> OwnOf(t, h, s, lim)[pos]]
    BY OwnOfFcn
  <2> QED BY <2>3, <2>4, <2>5
<1> HIDE DEF V
<1>4. \A t \in Types, g \in [Types -> V] : Steps[t][g] = OwnOf(t, g, s, lim)
  BY DEF OwnOfs
<1>5. Steps \in [Types -> [[Types -> V] -> V]]
  BY <1>2 DEF OwnOfs
<1> HIDE DEF Steps
<1>6. LooksAtParts(V, Steps)
  <2> SUFFICES ASSUME NEW t \in Types, NEW g \in [Types -> V], NEW h \in [Types -> V],
                      \A q \in Parts(t) : g[q] = h[q]
               PROVE  Steps[t][g] = Steps[t][h]
    BY DEF LooksAtParts
  <2> QED BY <1>3, <1>4
<1>7. V # {}
  <2>1. << >> \in NoView
    BY DEF NoView
  <2> QED BY <2>1, ReadersExist DEF V
<1>8. PICK f : Solves(f, Types, V, Steps)
  BY <1>5, <1>6, <1>7, TypeRecursion
<1>9. Eq(f)
  BY <1>4, <1>8 DEF Solves
<1>10. Own(s, lim) = CHOOSE h : Eq(h)
  BY Zenon DEF Own
<1>11. Eq(Own(s, lim))
  <2> HIDE DEF Eq
  <2> QED BY <1>9, <1>10, Zenon
<1> QED BY <1>11

(* so that the reader for a type is made of those for its parts.           *)
LEMMA OwnIs ==
  ASSUME NEW s \in Bytes, NEW lim, NEW t \in Types
  PROVE  Own(s, lim)[t] = OwnOf(t, Own(s, lim), s, lim)
<1> DEFINE own == Own(s, lim)
<1>1. own = [q \in Types |-> OwnOf(q, own, s, lim)]
  BY OwnEquation
<1> HIDE DEF own
<1>2. own[t] = OwnOf(t, own, s, lim)
  BY <1>1
<1> QED BY <1>2 DEF own

(* What the owned decode accepts is an encoding of the type.               *)
LEMMA OwnReads ==
  ASSUME NEW s \in Bytes, NEW lim, NEW t \in Types
  PROVE  ReaderOf(Own(s, lim)[t], s, NoView, Encoded[t])
<1> DEFINE own == Own(s, lim)
           T == {q \in Types : ReaderOf(own[q], s, NoView, Encoded[q])}
<1>1. ASSUME NEW q \in Types, Parts(q) \subseteq T PROVE q \in T
  <2>1. \A r \in Parts(q) : ReaderOf(own[r], s, NoView, Encoded[r])
    BY <1>1
  <2>2. own[q] = OwnOf(q, own, s, lim) /\ Encoded[q] = OwnForm(q, Encoded)
    BY OwnIs, EncodedIs
  <2> HIDE DEF own
  <2>3. ReaderOf(OwnOf(q, own, s, lim), s, NoView, OwnForm(q, Encoded))
    BY <2>1, EncodedIs, OwnStep
  <2> QED BY <2>2, <2>3
<1>2. T \in SUBSET Types
  OBVIOUS
<1> HIDE DEF T
<1>3. T = Types
  BY <1>1, <1>2, TypeInduction
<1> QED BY <1>3 DEF T

-----------------------------------------------------------------------------
(* The scan of a view                                                      *)

(* The encodings of the items of a view. *)
ItemForm(t, G) == IF t.k = "map" THEN TwoOf(G[t.key], G[t.of]) ELSE G[t.of]

(* The reader for an item of a collection, from those for its parts.       *)
LEMMA ItemReads ==
  ASSUME NEW s \in Bytes, NEW t \in Types, t.k \in {"vec", "map"},
         NEW G \in [Types -> SUBSET Bytes], NEW g,
         \A q \in Parts(t) : ReaderOf(g[q], s, NoView, G[q])
  PROVE  /\ ReaderOf(Item(t, g), s, NoView, ItemForm(t, G))
         /\ ItemForm(t, G) \subseteq Bytes
<1>1. CASE t.k = "map"
  <2>1. ReaderOf(g[t.key], s, NoView, G[t.key]) /\ ReaderOf(g[t.of], s, NoView, G[t.of])
    BY <1>1, PartsAre
  <2>2. Item(t, g) = Pair(g[t.key], g[t.of]) /\ ItemForm(t, G) = TwoOf(G[t.key], G[t.of])
    BY <1>1 DEF Item, ItemForm
  <2> QED BY <2>1, <2>2, PairReads, FormsAreBytes
<1>2. CASE t.k = "vec"
  <2>1. ReaderOf(g[t.of], s, NoView, G[t.of]) /\ G[t.of] \subseteq Bytes
    BY <1>2, PartsAre
  <2>2. Item(t, g) = g[t.of] /\ ItemForm(t, G) = G[t.of]
    BY <1>2 DEF Item, ItemForm
  <2> QED BY <2>1, <2>2
<1> QED BY <1>1, <1>2

(* SkipView without its Try.                                               *)
LEMMA SkipViewIs ==
  ASSUME NEW t, NEW g, NEW s, NEW p, NEW lim
  PROVE  LET count == ReadCount(s, p, lim) IN
         SkipView(t, g, s, p, lim) =
           IF count.err # "none" THEN Error(count.err, count.pos)
           ELSE Repeat(Item(t, g), count.pos, count.val)
<1> DEFINE count == ReadCount(s, p, lim)
<1> HIDE DEF count
<1> QED BY DEF SkipView, Try, count

(* The scan of a collection takes a count and as many items.               *)
LEMMA SkipViewReturns ==
  ASSUME NEW s \in Bytes, NEW p \in 0 .. Len(s), NEW lim, NEW t, NEW g, NEW L, L \subseteq Bytes,
         ReaderOf(Item(t, g), s, NoView, L)
  PROVE  /\ Returns(SkipView(t, g, s, p, lim), s, p, NoView, Counted(L))
         /\ SkipView(t, g, s, p, lim).err = "none" =>
              /\ ReadCount(s, p, lim).err = "none"
              /\ SkipView(t, g, s, p, lim).pos \in ReadCount(s, p, lim).pos .. Len(s)
              /\ Slice(s, ReadCount(s, p, lim).pos, SkipView(t, g, s, p, lim).pos)
                   \in Joined(L, ReadCount(s, p, lim).val)
<1> DEFINE c == ReadCount(s, p, lim)
           y == Repeat(Item(t, g), c.pos, c.val)
           z == SkipView(t, g, s, p, lim)
           M == Counted(L)
<1>1. IntegerRead(c, s, p)
  BY CountRead
<1>2. z = IF c.err # "none" THEN Error(c.err, c.pos) ELSE y
  BY SkipViewIs
<1>3. << >> \in NoView
  BY DEF NoView
<1> HIDE DEF c, z, M
<1>4. c.pos \in p .. Len(s) /\ (c.err # "none" => c.err \in Failures)
  BY <1>1 DEF IntegerRead
<1>5. CASE c.err # "none"
  <2>1. Returns(Error(c.err, c.pos), s, p, NoView, M) /\ Error(c.err, c.pos).err # "none"
    BY <1>3, <1>4, <1>5, ErrorReturns
  <2> QED BY <1>2, <1>5, <2>1 DEF z, M
<1>6. CASE c.err = "none"
  <2>1. c.val \in Nat /\ c.pos \in 0 .. Len(s)
    BY <1>1, <1>6 DEF IntegerRead
  <2>2. Returns(y, s, c.pos, NoView, Joined(L, c.val))
    BY <2>1, RepeatReturns
  <2> HIDE DEF y
  <2>3. /\ y.pos \in c.pos .. Len(s)
        /\ y.err = "none" => Slice(s, c.pos, y.pos) \in Joined(L, c.val)
    BY <2>1, <2>2, ReturnsParts
  <2>4. y.pos \in p .. Len(s) /\ y.pos >= p
    BY <1>4, <2>3
  <2>5. y.err = "none" => Slice(s, p, y.pos) \in M
    BY <1>1, <1>6, <2>3, CountedRead DEF M
  <2>6. Returns(y, s, p, NoView, M)
    BY <2>2, <2>4, <2>5 DEF Returns
  <2>7. z = y
    BY <1>2, <1>6
  <2> QED BY <1>6, <2>3, <2>6, <2>7 DEF z, M, c
<1> QED BY <1>5, <1>6

(* SkipOf by the borrowed type.                                            *)
LEMMA SkipOfIs ==
  ASSUME NEW t \in Types, NEW g, NEW s, NEW lim, NEW p \in 0 .. Len(s)
  PROVE  /\ Borrowed(t) \in {"str", "bytes"} => SkipOf(t, g, s, lim)[p] = ReadBytes(s, p, lim)
         /\ Borrowed(t) = "view" => SkipOf(t, g, s, lim)[p] = SkipView(t, g, s, p, lim)
         /\ Borrowed(t) = "owned" => SkipOf(t, g, s, lim)[p] = Own(s, lim)[t][p]
BY DEF SkipOf, SkipBytes

(* SkipOf is a function of the position.                                   *)
LEMMA SkipOfFcn ==
  ASSUME NEW t, NEW g, NEW s, NEW lim
  PROVE  SkipOf(t, g, s, lim) = [pos \in 0 .. Len(s) |-> SkipOf(t, g, s, lim)[pos]]
<1> DEFINE D == 0 .. Len(s)
           e(pos) == CASE Borrowed(t) \in {"str", "bytes"} -> SkipBytes(s, pos, lim)
                       [] Borrowed(t) = "view" -> SkipView(t, g, s, pos, lim)
                       [] OTHER -> Own(s, lim)[t][pos]
           f == [pos \in D |-> e(pos)]
<1>1. SkipOf(t, g, s, lim) = f
  BY Zenon DEF SkipOf
<1> HIDE DEF D, e
<1>2. f = [pos \in D |-> f[pos]]
  OBVIOUS
<1> HIDE DEF f
<1> QED BY <1>1, <1>2 DEF D

(* A scan takes what it should if the scans of the parts do.               *)
LEMMA SkipStep ==
  ASSUME NEW s \in Bytes, NEW lim, NEW t \in Types, NEW G \in [Types -> SUBSET Bytes], NEW g,
         \A q \in Parts(t) : ReaderOf(g[q], s, NoView, G[q])
  PROVE  ReaderOf(SkipOf(t, g, s, lim), s, NoView, LazyForm(t, G))
<1> DEFINE f == SkipOf(t, g, s, lim)
           L == LazyForm(t, G)
<1>1. ASSUME NEW p \in 0 .. Len(s) PROVE Returns(f[p], s, p, NoView, L)
  <2>1. CASE Borrowed(t) \in {"str", "bytes"}
    <3>1. f[p] = ReadBytes(s, p, lim) /\ L = Sized
      BY <2>1, SkipOfIs, LazyFormIs
    <3> QED BY <3>1, ReadBytesReturns
  <2>2. CASE Borrowed(t) = "view"
    <3>1. t.k \in {"vec", "map"}
      BY <2>2, BorrowedIs
    <3> DEFINE M == ItemForm(t, G)
    <3>2. f[p] = SkipView(t, g, s, p, lim) /\ L = Counted(M)
      BY <2>2, <3>1, SkipOfIs, LazyFormIs DEF ItemForm
    <3>3. ReaderOf(Item(t, g), s, NoView, M) /\ M \subseteq Bytes
      BY <3>1, ItemReads
    <3> HIDE DEF f, L, M
    <3>4. Returns(f[p], s, p, NoView, L)
      BY <3>2, <3>3, SkipViewReturns
    <3> QED BY <3>4 DEF f, L
  <2>3. CASE Borrowed(t) = "owned"
    <3>1. f[p] = Own(s, lim)[t][p] /\ L = Encoded[t]
      BY <2>3, SkipOfIs, LazyFormIs
    <3>2. ReaderOf(Own(s, lim)[t], s, NoView, Encoded[t])
      BY OwnReads
    <3> QED BY <3>1, <3>2 DEF ReaderOf
  <2> QED BY <2>1, <2>2, <2>3, BorrowedIs
<1>2. DOMAIN f = 0 .. Len(s)
  BY SkipOfFcn
<1> HIDE DEF f, L
<1>3. ReaderOf(f, s, NoView, L)
  BY <1>1, <1>2 DEF ReaderOf
<1> QED BY <1>3 DEF f, L

SkipOfs(s, lim, V) == [t \in Types |-> [g \in [Types -> V] |-> SkipOf(t, g, s, lim)]]

(* Skip is the solution of its equation,                                   *)
LEMMA SkipEquation ==
  ASSUME NEW s \in Bytes, NEW lim
  PROVE  Skip(s, lim) = [t \in Types |-> SkipOf(t, Skip(s, lim), s, lim)]
<1> DEFINE V == Readers(s, NoView)
           Steps == SkipOfs(s, lim, V)
           B == [t \in Types |-> Bytes]
           Eq(f) == f = [t \in Types |-> SkipOf(t, f, s, lim)]
<1>1. B \in [Types -> SUBSET Bytes]
  OBVIOUS
<1>2. ASSUME NEW t \in Types, NEW g \in [Types -> V] PROVE SkipOf(t, g, s, lim) \in V
  <2>1. \A q \in Parts(t) : ReaderOf(g[q], s, NoView, B[q])
    BY PartsAre DEF Readers
  <2>2. ReaderOf(SkipOf(t, g, s, lim), s, NoView, LazyForm(t, B))
    BY <1>1, <2>1, SkipStep
  <2>3. LazyForm(t, B) \subseteq Bytes
    <3>1. \A q \in Types : B[q] \in SUBSET Bytes
      OBVIOUS
    <3> HIDE DEF B
    <3>2. t.k = "vec" => B[t.of] \in SUBSET Bytes
      BY <3>1, PartsAre
    <3>3. t.k = "map" => TwoOf(B[t.key], B[t.of]) \in SUBSET Bytes
      BY FormsAreBytes
    <3>4. Encoded[t] \in SUBSET Bytes
      BY EncodedIs
    <3> QED BY <3>2, <3>3, <3>4, BorrowedIs, LazyFormIs, FormsAreBytes
  <2>4. SkipOf(t, g, s, lim) = [pos \in 0 .. Len(s) |-> SkipOf(t, g, s, lim)[pos]]
    BY SkipOfFcn
  <2> QED BY <2>2, <2>3, <2>4, ReadersAre
<1>3. ASSUME NEW t \in Types, NEW g \in [Types -> V], NEW h \in [Types -> V],
             \A q \in Parts(t) : g[q] = h[q]
      PROVE  SkipOf(t, g, s, lim) = SkipOf(t, h, s, lim)
  <2>1. Borrowed(t) = "view" => Item(t, g) = Item(t, h)
    <3>1. t.k \in {"option", "vec"} => g[t.of] = h[t.of]
      BY <1>3, PartsAre
    <3>2. t.k = "map" => g[t.of] = h[t.of] /\ g[t.key] = h[t.key]
      BY <1>3, PartsAre
    <3> QED BY <3>1, <3>2, BorrowedIs DEF Item
  <2>2. Borrowed(t) = "view" => \A p \in 0 .. Len(s) : SkipView(t, g, s, p, lim) = SkipView(t, h, s, p, lim)
    BY <2>1, SkipViewIs
  <2>3. \A pos \in 0 .. Len(s) : SkipOf(t, g, s, lim)[pos] = SkipOf(t, h, s, lim)[pos]
    BY <2>2, BorrowedIs, SkipOfIs
  <2>4. SkipOf(t, g, s, lim) = [pos \in 0 .. Len(s) |-> SkipOf(t, g, s, lim)[pos]]
    BY SkipOfFcn
  <2>5. SkipOf(t, h, s, lim) = [pos \in 0 .. Len(s) |-> SkipOf(t, h, s, lim)[pos]]
    BY SkipOfFcn
  <2> QED BY <2>3, <2>4, <2>5
<1> HIDE DEF V
<1>4. \A t \in Types, g \in [Types -> V] : Steps[t][g] = SkipOf(t, g, s, lim)
  BY DEF SkipOfs
<1>5. Steps \in [Types -> [[Types -> V] -> V]]
  BY <1>2 DEF SkipOfs
<1> HIDE DEF Steps
<1>6. LooksAtParts(V, Steps)
  <2> SUFFICES ASSUME NEW t \in Types, NEW g \in [Types -> V], NEW h \in [Types -> V],
                      \A q \in Parts(t) : g[q] = h[q]
               PROVE  Steps[t][g] = Steps[t][h]
    BY DEF LooksAtParts
  <2> QED BY <1>3, <1>4
<1>7. V # {}
  <2>1. << >> \in NoView
    BY DEF NoView
  <2> QED BY <2>1, ReadersExist DEF V
<1>8. PICK f : Solves(f, Types, V, Steps)
  BY <1>5, <1>6, <1>7, TypeRecursion
<1>9. Eq(f)
  BY <1>4, <1>8 DEF Solves
<1>10. Skip(s, lim) = CHOOSE h : Eq(h)
  BY Zenon DEF Skip
<1>11. Eq(Skip(s, lim))
  <2> HIDE DEF Eq
  <2> QED BY <1>9, <1>10, Zenon
<1> QED BY <1>11

(* so that the scan of a type is made of those of its parts.               *)
LEMMA SkipIs ==
  ASSUME NEW s \in Bytes, NEW lim, NEW t \in Types
  PROVE  Skip(s, lim)[t] = SkipOf(t, Skip(s, lim), s, lim)
<1> DEFINE skip == Skip(s, lim)
<1>1. skip = [q \in Types |-> SkipOf(q, skip, s, lim)]
  BY SkipEquation
<1> HIDE DEF skip
<1>2. skip[t] = SkipOf(t, skip, s, lim)
  BY <1>1
<1> QED BY <1>2 DEF skip

(* What a scan accepts is a scanned encoding of the type.                  *)
LEMMA SkipReads ==
  ASSUME NEW s \in Bytes, NEW lim, NEW t \in Types
  PROVE  ReaderOf(Skip(s, lim)[t], s, NoView, Scanned[t])
<1> DEFINE skip == Skip(s, lim)
           T == {q \in Types : ReaderOf(skip[q], s, NoView, Scanned[q])}
<1>1. ASSUME NEW q \in Types, Parts(q) \subseteq T PROVE q \in T
  <2>1. \A r \in Parts(q) : ReaderOf(skip[r], s, NoView, Scanned[r])
    BY <1>1
  <2>2. skip[q] = SkipOf(q, skip, s, lim) /\ Scanned[q] = LazyForm(q, Scanned)
    BY SkipIs, ScannedIs
  <2> HIDE DEF skip
  <2>3. ReaderOf(SkipOf(q, skip, s, lim), s, NoView, LazyForm(q, Scanned))
    BY <2>1, ScannedIs, SkipStep
  <2> QED BY <2>2, <2>3
<1>2. T \in SUBSET Types
  OBVIOUS
<1> HIDE DEF T
<1>3. T = Types
  BY <1>1, <1>2, TypeInduction
<1> QED BY <1>3 DEF T

-----------------------------------------------------------------------------
(* Views, and the borrowed decode                                          *)

(* The encodings of the items of a view of type t, and the views that a    *)
(* scan makes.                                                             *)
Items(t) == ItemForm(t, Scanned)

GoodViews ==
  {v \in [ty : Types, bytes : Bytes, count : Nat, max_size : Nat] :
     /\ v.ty.k \in {"vec", "map"}
     /\ Len(v.bytes) <= v.max_size
     /\ v.bytes \in Joined(Items(v.ty), v.count)}
Views == NoView \cup {<<v>> : v \in GoodViews}

(* The items of a view.                                                    *)
LEMMA ItemsAre ==
  ASSUME NEW t \in Types, t.k \in {"vec", "map"}, NEW s \in Bytes, NEW lim
  PROVE  /\ PrefixFree(Items(t))
         /\ ReaderOf(Item(t, Skip(s, lim)), s, NoView, Items(t))
         /\ Items(t) \subseteq Bytes
         /\ Borrowed(t) = "view" => Scanned[t] = Counted(Items(t))
<1>1. \A q \in Parts(t) : q \in Types
  BY PartsAre
<1>2. \A q \in Parts(t) : ReaderOf(Skip(s, lim)[q], s, NoView, Scanned[q])
  BY <1>1, SkipReads
<1>3. ReaderOf(Item(t, Skip(s, lim)), s, NoView, Items(t)) /\ Items(t) \subseteq Bytes
  BY <1>2, ScannedIs, ItemReads DEF Items
<1>4. PrefixFree(Items(t))
  <2>1. CASE t.k = "map"
    <3>1. PrefixFree(Scanned[t.key]) /\ PrefixFree(Scanned[t.of])
      BY <2>1, PartsAre, ScannedPrefixFree
    <3> QED BY <2>1, <3>1, TwoOfPrefixFree DEF Items, ItemForm
  <2>2. CASE t.k = "vec"
    <3>1. PrefixFree(Scanned[t.of])
      BY <2>2, PartsAre, ScannedPrefixFree
    <3> QED BY <2>2, <3>1 DEF Items, ItemForm
  <2> QED BY <2>1, <2>2
<1>5. Borrowed(t) = "view" => Scanned[t] = Counted(Items(t))
  BY ScannedIs, LazyFormIs DEF Items, ItemForm
<1> QED BY <1>3, <1>4, <1>5

(* View without its Try.                                                   *)
LEMMA ViewIs ==
  ASSUME NEW t, NEW s, NEW p, NEW lim
  PROVE  LET count == ReadCount(s, p, lim)
             scan == Skip(s, lim)[t][p]
         IN  View(t, s, p, lim) =
               IF count.err # "none" THEN Error(count.err, count.pos)
               ELSE IF scan.err # "none" THEN Error(scan.err, scan.pos)
               ELSE [Value(scan.pos, EncodeVarint[count.val], << >>) EXCEPT
                       !.view = <<[ty |-> t, bytes |-> SubSeq(s, count.pos + 1, scan.pos),
                                   count |-> count.val, max_size |-> ViewSize(lim)]>>]
<1> DEFINE count == ReadCount(s, p, lim)
           scan == Skip(s, lim)[t][p]
<1> HIDE DEF count, scan
<1> QED BY DEF View, Try, count, scan

(* What is written of a view: its count, and its items.                    *)
OpensView(res, s, p, t) ==
  \E v \in GoodViews :
    /\ res.view = <<v>> /\ v.ty = t /\ v.count \in 0 .. Limit - 1
    /\ res.val = EncodeVarint[v.count]
    /\ Slice(s, p, res.pos) = Then(res.val, v.bytes)

(* The view of a collection is as long as its items, and takes what its    *)
(* scan takes.                                                             *)
LEMMA ViewReturns ==
  ASSUME NEW s \in Bytes, NEW p \in 0 .. Len(s), NEW lim, lim.packet \in Nat,
         Len(s) <= lim.packet, NEW t \in Types, Borrowed(t) = "view"
  PROVE  /\ Returns(View(t, s, p, lim), s, p, Views, Scanned[t])
         /\ View(t, s, p, lim).err = "none" =>
              OpensView(View(t, s, p, lim), s, p, t)
<1> DEFINE c == ReadCount(s, p, lim)
           y == Skip(s, lim)[t][p]
           z == View(t, s, p, lim)
           L == Items(t)
           M == Scanned[t]
           v == [ty |-> t, bytes |-> SubSeq(s, c.pos + 1, y.pos),
                 count |-> c.val, max_size |-> ViewSize(lim)]
<1>0. << >> \in Views /\ t.k \in {"vec", "map"} /\ Len(s) \in Nat
  BY BorrowedIs DEF Views, NoView, Bytes
<1>1. IntegerRead(c, s, p)
  BY CountRead
<1>2. z = IF c.err # "none" THEN Error(c.err, c.pos)
          ELSE IF y.err # "none" THEN Error(y.err, y.pos)
          ELSE [Value(y.pos, EncodeVarint[c.val], << >>) EXCEPT !.view = <<v>>]
  BY ViewIs
<1>3. y = SkipView(t, Skip(s, lim), s, p, lim)
  BY SkipIs, SkipOfIs
<1>4. ReaderOf(Item(t, Skip(s, lim)), s, NoView, L) /\ L \subseteq Bytes /\ M = Counted(L)
  BY <1>0, ItemsAre
<1>5. /\ Returns(y, s, p, NoView, Counted(L))
      /\ y.err = "none" => /\ c.err = "none"
                           /\ y.pos \in c.pos .. Len(s)
                           /\ Slice(s, c.pos, y.pos) \in Joined(L, c.val)
  BY <1>3, <1>4, SkipViewReturns
<1> HIDE DEF c, y, z, L, M
<1>6. /\ y.pos \in p .. Len(s) /\ y.pos \in 0 .. Len(s)
      /\ y.err = "none" => Slice(s, p, y.pos) \in M
      /\ y.err # "none" => y.err \in Failures
  BY <1>4, <1>5, ReturnsParts
<1>7. CASE c.err # "none"
  <2>1. c.pos \in p .. Len(s) /\ c.err \in Failures
    BY <1>1, <1>7 DEF IntegerRead
  <2>2. Returns(Error(c.err, c.pos), s, p, Views, M) /\ Error(c.err, c.pos).err # "none"
    BY <1>0, <2>1, ErrorReturns
  <2> QED BY <1>2, <1>7, <2>2 DEF z, M
<1>8. CASE c.err = "none" /\ y.err # "none"
  <2>1. Returns(Error(y.err, y.pos), s, p, Views, M) /\ Error(y.err, y.pos).err # "none"
    BY <1>0, <1>6, <1>8, ErrorReturns
  <2> QED BY <1>2, <1>8, <2>1 DEF z, M
<1>9. CASE c.err = "none" /\ y.err = "none"
  <2>1. /\ c.val \in Nat /\ c.val \in 0 .. Limit - 1 /\ EncodeVarint[c.val] \in Bytes
        /\ c.pos \in 0 .. Len(s) /\ c.pos \in p .. Len(s)
    BY <1>1, <1>9 DEF IntegerRead
  <2>2. y.pos \in c.pos .. Len(s) /\ Slice(s, c.pos, y.pos) \in Joined(L, c.val)
    BY <1>5, <1>9
  <2> DEFINE b == Slice(s, c.pos, y.pos)
             e == EncodeVarint[c.val]
  <2>3. b \in Bytes /\ Len(b) = y.pos - c.pos
    BY <2>1, <2>2, SliceFacts
  <2>4. v = [ty |-> t, bytes |-> b, count |-> c.val, max_size |-> lim.packet]
    BY DEF ViewSize, Slice
  <2>5. Slice(s, p, y.pos) = e \o b
    BY <1>1, <1>9, <2>2, CountedRead
  <2>6. b \in Joined(Items(t), c.val)
    BY <2>2 DEF L
  <2>7. Len(b) <= lim.packet
    <3>1. Len(b) <= Len(s)
      BY <1>0, <2>1, <2>2, <2>3
    <3> HIDE DEF b
    <3> QED BY <1>0, <2>3, <3>1 DEF Bytes
  <2> HIDE DEF b, e, v
  <2>8. v.ty = t /\ v.bytes = b /\ v.count = c.val /\ v.max_size = lim.packet
        /\ v \in [ty : Types, bytes : Bytes, count : Nat, max_size : Nat]
    BY <2>1, <2>3, <2>4
  <2>9. v \in GoodViews
    BY <1>0, <2>6, <2>7, <2>8 DEF GoodViews
  <2>10. z = [err |-> "none", pos |-> y.pos, val |-> e, key |-> << >>, view |-> <<v>>]
    BY <1>2, <1>9 DEF Value, e
  <2>11. <<v>> \in Views /\ "none" \in Codes
    BY <2>9 DEF Views, Codes
  <2>12. e \in Bytes
    BY <2>1 DEF e
  <2>13. z \in Outcome(s, Views) /\ z.pos = y.pos /\ z.val = e /\ z.view = <<v>>
    BY <1>6, <2>10, <2>11, <2>12, EmptyBytes DEF Outcome
  <2>14. Returns(z, s, p, Views, M)
    BY <1>6, <1>9, <2>13 DEF Returns
  <2>15. Slice(s, p, z.pos) = Then(z.val, v.bytes) /\ z.val = EncodeVarint[v.count]
    <3>1. Slice(s, p, y.pos) = Then(e, b)
      BY <2>5, Zenon DEF Then
    <3>2. z.val = e /\ v.bytes = b /\ z.pos = y.pos /\ e = EncodeVarint[v.count]
      BY <2>8, <2>13 DEF e
    <3> QED BY <3>1, <3>2, Zenon
  <2>16. OpensView(z, s, p, t)
    BY <2>1, <2>8, <2>9, <2>13, <2>15 DEF OpensView
  <2> QED BY <2>14, <2>16 DEF z, M
<1> QED BY <1>7, <1>8, <1>9

(* Borrow by the borrowed type.                                            *)
LEMMA BorrowIs ==
  ASSUME NEW t \in Types, NEW s, NEW lim, NEW p
  PROVE  /\ Borrowed(t) = "str" => Borrow(t, s, p, lim) = ReadString(s, p, lim)
         /\ Borrowed(t) = "bytes" => Borrow(t, s, p, lim) = ReadBytes(s, p, lim)
         /\ Borrowed(t) = "view" => Borrow(t, s, p, lim) = View(t, s, p, lim)
         /\ Borrowed(t) = "owned" => Borrow(t, s, p, lim) = Own(s, lim)[t][p]
BY DEF Borrow

(* The decode of an item takes what the scan of it takes.                  *)
LEMMA BorrowReturns ==
  ASSUME NEW s \in Bytes, NEW p \in 0 .. Len(s), NEW lim, lim.packet \in Nat,
         Len(s) <= lim.packet, NEW t \in Types
  PROVE  Returns(Borrow(t, s, p, lim), s, p, Views, Scanned[t])
<1> DEFINE z == Borrow(t, s, p, lim)
           M == Scanned[t]
<1>0. NoView \subseteq Views
  BY DEF Views
<1>1. CASE Borrowed(t) = "str"
  <2>1. z = ReadString(s, p, lim) /\ M = Sized
    BY <1>1, BorrowIs, ScannedIs, LazyFormIs
  <2> HIDE DEF z, M
  <2>2. Returns(z, s, p, NoView, M)
    BY <2>1, ReadStringReturns
  <2>3. Returns(z, s, p, Views, M)
    BY <1>0, <2>2, ReturnsWider
  <2> QED BY <2>3 DEF z, M
<1>2. CASE Borrowed(t) = "bytes"
  <2>1. z = ReadBytes(s, p, lim) /\ M = Sized
    BY <1>2, BorrowIs, ScannedIs, LazyFormIs
  <2> HIDE DEF z, M
  <2>2. Returns(z, s, p, NoView, M)
    BY <2>1, ReadBytesReturns
  <2>3. Returns(z, s, p, Views, M)
    BY <1>0, <2>2, ReturnsWider
  <2> QED BY <2>3 DEF z, M
<1>3. CASE Borrowed(t) = "view"
  <2>1. z = View(t, s, p, lim)
    BY <1>3, BorrowIs
  <2>2. Returns(View(t, s, p, lim), s, p, Views, M)
    BY <1>3, ViewReturns
  <2> QED BY <2>1, <2>2
<1>4. CASE Borrowed(t) = "owned"
  <2>1. z = Own(s, lim)[t][p] /\ M = Encoded[t]
    BY <1>4, BorrowIs, ScannedIs, LazyFormIs
  <2>2. Returns(Own(s, lim)[t][p], s, p, NoView, Encoded[t])
    BY OwnReads DEF ReaderOf
  <2> HIDE DEF z, M
  <2>3. Returns(z, s, p, NoView, M)
    BY <2>1, <2>2
  <2>4. Returns(z, s, p, Views, M)
    BY <1>0, <2>3, ReturnsWider
  <2> QED BY <2>4 DEF z, M
<1> QED BY <1>1, <1>2, <1>3, <1>4, BorrowedIs

(* BorrowOf by the kind of the type.                                       *)
LEMMA BorrowOfIs ==
  ASSUME NEW t \in Types, NEW g, NEW s, NEW lim, NEW p \in 0 .. Len(s)
  PROVE  /\ t.k = "fixed" => BorrowOf(t, g, s, lim)[p] = ReadSlice(s, p, t.n)
         /\ t.k = "option" => BorrowOf(t, g, s, lim)[p] = ReadOption(g[t.of], s, p)
         /\ t.k \notin {"fixed", "option"} => BorrowOf(t, g, s, lim)[p] = Borrow(t, s, p, lim)
BY DEF BorrowOf

(* BorrowOf is a function of the position.                                 *)
LEMMA BorrowOfFcn ==
  ASSUME NEW t, NEW g, NEW s, NEW lim
  PROVE  BorrowOf(t, g, s, lim) = [pos \in 0 .. Len(s) |-> BorrowOf(t, g, s, lim)[pos]]
<1> DEFINE D == 0 .. Len(s)
           e(pos) == CASE t.k = "fixed" -> ReadSlice(s, pos, t.n)
                       [] t.k = "option" -> ReadOption(g[t.of], s, pos)
                       [] OTHER -> Borrow(t, s, pos, lim)
           f == [pos \in D |-> e(pos)]
<1>1. BorrowOf(t, g, s, lim) = f
  BY Zenon DEF BorrowOf
<1> HIDE DEF D, e
<1>2. f = [pos \in D |-> f[pos]]
  OBVIOUS
<1> HIDE DEF f
<1> QED BY <1>1, <1>2 DEF D

(* A borrowed field gives a good view if the parts do.                     *)
LEMMA BorrowStep ==
  ASSUME NEW s \in Bytes, NEW lim, lim.packet \in Nat, Len(s) <= lim.packet, NEW t \in Types,
         NEW g, \A q \in Parts(t) : ReaderOf(g[q], s, Views, Bytes)
  PROVE  ReaderOf(BorrowOf(t, g, s, lim), s, Views, Bytes)
<1> DEFINE f == BorrowOf(t, g, s, lim)
<1>0. NoView \subseteq Views /\ << >> \in Views
  BY DEF Views, NoView
<1>1. ASSUME NEW p \in 0 .. Len(s) PROVE Returns(f[p], s, p, Views, Bytes)
  <2>1. CASE t.k = "fixed"
    <3>1. f[p] = ReadSlice(s, p, t.n) /\ t.n \in Nat
      BY <2>1, BorrowOfIs, PartsAre
    <3>2. Exactly(t.n) \subseteq Bytes
      BY DEF Exactly
    <3>3. Returns(ReadSlice(s, p, t.n), s, p, NoView, Exactly(t.n))
      BY <3>1, ReadSliceReturns
    <3>4. Returns(ReadSlice(s, p, t.n), s, p, Views, Bytes)
      BY <1>0, <3>2, <3>3, ReturnsWider
    <3> QED BY <3>1, <3>4
  <2>2. CASE t.k = "option"
    <3> DEFINE h == g[t.of]
    <3>1. f[p] = ReadOption(h, s, p)
      BY <2>2, BorrowOfIs
    <3>2. ReaderOf(h, s, Views, Bytes)
      BY <2>2, PartsAre
    <3> HIDE DEF f, h
    <3>3. Returns(ReadOption(h, s, p), s, p, Views, Marked(Bytes))
      BY <1>0, <3>2, OptionReturns
    <3>4. Marked(Bytes) \subseteq Bytes
      BY FormsAreBytes
    <3>5. Returns(ReadOption(h, s, p), s, p, Views, Bytes)
      BY <3>3, <3>4, ReturnsWider
    <3> QED BY <3>1, <3>5 DEF f
  <2>3. CASE t.k \notin {"fixed", "option"}
    <3>1. f[p] = Borrow(t, s, p, lim)
      BY <2>3, BorrowOfIs
    <3>2. Returns(Borrow(t, s, p, lim), s, p, Views, Scanned[t])
      BY BorrowReturns
    <3>3. Scanned[t] \subseteq Bytes
      BY ScannedIs
    <3>4. Returns(Borrow(t, s, p, lim), s, p, Views, Bytes)
      BY <3>2, <3>3, ReturnsWider
    <3> QED BY <3>1, <3>4
  <2> QED BY <2>1, <2>2, <2>3
<1>2. DOMAIN f = 0 .. Len(s)
  BY BorrowOfFcn
<1> HIDE DEF f
<1>3. ReaderOf(f, s, Views, Bytes)
  BY <1>1, <1>2 DEF ReaderOf
<1> QED BY <1>3 DEF f

BorrowOfs(s, lim, V) == [t \in Types |-> [g \in [Types -> V] |-> BorrowOf(t, g, s, lim)]]

(* BorrowField is the solution of its equation,                            *)
LEMMA BorrowEquation ==
  ASSUME NEW s \in Bytes, NEW lim, lim.packet \in Nat, Len(s) <= lim.packet
  PROVE  BorrowField(s, lim) = [t \in Types |-> BorrowOf(t, BorrowField(s, lim), s, lim)]
<1> DEFINE V == Readers(s, Views)
           Steps == BorrowOfs(s, lim, V)
           Eq(f) == f = [t \in Types |-> BorrowOf(t, f, s, lim)]
<1>2. ASSUME NEW t \in Types, NEW g \in [Types -> V] PROVE BorrowOf(t, g, s, lim) \in V
  <2>1. \A q \in Parts(t) : ReaderOf(g[q], s, Views, Bytes)
    BY PartsAre DEF Readers
  <2>2. ReaderOf(BorrowOf(t, g, s, lim), s, Views, Bytes)
    BY <2>1, BorrowStep
  <2>4. BorrowOf(t, g, s, lim) = [pos \in 0 .. Len(s) |-> BorrowOf(t, g, s, lim)[pos]]
    BY BorrowOfFcn
  <2> QED BY <2>2, <2>4, ReadersAre
<1>3. ASSUME NEW t \in Types, NEW g \in [Types -> V], NEW h \in [Types -> V],
             \A q \in Parts(t) : g[q] = h[q]
      PROVE  BorrowOf(t, g, s, lim) = BorrowOf(t, h, s, lim)
  <2>1. t.k = "option" => g[t.of] = h[t.of]
    BY <1>3, PartsAre
  <2>3. \A pos \in 0 .. Len(s) : BorrowOf(t, g, s, lim)[pos] = BorrowOf(t, h, s, lim)[pos]
    BY <2>1, BorrowOfIs
  <2>4. BorrowOf(t, g, s, lim) = [pos \in 0 .. Len(s) |-> BorrowOf(t, g, s, lim)[pos]]
    BY BorrowOfFcn
  <2>5. BorrowOf(t, h, s, lim) = [pos \in 0 .. Len(s) |-> BorrowOf(t, h, s, lim)[pos]]
    BY BorrowOfFcn
  <2> QED BY <2>3, <2>4, <2>5
<1> HIDE DEF V
<1>4. \A t \in Types, g \in [Types -> V] : Steps[t][g] = BorrowOf(t, g, s, lim)
  BY DEF BorrowOfs
<1>5. Steps \in [Types -> [[Types -> V] -> V]]
  BY <1>2 DEF BorrowOfs
<1> HIDE DEF Steps
<1>6. LooksAtParts(V, Steps)
  <2> SUFFICES ASSUME NEW t \in Types, NEW g \in [Types -> V], NEW h \in [Types -> V],
                      \A q \in Parts(t) : g[q] = h[q]
               PROVE  Steps[t][g] = Steps[t][h]
    BY DEF LooksAtParts
  <2> QED BY <1>3, <1>4
<1>7. V # {}
  <2>1. << >> \in Views
    BY DEF Views, NoView
  <2> QED BY <2>1, ReadersExist DEF V
<1>8. PICK f : Solves(f, Types, V, Steps)
  BY <1>5, <1>6, <1>7, TypeRecursion
<1>9. Eq(f)
  BY <1>4, <1>8 DEF Solves
<1>10. BorrowField(s, lim) = CHOOSE h : Eq(h)
  BY Zenon DEF BorrowField
<1>11. Eq(BorrowField(s, lim))
  <2> HIDE DEF Eq
  <2> QED BY <1>9, <1>10, Zenon
<1> QED BY <1>11

(* so that the reader for a type is made of those for its parts.           *)
LEMMA BorrowFieldIs ==
  ASSUME NEW s \in Bytes, NEW lim, lim.packet \in Nat, Len(s) <= lim.packet, NEW t \in Types
  PROVE  BorrowField(s, lim)[t] = BorrowOf(t, BorrowField(s, lim), s, lim)
<1> DEFINE borrow == BorrowField(s, lim)
<1>1. borrow = [q \in Types |-> BorrowOf(q, borrow, s, lim)]
  BY BorrowEquation
<1> HIDE DEF borrow
<1>2. borrow[t] = BorrowOf(t, borrow, s, lim)
  BY <1>1
<1> QED BY <1>2 DEF borrow

(* The view of a field is the view of a scan.                              *)
LEMMA BorrowFieldReads ==
  ASSUME NEW s \in Bytes, NEW lim, lim.packet \in Nat, Len(s) <= lim.packet, NEW t \in Types
  PROVE  ReaderOf(BorrowField(s, lim)[t], s, Views, Bytes)
<1> DEFINE borrow == BorrowField(s, lim)
           T == {q \in Types : ReaderOf(borrow[q], s, Views, Bytes)}
<1>1. ASSUME NEW q \in Types, Parts(q) \subseteq T PROVE q \in T
  <2>1. \A r \in Parts(q) : ReaderOf(borrow[r], s, Views, Bytes)
    BY <1>1
  <2>2. borrow[q] = BorrowOf(q, borrow, s, lim)
    BY BorrowFieldIs
  <2> HIDE DEF borrow
  <2>3. ReaderOf(BorrowOf(q, borrow, s, lim), s, Views, Bytes)
    BY <2>1, BorrowStep
  <2> QED BY <2>2, <2>3
<1>2. T \in SUBSET Types
  OBVIOUS
<1> HIDE DEF T
<1>3. T = Types
  BY <1>1, <1>2, TypeInduction
<1> QED BY <1>3 DEF T

-----------------------------------------------------------------------------
(* The iterators                                                           *)

(* An iterator over a view that a scan has made.                           *)
Iterators ==
  {it \in [view : GoodViews, pos : Nat, remaining : Nat, previous : SUBSET Bytes] :
     /\ it.pos \in 0 .. Len(it.view.bytes)
     /\ it.remaining \in 0 .. it.view.count}

(* What is left of the bytes of an iterator are its remaining items.       *)
ItemsRemain(it) == From(it.view.bytes, it.pos) \in Joined(Items(it.view.ty), it.remaining)

(* The outcomes of a next() of the iterator.                               *)
NextOutcomes(it) ==
  [err : Codes, pos : it.pos .. Len(it.view.bytes), val : Bytes, view : Views,
   previous : SUBSET Bytes]

(* Views of a record and of an iterator, made visible one at a time.       *)
LEMMA GoodViewIs ==
  ASSUME NEW v \in GoodViews
  PROVE  /\ v.ty \in Types /\ v.ty.k \in {"vec", "map"}
         /\ v.bytes \in Bytes /\ v.count \in Nat /\ v.max_size \in Nat
         /\ Len(v.bytes) \in Nat /\ Len(v.bytes) <= v.max_size
         /\ v.bytes \in Joined(Items(v.ty), v.count)
BY DEF GoodViews, Bytes

(* The parts of an iterator,                                               *)
LEMMA IteratorIs ==
  ASSUME NEW it \in Iterators
  PROVE  /\ it.view \in GoodViews
         /\ it.pos \in 0 .. Len(it.view.bytes)
         /\ it.remaining \in 0 .. it.view.count
         /\ it.previous \in SUBSET Bytes
BY DEF Iterators

(* and a new iterator, which has all of its items to go.                   *)
LEMMA IterIs ==
  ASSUME NEW v \in GoodViews
  PROVE  Iter(v) \in Iterators /\ ItemsRemain(Iter(v)) /\ Iter(v).view = v
         /\ Iter(v).pos = 0 /\ Iter(v).remaining = v.count
<1>1. v.bytes \in Bytes /\ v.count \in Nat /\ Len(v.bytes) \in Nat
      /\ v.bytes \in Joined(Items(v.ty), v.count)
  BY GoodViewIs
<1>2. Iter(v) = [view |-> v, pos |-> 0, remaining |-> v.count, previous |-> {}]
  BY DEF Iter
<1>3. 0 \in Nat /\ 0 \in 0 .. Len(v.bytes) /\ v.count \in 0 .. v.count /\ {} \in SUBSET Bytes
  BY <1>1
<1>4. From(v.bytes, 0) = v.bytes
  BY <1>1, SliceAll
<1> DEFINE i == Iter(v)
<1>5. i.view = v /\ i.pos = 0 /\ i.remaining = v.count
  BY <1>2
<1>6. i \in [view : GoodViews, pos : Nat, remaining : Nat, previous : SUBSET Bytes]
  BY <1>1, <1>2, <1>3
<1> HIDE DEF i
<1>7. i \in Iterators
  BY <1>3, <1>5, <1>6 DEF Iterators
<1>8. ItemsRemain(i)
  BY <1>1, <1>4, <1>5 DEF ItemsRemain
<1> QED BY <1>5, <1>7, <1>8 DEF i

(* The iterators of the view of an outcome. *)
LEMMA OpenedIs ==
  ASSUME NEW res, res.view \in Views
  PROVE  /\ Opened(res) \in Seq(Iterators)
         /\ \A i \in 1 .. Len(Opened(res)) : ItemsRemain(Opened(res)[i])
<1>1. CASE res.view = << >>
  <2>1. Opened(res) = << >>
    BY <1>1 DEF Opened
  <2> QED BY <2>1
<1>2. CASE res.view # << >>
  <2>1. PICK v \in GoodViews : res.view = <<v>>
    BY <1>2 DEF Views, NoView
  <2>2. Opened(res) = <<Iter(v)>>
    <3>1. DOMAIN res.view = {1} /\ res.view[1] = v
      BY <2>1
    <3>2. Opened(res) = [i \in {1} |-> Iter(res.view[i])]
      BY <3>1 DEF Opened
    <3> DEFINE w == Iter(v)
    <3>3. \A i \in {1} : Iter(res.view[i]) = w
      BY <3>1
    <3> HIDE DEF w
    <3>4. Opened(res) = [i \in {1} |-> w]
      BY <3>2, <3>3
    <3>5. [i \in {1} |-> w] = <<w>>
      OBVIOUS
    <3> QED BY <3>4, <3>5 DEF w
  <2>3. Iter(v) \in Iterators /\ ItemsRemain(Iter(v))
    BY IterIs
  <2> DEFINE w == Iter(v)
  <2> HIDE DEF w
  <2>4. w \in Iterators /\ ItemsRemain(w) /\ Opened(res) = <<w>>
    BY <2>2, <2>3 DEF w
  <2> QED BY <2>4
<1> QED BY <1>1, <1>2

(* The decoder of an iterator may read all of the bytes of its view.       *)
LEMMA ItemReturns ==
  ASSUME NEW it \in Iterators, NEW p \in 0 .. Len(it.view.bytes), NEW t \in Types
  PROVE  Returns(Borrow(t, it.view.bytes, p, ViewLimits(it.view)), it.view.bytes, p, Views,
                 Scanned[t])
<1> DEFINE s == it.view.bytes
           lim == ViewLimits(it.view)
<1>1. it.view \in GoodViews
  BY IteratorIs
<1>2. s \in Bytes /\ it.view.max_size \in Nat /\ Len(s) <= it.view.max_size
  BY <1>1, GoodViewIs
<1>3. lim.packet = it.view.max_size
  BY DEF ViewLimits
<1> HIDE DEF s, lim
<1>4. lim.packet \in Nat /\ Len(s) <= lim.packet /\ p \in 0 .. Len(s)
  BY <1>2, <1>3 DEF s
<1>5. Returns(Borrow(t, s, p, lim), s, p, Views, Scanned[t])
  BY <1>2, <1>4, BorrowReturns
<1> QED BY <1>5 DEF s, lim

(* An outcome of a read as that of a next(),                               *)
LEMMA KeptIs ==
  ASSUME NEW it \in Iterators, NEW res, NEW keys \in SUBSET Bytes,
         res.err \in Codes, res.pos \in it.pos .. Len(it.view.bytes), res.val \in Bytes,
         res.view \in Views
  PROVE  /\ Kept(res, keys) \in NextOutcomes(it)
         /\ Kept(res, keys).err = res.err
         /\ Kept(res, keys).pos = res.pos
         /\ Kept(res, keys).val = res.val
         /\ Kept(res, keys).view = res.view
BY DEF Kept, NextOutcomes

(* and an Err.                                                             *)
LEMMA StoppedIs ==
  ASSUME NEW it \in Iterators, NEW error \in Failures, NEW p \in it.pos .. Len(it.view.bytes),
         NEW keys \in SUBSET Bytes
  PROVE  Stopped(error, p, keys) \in NextOutcomes(it) /\ Stopped(error, p, keys).err # "none"
<1> DEFINE e == Error(error, p)
<1>1. e.err = error /\ e.pos = p /\ e.val = << >> /\ e.view = << >>
  BY DEF Error
<1>2. << >> \in Views /\ error \in Codes /\ error # "none"
  BY DEF Views, NoView, Codes, Failures
<1>3. Stopped(error, p, keys) = Kept(e, keys)
  BY DEF Stopped
<1> HIDE DEF e
<1>4. Kept(e, keys) \in NextOutcomes(it) /\ Kept(e, keys).err = error
  BY <1>1, <1>2, EmptyBytes, KeptIs
<1> QED BY <1>2, <1>3, <1>4

(* A next() that returns no Err takes one item: of a vector,               *)
LEMMA NextOfVecReturns ==
  ASSUME Top \in Iterators, Top.view.ty.k = "vec"
  PROVE  /\ NextOutcome \in NextOutcomes(Top)
         /\ NextOutcome.err = "none" =>
              Slice(TopBytes, Top.pos, NextOutcome.pos) \in Items(Top.view.ty)
<1> DEFINE s == TopBytes
           t == Top.view.ty
           x == Borrow(t.of, s, Top.pos, ViewLimits(Top.view))
<1>1. /\ Top.view \in GoodViews /\ Top.pos \in 0 .. Len(s) /\ Top.previous \in SUBSET Bytes
      /\ t \in Types /\ t.of \in Types
  BY IteratorIs, GoodViewIs, PartsAre DEF TopBytes
<1>2. Returns(x, s, Top.pos, Views, Scanned[t.of])
  BY <1>1, ItemReturns DEF TopBytes
<1>3. NextOutcome = Kept(x, Top.previous)
  BY DEF NextOutcome, NextOfVec
<1>4. Items(t) = Scanned[t.of]
  BY DEF Items, ItemForm
<1>5. s \in Bytes
  BY <1>1, GoodViewIs DEF TopBytes
<1> HIDE DEF s, t, x
<1>6. /\ x.err \in Codes /\ x.pos \in Top.pos .. Len(s) /\ x.val \in Bytes /\ x.view \in Views
      /\ x.err = "none" => Slice(s, Top.pos, x.pos) \in Scanned[t.of]
  BY <1>1, <1>2, <1>5, ReturnsParts DEF Returns, Outcome
<1>7. s = Top.view.bytes
  BY DEF s, TopBytes
<1> DEFINE n == NextOutcome
<1>8. n \in NextOutcomes(Top) /\ n.err = x.err /\ n.pos = x.pos
  <2> HIDE DEF n
  <2>1. n = Kept(x, Top.previous)
    BY <1>3 DEF n
  <2> QED BY <1>1, <1>6, <1>7, <2>1, KeptIs
<1> HIDE DEF n
<1>9. n.err = "none" => Slice(s, Top.pos, n.pos) \in Items(t)
  BY <1>4, <1>6, <1>8
<1> QED BY <1>8, <1>9 DEF n, s, t

(* of a map, which is a key and a value,                                   *)
LEMMA NextOfMapReturns ==
  ASSUME Top \in Iterators, Top.view.ty.k = "map"
  PROVE  /\ NextOutcome \in NextOutcomes(Top)
         /\ NextOutcome.err = "none" =>
              Slice(TopBytes, Top.pos, NextOutcome.pos) \in Items(Top.view.ty)
<1> DEFINE s == TopBytes
           t == Top.view.ty
           lim == ViewLimits(Top.view)
           x == Borrow(t.key, s, Top.pos, lim)
           y == Borrow(t.of, s, x.pos, lim)
           n == NextOutcome
<1>1. /\ Top.view \in GoodViews /\ Top.pos \in 0 .. Len(s) /\ Top.previous \in SUBSET Bytes
      /\ t \in Types /\ t.of \in Types /\ t.key \in Types
  BY IteratorIs, GoodViewIs, PartsAre DEF TopBytes
<1>2. Returns(x, s, Top.pos, Views, Scanned[t.key])
  BY <1>1, ItemReturns DEF TopBytes
<1>3. Items(t) = TwoOf(Scanned[t.key], Scanned[t.of])
  BY DEF Items, ItemForm
<1>4. s \in Bytes /\ s = Top.view.bytes
  BY <1>1, GoodViewIs DEF TopBytes
<1>5. n = KeyOfMap(x)
  BY DEF NextOutcome, NextOfMap
<1>6. KeyOfMap(x) = IF x.err # "none" THEN Stopped(x.err, x.pos, Top.previous)
                    ELSE IF ~InOrder(x.key) THEN Stopped("MalformedConstructor", x.pos, Top.previous)
                    ELSE ValueOfMap(x, y)
  BY DEF KeyOfMap
<1>7. /\ x.pos \in Top.pos .. Len(s) /\ x.pos \in 0 .. Len(s) /\ x.val \in Bytes /\ x.key \in Bytes
      /\ x.err = "none" => Slice(s, Top.pos, x.pos) \in Scanned[t.key]
      /\ x.err # "none" => x.err \in Failures
  <2> HIDE DEF x, s, t
  <2> QED BY <1>1, <1>2, <1>4, ReturnsParts
<1>8. Returns(y, s, x.pos, Views, Scanned[t.of])
  BY <1>1, <1>7, ItemReturns DEF TopBytes
<1> HIDE DEF lim, s, t, n, x
<1>9. /\ y.pos \in x.pos .. Len(s) /\ y.val \in Bytes /\ y.view \in Views /\ y.err \in Codes
      /\ y.err = "none" => Slice(s, x.pos, y.pos) \in Scanned[t.of]
      /\ y.err # "none" => y.err \in Failures
  <2> HIDE DEF y
  <2> QED BY <1>4, <1>7, <1>8, ReturnsParts DEF Codes
<1> HIDE DEF y
<1>10. y.pos \in Top.pos .. Len(s)
  BY <1>1, <1>4, <1>7, <1>9 DEF Bytes
<1>11. "MalformedConstructor" \in Failures /\ {x.key} \in SUBSET Bytes
  BY <1>7 DEF Failures
<1>12. CASE x.err # "none"
  <2>1. n = Stopped(x.err, x.pos, Top.previous)
    BY <1>5, <1>6, <1>12
  <2>2. n \in NextOutcomes(Top) /\ n.err # "none"
    BY <1>1, <1>4, <1>7, <1>12, <2>1, StoppedIs
  <2> QED BY <2>2 DEF n
<1>13. CASE x.err = "none" /\ ~InOrder(x.key)
  <2>1. n = Stopped("MalformedConstructor", x.pos, Top.previous)
    BY <1>5, <1>6, <1>13
  <2>2. n \in NextOutcomes(Top) /\ n.err # "none"
    BY <1>1, <1>4, <1>7, <1>11, <2>1, StoppedIs
  <2> QED BY <2>2 DEF n
<1>14. CASE x.err = "none" /\ InOrder(x.key) /\ y.err # "none"
  <2>1. n = Stopped(y.err, y.pos, {x.key})
    BY <1>5, <1>6, <1>14 DEF ValueOfMap
  <2>2. n \in NextOutcomes(Top) /\ n.err # "none"
    BY <1>1, <1>4, <1>9, <1>10, <1>11, <1>14, <2>1, StoppedIs
  <2> QED BY <2>2 DEF n
<1>15. CASE x.err = "none" /\ InOrder(x.key) /\ y.err = "none"
  <2> DEFINE z == [y EXCEPT !.val = x.val \o y.val]
  <2>1. n = Kept(z, {x.key})
    BY <1>5, <1>6, <1>15 DEF ValueOfMap
  <2>2. y \in Outcome(s, Views)
    BY <1>8 DEF Returns, y
  <2>3. x.val \o y.val \in Bytes
    BY <1>7, <1>9, JoinFacts
  <2>4. z.err = y.err /\ z.pos = y.pos /\ z.view = y.view /\ z.val = x.val \o y.val
    BY <2>2 DEF Outcome
  <2> HIDE DEF z
  <2>5. n \in NextOutcomes(Top) /\ n.pos = y.pos
    BY <1>4, <1>9, <1>10, <1>11, <2>1, <2>3, <2>4, KeptIs
  <2>6. Slice(s, Top.pos, y.pos) \in Items(t)
    BY <1>1, <1>3, <1>4, <1>7, <1>9, <1>15, BothRead
  <2> QED BY <2>5, <2>6 DEF n, s, t
<1> QED BY <1>12, <1>13, <1>14, <1>15

(* and of any view.                                                        *)
LEMMA NextReturns ==
  ASSUME Top \in Iterators
  PROVE  /\ NextOutcome \in NextOutcomes(Top)
         /\ NextOutcome.err = "none" =>
              Slice(TopBytes, Top.pos, NextOutcome.pos) \in Items(Top.view.ty)
<1>1. Top.view.ty.k \in {"vec", "map"}
  BY IteratorIs, GoodViewIs
<1> QED BY <1>1, NextOfVecReturns, NextOfMapReturns

-----------------------------------------------------------------------------
(* The walk                                                                *)

(* The invariant: every iterator holds a view that a scan has made, and as *)
(* long as no iterator has returned an Err, what is left of its bytes are  *)
(* its remaining items.                                                    *)
WalkInv ==
  /\ packet \in Packets /\ field \in Fields /\ limits \in Limits
  /\ Len(packet) <= limits.packet
  /\ phase \in {"start", "walking", "done", "refused"}
  /\ iterators \in Seq(Iterators)
  /\ read \in Bytes
  /\ failed \in BOOLEAN
  /\ ~failed => \A i \in 1 .. Len(iterators) : ItemsRemain(iterators[i])

(* The packet is bytes.                                                    *)
LEMMA PacketIs ==
  ASSUME packet \in Packets, limits \in Limits, field \in Fields
  PROVE  /\ packet \in Bytes /\ Len(packet) \in Nat /\ 0 \in 0 .. Len(packet)
         /\ limits.packet \in Nat /\ field.ty \in Types
<1>1. packet \in Bytes
  BY MessagesAssumption DEF Bytes
<1> QED BY <1>1, MessagesAssumption DEF Bytes

(* What Finished lets through has been read to the end.                    *)
LEMMA FinishedReturns ==
  ASSUME NEW s \in Bytes, NEW L, NEW res, Returns(res, s, 0, Views, L)
  PROVE  /\ Finished(res, s).view \in Views /\ Finished(res, s).val \in Bytes
         /\ Finished(res, s).err \in Codes
         /\ Finished(res, s).err = "none" =>
              Finished(res, s) = res /\ res.err = "none" /\ res.pos = Len(s)
<1>1. Finished(res, s) = IF res.err # "none" THEN Error(res.err, res.pos)
                         ELSE IF res.pos # Len(s) THEN Error("MalformedConstructor", res.pos)
                         ELSE res
  BY DEF Finished, Try
<1>2. 0 \in 0 .. Len(s)
  BY DEF Bytes
<1>3. res.val \in Bytes /\ res.view \in Views /\ (res.err # "none" => res.err \in Failures)
  BY <1>2, ReturnsParts
<1>4. << >> \in Views /\ "MalformedConstructor" \in Failures /\ Failures \subseteq Codes
      /\ "none" \in Codes /\ "none" \notin Failures
  BY DEF Views, NoView, Failures, Codes
<1>5. \A error, q : Error(error, q).err = error /\ Error(error, q).view = << >>
                    /\ Error(error, q).val = << >>
  BY DEF Error
<1> QED BY <1>1, <1>3, <1>4, <1>5, EmptyBytes

(* The borrowed decode of a message gives a view that a scan has made.     *)
LEMMA BorrowedDecodeReturns ==
  ASSUME packet \in Packets, limits \in Limits, field \in Fields, Len(packet) <= limits.packet
  PROVE  /\ BorrowedDecode.view \in Views /\ BorrowedDecode.val \in Bytes
         /\ BorrowedDecode.err \in Codes
         /\ BorrowedDecode.err = "none" =>
              /\ BorrowedDecode = BorrowField(packet, limits)[field.ty][0]
              /\ BorrowedDecode.pos = Len(packet)
<1> DEFINE res == BorrowField(packet, limits)[field.ty][0]
<1>1. packet \in Bytes /\ 0 \in 0 .. Len(packet) /\ limits.packet \in Nat /\ field.ty \in Types
  BY PacketIs
<1>2. Returns(res, packet, 0, Views, Bytes)
  BY <1>1, BorrowFieldReads DEF ReaderOf
<1>3. BorrowedDecode = Finished(res, packet)
  BY DEF BorrowedDecode
<1> HIDE DEF res
<1>4. /\ Finished(res, packet).view \in Views /\ Finished(res, packet).val \in Bytes
      /\ Finished(res, packet).err \in Codes
      /\ Finished(res, packet).err = "none" =>
           Finished(res, packet) = res /\ res.err = "none" /\ res.pos = Len(packet)
  BY <1>1, <1>2, FinishedReturns
<1> QED BY <1>3, <1>4 DEF res

(* The top of the iterators is replaced by itself, after some that are new.*)
LEMMA StackFacts ==
  ASSUME NEW a \in Seq(Iterators), NEW it \in Iterators, NEW b \in Seq(Iterators),
         \A i \in 1 .. Len(a) : ItemsRemain(a[i]),
         NEW B \in BOOLEAN, B => ItemsRemain(it),
         B => \A i \in 1 .. Len(b) : ItemsRemain(b[i])
  PROVE  /\ a \o <<it>> \o b \in Seq(Iterators)
         /\ B => \A i \in 1 .. Len(a \o <<it>> \o b) : ItemsRemain((a \o <<it>> \o b)[i])
<1> DEFINE u == a \o <<it>>
           v == u \o b
<1>1. u \in Seq(Iterators) /\ v \in Seq(Iterators) /\ Len(u) = Len(a) + 1
      /\ Len(v) = Len(u) + Len(b) /\ Len(a) \in Nat /\ Len(b) \in Nat
  OBVIOUS
<1>2. ASSUME B, NEW i \in 1 .. Len(u) PROVE ItemsRemain(u[i])
  <2>1. CASE i <= Len(a)
    <3>1. u[i] = a[i] /\ i \in 1 .. Len(a)
      BY <1>1, <2>1
    <3> HIDE DEF u
    <3> QED BY <3>1
  <2>2. CASE ~(i <= Len(a))
    <3>1. u[i] = it
      <4>1. i = Len(a) + 1
        BY <1>1, <2>2
      <4> QED BY <1>1, <4>1
    <3> HIDE DEF u
    <3> QED BY <1>2, <3>1
  <2> QED BY <2>1, <2>2
<1> HIDE DEF u
<1>3. ASSUME B, NEW i \in 1 .. Len(v) PROVE ItemsRemain(v[i])
  <2>1. CASE i <= Len(u)
    <3>1. v[i] = u[i] /\ i \in 1 .. Len(u)
      BY <1>1, <2>1
    <3> HIDE DEF v
    <3> QED BY <1>2, <1>3, <3>1
  <2>2. CASE ~(i <= Len(u))
    <3> DEFINE j == i - Len(u)
    <3>1. j \in 1 .. Len(b) /\ v[i] = b[j]
      BY <1>1, <2>2
    <3> HIDE DEF v, j
    <3> QED BY <1>3, <3>1
  <2> QED BY <2>1, <2>2
<1>4. v \in Seq(Iterators) /\ (B => \A i \in 1 .. Len(v) : ItemsRemain(v[i]))
  BY <1>1, <1>3
<1> QED BY <1>4 DEF v, u

(* The innermost iterator and the others.                                  *)
LEMMA TopIs ==
  ASSUME iterators \in Seq(Iterators), iterators # << >>
  PROVE  /\ Top \in Iterators /\ Top = iterators[1] /\ 1 \in 1 .. Len(iterators)
         /\ Tail(iterators) \in Seq(Iterators)
         /\ \A i \in 1 .. Len(Tail(iterators)) :
              i + 1 \in 1 .. Len(iterators) /\ Tail(iterators)[i] = iterators[i + 1]
<1>1. Len(iterators) \in Nat /\ Len(iterators) >= 1
  OBVIOUS
<1>2. iterators[1] \in Iterators /\ Head(iterators) = iterators[1]
  BY <1>1
<1>3. Tail(iterators) \in Seq(Iterators) /\ Len(Tail(iterators)) = Len(iterators) - 1
  BY <1>1
<1>4. \A i \in 1 .. Len(Tail(iterators)) : Tail(iterators)[i] = iterators[i + 1]
  BY <1>1
<1> QED BY <1>1, <1>2, <1>3, <1>4 DEF Top

(* No iterator is open at first.                                           *)
LEMMA WalkInit == Init => WalkInv
<1> SUFFICES ASSUME Init PROVE WalkInv
  OBVIOUS
<1>1. iterators \in Seq(Iterators) /\ \A i \in 1 .. Len(iterators) : ItemsRemain(iterators[i])
  BY DEF Init
<1>2. read \in Bytes
  BY EmptyBytes DEF Init
<1>3. phase \in {"start", "walking", "done", "refused"} /\ failed \in BOOLEAN
  BY DEF Init
<1>4. /\ packet \in Packets /\ field \in Fields /\ limits \in Limits
      /\ Len(packet) <= limits.packet
  BY DEF Init
<1> QED BY <1>1, <1>2, <1>3, <1>4 DEF WalkInv

(* A view that is opened has all of its items left.                        *)
LEMMA OpenKeeps ==
  ASSUME WalkInv, Open
  PROVE  WalkInv'
<1> DEFINE d == BorrowedDecode
<1>1. d.view \in Views /\ d.val \in Bytes
  BY BorrowedDecodeReturns DEF WalkInv
<1>2. /\ phase' = IF d.err = "none" THEN "walking" ELSE "refused"
      /\ iterators' = Opened(d)
      /\ read' = d.val
      /\ UNCHANGED <<packet, field, limits, failed>>
  BY DEF Open, Opening
<1> HIDE DEF d
<1>3. Opened(d) \in Seq(Iterators) /\ \A i \in 1 .. Len(Opened(d)) : ItemsRemain(Opened(d)[i])
  BY <1>1, OpenedIs
<1>4. iterators' \in Seq(Iterators) /\ \A i \in 1 .. Len(iterators') : ItemsRemain(iterators'[i])
  BY <1>2, <1>3
<1>5. phase' \in {"start", "walking", "done", "refused"} /\ read' \in Bytes
  BY <1>1, <1>2
<1> QED BY <1>2, <1>4, <1>5 DEF WalkInv

(* The iterator after a next().                                            *)
Moved(it, item) == [it EXCEPT !.pos = item.pos, !.remaining = it.remaining - 1,
                              !.previous = item.previous]

(* One item fewer is left of the bytes, and is announced.                  *)
LEMMA MovedIs ==
  ASSUME NEW it \in Iterators, it.remaining > 0, NEW item \in NextOutcomes(it)
  PROVE  /\ Moved(it, item) \in Iterators
         /\ Moved(it, item).view = it.view /\ Moved(it, item).pos = item.pos
         /\ Moved(it, item).remaining = it.remaining - 1
         /\ item.err = "none" /\ ItemsRemain(it)
              /\ Slice(it.view.bytes, it.pos, item.pos) \in Items(it.view.ty)
              => ItemsRemain(Moved(it, item))
<1> DEFINE s == it.view.bytes
           L == Items(it.view.ty)
           m == Moved(it, item)
           n == it.remaining - 1
<1>1. /\ it.view \in GoodViews /\ it.pos \in 0 .. Len(s) /\ it.remaining \in 0 .. it.view.count
      /\ s \in Bytes /\ it.view.count \in Nat /\ it.view.ty \in Types
      /\ it.view.ty.k \in {"vec", "map"}
  BY IteratorIs, GoodViewIs
<1>2. item.pos \in it.pos .. Len(s) /\ item.previous \in SUBSET Bytes
  BY DEF NextOutcomes
<1>3. item.pos \in 0 .. Len(s) /\ item.pos \in Nat
  BY <1>1, <1>2 DEF Bytes
<1>4. n \in Nat /\ n \in 0 .. it.view.count /\ it.remaining = n + 1
  BY <1>1
<1>5. it \in [view : GoodViews, pos : Nat, remaining : Nat, previous : SUBSET Bytes]
  BY DEF Iterators
<1>6. /\ m \in [view : GoodViews, pos : Nat, remaining : Nat, previous : SUBSET Bytes]
      /\ m.view = it.view /\ m.pos = item.pos /\ m.remaining = n
  BY <1>2, <1>3, <1>4, <1>5 DEF Moved
<1> HIDE DEF m, n
<1>7. m \in Iterators
  BY <1>3, <1>4, <1>6 DEF Iterators
<1>8. ASSUME item.err = "none", ItemsRemain(it), Slice(s, it.pos, item.pos) \in L
      PROVE  ItemsRemain(m)
  <2>1. From(s, it.pos) \in Joined(L, n + 1)
    BY <1>4, <1>8 DEF ItemsRemain
  <2>2. PrefixFree(L)
    BY <1>1, ItemsAre
  <2> HIDE DEF s, L
  <2>3. From(s, item.pos) \in Joined(L, n)
    BY <1>1, <1>2, <1>4, <1>8, <2>1, <2>2, NextOfJoined
  <2> QED BY <1>6, <2>3 DEF ItemsRemain, s, L
<1> QED BY <1>6, <1>7, <1>8 DEF m, n

(* A next() moves the innermost iterator, and opens the view it has found. *)
LEMMA NextItemKeeps ==
  ASSUME WalkInv, NextItem
  PROVE  WalkInv'
<1> DEFINE n == NextOutcome
           a == Opened(n)
           it == Moved(Top, n)
           b == Tail(iterators)
           B == failed' = FALSE
<1>1. iterators \in Seq(Iterators) /\ iterators # << >> /\ Top.remaining > 0
  BY DEF WalkInv, NextItem
<1>2. /\ iterators' = a \o <<it>> \o b
      /\ read' = read \o n.val
      /\ failed' = (failed \/ n.err # "none")
      /\ UNCHANGED <<packet, field, limits, phase>>
  BY DEF NextItem, Advanced, Left, Moved
<1>3. /\ Top \in Iterators /\ Top = iterators[1] /\ 1 \in 1 .. Len(iterators) /\ b \in Seq(Iterators)
      /\ \A i \in 1 .. Len(b) : i + 1 \in 1 .. Len(iterators) /\ b[i] = iterators[i + 1]
  BY <1>1, TopIs
<1>4. /\ n \in NextOutcomes(Top)
      /\ n.err = "none" => Slice(TopBytes, Top.pos, n.pos) \in Items(Top.view.ty)
  BY <1>3, NextReturns
<1> HIDE DEF n
<1>5. n.view \in Views /\ n.val \in Bytes
  BY <1>4 DEF NextOutcomes
<1>6. a \in Seq(Iterators) /\ \A i \in 1 .. Len(a) : ItemsRemain(a[i])
  BY <1>5, OpenedIs
<1>7. /\ it \in Iterators
      /\ n.err = "none" /\ ItemsRemain(Top)
           /\ Slice(Top.view.bytes, Top.pos, n.pos) \in Items(Top.view.ty)
           => ItemsRemain(it)
  BY <1>1, <1>3, <1>4, MovedIs
<1> HIDE DEF a, it, b
<1>8. B \in BOOLEAN /\ failed' \in BOOLEAN
  BY <1>2 DEF WalkInv
<1>9. B => ~failed /\ n.err = "none"
  BY <1>2, <1>8 DEF WalkInv
<1>10. B => ItemsRemain(Top)
  BY <1>3, <1>9 DEF WalkInv
<1>11. B => ItemsRemain(it)
  BY <1>4, <1>7, <1>9, <1>10 DEF TopBytes
<1>12. B => \A i \in 1 .. Len(b) : ItemsRemain(b[i])
  BY <1>3, <1>9 DEF WalkInv
<1>13. /\ a \o <<it>> \o b \in Seq(Iterators)
       /\ B => \A i \in 1 .. Len(a \o <<it>> \o b) : ItemsRemain((a \o <<it>> \o b)[i])
  <2> HIDE DEF B
  <2> QED BY <1>3, <1>6, <1>7, <1>8, <1>11, <1>12, StackFacts
<1>14. /\ iterators' \in Seq(Iterators)
       /\ B => \A i \in 1 .. Len(iterators') : ItemsRemain(iterators'[i])
  BY <1>2, <1>13
<1>15. read' \in Bytes
  BY <1>2, <1>5, JoinFacts DEF WalkInv
<1>16. /\ packet' \in Packets /\ field' \in Fields /\ limits' \in Limits
       /\ Len(packet') <= limits'.packet
       /\ phase' \in {"start", "walking", "done", "refused"}
  BY <1>2 DEF WalkInv
<1>17. ~failed' => \A i \in 1 .. Len(iterators') : ItemsRemain(iterators'[i])
  BY <1>8, <1>14
<1> QED BY <1>8, <1>14, <1>15, <1>16, <1>17 DEF WalkInv

(* The outer iterators have not moved.                                     *)
LEMMA EndOfViewKeeps ==
  ASSUME WalkInv, EndOfView
  PROVE  WalkInv'
<1> DEFINE b == Tail(iterators)
<1>1. iterators \in Seq(Iterators) /\ iterators # << >>
  BY DEF WalkInv, EndOfView
<1>2. iterators' = b /\ UNCHANGED <<packet, field, limits, phase, read, failed>>
  BY DEF EndOfView
<1>3. /\ b \in Seq(Iterators)
      /\ \A i \in 1 .. Len(b) : i + 1 \in 1 .. Len(iterators) /\ b[i] = iterators[i + 1]
  BY <1>1, TopIs
<1> HIDE DEF b
<1>4. ~failed => \A i \in 1 .. Len(b) : ItemsRemain(b[i])
  BY <1>3 DEF WalkInv
<1> QED BY <1>2, <1>3, <1>4 DEF WalkInv

(* Every step keeps the invariant.                                         *)
LEMMA WalkStep == WalkInv /\ [Next]_vars => WalkInv'
<1> SUFFICES ASSUME WalkInv, [Next]_vars PROVE WalkInv'
  OBVIOUS
<1>1. CASE Open
  BY <1>1, OpenKeeps
<1>2. CASE NextItem
  BY <1>2, NextItemKeeps
<1>3. CASE EndOfView
  BY <1>3, EndOfViewKeeps
<1>4. CASE Done
  BY <1>4 DEF Done, WalkInv
<1>5. CASE UNCHANGED vars
  BY <1>5 DEF vars, WalkInv
<1> QED BY <1>1, <1>2, <1>3, <1>4, <1>5 DEF Next

(* The invariant holds at all times (wire.rs:84-268).                      *)
THEOREM WalkInvariance == Spec => []WalkInv
<1> QED BY WalkInit, WalkStep, PTL DEF Spec

(* The invariant holds the types,                                          *)
LEMMA WalkTypes == WalkInv => TypeOK
<1> SUFFICES ASSUME WalkInv PROVE TypeOK
  OBVIOUS
<1>1. ASSUME NEW i \in DOMAIN iterators
      PROVE  /\ iterators[i].remaining \in 0 .. iterators[i].view.count
             /\ iterators[i].pos \in 0 .. Len(iterators[i].view.bytes)
  <2>1. iterators[i] \in Iterators
    BY DEF WalkInv
  <2> QED BY <2>1, IteratorIs
<1> QED BY <1>1 DEF WalkInv, TypeOK, Bytes

(* views within their limits,                                              *)
LEMMA WalkFits == WalkInv => IterNeverPanics
<1> SUFFICES ASSUME WalkInv, NEW i \in DOMAIN iterators
             PROVE  Len(iterators[i].view.bytes) <= iterators[i].view.max_size
  BY DEF IterNeverPanics
<1>1. iterators[i] \in Iterators
  BY DEF WalkInv
<1> QED BY <1>1, IteratorIs, GoodViewIs

(* and, when no item is left, the end of the bytes.                        *)
LEMMA WalkMeets == WalkInv => IteratorMeetsScan
<1> SUFFICES ASSUME WalkInv, iterators # << >>, Top.remaining = 0, ~failed
             PROVE  Top.pos = Len(TopBytes)
  BY DEF IteratorMeetsScan
<1> DEFINE s == TopBytes
           p == Top.pos
<1>1. Top \in Iterators /\ Top = iterators[1] /\ 1 \in 1 .. Len(iterators)
  BY TopIs DEF WalkInv
<1>2. ItemsRemain(Top)
  BY <1>1 DEF WalkInv
<1>3. s \in Bytes /\ p \in 0 .. Len(s)
  BY <1>1, IteratorIs, GoodViewIs DEF TopBytes
<1>4. From(s, p) \in Joined(Items(Top.view.ty), 0)
  BY <1>2 DEF ItemsRemain, TopBytes
<1> HIDE DEF s, p
<1>5. From(s, p) = << >>
  BY <1>4, JoinedNone
<1>6. Len(From(s, p)) = Len(s) - p /\ Len(s) \in Nat
  <2>1. Len(s) \in p .. Len(s) /\ Len(s) \in Nat
    BY <1>3 DEF Bytes
  <2> QED BY <1>3, <2>1, FromSplits
<1> QED BY <1>3, <1>5, <1>6 DEF s, p

(* The state has its types; no position of an iterator is past its bytes.  *)
THEOREM ViewsTypeCorrect == Spec => []TypeOK
<1> QED BY WalkInvariance, WalkTypes, PTL

(* iter() never panics (wire.rs:136, 217): no view that a decode or another*)
(* iterator makes is longer than its max_size.                             *)
THEOREM IteratorsNeverPanic == Spec => []IterNeverPanics
<1> QED BY WalkInvariance, WalkFits, PTL

(* next() and the scan that made the view take the same bytes of every item*)
(* (wire.rs:133-268, 624-685), so that an iterator with no Err ends at the *)
(* end of its view.                                                        *)
THEOREM IteratorsMeetScans == Spec => []IteratorMeetsScan
<1> QED BY WalkInvariance, WalkMeets, PTL

-----------------------------------------------------------------------------
(* The order of keys                                                       *)

(* A byte is a number.                                                     *)
LEMMA BytesAreNumbers ==
  ASSUME NEW s \in Bytes
  PROVE  Len(s) \in Nat /\ \A i \in 1 .. Len(s) : s[i] \in Nat
<1>1. Byte \subseteq Nat
  BY Widths DEF Byte
<1>2. \A i \in 1 .. Len(s) : s[i] \in Byte
  BY DEF Bytes
<1>3. \A i \in 1 .. Len(s) : s[i] \in Nat
  BY <1>1, <1>2, Zenon
<1>4. Len(s) \in Nat
  BY DEF Bytes
<1> QED BY <1>3, <1>4

(* No key is before itself.                                                *)
LEMMA KeyNotLess ==
  ASSUME NEW a \in Bytes
  PROVE  ~KeyLess(a, a)
<1> SUFFICES ASSUME NEW n \in 0 .. Len(a), n < Len(a), a[n + 1] < a[n + 1]
             PROVE  FALSE
  BY DEF KeyLess, Bytes
<1>1. Len(a) \in Nat /\ n + 1 \in 1 .. Len(a)
  BY DEF Bytes
<1>2. a[n + 1] \in Nat
  BY <1>1, BytesAreNumbers
<1> QED BY <1>2

(* The bytes of two keys agree before position n.                          *)
Agree(a, b, n) == \A i \in 1 .. n : a[i] = b[i]

(* Where the one key is less.                                              *)
LessAt(a, b, n) ==
  /\ n \in 0 .. Len(a) /\ n < Len(b) /\ Agree(a, b, n)
  /\ n = Len(a) \/ a[n + 1] < b[n + 1]

(* The order of keys in terms of their bytes.                              *)
LEMMA KeyLessIs ==
  ASSUME NEW a \in Bytes, NEW b \in Bytes
  PROVE  KeyLess(a, b) <=> \E n \in Nat : LessAt(a, b, n)
<1>0. Len(a) \in Nat /\ Len(b) \in Nat
  BY DEF Bytes
<1>1. ASSUME NEW n \in 0 .. Len(a), n < Len(b)
      PROVE  SubSeq(a, 1, n) = SubSeq(b, 1, n) <=> Agree(a, b, n)
  <2>1. Slice(a, 0, n) = SubSeq(a, 1, n) /\ Slice(b, 0, n) = SubSeq(b, 1, n)
    BY DEF Slice
  <2>2. 0 \in 0 .. Len(a) /\ 0 \in 0 .. Len(b) /\ n \in 0 .. Len(a) /\ n \in 0 .. Len(b)
    BY <1>0, <1>1
  <2>3. /\ Slice(a, 0, n) \in Bytes /\ Len(Slice(a, 0, n)) = n
        /\ \A i \in 1 .. n : Slice(a, 0, n)[i] = a[i]
    <3>1. /\ Slice(a, 0, n) \in Bytes /\ Len(Slice(a, 0, n)) = n - 0
          /\ \A i \in 1 .. n - 0 : Slice(a, 0, n)[i] = a[0 + i]
      BY <2>2, SliceFacts
    <3> QED BY <3>1, <1>0
  <2>4. /\ Slice(b, 0, n) \in Bytes /\ Len(Slice(b, 0, n)) = n
        /\ \A i \in 1 .. n : Slice(b, 0, n)[i] = b[i]
    <3>1. /\ Slice(b, 0, n) \in Bytes /\ Len(Slice(b, 0, n)) = n - 0
          /\ \A i \in 1 .. n - 0 : Slice(b, 0, n)[i] = b[0 + i]
      BY <2>2, SliceFacts
    <3> QED BY <3>1, <1>0
  <2>5. Slice(a, 0, n) = Slice(b, 0, n) <=> Agree(a, b, n)
    BY <2>3, <2>4, SameBytes DEF Agree
  <2> QED BY <2>1, <2>5
<1>2. ASSUME NEW n \in Nat, LessAt(a, b, n) PROVE KeyLess(a, b)
  BY <1>1, <1>2 DEF LessAt, KeyLess
<1>3. ASSUME KeyLess(a, b) PROVE \E n \in Nat : LessAt(a, b, n)
  <2>1. PICK n \in 0 .. Len(a) : /\ n < Len(b)
                                 /\ SubSeq(a, 1, n) = SubSeq(b, 1, n)
                                 /\ n = Len(a) \/ a[n + 1] < b[n + 1]
    BY <1>3 DEF KeyLess
  <2>2. n \in Nat
    BY <1>0
  <2> QED BY <1>1, <2>1, <2>2 DEF LessAt
<1> QED BY <1>2, <1>3

(* The order of keys is transitive.                                        *)
LEMMA KeyLessTransitive ==
  ASSUME NEW a \in Bytes, NEW b \in Bytes, NEW c \in Bytes, KeyLess(a, b), KeyLess(b, c)
  PROVE  KeyLess(a, c)
<1>1. PICK n \in Nat : LessAt(a, b, n)
  BY KeyLessIs
<1>2. PICK m \in Nat : LessAt(b, c, m)
  BY KeyLessIs
<1>3. /\ Len(a) \in Nat /\ Len(b) \in Nat /\ Len(c) \in Nat
      /\ \A i \in 1 .. Len(a) : a[i] \in Nat
      /\ \A i \in 1 .. Len(b) : b[i] \in Nat
      /\ \A i \in 1 .. Len(c) : c[i] \in Nat
  BY BytesAreNumbers
<1>4. CASE n <= m
  <2>1. LessAt(a, c, n)
    <3>1. n \in 0 .. Len(a) /\ n < Len(c) /\ Agree(a, c, n)
      BY <1>1, <1>2, <1>3, <1>4 DEF LessAt, Agree
    <3>2. CASE n = Len(a)
      BY <3>1, <3>2 DEF LessAt
    <3>3. CASE n # Len(a)
      <4>1. a[n + 1] < b[n + 1] /\ n + 1 \in 1 .. Len(a) /\ n + 1 \in 1 .. Len(b)
            /\ n + 1 \in 1 .. Len(c)
        BY <1>1, <1>3, <3>1, <3>3 DEF LessAt
      <4>2. b[n + 1] <= c[n + 1]
        <5>1. CASE n = m
          BY <1>2, <1>3, <4>1, <5>1 DEF LessAt
        <5>2. CASE n < m
          BY <1>2, <1>3, <4>1, <5>2 DEF LessAt, Agree
        <5> QED BY <1>4, <5>1, <5>2
      <4>3. a[n + 1] < c[n + 1]
        BY <1>3, <4>1, <4>2
      <4> QED BY <3>1, <4>3 DEF LessAt
    <3> QED BY <3>2, <3>3
  <2> QED BY <2>1, KeyLessIs
<1>5. CASE m < n
  <2>1. LessAt(a, c, m)
    <3>1. m \in 0 .. Len(a) /\ m < Len(c) /\ Agree(a, c, m)
      BY <1>1, <1>2, <1>3, <1>5 DEF LessAt, Agree
    <3>2. m # Len(b) /\ m + 1 \in 1 .. n /\ b[m + 1] < c[m + 1]
      BY <1>1, <1>2, <1>3, <1>5 DEF LessAt
    <3>3. a[m + 1] = b[m + 1]
      BY <1>1, <3>2 DEF LessAt, Agree
    <3> QED BY <3>1, <3>2, <3>3 DEF LessAt
  <2> QED BY <2>1, KeyLessIs
<1> QED BY <1>4, <1>5

-----------------------------------------------------------------------------
(* Entries in the order of their keys                                      *)

(* The bytes of a text, and the keys of a map by their type: as they are   *)
(* compared, and as they are written.                                      *)
Text(n) == {w \in Exactly(n) : NotUtf8 \notin Range(w)}
Keys(t) == IF t.k = "u8" THEN Exactly(1) ELSE UNION {Text(n) : n \in 0 .. Limit - 1}
KeyCode(t, key) == IF t.k = "u8" THEN key ELSE EncodeVarint[Len(key)] \o key

(* The entries of a map in the order of their keys: f[i] are the last i    *)
(* of n entries, which begin with key[i] and go on with a value of L.      *)
Listing(f, key, t, L, n) ==
  /\ f \in [0 .. n -> Bytes] /\ key \in [1 .. n -> Keys(t)]
  /\ f[0] = << >>
  /\ \A i \in 1 .. n : \E v \in L : f[i] = Then(Then(KeyCode(t, key[i]), v), f[i - 1])
  /\ \A i \in 2 .. n : KeyLess(key[i], key[i - 1])

(* n entries in order, after the keys of `previous`.                       *)
Sorted(t, L, n, keys) ==
  {u \in Bytes : \E f, key :
     /\ Listing(f, key, t, L, n) /\ u = f[n]
     /\ n > 0 => \A c \in keys : KeyLess(c, key[n])}

(* One entry, and then n after it.                                         *)
OneSorted(t, L, n, keys) ==
  {u \in Bytes : \E c \in Keys(t), v \in L : \E x \in Sorted(t, L, n, {c}) :
     /\ u = Then(Then(KeyCode(t, c), v), x)
     /\ \A b \in keys : KeyLess(b, c)}

(* No entries take no bytes.                                               *)
LEMMA SortedNone ==
  ASSUME NEW t, NEW L, NEW keys
  PROVE  Sorted(t, L, 0, keys) = {<< >>}
<1> DEFINE f == [i \in 0 .. 0 |-> << >>]
           key == [i \in 1 .. 0 |-> CHOOSE c \in Keys(t) : TRUE]
<1>1. f \in [0 .. 0 -> Bytes] /\ f[0] = << >> /\ key \in [1 .. 0 -> Keys(t)]
  BY EmptyBytes
<1> HIDE DEF f, key
<1>2. Listing(f, key, t, L, 0)
  BY <1>1 DEF Listing
<1>3. << >> \in Sorted(t, L, 0, keys)
  BY <1>1, <1>2, EmptyBytes DEF Sorted
<1>4. \A u \in Sorted(t, L, 0, keys) : u = << >>
  BY DEF Sorted, Listing
<1> QED BY <1>3, <1>4

(* Entries are bytes.                                                      *)
LEMMA SortedBytes ==
  ASSUME NEW t, NEW L, NEW n, NEW keys
  PROVE  Sorted(t, L, n, keys) \subseteq Bytes
BY DEF Sorted

(* Entries, taken from the front.                                          *)
LEMMA SortedFirst ==
  ASSUME NEW t, NEW L, NEW n \in Nat, NEW keys
  PROVE  Sorted(t, L, n + 1, keys) = OneSorted(t, L, n, keys)
<1> DEFINE m == n + 1
<1>0. m \in Nat /\ m > 0 /\ m - 1 = n /\ m \in 1 .. m /\ n \in 0 .. m /\ 0 .. n \subseteq 0 .. m
      /\ 1 .. n \subseteq 1 .. m /\ 2 .. n \subseteq 2 .. m /\ (n > 0 => m \in 2 .. m)
      /\ \A i \in 1 .. n : i - 1 \in 0 .. n /\ i \in 0 .. n
  OBVIOUS
<1>1. ASSUME NEW u \in Sorted(t, L, m, keys) PROVE u \in OneSorted(t, L, n, keys)
  <2>1. PICK f, key : /\ Listing(f, key, t, L, m) /\ u = f[m]
                      /\ m > 0 => \A c \in keys : KeyLess(c, key[m])
    BY DEF Sorted
  <2> HIDE DEF m
  <2>2. /\ f \in [0 .. m -> Bytes] /\ key \in [1 .. m -> Keys(t)]
        /\ f[0] = << >>
        /\ \A i \in 1 .. m : \E v \in L : f[i] = Then(Then(KeyCode(t, key[i]), v), f[i - 1])
        /\ \A i \in 2 .. m : KeyLess(key[i], key[i - 1])
    BY <2>1 DEF Listing
  <2> DEFINE g == [i \in 0 .. n |-> f[i]]
             k == [i \in 1 .. n |-> key[i]]
  <2>3. /\ g \in [0 .. n -> Bytes] /\ k \in [1 .. n -> Keys(t)]
        /\ \A i \in 0 .. n : g[i] = f[i]
        /\ \A i \in 1 .. n : k[i] = key[i]
    BY <1>0, <2>2
  <2> HIDE DEF g, k
  <2>4. Listing(g, k, t, L, n)
    <3>1. g[0] = << >>
      BY <2>2, <2>3
    <3>2. ASSUME NEW i \in 1 .. n PROVE \E v \in L : g[i] = Then(Then(KeyCode(t, k[i]), v), g[i - 1])
      BY <1>0, <2>2, <2>3
    <3>3. ASSUME NEW i \in 2 .. n PROVE KeyLess(k[i], k[i - 1])
      <4>1. i \in 1 .. n /\ i - 1 \in 1 .. n /\ i \in 2 .. m
        BY <1>0
      <4> QED BY <2>2, <2>3, <4>1
    <3> QED BY <2>3, <3>1, <3>2, <3>3 DEF Listing
  <2>5. n > 0 => KeyLess(key[m], k[n])
    <3> SUFFICES ASSUME n > 0 PROVE KeyLess(key[m], k[n])
      OBVIOUS
    <3>1. KeyLess(key[m], key[m - 1]) /\ n \in 1 .. n
      BY <1>0, <2>2
    <3> QED BY <1>0, <2>3, <3>1
  <2>6. g[n] \in Sorted(t, L, n, {key[m]})
    <3>1. g[n] \in Bytes
      BY <1>0, <2>3
    <3> QED BY <2>4, <2>5, <3>1 DEF Sorted
  <2>7. key[m] \in Keys(t) /\ g[n] = f[n]
    BY <1>0, <2>2, <2>3
  <2>8. PICK v \in L : f[m] = Then(Then(KeyCode(t, key[m]), v), f[n])
    BY <1>0, <2>2
  <2>9. u \in Bytes /\ u = Then(Then(KeyCode(t, key[m]), v), g[n])
    BY <2>1, <2>7, <2>8, SortedBytes
  <2>10. \A b \in keys : KeyLess(b, key[m])
    BY <1>0, <2>1
  <2> QED BY <2>6, <2>7, <2>9, <2>10 DEF OneSorted
<1>2. ASSUME NEW u \in OneSorted(t, L, n, keys) PROVE u \in Sorted(t, L, m, keys)
  <2>1. PICK c \in Keys(t), v \in L : \E x \in Sorted(t, L, n, {c}) :
               /\ u = Then(Then(KeyCode(t, c), v), x)
               /\ \A b \in keys : KeyLess(b, c)
    BY DEF OneSorted
  <2>2. PICK x \in Sorted(t, L, n, {c}) : /\ u = Then(Then(KeyCode(t, c), v), x)
                                          /\ \A b \in keys : KeyLess(b, c)
    BY <2>1
  <2>3. PICK g, k : /\ Listing(g, k, t, L, n) /\ x = g[n]
                    /\ n > 0 => \A b \in {c} : KeyLess(b, k[n])
    BY DEF Sorted
  <2>4. /\ g \in [0 .. n -> Bytes] /\ k \in [1 .. n -> Keys(t)]
        /\ g[0] = << >>
        /\ \A i \in 1 .. n : \E w \in L : g[i] = Then(Then(KeyCode(t, k[i]), w), g[i - 1])
        /\ \A i \in 2 .. n : KeyLess(k[i], k[i - 1])
    BY <2>3 DEF Listing
  <2>5. u \in Bytes
    BY DEF OneSorted
  <2> HIDE DEF m
  <2> DEFINE f == [i \in 0 .. m |-> IF i = m THEN u ELSE g[i]]
             key == [i \in 1 .. m |-> IF i = m THEN c ELSE k[i]]
  <2>60. \A i \in 0 .. m : i # m => i \in 0 .. n
    BY <1>0
  <2>61. \A i \in 1 .. m : i # m => i \in 1 .. n
    BY <1>0
  <2>6. /\ f \in [0 .. m -> Bytes] /\ f[m] = u /\ \A i \in 0 .. n : f[i] = g[i]
    BY <1>0, <2>4, <2>5, <2>60
  <2>7. key \in [1 .. m -> Keys(t)] /\ key[m] = c /\ \A i \in 1 .. n : key[i] = k[i]
    BY <1>0, <2>4, <2>61
  <2> HIDE DEF f, key
  <2>8. f[0] = << >>
    BY <1>0, <2>4, <2>6
  <2>9. ASSUME NEW i \in 1 .. m
        PROVE  \E w \in L : f[i] = Then(Then(KeyCode(t, key[i]), w), f[i - 1])
    <3>1. CASE i = m
      <4>1. f[i] = u /\ key[i] = c /\ f[i - 1] = x
        BY <1>0, <2>3, <2>6, <2>7, <3>1
      <4> QED BY <2>2, <4>1
    <3>2. CASE i # m
      <4>1. i \in 1 .. n /\ i \in 0 .. n /\ i - 1 \in 0 .. n
        BY <1>0, <2>61, <3>2
      <4>2. f[i] = g[i] /\ key[i] = k[i] /\ f[i - 1] = g[i - 1]
        BY <2>6, <2>7, <4>1
      <4> QED BY <2>4, <4>1, <4>2
    <3> QED BY <3>1, <3>2
  <2>10. ASSUME NEW i \in 2 .. m PROVE KeyLess(key[i], key[i - 1])
    <3>1. CASE i = m
      <4>1. n > 0 /\ i - 1 = n /\ n \in 1 .. n
        BY <1>0, <3>1
      <4> QED BY <2>3, <2>7, <3>1, <4>1
    <3>2. CASE i # m
      <4>1. i \in 2 .. n /\ i \in 1 .. n /\ i - 1 \in 1 .. n
        BY <1>0, <3>2
      <4> QED BY <2>4, <2>7, <4>1
    <3> QED BY <3>1, <3>2
  <2>11. Listing(f, key, t, L, m)
    BY <2>6, <2>7, <2>8, <2>9, <2>10 DEF Listing
  <2>12. \A b \in keys : KeyLess(b, key[m])
    BY <2>2, <2>7
  <2> QED BY <2>5, <2>6, <2>11, <2>12 DEF Sorted
<1> QED BY <1>1, <1>2

-----------------------------------------------------------------------------
(* The canonical encodings of the types                                    *)

(* n items of a collection, after the keys of an iterator, in terms of the *)
(* canonical encodings of its parts; and a collection of at most k items.  *)
ItemsAfter(t, g, n, keys) ==
  IF t.k = "map" THEN Sorted(t.key, g[t.of], n, keys) ELSE Joined(g[t.of], n)

UpTo(k, t, g) ==
  Headed([n \in 0 .. Limit - 1 |-> {u \in ItemsAfter(t, g, n, {}) : n <= k}])

(* A length and a text.                                                    *)
Texts == Headed([n \in 0 .. Limit - 1 |-> Text(n)])

(* The encodings that the encoder makes of a value whose collections have  *)
(* at most k items each: text is text, and maps are in order.              *)
CanonForm(k, t, g) ==
  CASE t.k = "u8" -> Exactly(1)
    [] t.k = "str" -> Texts
    [] t.k = "fixed" -> Exactly(t.n)
    [] t.k = "option" -> Marked(g[t.of])
    [] t.k \in {"vec", "map"} -> UpTo(k, t, g)

CanonForms(k) == [t \in Types |-> [g \in [Types -> SUBSET Bytes] |-> CanonForm(k, t, g)]]
CanonicalTo(k) == CHOOSE f : Solves(f, Types, SUBSET Bytes, CanonForms(k))

(* CanonForm by the kind of the type.                                      *)
LEMMA CanonFormIs ==
  ASSUME NEW k, NEW t \in Types, NEW g
  PROVE  /\ t.k = "u8" => CanonForm(k, t, g) = Exactly(1)
         /\ t.k = "str" => CanonForm(k, t, g) = Texts
         /\ t.k = "fixed" => CanonForm(k, t, g) = Exactly(t.n)
         /\ t.k = "option" => CanonForm(k, t, g) = Marked(g[t.of])
         /\ t.k \in {"vec", "map"} => CanonForm(k, t, g) = UpTo(k, t, g)
BY DEF CanonForm

(* CanonicalTo is the solution of its equation.                            *)
LEMMA CanonicalIs ==
  ASSUME NEW k
  PROVE  /\ CanonicalTo(k) \in [Types -> SUBSET Bytes]
         /\ \A t \in Types : CanonicalTo(k)[t] = CanonForm(k, t, CanonicalTo(k))
<1> DEFINE V == SUBSET Bytes
<1>1. V # {}
  OBVIOUS
<1>2. ASSUME NEW t \in Types, NEW g \in [Types -> V] PROVE CanonForm(k, t, g) \in V
  <2>1. t.k = "option" => g[t.of] \in V
    BY PartsAre
  <2>2. UpTo(k, t, g) \in V
    BY DEF UpTo, Headed
  <2>3. Texts \in V
    BY DEF Texts, Headed
  <2>4. t.k \in {"u8", "str", "fixed", "option", "vec", "map"}
    BY PartsAre
  <2>5. CASE t.k \in {"u8", "str", "fixed", "option"}
    BY <2>1, <2>3, <2>5, CanonFormIs, FormsAreBytes
  <2>6. CASE t.k \in {"vec", "map"}
    BY <2>2, <2>6, CanonFormIs, FormsAreBytes
  <2> QED BY <2>4, <2>5, <2>6
<1>3. ASSUME NEW t \in Types, NEW g \in [Types -> V], NEW h \in [Types -> V],
             \A p \in Parts(t) : g[p] = h[p]
      PROVE  CanonForm(k, t, g) = CanonForm(k, t, h)
  <2>1. t.k \in {"option", "vec", "map"} => g[t.of] = h[t.of]
    BY <1>3, PartsAre
  <2>2. t.k \in {"vec", "map"} => UpTo(k, t, g) = UpTo(k, t, h)
    BY <2>1 DEF UpTo, ItemsAfter
  <2>3. t.k \in {"u8", "str", "fixed", "option", "vec", "map"}
    BY PartsAre
  <2>4. CASE t.k \in {"u8", "str", "fixed", "option"}
    BY <2>1, <2>4, CanonFormIs
  <2>5. CASE t.k \in {"vec", "map"}
    BY <2>2, <2>5, CanonFormIs
  <2> QED BY <2>3, <2>4, <2>5
<1> HIDE DEF V
<1>4. \A t \in Types, g \in [Types -> V] : CanonForms(k)[t][g] = CanonForm(k, t, g)
  BY DEF CanonForms, V
<1>5. CanonForms(k) \in [Types -> [[Types -> V] -> V]]
  BY <1>2 DEF CanonForms, V
<1>6. LooksAtParts(V, CanonForms(k))
  <2> SUFFICES ASSUME NEW t \in Types, NEW g \in [Types -> V], NEW h \in [Types -> V],
                      \A p \in Parts(t) : g[p] = h[p]
               PROVE  CanonForms(k)[t][g] = CanonForms(k)[t][h]
    BY DEF LooksAtParts
  <2> QED BY <1>3, <1>4
<1>7. \E f : Solves(f, Types, V, CanonForms(k))
  BY <1>1, <1>5, <1>6, TypeRecursion
<1>8. Solves(CanonicalTo(k), Types, V, CanonForms(k))
  BY <1>7, Zenon DEF CanonicalTo, V
<1> QED BY <1>4, <1>8 DEF Solves, V

(* The items of a canonical collection, after some keys.                   *)
Remaining(k, t, n, keys) == ItemsAfter(t, CanonicalTo(k), n, keys)

(* Of each kind of type, the canonical encodings.                          *)
LEMMA CanonicalForms ==
  ASSUME NEW k, NEW t \in Types
  PROVE  /\ t.k = "u8" => CanonicalTo(k)[t] = Exactly(1)
         /\ t.k = "str" => CanonicalTo(k)[t] = Texts
         /\ t.k = "fixed" => CanonicalTo(k)[t] = Exactly(t.n)
         /\ t.k = "option" => CanonicalTo(k)[t] = Marked(CanonicalTo(k)[t.of])
         /\ t.k \in {"vec", "map"} =>
              CanonicalTo(k)[t] = Headed([n \in 0 .. Limit - 1 |->
                                          {u \in Remaining(k, t, n, {}) : n <= k}])
         /\ CanonicalTo(k)[t] \subseteq Bytes
<1> DEFINE U == Headed([n \in 0 .. Limit - 1 |-> {u \in Remaining(k, t, n, {}) : n <= k}])
           C == CanonicalTo(k)
<1>1. UpTo(k, t, C) = U
  BY DEF UpTo, Remaining
<1>2. C[t] = CanonForm(k, t, C) /\ C[t] \subseteq Bytes
  BY CanonicalIs
<1>3. /\ t.k = "u8" => CanonForm(k, t, C) = Exactly(1)
      /\ t.k = "str" => CanonForm(k, t, C) = Texts
      /\ t.k = "fixed" => CanonForm(k, t, C) = Exactly(t.n)
      /\ t.k = "option" => CanonForm(k, t, C) = Marked(C[t.of])
      /\ t.k \in {"vec", "map"} => CanonForm(k, t, C) = UpTo(k, t, C)
  BY CanonFormIs
<1> HIDE DEF U, C
<1>4. /\ t.k = "u8" => C[t] = Exactly(1)
      /\ t.k = "str" => C[t] = Texts
      /\ t.k = "fixed" => C[t] = Exactly(t.n)
      /\ t.k = "option" => C[t] = Marked(C[t.of])
      /\ t.k \in {"vec", "map"} => C[t] = U
      /\ C[t] \subseteq Bytes
  BY <1>1, <1>2, <1>3
<1> QED BY <1>4 DEF U, C

(* A canonical vector goes on with an item, and then the others,           *)
LEMMA VecGoesOn ==
  ASSUME NEW k, NEW t \in Types, t.k = "vec", NEW n \in Nat, NEW keys, NEW later
  PROVE  Remaining(k, t, n + 1, keys) = TwoOf(CanonicalTo(k)[t.of], Remaining(k, t, n, later))
<1>1. CanonicalTo(k)[t.of] \subseteq Bytes
  BY PartsAre, CanonicalForms
<1>2. \A m, c : Remaining(k, t, m, c) = Joined(CanonicalTo(k)[t.of], m)
  BY DEF Remaining, ItemsAfter
<1> QED BY <1>1, <1>2, JoinedFirst

(* a map with an entry, and then those after its key.                      *)
LEMMA MapGoesOn ==
  ASSUME NEW k, NEW t \in Types, t.k = "map", NEW n \in Nat, NEW keys
  PROVE  /\ Remaining(k, t, n + 1, keys) = OneSorted(t.key, CanonicalTo(k)[t.of], n, keys)
         /\ \A m, c : Remaining(k, t, m, c) = Sorted(t.key, CanonicalTo(k)[t.of], m, c)
<1>1. \A m, c : Remaining(k, t, m, c) = Sorted(t.key, CanonicalTo(k)[t.of], m, c)
  BY DEF Remaining, ItemsAfter
<1> QED BY <1>1, SortedFirst

(* No items take no bytes.                                                 *)
LEMMA NoneRemain ==
  ASSUME NEW k, NEW t \in Types, t.k \in {"vec", "map"}, NEW keys
  PROVE  /\ Remaining(k, t, 0, keys) = {<< >>}
         /\ \A n : Remaining(k, t, n, keys) \subseteq Bytes
BY JoinedNone, SortedNone, JoinedBytes, SortedBytes DEF Remaining, ItemsAfter

-----------------------------------------------------------------------------
(* Reads of an encoding                                                    *)

(* A reader that takes the bytes up to q for what they are, unless with one*)
(* of some errors.                                                         *)
Takes(E, res, s, p, q) ==
  \/ res.err \in E
  \/ res.err = "none" /\ res.pos = q /\ res.val = Slice(s, p, q)

(* The limits of a decoder that none of its bytes exceed whose collections *)
(* have at most k items each; the errors are that of a limit, or else the  *)
(* limits are such.                                                        *)
Roomy(lim, s, k) ==
  /\ lim.field \in Nat /\ Len(s) <= lim.field
  /\ k \in Nat /\ lim.items \in Nat /\ k <= lim.items

Excused(E, lim, s, k) ==
  "none" \notin E /\ ("PacketTooLarge" \in E \/ Roomy(lim, s, k))

(* Bytes that fall into two parts.                                         *)
LEMMA SliceParts ==
  ASSUME NEW s \in Bytes, NEW p \in 0 .. Len(s), NEW q \in p .. Len(s),
         NEW a \in Bytes, NEW b \in Bytes, Slice(s, p, q) = Then(a, b),
         NEW m, m = p + Len(a)
  PROVE  /\ m \in p .. Len(s) /\ m \in 0 .. Len(s) /\ q \in m .. Len(s)
         /\ Slice(s, p, m) = a /\ Slice(s, m, q) = b
<1> DEFINE x == From(s, q)
           y == Then(b, x)
<1>1. From(s, p) = Then(Slice(s, p, q), x) /\ x \in Bytes /\ Len(Slice(s, p, q)) = q - p
  BY FromSplits DEF Then
<1> HIDE DEF x
<1>2. From(s, p) = Then(a, y)
  BY <1>1, ThenAssoc
<1>3. y \in Bytes
  BY <1>1, JoinFacts DEF Then
<1> HIDE DEF y
<1>4. m \in p .. Len(s) /\ Slice(s, p, m) = a
  BY <1>2, <1>3, SliceFront
<1>5. Len(a) \in Nat /\ Len(b) \in Nat /\ q - p = Len(a) + Len(b) /\ Len(s) \in Nat
  BY <1>1, JoinFacts DEF Bytes, Then
<1>6. m \in 0 .. Len(s) /\ q \in m .. Len(s) /\ m \in p .. q
  BY <1>4, <1>5
<1>7. /\ Slice(s, p, q) = Then(Slice(s, p, m), Slice(s, m, q)) /\ Slice(s, m, q) \in Bytes
      /\ Slice(s, p, m) \in Bytes
  BY <1>4, <1>6, SliceJoin, SliceFacts DEF Then
<1>8. Slice(s, m, q) = b
  BY <1>4, <1>7, JoinCancels DEF Then
<1> QED BY <1>4, <1>6, <1>8

(* ReadsBack, of bytes that are not taken apart.                           *)
LEMMA ReadsBackThen ==
  ASSUME NEW s \in Bytes, NEW p \in 0 .. Len(s), NEW n \in 0 .. Limit - 1, NEW x \in Bytes,
         From(s, p) = Then(EncodeVarint[n], x)
  PROVE  ReadVarint(s, p) = Ok(p + Len(EncodeVarint[n]), n)
<1>1. From(s, p) = EncodeVarint[n] \o x
  BY Zenon DEF Then
<1> QED BY <1>1, ReadsBack, Zenon

(* Bytes that open with an integer: it is read, and the rest follows.      *)
LEMMA IntegerTakes ==
  ASSUME NEW s \in Bytes, NEW p \in 0 .. Len(s), NEW q \in p .. Len(s),
         NEW n \in 0 .. Limit - 1, NEW w \in Bytes, Slice(s, p, q) = Then(EncodeVarint[n], w)
  PROVE  \E m \in p .. Len(s) :
           /\ ReadVarint(s, p) = Ok(m, n)
           /\ m \in 0 .. Len(s) /\ q \in m .. Len(s) /\ n \in Nat
           /\ Slice(s, p, m) = EncodeVarint[n] /\ Slice(s, m, q) = w
<1> DEFINE e == EncodeVarint[n]
           m == p + Len(e)
           x == From(s, m)
<1>3. n \in Nat
  OBVIOUS
<1>4. e \in Bytes
  BY <1>3, EncodeIsBytes DEF Bytes
<1> HIDE DEF e
<1>5. Slice(s, p, q) = Then(e, w)
  BY DEF e
<1>6. m = p + Len(e)
  OBVIOUS
<1> HIDE DEF m
<1>7. /\ m \in p .. Len(s) /\ m \in 0 .. Len(s) /\ q \in m .. Len(s)
      /\ Slice(s, p, m) = e /\ Slice(s, m, q) = w
  BY <1>4, <1>5, <1>6, SliceParts
<1>8. From(s, p) = Then(e, x) /\ x \in Bytes
  BY <1>7, FromSplits DEF Then
<1> HIDE DEF x
<1>9. ReadVarint(s, p) = Ok(m, n)
  <2>1. From(s, p) = Then(EncodeVarint[n], x)
    BY <1>8 DEF e
  <2>2. ReadVarint(s, p) = Ok(p + Len(EncodeVarint[n]), n)
    BY <1>8, <2>1, ReadsBackThen
  <2> QED BY <1>6, <2>2 DEF e
<1> QED BY <1>3, <1>7, <1>9 DEF e

(* The same of a language that opens with an integer, within a limit.      *)
CountsTo(E, c, s, p, q, F) ==
  \E n \in 0 .. Limit - 1 : \E m \in p .. Len(s) :
    /\ c.err \in E \/ c = Ok(m, n)
    /\ m \in 0 .. Len(s) /\ q \in m .. Len(s) /\ n \in Nat
    /\ Slice(s, p, m) = EncodeVarint[n] /\ Slice(s, m, q) \in F[n]

LEMMA CountTakes ==
  ASSUME NEW s \in Bytes, NEW p \in 0 .. Len(s), NEW q \in p .. Len(s), NEW lim,
         NEW E, NEW k, Excused(E, lim, s, k),
         NEW F, \A n \in 0 .. Limit - 1 : F[n] \subseteq Bytes /\ (F[n] # {} => n <= k),
         Slice(s, p, q) \in Headed(F)
  PROVE  CountsTo(E, ReadCount(s, p, lim), s, p, q, F)
<1>1. PICK n \in 0 .. Limit - 1 : \E w \in F[n] : Slice(s, p, q) = EncodeVarint[n] \o w
  BY DEF Headed
<1>2. PICK w \in F[n] : Slice(s, p, q) = EncodeVarint[n] \o w
  BY <1>1
<1>3. w \in Bytes /\ Slice(s, p, q) = Then(EncodeVarint[n], w)
  BY <1>2 DEF Then
<1>4. PICK m \in p .. Len(s) :
           /\ ReadVarint(s, p) = Ok(m, n)
           /\ m \in 0 .. Len(s) /\ q \in m .. Len(s) /\ n \in Nat
           /\ Slice(s, p, m) = EncodeVarint[n] /\ Slice(s, m, q) = w
  BY <1>3, IntegerTakes
<1> DEFINE c == ReadCount(s, p, lim)
           o == Ok(m, n)
<1>5. o.err = "none" /\ o.val = n /\ c = IF o.val > lim.items THEN Error("PacketTooLarge", o.pos) ELSE o
  BY <1>4, CountIs DEF Ok
<1>6. \A x : Error("PacketTooLarge", x).err = "PacketTooLarge"
  BY DEF Error
<1> HIDE DEF c, o
<1>7. c.err \in E \/ c = o
  <2>1. CASE "PacketTooLarge" \in E
    BY <1>5, <1>6, <2>1
  <2>2. CASE Roomy(lim, s, k)
    <3>1. n <= k /\ n \in Nat
      BY <1>1
    <3>2. ~(o.val > lim.items)
      BY <1>5, <2>2, <3>1 DEF Roomy
    <3> QED BY <1>5, <3>2
  <2> QED BY <2>1, <2>2 DEF Excused
<1> QED BY <1>4, <1>7 DEF c, o, CountsTo

(* A length and its bytes are read for what they are,                      *)
LEMMA BytesTake ==
  ASSUME NEW s \in Bytes, NEW p \in 0 .. Len(s), NEW q \in p .. Len(s), NEW lim,
         NEW E, NEW k, Excused(E, lim, s, k),
         NEW w \in Bytes, Len(w) \in 0 .. Limit - 1,
         Slice(s, p, q) = Then(EncodeVarint[Len(w)], w)
  PROVE  \/ ReadBytes(s, p, lim).err \in E
         \/ ReadBytes(s, p, lim) = Value(q, Slice(s, p, q), w)
<1> DEFINE n == Len(w)
           u == Slice(s, p, q)
<1>1. PICK m \in p .. Len(s) :
           /\ ReadVarint(s, p) = Ok(m, n)
           /\ m \in 0 .. Len(s) /\ q \in m .. Len(s) /\ n \in Nat
           /\ Slice(s, p, m) = EncodeVarint[n] /\ Slice(s, m, q) = w
  BY IntegerTakes
<1>2. q = m + n /\ ~(m + n > Len(s)) /\ Len(s) \in Nat
  <2>1. Len(Slice(s, m, q)) = q - m
    BY <1>1, FromSplits
  <2>2. Len(s) \in Nat
    BY DEF Bytes
  <2> QED BY <1>1, <2>1, <2>2
<1> DEFINE o == Ok(m, n)
           r == ReadBytes(s, p, lim)
<1>3. SubSeq(s, m + 1, m + n) = w
  BY <1>1, <1>2 DEF Slice
<1>4. o.err = "none" /\ o.val = n /\ o.pos = m
  BY DEF Ok
<1>5. \/ n > lim.field /\ r = Error("PacketTooLarge", m)
      \/ r = Value(m + n, EncodeVarint[n] \o w, w)
  <2> HIDE DEF n, o
  <2> QED BY <1>1, <1>2, <1>3, <1>4, ReadBytesIs DEF r, o
<1>6. EncodeVarint[n] \o w = u
  BY DEF Then
<1>7. Error("PacketTooLarge", m).err = "PacketTooLarge"
  BY DEF Error
<1>8. "PacketTooLarge" \in E \/ ~(n > lim.field)
  <2>1. n <= Len(s)
    BY <1>1, <1>2
  <2>2. Roomy(lim, s, k) => ~(n > lim.field)
    BY <1>1, <1>2, <2>1 DEF Roomy
  <2> QED BY <2>2 DEF Excused
<1> HIDE DEF r, u, n
<1>9. r.err \in E \/ r = Value(q, u, w)
  BY <1>2, <1>5, <1>6, <1>7, <1>8
<1> QED BY <1>9 DEF r, u

(* and so is a text.                                                       *)
LEMMA TextTakes ==
  ASSUME NEW s \in Bytes, NEW p \in 0 .. Len(s), NEW q \in p .. Len(s), NEW lim,
         NEW E, NEW k, Excused(E, lim, s, k),
         NEW w, Len(w) \in 0 .. Limit - 1, w \in Text(Len(w)),
         Slice(s, p, q) = Then(EncodeVarint[Len(w)], w)
  PROVE  \/ ReadString(s, p, lim).err \in E
         \/ ReadString(s, p, lim) = Value(q, Slice(s, p, q), w)
<1> DEFINE u == Slice(s, p, q)
           r == ReadBytes(s, p, lim)
           out == ReadString(s, p, lim)
<1>1. w \in Bytes /\ NotUtf8 \notin Range(w)
  BY DEF Text, Exactly
<1>2. r.err \in E \/ r = Value(q, u, w)
  BY <1>1, BytesTake
<1>3. out = IF r.err # "none" THEN Error(r.err, r.pos)
            ELSE IF NotUtf8 \in Range(r.key) THEN Error("InvalidUtf8", r.pos)
            ELSE r
  BY ReadStringIs
<1> HIDE DEF u, r, out
<1>4. CASE r.err \in E
  <2>1. "none" \notin E
    BY DEF Excused
  <2>2. out.err \in E
    BY <1>3, <1>4, <2>1 DEF Error
  <2> QED BY <2>2 DEF out
<1>5. CASE r = Value(q, u, w)
  <2>1. r.err = "none" /\ r.key = w
    BY <1>5 DEF Value
  <2>2. out = r
    BY <1>1, <1>3, <2>1
  <2> QED BY <1>5, <2>2 DEF out, u
<1> QED BY <1>2, <1>4, <1>5

(* A byte is taken, and is its own key.                                    *)
LEMMA ByteTakes ==
  ASSUME NEW s \in Bytes, NEW p \in 0 .. Len(s), NEW q \in p .. Len(s),
         Slice(s, p, q) \in Exactly(1)
  PROVE  /\ ReadU8(s, p).err = "none" /\ ReadU8(s, p).pos = q
         /\ ReadU8(s, p).val = Slice(s, p, q) /\ ReadU8(s, p).key = Slice(s, p, q)
<1> DEFINE r == ReadU8(s, p)
<1>1. q = p + 1 /\ p # Len(s)
  <2>1. Len(Slice(s, p, q)) = q - p /\ Len(Slice(s, p, q)) = 1 /\ Len(s) \in Nat
    BY FromSplits DEF Exactly, Bytes
  <2>2. p \in Nat /\ q \in Nat /\ q <= Len(s)
    BY <2>1
  <2>3. q - p = 1
    BY <2>1
  <2> QED BY <2>2, <2>3
<1>2. r.err = "none" /\ r.pos = p + 1
  BY <1>1 DEF ReadU8, Value
<1>3. r.val = Slice(s, p, r.pos) /\ r.key = r.val
  BY <1>2, ReadU8Returns
<1> HIDE DEF r
<1>4. r.err = "none" /\ r.pos = q /\ r.val = Slice(s, p, q) /\ r.key = Slice(s, p, q)
  BY <1>1, <1>2, <1>3
<1> QED BY <1>4 DEF r

(* n bytes are taken.                                                      *)
LEMMA SliceTakes ==
  ASSUME NEW s \in Bytes, NEW p \in 0 .. Len(s), NEW q \in p .. Len(s), NEW n \in Nat, NEW E,
         Slice(s, p, q) \in Exactly(n)
  PROVE  Takes(E, ReadSlice(s, p, n), s, p, q)
<1> DEFINE r == ReadSlice(s, p, n)
<1>1. q = p + n /\ ~(p + n > Len(s))
  <2>1. Len(Slice(s, p, q)) = q - p /\ Len(Slice(s, p, q)) = n /\ Len(s) \in Nat
    BY FromSplits DEF Exactly, Bytes
  <2> QED BY <2>1
<1>2. r.err = "none"
  BY <1>1 DEF ReadSlice, Value
<1>3. r.pos = p + n /\ r.val = Slice(s, p, p + n)
  BY <1>2, ReadSliceReturns
<1> HIDE DEF r
<1>4. r.err = "none" /\ r.pos = q /\ r.val = Slice(s, p, q)
  BY <1>1, <1>2, <1>3
<1> QED BY <1>4 DEF r, Takes

(* A reader takes every encoding of its language.                          *)
Complete(E, reader, s, L) ==
  \A p \in 0 .. Len(s) : \A q \in p .. Len(s) :
    Slice(s, p, q) \in L => Takes(E, reader[p], s, p, q)

(* A marker, and an item after it.                                         *)
LEMMA OptionTakes ==
  ASSUME NEW s \in Bytes, NEW p \in 0 .. Len(s), NEW q \in p .. Len(s), NEW L, L \subseteq Bytes,
         NEW E, "none" \notin E,
         NEW reader, NEW W, ReaderOf(reader, s, W, Bytes), Complete(E, reader, s, L),
         Slice(s, p, q) \in Marked(L)
  PROVE  Takes(E, ReadOption(reader, s, p), s, p, q)
<1> DEFINE u == Slice(s, p, q)
           out == ReadOption(reader, s, p)
           r == ReadMarker(s, p)
           none == <<0>>
           some == <<1>>
<1>0. /\ \A e, x : Error(e, x).err = e
      /\ <<0>> \in Bytes /\ <<1>> \in Bytes /\ <<0>> \in Exactly(1) /\ <<1>> \in Exactly(1)
  BY OneByte DEF Error, Exactly
<1>1. ASSUME NEW m \in p .. Len(s), NEW b \in {none, some}, Slice(s, p, m) = b
      PROVE  r.err = "none" /\ r.pos = m /\ r.val = b
  <2> DEFINE x == ReadU8(s, p)
  <2>1. x.err = "none" /\ x.pos = m /\ x.val = b
    BY <1>0, <1>1, ByteTakes
  <2> HIDE DEF x
  <2>2. r = x
    BY <2>1, MarkerIs DEF x
  <2> QED BY <2>1, <2>2
<1>2. out = IF r.err # "none" THEN Error(r.err, r.pos)
            ELSE IF r.val = <<0>> THEN r
            ELSE IF reader[r.pos].err # "none" THEN Error(reader[r.pos].err, reader[r.pos].pos)
            ELSE [reader[r.pos] EXCEPT !.val = <<1>> \o reader[r.pos].val]
  BY OptionIs
<1>3. u = <<0>> \/ \E a \in L : u = Then(<<1>>, a)
  BY DEF Marked, Then
<1> HIDE DEF u, out, r
<1>4. CASE u = <<0>>
  <2>1. r.err = "none" /\ r.pos = q /\ r.val = u
    BY <1>1, <1>4 DEF u
  <2>2. out = r
    BY <1>2, <1>4, <2>1
  <2> QED BY <2>1, <2>2 DEF Takes, out, u
<1>5. ASSUME NEW a \in L, u = Then(some, a)
      PROVE  Takes(E, out, s, p, q)
  <2> DEFINE one == <<1>>
             m == p + Len(one)
  <2>1. m = p + Len(one) /\ a \in Bytes /\ one \in Bytes /\ one = <<1>> /\ u = Then(one, a)
    BY <1>0, <1>5
  <2> HIDE DEF m, one
  <2>2. /\ m \in p .. Len(s) /\ m \in 0 .. Len(s) /\ q \in m .. Len(s)
        /\ Slice(s, p, m) = one /\ Slice(s, m, q) = a
    <3>1. Slice(s, p, q) = Then(one, a)
      BY <2>1 DEF u
    <3>2. m = p + Len(one) /\ a \in Bytes /\ one \in Bytes
      BY <2>1
    <3> QED BY <3>1, <3>2, SliceParts
  <2>3. r.err = "none" /\ r.pos = m /\ r.val = <<1>> /\ <<1>> # <<0>>
    BY <1>1, <2>1, <2>2
  <2> DEFINE i == reader[m]
  <2>4. Takes(E, i, s, m, q)
    BY <2>2 DEF Complete
  <2> HIDE DEF i
  <2>5. out = IF i.err # "none" THEN Error(i.err, i.pos) ELSE [i EXCEPT !.val = <<1>> \o i.val]
    BY <1>2, <2>3 DEF i
  <2>6. CASE i.err \in E
    BY <1>0, <2>5, <2>6 DEF Takes
  <2>7. CASE i.err = "none" /\ i.pos = q /\ i.val = a
    <3>1. out = [i EXCEPT !.val = <<1>> \o i.val]
      BY <2>5, <2>7
    <3>2. out.err = "none" /\ out.pos = q
      BY <2>7, <3>1
    <3>3. out.val = u
      <4>1. i \in Outcome(s, W)
        BY <2>2 DEF ReaderOf, Returns, i
      <4>2. out.val = <<1>> \o i.val
        BY <3>1, <4>1 DEF Outcome
      <4>3. <<1>> \o i.val = Then(one, a)
        BY <2>1, <2>7, Zenon DEF Then
      <4> QED BY <2>1, <4>2, <4>3
    <3> QED BY <3>2, <3>3 DEF Takes, u
  <2> QED BY <2>2, <2>4, <2>6, <2>7 DEF Takes
<1> QED BY <1>3, <1>4, <1>5 DEF out

(* A reader over and over takes n encodings of its language.               *)
LEMMA RepeatTakes ==
  ASSUME NEW s \in Bytes, NEW p \in 0 .. Len(s), NEW q \in p .. Len(s), NEW n \in Nat,
         NEW E, "none" \notin E,
         NEW L, L \subseteq Bytes, NEW reader, NEW W, ReaderOf(reader, s, W, Bytes),
         Complete(E, reader, s, L), Slice(s, p, q) \in Joined(L, n)
  PROVE  Takes(E, Repeat(reader, p, n), s, p, q)
<1>1. PICK f : Repeats(f, reader, p, n) /\ Repeat(reader, p, n) = f[n]
  BY RepeatIs
<1>2. f[0] = Value(p, << >>, << >>) /\ \A i \in 1 .. n : f[i] = After(reader, f[i - 1], << >>)
  BY <1>1 DEF Repeats
<1> DEFINE Good(i) == \A r \in p .. Len(s) : Slice(s, p, r) \in Joined(L, i) => Takes(E, f[i], s, p, r)
           T == {i \in Nat : i <= n => Good(i)}
<1>3. Good(0)
  <2> SUFFICES ASSUME NEW r \in p .. Len(s), Slice(s, p, r) \in Joined(L, 0)
               PROVE  Takes(E, f[0], s, p, r)
    OBVIOUS
  <2>1. Slice(s, p, r) = << >>
    BY JoinedNone
  <2>2. r = p
    <3>1. Len(Slice(s, p, r)) = r - p /\ Len(s) \in Nat
      BY FromSplits DEF Bytes
    <3>2. r - p = 0
      BY <2>1, <3>1
    <3> QED BY <3>1, <3>2
  <2> QED BY <1>2, <2>1, <2>2 DEF Takes, Value
<1>4. ASSUME NEW i \in Nat, Good(i), i + 1 <= n PROVE Good(i + 1)
  <2> SUFFICES ASSUME NEW r \in p .. Len(s), Slice(s, p, r) \in Joined(L, i + 1)
               PROVE  Takes(E, f[i + 1], s, p, r)
    OBVIOUS
  <2> DEFINE k == i + 1
             x == f[i]
  <2>1. f[k] = After(reader, x, << >>)
    <3>1. k \in 1 .. n /\ k - 1 = i
      BY <1>4
    <3> HIDE DEF k
    <3> QED BY <1>2, <3>1
  <2>2. PICK a \in Joined(L, i), b \in L : Slice(s, p, r) = Then(a, b)
    <3>1. Slice(s, p, r) \in TwoOf(Joined(L, i), L)
      BY JoinedMore
    <3> QED BY <3>1 DEF TwoOf, Then
  <2> DEFINE m == p + Len(a)
  <2>3. m = p + Len(a) /\ a \in Bytes /\ b \in Bytes
    BY JoinedBytes
  <2> HIDE DEF m
  <2>4. /\ m \in p .. Len(s) /\ m \in 0 .. Len(s) /\ r \in m .. Len(s)
        /\ Slice(s, p, m) = a /\ Slice(s, m, r) = b
    BY <2>2, <2>3, SliceParts
  <2>5. Takes(E, x, s, p, m)
    BY <1>4, <2>4
  <2>6. Takes(E, reader[m], s, m, r)
    BY <2>4 DEF Complete
  <2> DEFINE y == reader[x.pos]
             z == f[k]
  <2>7. z = IF x.err # "none" THEN Error(x.err, x.pos)
            ELSE IF y.err # "none" THEN Error(y.err, y.pos)
            ELSE Value(y.pos, Then(x.val, y.val), << >>)
    BY <2>1 DEF After, Then
  <2>8. \A e, j : Error(e, j).err = e
    BY DEF Error
  <2> HIDE DEF x, z
  <2>9. CASE x.err \in E
    BY <2>7, <2>8, <2>9 DEF Takes, z
  <2>10. CASE x.err = "none" /\ x.pos = m /\ x.val = a
    <3>1. y = reader[m]
      BY <2>10
    <3> HIDE DEF y
    <3>2. CASE y.err \in E
      BY <2>7, <2>8, <2>10, <3>2 DEF Takes, z
    <3>3. CASE y.err = "none" /\ y.pos = r /\ y.val = b
      <4>1. z = Value(r, Then(a, b), << >>)
        BY <2>7, <2>10, <3>3
      <4>2. z = Value(r, Slice(s, p, r), << >>)
        BY <2>2, <4>1
      <4> QED BY <4>2 DEF Takes, Value, z
    <3> QED BY <2>4, <2>6, <3>1, <3>2, <3>3 DEF Takes
  <2> QED BY <2>4, <2>5, <2>9, <2>10 DEF Takes
<1> HIDE DEF Good
<1>5. T = Nat
  <2>1. T \in SUBSET Nat /\ 0 \in T /\ \A i \in T : i + 1 \in T
    BY <1>3, <1>4
  <2> HIDE DEF T
  <2> QED BY <2>1, NatInductionOnSets
<1>6. Good(n)
  BY <1>5
<1> QED BY <1>1, <1>6 DEF Good

-----------------------------------------------------------------------------
(* Entries of a map, collected                                             *)

(* An entry that comes after all others goes to the end,                   *)
LEMMA InsertLast ==
  ASSUME NEW entry \in Piece, NEW entries \in Seq(Piece),
         \A i \in 1 .. Len(entries) : KeyLess(entries[i].key, entry.key)
  PROVE  Insert(entry, entries) = Append(entries, entry)
<1> DEFINE n == Len(entries)
           D == 1 .. n
<1>1. DOMAIN entries = D /\ n \in Nat
  OBVIOUS
<1>2. {i \in DOMAIN entries : KeyLess(entries[i].key, entry.key)} = D
  BY <1>1
<1>3. Cardinality(D) = n
  <2>1. n \in Int /\ 1 \in Int
    BY <1>1
  <2> HIDE DEF n
  <2>2. Cardinality(1 .. n) = IF 1 > n THEN 0 ELSE n - 1 + 1
    BY <2>1, FS_Interval
  <2> QED BY <1>1, <2>2
<1> DEFINE k == n + 1
<1>4. Insert(entry, entries) = InsertAt(entries, k, entry)
  BY <1>2, <1>3 DEF Insert
<1>5. SubSeq(entries, 1, k - 1) = entries /\ SubSeq(entries, k, Len(entries)) = << >>
  BY <1>1
<1> HIDE DEF k
<1>6. InsertAt(entries, k, entry)
        = SubSeq(entries, 1, k - 1) \o <<entry>> \o SubSeq(entries, k, Len(entries))
  BY InsertAtIs
<1>7. entries \o <<entry>> \o << >> = Append(entries, entry)
  OBVIOUS
<1> QED BY <1>4, <1>5, <1>6, <1>7, Zenon

(* and so do its bytes.                                                    *)
LEMMA ConcatMore ==
  ASSUME NEW entry \in Piece, NEW entries \in Seq(Piece)
  PROVE  Concat(Append(entries, entry)) = Concat(entries) \o entry.val
<1> DEFINE n == Len(entries)
           more == Append(entries, entry)
           v == [i \in DOMAIN entries |-> entries[i].val]
           w == [i \in DOMAIN more |-> more[i].val]
<1>1. /\ n \in Nat /\ DOMAIN entries = 1 .. n
      /\ \A i \in 1 .. n : entries[i] \in Piece
      /\ DOMAIN more = 1 .. n + 1 /\ \A i \in 1 .. n : more[i] = entries[i]
      /\ more[n + 1] = entry
  OBVIOUS
<1>2. Concat(entries) = FlattenSeq(v) /\ Concat(more) = FlattenSeq(w)
  BY DEF Concat
<1>3. entry.val \in Seq(Byte)
  BY DEF Piece, Bytes
<1> HIDE DEF more, n
<1>4. v \in Seq(Seq(Byte)) /\ Len(v) = n /\ \A i \in 1 .. n : v[i] = entries[i].val
  <2>1. \A i \in 1 .. n : entries[i].val \in Seq(Byte)
    BY <1>1 DEF Piece, Bytes
  <2> QED BY <1>1, <2>1
<1>5. w = [i \in 1 .. n + 1 |-> more[i].val]
  BY <1>1
<1> HIDE DEF v, w
<1>6. w = Append(v, entry.val)
  <2> DEFINE b == Append(v, entry.val)
  <2>1. /\ b \in Seq(Seq(Byte)) /\ Len(b) = n + 1
        /\ \A i \in 1 .. n : b[i] = v[i]
        /\ b[n + 1] = entry.val
    BY <1>3, <1>4, AppendProperties
  <2>2. b = [i \in 1 .. n + 1 |-> b[i]]
    BY <2>1
  <2>3. ASSUME NEW i \in 1 .. n + 1 PROVE b[i] = more[i].val
    <3>1. CASE i = n + 1
      BY <1>1, <2>1, <3>1
    <3>2. CASE i # n + 1
      <4>1. i \in 1 .. n
        BY <1>1, <3>2
      <4> QED BY <1>1, <1>4, <2>1, <4>1
    <3> QED BY <3>1, <3>2
  <2> HIDE DEF b
  <2>4. w = b
    BY <1>5, <2>2, <2>3
  <2> QED BY <2>4 DEF b
<1>7. FlattenSeq(Append(v, entry.val)) = FlattenSeq(v) \o entry.val
  BY <1>3, <1>4, FlattenAppend
<1>8. Concat(more) = Concat(entries) \o entry.val
  BY <1>2, <1>6, <1>7, Zenon
<1> QED BY <1>8 DEF more

(* n items of the same length.                                             *)
LEMMA JoinedLength ==
  ASSUME NEW w \in Nat, NEW L, L \subseteq Exactly(w), NEW n \in Nat
  PROVE  Joined(L, n) \subseteq Exactly(n * w)
<1> DEFINE Good(i) == Joined(L, i) \subseteq Exactly(i * w)
           T == {i \in Nat : Good(i)}
<1>1. Good(0)
  BY JoinedNone, EmptyBytes DEF Exactly
<1>2. ASSUME NEW i \in Nat, Good(i) PROVE Good(i + 1)
  <2> SUFFICES ASSUME NEW u \in Joined(L, i + 1) PROVE u \in Exactly((i + 1) * w)
    OBVIOUS
  <2>1. u \in TwoOf(Joined(L, i), L)
    BY JoinedMore DEF Exactly
  <2>2. PICK a \in Joined(L, i), b \in L : u = Then(a, b)
    BY <2>1 DEF TwoOf, Then
  <2>3. a \in Bytes /\ Len(a) = i * w /\ b \in Bytes /\ Len(b) = w
    BY <1>2 DEF Exactly
  <2>4. u \in Bytes /\ Len(u) = i * w + w
    BY <2>2, <2>3, JoinFacts DEF Then
  <2>5. i * w + w = (i + 1) * w
    OBVIOUS
  <2> QED BY <2>4, <2>5 DEF Exactly
<1> HIDE DEF Good
<1>3. T = Nat
  <2>1. T \in SUBSET Nat /\ 0 \in T /\ \A i \in T : i + 1 \in T
    BY <1>1, <1>2
  <2> HIDE DEF T
  <2> QED BY <2>1, NatInductionOnSets
<1>4. Good(n)
  BY <1>3
<1> QED BY <1>4 DEF Good

(* n bytes are n times one byte.                                           *)
LEMMA BytesJoined ==
  ASSUME NEW n \in Nat
  PROVE  Exactly(n) \subseteq Joined(Exactly(1), n)
<1> DEFINE Good(i) == Exactly(i) \subseteq Joined(Exactly(1), i)
           T == {i \in Nat : Good(i)}
<1>1. Good(0)
  <2>1. \A u \in Exactly(0) : u = << >>
    BY DEF Exactly, Bytes
  <2> QED BY <2>1, JoinedNone
<1>2. ASSUME NEW i \in Nat, Good(i) PROVE Good(i + 1)
  <2> SUFFICES ASSUME NEW u \in Exactly(i + 1) PROVE u \in Joined(Exactly(1), i + 1)
    OBVIOUS
  <2> DEFINE k == i + 1
             a == Slice(u, 0, i)
             b == Slice(u, i, k)
  <2>1. u \in Bytes /\ Len(u) = k
    BY DEF Exactly
  <2>2. /\ 0 \in 0 .. Len(u) /\ i \in 0 .. Len(u) /\ k \in 0 .. Len(u) /\ k \in i .. Len(u)
        /\ k - i = 1 /\ i - 0 = i /\ k \in Nat
    BY <2>1
  <2> HIDE DEF k
  <2>3. u = a \o b
    <3>1. From(u, 0) = u
      BY <2>1, SliceAll
    <3>2. Slice(u, 0, k) = a \o b
      BY <2>1, <2>2, SliceJoin
    <3> QED BY <2>1, <3>1, <3>2 DEF From
  <2>4. a \in Bytes /\ Len(a) = i /\ b \in Bytes /\ Len(b) = 1
    <3>1. a \in Bytes /\ Len(a) = i - 0
      BY <2>1, <2>2, SliceFacts
    <3>2. b \in Bytes /\ Len(b) = k - i
      BY <2>1, <2>2, SliceFacts
    <3> QED BY <2>2, <3>1, <3>2
  <2> HIDE DEF a, b
  <2>5. a \in Joined(Exactly(1), i) /\ b \in Exactly(1)
    BY <1>2, <2>4 DEF Exactly
  <2>6. u \in TwoOf(Joined(Exactly(1), i), Exactly(1))
    BY <2>1, <2>3, <2>5 DEF TwoOf
  <2> QED BY <2>6, JoinedMore, FormsAreBytes
<1> HIDE DEF Good
<1>3. T = Nat
  <2>1. T \in SUBSET Nat /\ 0 \in T /\ \A i \in T : i + 1 \in T
    BY <1>1, <1>2
  <2> HIDE DEF T
  <2> QED BY <2>1, NatInductionOnSets
<1>4. Good(n)
  BY <1>3
<1> QED BY <1>4 DEF Good

(* So a vector of bytes is a length and its bytes.                         *)
LEMMA ByteVecIs ==
  ASSUME NEW k, NEW t \in Types, IsByteVec(t)
  PROVE  /\ CanonicalTo(k)[t] \subseteq Sized
         /\ k = Limit => CanonicalTo(k)[t] = Sized
<1> DEFINE R == [n \in 0 .. Limit - 1 |-> {u \in Remaining(k, t, n, {}) : n <= k}]
           E == [n \in 0 .. Limit - 1 |-> Exactly(n)]
<1>1. t.k = "vec" /\ t.of \in Types /\ t.of.k = "u8"
  BY PartsAre DEF IsByteVec
<1>2. CanonicalTo(k)[t] = Headed(R) /\ CanonicalTo(k)[t.of] = Exactly(1)
  BY <1>1, CanonicalForms
<1>3. ASSUME NEW n \in 0 .. Limit - 1
      PROVE  R[n] \subseteq E[n] /\ (k = Limit => R[n] = E[n])
  <2>1. n \in Nat /\ n * 1 = n /\ n <= Limit
    BY LimitIsNat
  <2>2. Remaining(k, t, n, {}) = Joined(Exactly(1), n)
    BY <1>1, <1>2 DEF Remaining, ItemsAfter
  <2>3. Joined(Exactly(1), n) \subseteq Exactly(n * 1) /\ Exactly(n) \subseteq Joined(Exactly(1), n)
    BY <2>1, JoinedLength, BytesJoined
  <2>4. Joined(Exactly(1), n) = Exactly(n)
    BY <2>1, <2>3
  <2> QED BY <2>1, <2>2, <2>4
<1> HIDE DEF R, E
<1>4. Headed(R) \subseteq Headed(E) /\ (k = Limit => Headed(R) = Headed(E))
  BY <1>3 DEF Headed
<1>5. Headed(E) = Sized
  BY DEF E, Sized
<1> QED BY <1>2, <1>4, <1>5

(* The keys of a map as they are written.                                  *)
KeyCodes(t) == {KeyCode(t, c) : c \in Keys(t)}

(* Keys are bytes.                                                         *)
LEMMA KeysAre ==
  ASSUME NEW t, t.k \in {"u8", "str"}, NEW c \in Keys(t)
  PROVE  /\ c \in Bytes /\ KeyCode(t, c) \in Bytes
         /\ t.k = "u8" => c \in Exactly(1) /\ KeyCode(t, c) = c
         /\ t.k = "str" => /\ Len(c) \in 0 .. Limit - 1 /\ c \in Text(Len(c))
                           /\ KeyCode(t, c) = Then(EncodeVarint[Len(c)], c)
<1>1. CASE t.k = "u8"
  BY <1>1 DEF Keys, KeyCode, Exactly
<1>2. CASE t.k = "str"
  <2>1. PICK n \in 0 .. Limit - 1 : c \in Text(n)
    BY <1>2 DEF Keys
  <2>2. c \in Bytes /\ Len(c) = n
    BY <2>1 DEF Text, Exactly
  <2>3. n \in Nat
    OBVIOUS
  <2>4. EncodeVarint[n] \in Bytes
    BY <2>3, EncodeIsBytes DEF Bytes
  <2>5. KeyCode(t, c) = Then(EncodeVarint[n], c) /\ Then(EncodeVarint[n], c) \in Bytes
    BY <1>2, <2>2, <2>4, JoinFacts DEF KeyCode, Then
  <2> QED BY <1>2, <2>1, <2>2, <2>5
<1> QED BY <1>1, <1>2

(* Entries in order are entries.                                           *)
LEMMA SortedJoined ==
  ASSUME NEW t, t.k \in {"u8", "str"}, NEW L, L \subseteq Bytes, NEW n \in Nat, NEW keys
  PROVE  Sorted(t, L, n, keys) \subseteq Joined(TwoOf(KeyCodes(t), L), n)
<1> DEFINE P == TwoOf(KeyCodes(t), L)
           Good(i) == \A ks : Sorted(t, L, i, ks) \subseteq Joined(P, i)
           T == {i \in Nat : Good(i)}
<1>0. P \subseteq Bytes
  BY DEF TwoOf
<1> HIDE DEF P
<1>1. Good(0)
  BY SortedNone, JoinedNone
<1>2. ASSUME NEW i \in Nat, Good(i) PROVE Good(i + 1)
  <2> SUFFICES ASSUME NEW ks, NEW u \in Sorted(t, L, i + 1, ks) PROVE u \in Joined(P, i + 1)
    OBVIOUS
  <2>1. u \in OneSorted(t, L, i, ks)
    BY SortedFirst
  <2>2. PICK c \in Keys(t), v \in L : \E x \in Sorted(t, L, i, {c}) :
               u = Then(Then(KeyCode(t, c), v), x)
    BY <2>1 DEF OneSorted
  <2>3. PICK x \in Sorted(t, L, i, {c}) : u = Then(Then(KeyCode(t, c), v), x)
    BY <2>2
  <2>4. u \in Bytes /\ x \in Joined(P, i)
    BY <1>2, SortedBytes
  <2> DEFINE e == Then(KeyCode(t, c), v)
  <2>5. e \in P
    <3>1. e \in Bytes
      BY KeysAre, JoinFacts DEF Then
    <3>2. KeyCode(t, c) \in KeyCodes(t)
      BY DEF KeyCodes
    <3> QED BY <3>1, <3>2 DEF P, TwoOf, Then
  <2> HIDE DEF e
  <2>6. u = Then(e, x)
    BY <2>3 DEF e
  <2>7. u \in TwoOf(P, Joined(P, i))
    BY <2>4, <2>5, <2>6 DEF TwoOf, Then
  <2> QED BY <1>0, <2>7, JoinedFirst
<1> HIDE DEF Good
<1>3. T = Nat
  <2>1. T \in SUBSET Nat /\ 0 \in T /\ \A i \in T : i + 1 \in T
    BY <1>1, <1>2
  <2> HIDE DEF T
  <2> QED BY <2>1, NatInductionOnSets
<1>4. Good(n)
  BY <1>3
<1> QED BY <1>4 DEF Good, P

(* What comes after a key comes after all keys before it.                  *)
LEMMA SortedBeyond ==
  ASSUME NEW t, Keys(t) \subseteq Bytes, NEW L, NEW n \in Nat, NEW c \in Bytes,
         NEW K \in SUBSET Bytes, \A b \in K : KeyLess(b, c), NEW u \in Sorted(t, L, n, {c})
  PROVE  u \in Sorted(t, L, n, K \cup {c})
<1>1. u \in Bytes
  BY DEF Sorted
<1>2. PICK f, key : /\ Listing(f, key, t, L, n) /\ u = f[n]
                    /\ n > 0 => \A b \in {c} : KeyLess(b, key[n])
  BY DEF Sorted
<1>3. ASSUME n > 0, NEW b \in K \cup {c} PROVE KeyLess(b, key[n])
  <2>1. key[n] \in Keys(t)
    BY <1>2, <1>3 DEF Listing
  <2>2. key[n] \in Bytes /\ KeyLess(c, key[n])
    BY <1>2, <1>3, <2>1
  <2>3. CASE b = c
    BY <2>2, <2>3
  <2>4. CASE b \in K
    <3>1. KeyLess(b, c) /\ b \in Bytes
      BY <2>4
    <3> QED BY <2>2, <3>1, KeyLessTransitive
  <2> QED BY <1>3, <2>3, <2>4
<1> QED BY <1>1, <1>2, <1>3 DEF Sorted

(* The keys of entries.                                                    *)
KeysOf(entries) == {entries[i].key : i \in 1 .. Len(entries)}

(* An entry after all others has a key of its own, and adds it.            *)
LEMMA KeysOfMore ==
  ASSUME NEW entry \in Piece, NEW entries \in Seq(Piece),
         \A b \in KeysOf(entries) : KeyLess(b, entry.key)
  PROVE  /\ KeysOf(entries) \in SUBSET Bytes /\ entry.key \in Bytes
         /\ ~IsDuplicate(entry.key, entries)
         /\ Insert(entry, entries) = Append(entries, entry)
         /\ KeysOf(Append(entries, entry)) = KeysOf(entries) \cup {entry.key}
<1> DEFINE n == Len(entries)
           more == Append(entries, entry)
<1>1. /\ n \in Nat /\ DOMAIN entries = 1 .. n
      /\ \A i \in 1 .. n : entries[i] \in Piece
      /\ Len(more) = n + 1 /\ \A i \in 1 .. n : more[i] = entries[i]
      /\ more[n + 1] = entry
  OBVIOUS
<1>2. \A i \in 1 .. n : entries[i].key \in KeysOf(entries)
  BY DEF KeysOf
<1>3. \A i \in 1 .. n : entries[i].key \in Bytes
  BY <1>1 DEF Piece
<1>4. KeysOf(entries) \in SUBSET Bytes /\ entry.key \in Bytes
  BY <1>3 DEF KeysOf, Piece
<1>5. ~IsDuplicate(entry.key, entries)
  <2> SUFFICES ASSUME NEW i \in 1 .. n, entries[i].key = entry.key PROVE FALSE
    BY <1>1 DEF IsDuplicate
  <2>1. KeyLess(entry.key, entry.key)
    BY <1>2
  <2> QED BY <1>4, <2>1, KeyNotLess
<1>6. Insert(entry, entries) = Append(entries, entry)
  BY <1>2, InsertLast
<1>7. KeysOf(more) = KeysOf(entries) \cup {entry.key}
  <2> HIDE DEF more, n
  <2>1. 1 .. Len(more) = (1 .. n) \cup {n + 1}
    BY <1>1
  <2>2. KeysOf(more) = {more[i].key : i \in (1 .. n) \cup {n + 1}}
    BY <2>1 DEF KeysOf
  <2>3. KeysOf(entries) = {entries[i].key : i \in 1 .. n}
    BY DEF KeysOf, n
  <2> QED BY <1>1, <2>2, <2>3
<1> QED BY <1>4, <1>5, <1>6, <1>7 DEF more

(* A reader of entries that takes every key before every value.            *)
EntryComplete(E, reader, s, t, L) ==
  \A p \in 0 .. Len(s) : \A q \in p .. Len(s) : \A c \in Keys(t), v \in L :
    Slice(s, p, q) = Then(KeyCode(t, c), v) =>
      Takes(E, reader[p], s, p, q) /\ (reader[p].err = "none" => reader[p].key = c)

(* Entries have been collected up to position x.pos, and j more follow.    *)
Collected(E, x, s, p, q, t, L, j) ==
  \/ x.err \in E
  \/ /\ x.err = "none" /\ x.pos \in p .. q
     /\ Concat(x.val) = Slice(s, p, x.pos)
     /\ Slice(s, x.pos, q) \in Sorted(t, L, j, KeysOf(x.val))

(* One more is collected.                                                  *)
LEMMA AddingTakes ==
  ASSUME NEW s \in Bytes, NEW p \in 0 .. Len(s), NEW q \in p .. Len(s), NEW j \in Nat,
         NEW E, "none" \notin E,
         NEW t, t.k \in {"u8", "str"}, NEW L, L \subseteq Bytes,
         NEW reader, NEW W, ReaderOf(reader, s, W, Bytes), EntryComplete(E, reader, s, t, L),
         NEW x \in Entries(s), Collected(E, x, s, p, q, t, L, j + 1)
  PROVE  Collected(E, Adding(reader, x), s, p, q, t, L, j)
<1> DEFINE z == Adding(reader, x)
           m == x.pos
           y == reader[m]
           K == KeysOf(x.val)
<1>1. z = IF x.err # "none" THEN Error(x.err, x.pos)
          ELSE IF y.err # "none" THEN Error(y.err, y.pos)
          ELSE IF IsDuplicate(y.key, x.val) THEN Error("MalformedConstructor", y.pos)
          ELSE Value(y.pos, Insert([key |-> y.key, val |-> y.val], x.val), << >>)
  BY DEF Adding
<1>2. \A e, i : Error(e, i).err = e
  BY DEF Error
<1>3. m \in 0 .. Len(s) /\ x.val \in Seq(Piece)
  BY DEF Entries
<1>4. y.key \in Bytes /\ y.val \in Bytes
  BY <1>3 DEF ReaderOf, Returns, Outcome
<1> HIDE DEF z, y, m, K
<1>5. CASE x.err \in E
  BY <1>1, <1>2, <1>5 DEF Collected, z
<1>6. CASE /\ x.err = "none" /\ m \in p .. q
           /\ Concat(x.val) = Slice(s, p, m)
           /\ Slice(s, m, q) \in Sorted(t, L, j + 1, K)
  <2>1. q \in m .. Len(s) /\ m \in p .. Len(s)
    BY <1>3, <1>6
  <2>2. Slice(s, m, q) \in OneSorted(t, L, j, K)
    BY <1>6, SortedFirst
  <2>3. PICK c \in Keys(t), v \in L : \E w \in Sorted(t, L, j, {c}) :
               /\ Slice(s, m, q) = Then(Then(KeyCode(t, c), v), w)
               /\ \A b \in K : KeyLess(b, c)
    BY <2>2 DEF OneSorted
  <2>4. PICK w \in Sorted(t, L, j, {c}) :
               /\ Slice(s, m, q) = Then(Then(KeyCode(t, c), v), w)
               /\ \A b \in K : KeyLess(b, c)
    BY <2>3
  <2> DEFINE a == Then(KeyCode(t, c), v)
             r == m + Len(a)
  <2>5. a \in Bytes /\ w \in Bytes /\ c \in Bytes
    <3>1. KeyCode(t, c) \in Bytes /\ c \in Bytes /\ v \in Bytes
      BY KeysAre
    <3>2. a \in Bytes
      BY <3>1, JoinFacts DEF Then
    <3> QED BY <3>1, <3>2, SortedBytes
  <2>50. a = Then(KeyCode(t, c), v)
    OBVIOUS
  <2> HIDE DEF a
  <2>6. r = m + Len(a) /\ Slice(s, m, q) = Then(a, w)
    BY <2>4, <2>50
  <2> HIDE DEF r
  <2>7. /\ r \in m .. Len(s) /\ r \in 0 .. Len(s) /\ q \in r .. Len(s)
        /\ Slice(s, m, r) = a /\ Slice(s, r, q) = w
    BY <1>3, <2>1, <2>5, <2>6, SliceParts
  <2>8. Takes(E, y, s, m, r) /\ (y.err = "none" => y.key = c)
    BY <1>3, <2>7, <2>50 DEF EntryComplete, y
  <2>9. CASE y.err \in E
    BY <1>1, <1>2, <1>6, <2>9 DEF Collected, z
  <2>10. CASE y.err = "none" /\ y.pos = r /\ y.val = a /\ y.key = c
    <3> DEFINE e == [key |-> y.key, val |-> y.val]
               more == Append(x.val, e)
    <3>1. e \in Piece /\ e.key = c /\ e.val = a
      BY <1>4, <2>10 DEF Piece
    <3> HIDE DEF e
    <3>2. \A b \in KeysOf(x.val) : KeyLess(b, e.key)
      BY <2>4, <3>1 DEF K
    <3>3. /\ K \in SUBSET Bytes /\ ~IsDuplicate(e.key, x.val) /\ Insert(e, x.val) = more
          /\ KeysOf(more) = K \cup {e.key}
      BY <1>3, <3>1, <3>2, KeysOfMore DEF K
    <3>4. Concat(more) = Then(Concat(x.val), a)
      BY <1>3, <3>1, ConcatMore DEF Then
    <3> HIDE DEF more
    <3>5. z = Value(r, more, << >>)
      BY <1>1, <1>6, <2>10, <3>1, <3>3 DEF e
    <3>6. z.err = "none" /\ z.pos = r /\ z.val = more
      BY <3>5 DEF Value
    <3>7. Then(Slice(s, p, m), Slice(s, m, r)) = Slice(s, p, r)
      BY <2>1, <2>7, SliceJoin DEF Then
    <3>8. Concat(more) = Slice(s, p, r)
      BY <1>6, <2>7, <3>4, <3>7
    <3>9. w \in Sorted(t, L, j, K \cup {c})
      <4>1. \A b \in K : KeyLess(b, c)
        BY <2>4
      <4>2. Sorted(t, L, j, {c}) \subseteq Sorted(t, L, j, K \cup {c})
        <5>1. K \in SUBSET Bytes /\ c \in Bytes
          BY <2>5, <3>3
        <5>2. Keys(t) \subseteq Bytes
          BY KeysAre
        <5> QED BY <4>1, <5>1, <5>2, SortedBeyond
      <4> QED BY <4>2
    <3>10. r \in p .. q
      BY <2>1, <2>7
    <3> QED BY <2>7, <3>1, <3>3, <3>6, <3>8, <3>9, <3>10 DEF Collected, z
  <2> QED BY <2>7, <2>8, <2>9, <2>10 DEF Takes
<1> QED BY <1>5, <1>6 DEF Collected, z, m, K

(* Collect takes the entries of a map in order.                            *)
LEMMA CollectTakes ==
  ASSUME NEW s \in Bytes, NEW p \in 0 .. Len(s), NEW q \in p .. Len(s), NEW n \in Nat,
         NEW E, "none" \notin E,
         NEW t, t.k \in {"u8", "str"}, NEW L, L \subseteq Bytes,
         NEW reader, NEW W, ReaderOf(reader, s, W, Bytes), EntryComplete(E, reader, s, t, L),
         Slice(s, p, q) \in Sorted(t, L, n, {})
  PROVE  \/ Collect(reader, p, n).err \in E
         \/ /\ Collect(reader, p, n).err = "none" /\ Collect(reader, p, n).pos = q
            /\ Concat(Collect(reader, p, n).val) = Slice(s, p, q)
<1>1. PICK f : Collects(f, reader, p, n) /\ Collect(reader, p, n) = f[n]
  BY CollectIs
<1>2. f[0] = Value(p, << >>, << >>) /\ \A i \in 1 .. n : f[i] = Adding(reader, f[i - 1])
  BY <1>1 DEF Collects
<1> DEFINE Good(i) == f[i] \in Entries(s) /\ Collected(E, f[i], s, p, q, t, L, n - i)
           T == {i \in Nat : i <= n => Good(i)}
<1>3. Good(0)
  <2> DEFINE x == Value(p, << >>, << >>)
  <2>1. << >> \in Seq(Piece) /\ << >> \in Bytes /\ << >> \in NoView /\ "none" \in Codes
        /\ p \in p .. Len(s) /\ p \in p .. q /\ Len(s) \in Nat
    BY EmptyBytes DEF NoView, Codes, Bytes
  <2>2. x \in Entries(s) /\ x.pos = p /\ x.err = "none" /\ x.val = << >>
    BY <2>1 DEF Value, Entries
  <2> HIDE DEF x
  <2>3. KeysOf(<< >>) = {}
    BY DEF KeysOf
  <2>4. Concat(<< >>) = << >>
    <3>1. [i \in DOMAIN << >> |-> << >>[i].val] = << >>
      OBVIOUS
    <3> QED BY <3>1, FlattenEmpty DEF Concat
  <2>5. Slice(s, p, p) = << >>
    BY SliceEmpty
  <2>6. Collected(E, x, s, p, q, t, L, n)
    BY <2>1, <2>2, <2>3, <2>4, <2>5 DEF Collected
  <2> QED BY <1>2, <2>2, <2>6 DEF x
<1>4. ASSUME NEW i \in Nat, Good(i), i + 1 <= n PROVE Good(i + 1)
  <2> DEFINE k == i + 1
             j == n - k
             x == f[i]
  <2>1. j \in Nat /\ n - i = j + 1 /\ k \in 1 .. n /\ k - 1 = i
    BY <1>4
  <2>2. x \in Entries(s) /\ Collected(E, x, s, p, q, t, L, j + 1)
    BY <1>4, <2>1
  <2> HIDE DEF k, j
  <2>3. f[k] = Adding(reader, x)
    BY <1>2, <2>1
  <2> HIDE DEF x
  <2>4. Adding(reader, x) \in Entries(s)
    BY <2>2, AddingType
  <2>5. Collected(E, Adding(reader, x), s, p, q, t, L, j)
    BY <2>1, <2>2, AddingTakes
  <2>6. Good(k)
    BY <2>3, <2>4, <2>5 DEF j
  <2> QED BY <2>6 DEF k
<1> HIDE DEF Good
<1>5. T = Nat
  <2>1. T \in SUBSET Nat /\ 0 \in T /\ \A i \in T : i + 1 \in T
    BY <1>3, <1>4
  <2> HIDE DEF T
  <2> QED BY <2>1, NatInductionOnSets
<1>6. Good(n)
  BY <1>5
<1> DEFINE x == f[n]
<1>7. x \in Entries(s) /\ Collected(E, x, s, p, q, t, L, 0)
  BY <1>6 DEF Good
<1> HIDE DEF x
<1>8. CASE x.err \in E
  BY <1>1, <1>8 DEF x
<1>9. CASE /\ x.err = "none" /\ x.pos \in p .. q /\ Concat(x.val) = Slice(s, p, x.pos)
           /\ Slice(s, x.pos, q) \in Sorted(t, L, 0, KeysOf(x.val))
  <2>1. Slice(s, x.pos, q) = << >>
    BY <1>9, SortedNone
  <2>2. x.pos \in 0 .. Len(s) /\ q \in x.pos .. Len(s)
    BY <1>7, <1>9 DEF Entries
  <2>3. Len(Slice(s, x.pos, q)) = q - x.pos
    BY <2>2, FromSplits
  <2>4. q - x.pos = 0
    BY <2>1, <2>3
  <2>5. x.pos = q
    BY <1>9, <2>4
  <2> QED BY <1>1, <1>9, <2>5 DEF x
<1> QED BY <1>7, <1>8, <1>9 DEF Collected

-----------------------------------------------------------------------------
(* Vectors and maps of encodings                                           *)

(* A count of at most k and as many items, or entries in the order of their*)
(* keys.                                                                   *)
CountedTo(k, L) == Headed([n \in 0 .. Limit - 1 |-> {u \in Joined(L, n) : n <= k}])
OrderedTo(k, t, L) == Headed([n \in 0 .. Limit - 1 |-> {u \in Sorted(t, L, n, {}) : n <= k}])

(* The languages of the canonical vectors and maps.                        *)
LEMMA CanonicalItems ==
  ASSUME NEW k, NEW t \in Types
  PROVE  /\ t.k = "vec" => CanonicalTo(k)[t] = CountedTo(k, CanonicalTo(k)[t.of])
         /\ t.k = "map" => CanonicalTo(k)[t] = OrderedTo(k, t.key, CanonicalTo(k)[t.of])
         /\ t.k = "vec" /\ k = Limit => CanonicalTo(k)[t] = Counted(CanonicalTo(k)[t.of])
<1> DEFINE L == CanonicalTo(k)[t.of]
           U == [n \in 0 .. Limit - 1 |-> {u \in Remaining(k, t, n, {}) : n <= k}]
           J == [n \in 0 .. Limit - 1 |-> {u \in Joined(L, n) : n <= k}]
           S == [n \in 0 .. Limit - 1 |-> {u \in Sorted(t.key, L, n, {}) : n <= k}]
           A == [n \in 0 .. Limit - 1 |-> Joined(L, n)]
<1>1. t.k \in {"vec", "map"} => CanonicalTo(k)[t] = Headed(U)
  BY CanonicalForms
<1>2. (t.k = "vec" => U = J) /\ (t.k = "map" => U = S)
  BY DEF Remaining, ItemsAfter
<1>3. k = Limit => J = A
  BY LimitIsNat
<1>4. Headed(J) = CountedTo(k, L) /\ Headed(S) = OrderedTo(k, t.key, L) /\ Headed(A) = Counted(L)
  BY DEF CountedTo, OrderedTo, Counted
<1> HIDE DEF U, J, S, A, L
<1>5. /\ t.k = "vec" => CanonicalTo(k)[t] = CountedTo(k, L)
      /\ t.k = "map" => CanonicalTo(k)[t] = OrderedTo(k, t.key, L)
      /\ t.k = "vec" /\ k = Limit => CanonicalTo(k)[t] = Counted(L)
  BY <1>1, <1>2, <1>3, <1>4
<1> QED BY <1>5 DEF L

LEMMA FixedLenIs ==
  ASSUME NEW k, NEW t \in Types
  PROVE  /\ FixedLen(t) \in Nat
         /\ FixedLen(t) > 0 => CanonicalTo(k)[t] \subseteq Exactly(FixedLen(t))
<1>1. t.k = "fixed" => t.n \in Nat
  BY PartsAre
<1>2. CASE t.k = "u8"
  BY <1>2, CanonicalForms DEF FixedLen
<1>3. CASE t.k = "fixed"
  BY <1>1, <1>3, CanonicalForms DEF FixedLen
<1>4. CASE t.k \notin {"u8", "fixed"}
  BY <1>4 DEF FixedLen
<1> QED BY <1>2, <1>3, <1>4

(* What is long enough for its items passes the check of a count.          *)
LEMMA ItemsFit ==
  ASSUME NEW s \in Bytes, NEW m \in 0 .. Len(s), NEW q \in m .. Len(s), NEW n \in Nat,
         NEW w \in Nat, NEW L, Slice(s, m, q) \in Joined(L, n), w > 0 => L \subseteq Exactly(w)
  PROVE  ~(n * w > Len(s) - m)
<1>1. Len(s) \in Nat /\ Len(Slice(s, m, q)) = q - m
  BY FromSplits DEF Bytes
<1>2. CASE w = 0
  <2>1. n * w = 0
    BY <1>2
  <2> QED BY <1>1, <2>1
<1>3. CASE w > 0
  <2>1. Slice(s, m, q) \in Exactly(n * w)
    BY <1>3, JoinedLength
  <2>2. q - m = n * w
    BY <1>1, <2>1 DEF Exactly
  <2> QED BY <1>1, <2>2
<1> QED BY <1>2, <1>3

(* A vector is taken,                                                      *)
LEMMA VecTakes ==
  ASSUME NEW s \in Bytes, NEW p \in 0 .. Len(s), NEW q \in p .. Len(s), NEW lim, NEW t,
         NEW E, NEW k, Excused(E, lim, s, k),
         FixedLen(t.of) \in Nat, NEW L, L \subseteq Bytes,
         FixedLen(t.of) > 0 => L \subseteq Exactly(FixedLen(t.of)),
         NEW reader, NEW W, ReaderOf(reader, s, W, Bytes), Complete(E, reader, s, L),
         Slice(s, p, q) \in CountedTo(k, L)
  PROVE  Takes(E, OwnVec(t, reader, s, p, lim), s, p, q)
<1> DEFINE F == [n \in 0 .. Limit - 1 |-> {u \in Joined(L, n) : n <= k}]
           c == ReadCount(s, p, lim)
           out == OwnVec(t, reader, s, p, lim)
<1>0. "none" \notin E
  BY DEF Excused
<1>1. /\ Slice(s, p, q) \in Headed(F)
      /\ \A n \in 0 .. Limit - 1 : 
           F[n] \subseteq Bytes /\ F[n] = {u \in Joined(L, n) : n <= k}
  BY JoinedBytes DEF CountedTo
<1> HIDE DEF F
<1>20. CountsTo(E, c, s, p, q, F)
  <2>1. \A n \in 0 .. Limit - 1 : F[n] \subseteq Bytes /\ (F[n] # {} => n <= k)
    BY <1>1
  <2>2. Slice(s, p, q) \in Headed(F)
    BY <1>1
  <2> QED BY <2>1, <2>2, CountTakes
<1>21. PICK n \in 0 .. Limit - 1 : \E m \in p .. Len(s) :
           /\ c.err \in E \/ c = Ok(m, n)
           /\ m \in 0 .. Len(s) /\ q \in m .. Len(s) /\ n \in Nat
           /\ Slice(s, p, m) = EncodeVarint[n] /\ Slice(s, m, q) \in F[n]
  BY <1>20 DEF CountsTo
<1>2. PICK m \in p .. Len(s) :
           /\ c.err \in E \/ c = Ok(m, n)
           /\ m \in 0 .. Len(s) /\ q \in m .. Len(s) /\ n \in Nat
           /\ Slice(s, p, m) = EncodeVarint[n] /\ Slice(s, m, q) \in F[n]
  BY <1>21
<1> DEFINE i == Repeat(reader, c.pos, c.val)
           w == FixedLen(t.of)
<1>3. out = IF c.err # "none" THEN Error(c.err, c.pos)
            ELSE IF c.val * w > Len(s) - c.pos THEN Error("UnexpectedEof", c.pos)
            ELSE IF i.err # "none" THEN Error(i.err, i.pos)
            ELSE Value(i.pos, Then(EncodeVarint[c.val], i.val), << >>)
  BY OwnVecIs, Zenon DEF Then
<1>4. \A e, x : Error(e, x).err = e
  BY DEF Error
<1>5. Slice(s, m, q) \in Joined(L, n)
  BY <1>1, <1>2
<1>6. ~(n * w > Len(s) - m)
  BY <1>2, <1>5, ItemsFit
<1>7. Takes(E, Repeat(reader, m, n), s, m, q)
  BY <1>0, <1>2, <1>5, RepeatTakes
<1>8. Then(Slice(s, p, m), Slice(s, m, q)) = Slice(s, p, q)
  BY <1>2, SliceJoin DEF Then
<1> HIDE DEF c, out, w
<1>9. CASE c.err \in E
  BY <1>0, <1>3, <1>4, <1>9 DEF Takes, out
<1>10. CASE c = Ok(m, n)
  <2>1. c.err = "none" /\ c.pos = m /\ c.val = n /\ i = Repeat(reader, m, n)
    BY <1>10 DEF Ok
  <2> HIDE DEF i
  <2>2. out = IF i.err # "none" THEN Error(i.err, i.pos)
              ELSE Value(i.pos, Then(EncodeVarint[n], i.val), << >>)
    BY <1>3, <1>6, <2>1
  <2>3. CASE i.err \in E
    BY <1>0, <1>4, <2>2, <2>3 DEF Takes, out
  <2>4. CASE i.err = "none" /\ i.pos = q /\ i.val = Slice(s, m, q)
    <3>1. out = Value(q, Slice(s, p, q), << >>)
      BY <1>2, <1>8, <2>2, <2>4
    <3> QED BY <3>1 DEF Takes, Value, out
  <2> QED BY <1>7, <2>1, <2>3, <2>4 DEF Takes
<1> QED BY <1>2, <1>9, <1>10

(* and a map whose keys are in order.                                      *)
LEMMA MapTakes ==
  ASSUME NEW s \in Bytes, NEW p \in 0 .. Len(s), NEW q \in p .. Len(s), NEW lim,
         NEW E, NEW k, Excused(E, lim, s, k),
         NEW t \in Types, t.k = "map", FixedLen(t.of) \in Nat, NEW L, L \subseteq Bytes,
         FixedLen(t.of) > 0 => L \subseteq Exactly(FixedLen(t.of)),
         NEW reader, NEW W, ReaderOf(reader, s, W, Bytes), EntryComplete(E, reader, s, t.key, L),
         Slice(s, p, q) \in OrderedTo(k, t.key, L)
  PROVE  Takes(E, OwnMap(t, reader, s, p, lim), s, p, q)
<1> DEFINE F == [n \in 0 .. Limit - 1 |-> {u \in Sorted(t.key, L, n, {}) : n <= k}]
           c == ReadCount(s, p, lim)
           out == OwnMap(t, reader, s, p, lim)
<1>0. t.key.k \in {"u8", "str"} /\ "none" \notin E
  BY PartsAre DEF Excused
<1>1. /\ Slice(s, p, q) \in Headed(F)
      /\ \A n \in 0 .. Limit - 1 : 
           F[n] \subseteq Bytes /\ F[n] = {u \in Sorted(t.key, L, n, {}) : n <= k}
  BY SortedBytes DEF OrderedTo
<1> HIDE DEF F
<1>20. CountsTo(E, c, s, p, q, F)
  <2>1. \A n \in 0 .. Limit - 1 : F[n] \subseteq Bytes /\ (F[n] # {} => n <= k)
    BY <1>1
  <2>2. Slice(s, p, q) \in Headed(F)
    BY <1>1
  <2> QED BY <2>1, <2>2, CountTakes
<1>21. PICK n \in 0 .. Limit - 1 : \E m \in p .. Len(s) :
           /\ c.err \in E \/ c = Ok(m, n)
           /\ m \in 0 .. Len(s) /\ q \in m .. Len(s) /\ n \in Nat
           /\ Slice(s, p, m) = EncodeVarint[n] /\ Slice(s, m, q) \in F[n]
  BY <1>20 DEF CountsTo
<1>2. PICK m \in p .. Len(s) :
           /\ c.err \in E \/ c = Ok(m, n)
           /\ m \in 0 .. Len(s) /\ q \in m .. Len(s) /\ n \in Nat
           /\ Slice(s, p, m) = EncodeVarint[n] /\ Slice(s, m, q) \in F[n]
  BY <1>21
<1> DEFINE i == Collect(reader, c.pos, c.val)
           a == FixedLen(t.key)
           b == FixedLen(t.of)
<1>3. out = IF c.err # "none" THEN Error(c.err, c.pos)
            ELSE IF a > 0 /\ b > 0 /\ c.val * (a + b) > Len(s) - c.pos
              THEN Error("UnexpectedEof", c.pos)
            ELSE IF i.err # "none" THEN Error(i.err, i.pos)
            ELSE Value(i.pos, Then(EncodeVarint[c.val], Concat(i.val)), << >>)
  BY OwnMapIs, Zenon DEF Then
<1>4. \A e, x : Error(e, x).err = e
  BY DEF Error
<1>5. Slice(s, m, q) \in Sorted(t.key, L, n, {})
  BY <1>1, <1>2
<1>6. ~(a > 0 /\ b > 0 /\ n * (a + b) > Len(s) - m)
  <2> SUFFICES ASSUME a > 0, b > 0 PROVE ~(n * (a + b) > Len(s) - m)
    OBVIOUS
  <2> DEFINE P == TwoOf(KeyCodes(t.key), L)
             w == a + b
  <2>1. a = 1 /\ t.key.k = "u8"
    BY <1>0 DEF FixedLen
  <2>2. P \subseteq Exactly(w)
    <3> SUFFICES ASSUME NEW u \in P PROVE u \in Exactly(w)
      OBVIOUS
    <3>1. PICK e \in KeyCodes(t.key), v \in L : u = Then(e, v)
      BY DEF TwoOf, Then
    <3>2. e \in Exactly(1) /\ v \in Exactly(b)
      BY <2>1, <1>0, KeysAre DEF KeyCodes
    <3>3. Len(u) = 1 + b /\ u \in Bytes
      <4>1. e \in Bytes /\ Len(e) = 1 /\ v \in Bytes /\ Len(v) = b
        BY <3>2 DEF Exactly
      <4>2. Then(e, v) \in Bytes /\ Len(Then(e, v)) = Len(e) + Len(v)
        BY <4>1, JoinFacts DEF Then
      <4> QED BY <3>1, <4>1, <4>2
    <3> QED BY <2>1, <3>3 DEF Exactly
  <2>3. Slice(s, m, q) \in Joined(P, n)
    BY <1>2, <1>0, <1>5, SortedJoined
  <2>4. w \in Nat
    BY <2>1
  <2> HIDE DEF P, w
  <2>5. ~(n * w > Len(s) - m)
    BY <1>2, <2>2, <2>3, <2>4, ItemsFit
  <2> QED BY <2>5 DEF w
<1>7. \/ Collect(reader, m, n).err \in E
      \/ /\ Collect(reader, m, n).err = "none" /\ Collect(reader, m, n).pos = q
         /\ Concat(Collect(reader, m, n).val) = Slice(s, m, q)
  BY <1>2, <1>0, <1>5, CollectTakes
<1>8. Then(Slice(s, p, m), Slice(s, m, q)) = Slice(s, p, q)
  BY <1>2, SliceJoin DEF Then
<1> HIDE DEF c, out, a, b
<1>9. CASE c.err \in E
  BY <1>0, <1>3, <1>4, <1>9 DEF Takes, out
<1>10. CASE c = Ok(m, n)
  <2>1. c.err = "none" /\ c.pos = m /\ c.val = n /\ i = Collect(reader, m, n)
    BY <1>10 DEF Ok
  <2> HIDE DEF i
  <2>2. out = IF i.err # "none" THEN Error(i.err, i.pos)
              ELSE Value(i.pos, Then(EncodeVarint[n], Concat(i.val)), << >>)
    BY <1>3, <1>6, <2>1
  <2>3. CASE i.err \in E
    BY <1>0, <1>4, <2>2, <2>3 DEF Takes, out
  <2>4. CASE i.err = "none" /\ i.pos = q /\ Concat(i.val) = Slice(s, m, q)
    <3>1. out = Value(q, Slice(s, p, q), << >>)
      BY <1>2, <1>8, <2>2, <2>4
    <3> QED BY <3>1 DEF Takes, Value, out
  <2> QED BY <1>7, <2>1, <2>3, <2>4
<1> QED BY <1>2, <1>9, <1>10

(* The readers of the owned decode, whatever they accept.                  *)
LEMMA OwnWider ==
  ASSUME NEW s \in Bytes, NEW lim, NEW t \in Types
  PROVE  ReaderOf(Own(s, lim)[t], s, NoView, Bytes)
<1> DEFINE reader == Own(s, lim)[t]
<1>1. ReaderOf(reader, s, NoView, Encoded[t]) /\ Encoded[t] \subseteq Bytes
  BY OwnReads, EncodedIs
<1> HIDE DEF reader
<1>2. \A p \in 0 .. Len(s) : Returns(reader[p], s, p, NoView, Bytes)
  BY <1>1, ReturnsWider DEF ReaderOf
<1>3. ReaderOf(reader, s, NoView, Bytes)
  BY <1>1, <1>2 DEF ReaderOf
<1> QED BY <1>3 DEF reader

(* A key is taken for what it is,                                          *)
LEMMA KeyTakes ==
  ASSUME NEW s \in Bytes, NEW p \in 0 .. Len(s), NEW q \in p .. Len(s), NEW lim,
         NEW E, NEW k, Excused(E, lim, s, k),
         NEW t \in Types, t.k \in {"u8", "str"}, NEW c \in Keys(t), Slice(s, p, q) = KeyCode(t, c)
  PROVE  /\ Takes(E, Own(s, lim)[t][p], s, p, q)
         /\ Own(s, lim)[t][p].err = "none" => Own(s, lim)[t][p].key = c
<1> DEFINE r == Own(s, lim)[t][p]
<1>1. /\ t.k = "u8" => r = ReadU8(s, p)
      /\ t.k = "str" => r = ReadString(s, p, lim)
  BY OwnIs, OwnOfIs
<1> HIDE DEF r
<1>2. CASE t.k = "u8"
  <2> DEFINE x == ReadU8(s, p)
  <2>1. c \in Exactly(1) /\ Slice(s, p, q) = c
    BY <1>2, KeysAre
  <2>2. x.err = "none" /\ x.pos = q /\ x.val = Slice(s, p, q) /\ x.key = Slice(s, p, q)
    BY <2>1, ByteTakes
  <2> HIDE DEF x
  <2>3. r = x
    BY <1>1, <1>2 DEF x
  <2> QED BY <2>1, <2>2, <2>3 DEF Takes, r
<1>3. CASE t.k = "str"
  <2> DEFINE x == ReadString(s, p, lim)
             u == Slice(s, p, q)
  <2>1. /\ Len(c) \in 0 .. Limit - 1 /\ c \in Text(Len(c))
        /\ Slice(s, p, q) = Then(EncodeVarint[Len(c)], c)
    BY <1>3, KeysAre
  <2>2. x.err \in E \/ x = Value(q, u, c)
    BY <2>1, TextTakes
  <2>3. r = x
    BY <1>1, <1>3
  <2> HIDE DEF x, u
  <2>4. r.err \in E \/ (r.err = "none" /\ r.pos = q /\ r.val = u /\ r.key = c)
    BY <2>2, <2>3 DEF Value
  <2>5. "none" \notin E
    BY DEF Excused
  <2> QED BY <2>4, <2>5 DEF Takes, r, u
<1> QED BY <1>2, <1>3 DEF r

(* and a value after it.                                                   *)
LEMMA EntryTakes ==
  ASSUME NEW s \in Bytes, NEW lim, NEW E, NEW k, Excused(E, lim, s, k),
         NEW t \in Types, t.k = "map", NEW L, L \subseteq Bytes,
         Complete(E, Own(s, lim)[t.of], s, L)
  PROVE  EntryComplete(E, Pair(Own(s, lim)[t.key], Own(s, lim)[t.of]), s, t.key, L)
<1> DEFINE keys == Own(s, lim)[t.key]
           values == Own(s, lim)[t.of]
           reader == Pair(keys, values)
<1>0. "none" \notin E
  BY DEF Excused
<1>1. t.key \in Types /\ t.of \in Types /\ t.key.k \in {"u8", "str"}
  BY PartsAre
<1> SUFFICES ASSUME NEW p \in 0 .. Len(s), NEW q \in p .. Len(s), NEW c \in Keys(t.key), NEW v \in L,
                    Slice(s, p, q) = Then(KeyCode(t.key, c), v)
             PROVE  Takes(E, reader[p], s, p, q) /\ (reader[p].err = "none" => reader[p].key = c)
  BY Zenon DEF EntryComplete
<1> DEFINE e == KeyCode(t.key, c)
           m == p + Len(e)
<1>2. e \in Bytes /\ v \in Bytes
  BY <1>1, KeysAre
<1> HIDE DEF e
<1>3. Slice(s, p, q) = Then(e, v) /\ m = p + Len(e)
  BY DEF e
<1> HIDE DEF m
<1>4. /\ m \in p .. Len(s) /\ m \in 0 .. Len(s) /\ q \in m .. Len(s)
      /\ Slice(s, p, m) = e /\ Slice(s, m, q) = v
  BY <1>2, <1>3, SliceParts
<1>5. Takes(E, keys[p], s, p, m) /\ (keys[p].err = "none" => keys[p].key = c)
  BY <1>1, <1>4, KeyTakes DEF e
<1>6. Takes(E, values[m], s, m, q)
  BY <1>4 DEF Complete
<1>7. p \in DOMAIN keys
  BY <1>1, OwnWider DEF ReaderOf
<1> DEFINE x == keys[p]
           y == values[x.pos]
           z == reader[p]
<1>8. z = IF x.err # "none" THEN Error(x.err, x.pos)
          ELSE IF y.err # "none" THEN Error(y.err, y.pos)
          ELSE Value(y.pos, Then(x.val, y.val), x.key)
  BY <1>7, PairIs DEF After, Then
<1>9. \A a, j : Error(a, j).err = a
  BY DEF Error
<1> HIDE DEF z, x, keys, values, reader
<1>10. Takes(E, x, s, p, m) /\ (x.err = "none" => x.key = c)
  BY <1>5 DEF x
<1>11. CASE x.err \in E
  BY <1>0, <1>8, <1>9, <1>11 DEF Takes, z
<1>12. CASE x.err = "none" /\ x.pos = m /\ x.val = e
  <2>1. y = values[m]
    BY <1>12
  <2> HIDE DEF y
  <2>2. CASE y.err \in E
    BY <1>0, <1>8, <1>9, <1>12, <2>2 DEF Takes, z
  <2>3. CASE y.err = "none" /\ y.pos = q /\ y.val = v
    <3>1. z = Value(q, Then(e, v), c)
      BY <1>8, <1>10, <1>12, <2>3
    <3>2. z = Value(q, Slice(s, p, q), c)
      BY <1>3, <3>1
    <3> QED BY <3>2 DEF Takes, Value, z
  <2> QED BY <1>4, <1>6, <2>1, <2>2, <2>3 DEF Takes
<1> QED BY <1>4, <1>10, <1>11, <1>12 DEF Takes

-----------------------------------------------------------------------------
(* The owned decode of a canonical encoding                                *)

(* The owned decode takes every canonical encoding of a type, if it does so*)
(* of the parts of the type.                                               *)
LEMMA OwnTakesOf ==
  ASSUME NEW s \in Bytes, NEW lim, NEW E, NEW k, Excused(E, lim, s, k), NEW t \in Types,
         \A r \in Parts(t) : Complete(E, Own(s, lim)[r], s, CanonicalTo(k)[r]),
         NEW p \in 0 .. Len(s), NEW q \in p .. Len(s), Slice(s, p, q) \in CanonicalTo(k)[t]
  PROVE  Takes(E, Own(s, lim)[t][p], s, p, q)
<1> DEFINE r == Own(s, lim)[t][p]
           C == CanonicalTo(k)
           item == Own(s, lim)[t.of]
<1>0. "none" \notin E
  BY DEF Excused
<1>1. /\ t.k = "u8" => r = ReadU8(s, p)
      /\ t.k = "str" => r = ReadString(s, p, lim)
      /\ t.k = "fixed" => r = ReadSlice(s, p, t.n)
      /\ t.k = "option" => r = ReadOption(item, s, p)
      /\ t.k = "vec" => r = OwnVec(t, item, s, p, lim)
      /\ t.k = "map" => r = OwnMap(t, Pair(Own(s, lim)[t.key], item), s, p, lim)
  BY OwnIs, OwnOfIs
<1>2. t.k \in {"option", "vec", "map"} =>
        /\ t.of \in Types /\ C[t.of] \subseteq Bytes
        /\ Complete(E, item, s, C[t.of]) /\ ReaderOf(item, s, NoView, Bytes)
        /\ FixedLen(t.of) \in Nat
        /\ FixedLen(t.of) > 0 => C[t.of] \subseteq Exactly(FixedLen(t.of))
  <2> SUFFICES ASSUME t.k \in {"option", "vec", "map"}
               PROVE  /\ t.of \in Types /\ C[t.of] \subseteq Bytes
                      /\ Complete(E, item, s, C[t.of]) /\ ReaderOf(item, s, NoView, Bytes)
                      /\ FixedLen(t.of) \in Nat
                      /\ FixedLen(t.of) > 0 => C[t.of] \subseteq Exactly(FixedLen(t.of))
    OBVIOUS
  <2>1. t.of \in Parts(t) /\ t.of \in Types
    BY PartsAre
  <2>2. Complete(E, item, s, C[t.of])
    BY <2>1
  <2>3. C[t.of] \subseteq Bytes
    BY <2>1, CanonicalForms
  <2>4. ReaderOf(item, s, NoView, Bytes)
    BY <2>1, OwnWider
  <2>5. FixedLen(t.of) \in Nat /\ (FixedLen(t.of) > 0 => C[t.of] \subseteq Exactly(FixedLen(t.of)))
    BY <2>1, FixedLenIs
  <2> QED BY <2>1, <2>2, <2>3, <2>4, <2>5
<1>3. CASE t.k = "u8"
  <2>1. Slice(s, p, q) \in Exactly(1)
    BY <1>3, CanonicalForms
  <2> QED BY <1>1, <1>3, <2>1, ByteTakes DEF Takes
<1>4. CASE t.k = "str"
  <2>1. Slice(s, p, q) \in Texts
    BY <1>4, CanonicalForms
  <2>2. PICK n \in 0 .. Limit - 1 : \E w \in Text(n) : Slice(s, p, q) = EncodeVarint[n] \o w
    BY <2>1 DEF Texts, Headed
  <2>3. PICK w \in Text(n) : Slice(s, p, q) = EncodeVarint[n] \o w
    BY <2>2
  <2>4. Len(w) = n
    BY DEF Text, Exactly
  <2>5. Slice(s, p, q) = Then(EncodeVarint[n], w)
    BY <2>3, Zenon DEF Then
  <2>6. Slice(s, p, q) = Then(EncodeVarint[Len(w)], w)
    BY <2>4, <2>5
  <2> DEFINE x == ReadString(s, p, lim)
             u == Slice(s, p, q)
  <2>7. x.err \in E \/ x = Value(q, u, w)
    BY <2>4, <2>6, TextTakes
  <2>8. r = x
    BY <1>1, <1>4
  <2> HIDE DEF x, u, r
  <2>9. r.err \in E \/ (r.err = "none" /\ r.pos = q /\ r.val = u)
    BY <2>7, <2>8 DEF Value
  <2> QED BY <2>9 DEF Takes, r, u
<1>5. CASE t.k = "fixed"
  <2>1. t.n \in Nat
    BY <1>5, PartsAre
  <2>2. Slice(s, p, q) \in Exactly(t.n)
    BY <1>5, CanonicalForms
  <2> QED BY <1>1, <1>5, <2>1, <2>2, SliceTakes
<1>6. CASE t.k = "option"
  <2>1. Slice(s, p, q) \in Marked(C[t.of])
    BY <1>6, CanonicalForms
  <2> HIDE DEF C, item, r
  <2>2. Takes(E, ReadOption(item, s, p), s, p, q)
    BY <1>0, <1>2, <1>6, <2>1, OptionTakes
  <2> QED BY <1>1, <1>6, <2>2 DEF r
<1>7. CASE t.k = "vec"
  <2>1. Slice(s, p, q) \in CountedTo(k, C[t.of])
    BY <1>7, CanonicalItems
  <2> HIDE DEF C, item, r
  <2>2. Takes(E, OwnVec(t, item, s, p, lim), s, p, q)
    BY <1>2, <1>7, <2>1, VecTakes
  <2> QED BY <1>1, <1>7, <2>2 DEF r
<1>8. CASE t.k = "map"
  <2> DEFINE entry == Pair(Own(s, lim)[t.key], item)
  <2>1. Slice(s, p, q) \in OrderedTo(k, t.key, C[t.of])
    BY <1>8, CanonicalItems
  <2>2. t.key \in Types /\ t.key.k \in {"u8", "str"}
    BY <1>8, PartsAre
  <2>3. EntryComplete(E, entry, s, t.key, C[t.of])
    BY <1>2, <1>8, EntryTakes
  <2>4. ReaderOf(entry, s, NoView, Bytes)
    <3>1. ReaderOf(Own(s, lim)[t.key], s, NoView, Bytes)
      BY <2>2, OwnWider
    <3>2. ReaderOf(entry, s, NoView, TwoOf(Bytes, Bytes))
      BY <1>2, <1>8, <3>1, PairReads
    <3>3. TwoOf(Bytes, Bytes) \subseteq Bytes
      BY DEF TwoOf
    <3> HIDE DEF entry
    <3>4. \A j \in 0 .. Len(s) : Returns(entry[j], s, j, NoView, Bytes)
      BY <3>2, <3>3, ReturnsWider DEF ReaderOf
    <3> QED BY <3>2, <3>4 DEF ReaderOf
  <2> DEFINE values == C[t.of]
  <2> HIDE DEF C, item, r, entry
  <2>6. /\ values \subseteq Bytes /\ FixedLen(t.of) \in Nat
        /\ FixedLen(t.of) > 0 => values \subseteq Exactly(FixedLen(t.of))
    BY <1>2, <1>8
  <2>7. Slice(s, p, q) \in OrderedTo(k, t.key, values) /\ EntryComplete(E, entry, s, t.key, values)
    BY <2>1, <2>3
  <2> HIDE DEF values
  <2>5. Takes(E, OwnMap(t, entry, s, p, lim), s, p, q)
    BY <1>8, <2>4, <2>6, <2>7, MapTakes
  <2> QED BY <1>1, <1>8, <2>5 DEF r, entry
<1>9. t.k \in {"u8", "str", "fixed", "option", "vec", "map"}
  BY PartsAre
<1> QED BY <1>3, <1>4, <1>5, <1>6, <1>7, <1>8, <1>9

(* What the encoder writes is taken by the owned decode, unless a limit    *)
(* refuses it.                                                             *)
LEMMA OwnTakes ==
  ASSUME NEW s \in Bytes, NEW lim, NEW E, NEW k, Excused(E, lim, s, k), NEW t \in Types
  PROVE  Complete(E, Own(s, lim)[t], s, CanonicalTo(k)[t])
<1> DEFINE T == {r \in Types : Complete(E, Own(s, lim)[r], s, CanonicalTo(k)[r])}
<1>1. ASSUME NEW r \in Types, Parts(r) \subseteq T PROVE r \in T
  <2>1. \A j \in Parts(r) : Complete(E, Own(s, lim)[j], s, CanonicalTo(k)[j])
    BY <1>1
  <2>2. ASSUME NEW p \in 0 .. Len(s), NEW q \in p .. Len(s), Slice(s, p, q) \in CanonicalTo(k)[r]
        PROVE  Takes(E, Own(s, lim)[r][p], s, p, q)
    BY <2>1, <2>2, OwnTakesOf
  <2>3. Complete(E, Own(s, lim)[r], s, CanonicalTo(k)[r])
    BY <2>2, Zenon DEF Complete
  <2> QED BY <2>3
<1>2. T \in SUBSET Types
  OBVIOUS
<1> HIDE DEF T
<1>3. T = Types
  BY <1>1, <1>2, TypeInduction
<1> QED BY <1>3 DEF T

-----------------------------------------------------------------------------
(* What a read gives                                                       *)

(* What bytes() has read is the length of its key, and its key.            *)
LEMMA BytesGive ==
  ASSUME NEW s \in Bytes, NEW p \in 0 .. Len(s), NEW lim, ReadBytes(s, p, lim).err = "none"
  PROVE  /\ ReadBytes(s, p, lim).key \in Bytes
         /\ Len(ReadBytes(s, p, lim).key) \in 0 .. Limit - 1
         /\ ReadBytes(s, p, lim).val =
              Then(EncodeVarint[Len(ReadBytes(s, p, lim).key)], ReadBytes(s, p, lim).key)
<1> DEFINE len == ReadVarint(s, p)
           res == ReadBytes(s, p, lim)
           m == len.pos
           n == len.val
           q == m + n
           x == Slice(s, m, q)
<1>1. IntegerRead(len, s, p)
  BY VarintRead
<1>2. res = IF len.err # "none" THEN Error(len.err, m)
            ELSE IF n > lim.field THEN Error("PacketTooLarge", m)
            ELSE IF m + n > Len(s) THEN Error("UnexpectedEof", m)
            ELSE Value(q, Then(EncodeVarint[n], x), x)
  BY ReadBytesIs, Zenon DEF Then, Slice
<1>3. \A e, j : Error(e, j).err = e
  BY DEF Error
<1> HIDE DEF res, len, x
<1>4. res.err = "none"
  BY DEF res
<1>5. len.err = "none" /\ ~(m + n > Len(s))
  BY <1>1, <1>2, <1>3, <1>4 DEF IntegerRead, Failures
<1>6. n \in 0 .. Limit - 1 /\ n \in Nat /\ m \in 0 .. Len(s)
  BY <1>1, <1>5 DEF IntegerRead
<1>7. q \in m .. Len(s) /\ q - m = n
  <2>1. Len(s) \in Nat
    BY DEF Bytes
  <2> QED BY <1>5, <1>6, <2>1
<1> HIDE DEF q
<1>8. x \in Bytes /\ Len(x) = n
  BY <1>6, <1>7, SliceFacts DEF x
<1>9. res = Value(q, Then(EncodeVarint[n], x), x)
  BY <1>2, <1>3, <1>4, <1>5
<1>10. res.key = x /\ res.val = Then(EncodeVarint[n], x)
  BY <1>9 DEF Value
<1> HIDE DEF m, n
<1>11. /\ res.key \in Bytes /\ Len(res.key) \in 0 .. Limit - 1
       /\ res.val = Then(EncodeVarint[Len(res.key)], res.key)
  BY <1>6, <1>8, <1>10
<1> QED BY <1>11 DEF res

(* A string that has been read is the text of its key.                     *)
LEMMA StringGives ==
  ASSUME NEW s \in Bytes, NEW p \in 0 .. Len(s), NEW lim, ReadString(s, p, lim).err = "none",
         NEW t, t.k = "str"
  PROVE  /\ Slice(s, p, ReadString(s, p, lim).pos) \in Texts
         /\ ReadString(s, p, lim).val = Slice(s, p, ReadString(s, p, lim).pos)
         /\ ReadString(s, p, lim).key \in Keys(t)
         /\ ReadString(s, p, lim).val = KeyCode(t, ReadString(s, p, lim).key)
<1> DEFINE r == ReadBytes(s, p, lim)
           out == ReadString(s, p, lim)
           x == r.key
           n == Len(x)
           u == Slice(s, p, out.pos)
<1>1. out = IF r.err # "none" THEN Error(r.err, r.pos)
            ELSE IF NotUtf8 \in Range(r.key) THEN Error("InvalidUtf8", r.pos)
            ELSE r
  BY ReadStringIs
<1>2. out.err = "none" /\ \A e, j : Error(e, j).err = e
  BY DEF Error
<1> HIDE DEF out
<1>3. out = r /\ r.err = "none" /\ NotUtf8 \notin Range(x)
  <2> HIDE DEF r
  <2> QED BY <1>1, <1>2
<1>4. x \in Bytes /\ n \in 0 .. Limit - 1 /\ r.val = Then(EncodeVarint[n], x)
  BY <1>3, BytesGive
<1>5. r.val = Slice(s, p, r.pos)
  BY <1>3, ReadBytesReturns
<1>6. u \in Bytes
  <2>1. ReadBytes(s, p, lim).pos \in p .. Len(s)
    BY ReadBytesReturns, ReturnsParts
  <2>2. r.pos \in p .. Len(s)
    BY <2>1
  <2> QED BY <1>3, <2>2, SliceFacts
<1> HIDE DEF r, x, n, u
<1>7. out.val = u /\ u = Then(EncodeVarint[n], x) /\ out.key = x
  BY <1>3, <1>4, <1>5 DEF u, x
<1>8. x \in Text(n)
  BY <1>3, <1>4 DEF Text, Exactly, n
<1>9. u \in Texts
  <2> DEFINE F == [i \in 0 .. Limit - 1 |-> Text(i)]
  <2>1. F[n] = Text(n)
    BY <1>4
  <2> HIDE DEF F
  <2>2. u = EncodeVarint[n] \o x
    BY <1>7, Zenon DEF Then
  <2>3. u \in Headed(F)
    BY <1>4, <1>6, <1>8, <2>1, <2>2, Zenon DEF Headed
  <2> QED BY <2>3 DEF Texts, F
<1>10. x \in Keys(t)
  BY <1>4, <1>8 DEF Keys
<1>11. u = KeyCode(t, x)
  <2>1. KeyCode(t, x) = EncodeVarint[n] \o x
    BY DEF KeyCode, n
  <2> QED BY <1>7, <2>1, Zenon DEF Then
<1> QED BY <1>7, <1>9, <1>10, <1>11 DEF out, u

-----------------------------------------------------------------------------
(* What an outcome shows                                                   *)

(* The bytes of a view are the items of a canonical collection.            *)
Whole(v) == v.bytes \in Remaining(Limit, v.ty, v.count, {})

(* What is written of an outcome: its value, and what its view holds.      *)
Shown(val, view) == IF view = << >> THEN val ELSE Then(val, view[1].bytes)

(* An outcome takes what is written of it, and this is a canonical encoding*)
(* if its view is whole.                                                   *)
Found(res, s, p, t) ==
  /\ Slice(s, p, res.pos) = Shown(res.val, res.view)
  /\ (res.view # << >> => Whole(res.view[1])) => Slice(s, p, res.pos) \in CanonicalTo(Limit)[t]

(* A value without a view.                                                 *)
LEMMA PlainFound ==
  ASSUME NEW s, NEW p, NEW t, NEW res, res.view = << >>,
         res.val = Slice(s, p, res.pos), res.val \in CanonicalTo(Limit)[t]
  PROVE  Found(res, s, p, t)
BY DEF Found, Shown

(* A reader whose values are found,                                        *)
Finds(reader, s, t) ==
  \A p \in 0 .. Len(s) : reader[p].err = "none" => Found(reader[p], s, p, t)

(* and an option of what it reads.                                         *)
LEMMA OptionFound ==
  ASSUME NEW s \in Bytes, NEW p \in 0 .. Len(s), NEW t \in Types, t.k = "option",
         NEW reader, ReaderOf(reader, s, Views, Bytes), Finds(reader, s, t.of),
         ReadOption(reader, s, p).err = "none"
  PROVE  Found(ReadOption(reader, s, p), s, p, t)
<1> DEFINE x == ReadMarker(s, p)
           y == reader[x.pos]
           z == ReadOption(reader, s, p)
           M == CanonicalTo(Limit)[t]
           L == CanonicalTo(Limit)[t.of]
           one == <<1>>
<1>1. /\ Returns(x, s, p, NoView, Exactly(1))
      /\ x.err = "none" => x.val \in {<<0>>, <<1>>} /\ x.val = Slice(s, p, x.pos)
  BY MarkerReturns
<1>2. z = IF x.err # "none" THEN Error(x.err, x.pos)
          ELSE IF x.val = <<0>> THEN x
          ELSE IF y.err # "none" THEN Error(y.err, y.pos)
          ELSE [y EXCEPT !.val = <<1>> \o y.val]
  BY OptionIs
<1>3. z.err = "none" /\ \A e, j : Error(e, j).err = e
  BY DEF Error
<1>4. M = Marked(L)
  BY CanonicalForms
<1> HIDE DEF x, z, M, L
<1>5. x.pos \in p .. Len(s) /\ x.pos \in 0 .. Len(s) /\ x.view \in NoView
  BY <1>1, ReturnsParts
<1>6. x.err = "none" /\ x.val = Slice(s, p, x.pos)
  <2> HIDE DEF y
  <2> QED BY <1>1, <1>2, <1>3
<1>7. CASE x.val = <<0>>
  <2>1. z = x
    BY <1>2, <1>6, <1>7
  <2>2. x.val \in M
    BY <1>4, <1>7 DEF Marked
  <2>3. x.view = << >>
    BY <1>5 DEF NoView
  <2>4. Found(x, s, p, t)
    BY <1>6, <2>2, <2>3, PlainFound DEF M
  <2> QED BY <2>1, <2>4 DEF z
<1>8. CASE x.val # <<0>>
  <2>1. x.val = one
    BY <1>1, <1>6, <1>8
  <2>2. y.err = "none" /\ z = [y EXCEPT !.val = <<1>> \o y.val]
    <3> HIDE DEF y
    <3> QED BY <1>2, <1>3, <1>6, <1>8
  <2>3. Returns(y, s, x.pos, Views, Bytes) /\ Found(y, s, x.pos, t.of)
    BY <1>5, <2>2 DEF ReaderOf, Finds
  <2> HIDE DEF y
  <2>4. y.pos \in x.pos .. Len(s) /\ y.val \in Bytes /\ y.view \in Views /\ y \in Outcome(s, Views)
    BY <1>5, <2>3, ReturnsParts DEF Returns
  <2>5. z.val = <<1>> \o y.val /\ z.pos = y.pos /\ z.view = y.view
    BY <2>2, <2>4 DEF Outcome
  <2>6. z.val = Then(one, y.val)
    BY <2>5, Zenon DEF Then
  <2>7. one \in Bytes
    BY OneByte
  <2> DEFINE a == Slice(s, x.pos, y.pos)
             u == Slice(s, p, y.pos)
  <2>8. a \in Bytes /\ u \in Bytes /\ u = Then(Slice(s, p, x.pos), a)
    <3>1. y.pos \in p .. Len(s) /\ y.pos \in x.pos .. Len(s)
      BY <1>5, <2>4 DEF Bytes
    <3> QED BY <1>5, <3>1, SliceFacts, SliceJoin DEF Then
  <2> HIDE DEF one, a, u
  <2>9. u = Then(one, a)
    BY <1>6, <2>1, <2>8
  <2>10. a = Shown(y.val, y.view)
    BY <2>3 DEF Found, a
  <2>11. u = Shown(z.val, z.view)
    <3>1. CASE y.view = << >>
      <4>1. a = y.val /\ Shown(z.val, z.view) = z.val
        BY <2>5, <2>10, <3>1 DEF Shown
      <4> QED BY <2>6, <2>9, <4>1
    <3>2. CASE y.view # << >>
      <4> DEFINE b == y.view[1].bytes
      <4>1. b \in Bytes
        <5>1. PICK v \in GoodViews : y.view = <<v>>
          BY <2>4, <3>2 DEF Views, NoView
        <5>2. y.view[1] = v
          BY <5>1
        <5> QED BY <5>2, GoodViewIs
      <4>2. a = Then(y.val, b) /\ Shown(z.val, z.view) = Then(z.val, b)
        BY <2>5, <2>10, <3>2 DEF Shown
      <4> HIDE DEF b
      <4>3. Then(Then(one, y.val), b) = Then(one, Then(y.val, b))
        BY <2>4, <2>7, <4>1, ThenAssoc
      <4> QED BY <2>6, <2>9, <4>2, <4>3
    <3> QED BY <3>1, <3>2
  <2>12. a \in L => u \in M
    <3>1. u = <<1>> \o a
      BY <2>9, Zenon DEF Then, one
    <3> QED BY <1>4, <2>8, <3>1 DEF Marked
  <2>13. (y.view # << >> => Whole(y.view[1])) => a \in L
    BY <2>3 DEF Found, a, L
  <2>14. u = Slice(s, p, z.pos)
    BY <2>5 DEF u
  <2>15. Found(z, s, p, t)
    BY <2>5, <2>11, <2>12, <2>13, <2>14 DEF Found, M
  <2> QED BY <2>15 DEF z
<1> QED BY <1>7, <1>8

(* Types in whose values there is no map.                                  *)
Copies(copied) ==
  /\ copied \subseteq Types
  /\ \A t \in copied : t.k # "map" /\ Parts(t) \subseteq copied

(* The owned decode takes canonical encodings of them,                     *)
LEMMA CopiedStep ==
  ASSUME NEW s \in Bytes, NEW lim, NEW t \in Types, t.k # "map",
         \A r \in Parts(t) : ReaderOf(Own(s, lim)[r], s, NoView, CanonicalTo(Limit)[r])
  PROVE  ReaderOf(Own(s, lim)[t], s, NoView, CanonicalTo(Limit)[t])
<1> DEFINE own == Own(s, lim)
           f == own[t]
           C == CanonicalTo(Limit)
           L == C[t]
           h == own[t.of]
           M == C[t.of]
<1>0. << >> \in NoView
  BY DEF NoView
<1>1. t.k \in {"option", "vec"} => ReaderOf(h, s, NoView, M) /\ M \subseteq Bytes
  BY PartsAre, CanonicalForms
<1>2. ASSUME NEW p \in 0 .. Len(s) PROVE Returns(f[p], s, p, NoView, L)
  <2>1. CASE t.k = "u8"
    <3>1. f[p] = ReadU8(s, p)
      BY <2>1, OwnIs, OwnOfIs
    <3>2. L = Exactly(1)
      BY <2>1, CanonicalForms
    <3> HIDE DEF f, L
    <3> QED BY <3>1, <3>2, ReadU8Returns
  <2>2. CASE t.k = "str"
    <3> DEFINE x == ReadString(s, p, lim)
    <3>1. f[p] = x
      BY <2>2, OwnIs, OwnOfIs
    <3>2. L = Texts
      BY <2>2, CanonicalForms
    <3>3. Returns(x, s, p, NoView, Sized)
      BY ReadStringReturns
    <3>4. x.err = "none" => Slice(s, p, x.pos) \in Texts
      BY <2>2, StringGives
    <3> HIDE DEF x, f, L
    <3>5. Returns(x, s, p, NoView, L)
      BY <3>2, <3>3, <3>4 DEF Returns
    <3> QED BY <3>1, <3>5
  <2>3. CASE t.k = "fixed"
    <3>1. f[p] = ReadSlice(s, p, t.n)
      BY <2>3, OwnIs, OwnOfIs
    <3>2. L = Exactly(t.n)
      BY <2>3, CanonicalForms
    <3>3. t.n \in Nat
      BY <2>3, PartsAre
    <3> HIDE DEF f, L
    <3> QED BY <3>1, <3>2, <3>3, ReadSliceReturns
  <2>4. CASE t.k = "option"
    <3>1. f[p] = ReadOption(h, s, p)
      BY <2>4, OwnIs, OwnOfIs
    <3>2. L = Marked(M)
      BY <2>4, CanonicalForms
    <3> HIDE DEF f, L, h, M
    <3>3. Returns(f[p], s, p, NoView, L)
      BY <1>0, <1>1, <2>4, <3>1, <3>2, OptionReturns
    <3> QED BY <3>3 DEF f, L
  <2>5. CASE t.k = "vec"
    <3>1. f[p] = OwnVec(t, h, s, p, lim)
      BY <2>5, OwnIs, OwnOfIs
    <3>2. L = Counted(M)
      BY <2>5, CanonicalItems
    <3> HIDE DEF f, L, h, M
    <3>3. Returns(f[p], s, p, NoView, L)
      BY <1>1, <2>5, <3>1, <3>2, OwnVecReturns
    <3> QED BY <3>3 DEF f, L
  <2> QED BY <2>1, <2>2, <2>3, <2>4, <2>5, PartsAre
<1>3. DOMAIN f = 0 .. Len(s)
  BY OwnWider DEF ReaderOf
<1> HIDE DEF f, L
<1>4. ReaderOf(f, s, NoView, L)
  BY <1>2, <1>3 DEF ReaderOf
<1> QED BY <1>4 DEF f, L

(* so that it finds their values.                                          *)
LEMMA CopiedFound ==
  ASSUME NEW s \in Bytes, NEW lim, NEW copied, Copies(copied), NEW t \in copied
  PROVE  Finds(Own(s, lim)[t], s, t)
<1> DEFINE own == Own(s, lim)
           C == CanonicalTo(Limit)
           T == {r \in Types : r \in copied => ReaderOf(own[r], s, NoView, C[r])}
<1>1. ASSUME NEW r \in Types, Parts(r) \subseteq T, r \in copied
      PROVE  ReaderOf(own[r], s, NoView, C[r])
  <2>1. r.k # "map" /\ Parts(r) \subseteq copied
    BY <1>1 DEF Copies
  <2>2. \A j \in Parts(r) : ReaderOf(own[j], s, NoView, C[j])
    BY <1>1, <2>1
  <2> QED BY <2>1, <2>2, CopiedStep
<1>2. \A r \in Types : Parts(r) \subseteq T => r \in T
  BY <1>1
<1>3. T \in SUBSET Types
  OBVIOUS
<1> HIDE DEF T
<1>4. T = Types
  BY <1>2, <1>3, TypeInduction
<1>5. t \in Types
  BY DEF Copies
<1>6. ReaderOf(own[t], s, NoView, C[t])
  BY <1>4, <1>5 DEF T
<1> SUFFICES ASSUME NEW p \in 0 .. Len(s), own[t][p].err = "none" PROVE Found(own[t][p], s, p, t)
  BY DEF Finds
<1> DEFINE x == own[t][p]
           E == {"PacketTooLarge"}
<1>7. Complete(E, own[t], s, C[t])
  <2>1. Excused(E, lim, s, Limit)
    BY DEF Excused
  <2> QED BY <1>5, <2>1, OwnTakes
<1>8. Returns(x, s, p, NoView, C[t])
  BY <1>6 DEF ReaderOf
<1> HIDE DEF own
<1>9. x.err = "none"
  OBVIOUS
<1> HIDE DEF x, C
<1>10. x.pos \in p .. Len(s) /\ x.view = << >> /\ Slice(s, p, x.pos) \in C[t]
  BY <1>8, <1>9, ReturnsParts DEF NoView
<1>11. Takes(E, x, s, p, x.pos)
  BY <1>7, <1>10 DEF Complete, x
<1>12. x.val = Slice(s, p, x.pos)
  BY <1>9, <1>11 DEF Takes
<1>13. Found(x, s, p, t)
  BY <1>10, <1>12, PlainFound DEF C
<1> QED BY <1>13 DEF x

(* The view of a collection is found,                                      *)
LEMMA ViewFound ==
  ASSUME NEW s \in Bytes, NEW p \in 0 .. Len(s), NEW lim, lim.packet \in Nat,
         Len(s) <= lim.packet, NEW t \in Types, Borrowed(t) = "view",
         View(t, s, p, lim).err = "none"
  PROVE  Found(View(t, s, p, lim), s, p, t)
<1> DEFINE z == View(t, s, p, lim)
           u == Slice(s, p, z.pos)
           U == [n \in 0 .. Limit - 1 |-> {x \in Remaining(Limit, t, n, {}) : n <= Limit}]
<1>0. Returns(z, s, p, Views, Scanned[t]) /\ OpensView(z, s, p, t)
  BY ViewReturns
<1>1. PICK v \in GoodViews : /\ z.view = <<v>> /\ v.ty = t /\ v.count \in 0 .. Limit - 1
                             /\ z.val = EncodeVarint[v.count] /\ u = Then(z.val, v.bytes)
  <2> HIDE DEF z
  <2> QED BY <1>0, Zenon DEF OpensView
<1>3. u \in Bytes
  <2> HIDE DEF z
  <2>2. z.pos \in p .. Len(s)
    BY <1>0, ReturnsParts
  <2> QED BY <2>2, SliceFacts
<1>4. CanonicalTo(Limit)[t] = Headed(U)
  BY CanonicalForms, BorrowedIs
<1>5. \A n \in 0 .. Limit - 1 : U[n] = {x \in Remaining(Limit, t, n, {}) : n <= Limit}
  OBVIOUS
<1>6. Limit \in Nat
  BY LimitIsNat
<1> HIDE DEF z, u, U
<1>7. z.view[1] = v /\ z.view # << >>
  BY <1>1
<1> DEFINE n == v.count
<1>8. n \in 0 .. Limit - 1 /\ z.val = EncodeVarint[n]
  BY <1>1
<1>9. Whole(v) => u \in CanonicalTo(Limit)[t]
  <2> SUFFICES ASSUME Whole(v) PROVE u \in Headed(U)
    BY <1>4
  <2>1. v.bytes \in Remaining(Limit, t, n, {})
    BY <1>1 DEF Whole
  <2> HIDE DEF n
  <2>2. v.bytes \in U[n]
    BY <1>5, <1>6, <1>8, <2>1
  <2>3. u = EncodeVarint[n] \o v.bytes
    BY <1>1, <1>8, Zenon DEF n, Then
  <2> QED BY <1>3, <1>8, <2>2, <2>3, Zenon DEF Headed
<1>10. u = Shown(z.val, z.view)
  <2>1. Shown(z.val, z.view) = Then(z.val, v.bytes)
    BY <1>7 DEF Shown
  <2> QED BY <1>1, <2>1
<1>11. Found(z, s, p, t)
  BY <1>7, <1>9, <1>10 DEF Found, u
<1> QED BY <1>11 DEF z

(* and so is whatever an iterator or a field decodes.                      *)
LEMMA BorrowFound ==
  ASSUME NEW s \in Bytes, NEW p \in 0 .. Len(s), NEW lim, lim.packet \in Nat,
         Len(s) <= lim.packet, NEW t \in Types, t.k # "fixed",
         NEW copied, Copies(copied), Borrowed(t) = "owned" => t.k = "u8" \/ t \in copied,
         Borrow(t, s, p, lim).err = "none"
  PROVE  Found(Borrow(t, s, p, lim), s, p, t)
<1> DEFINE z == Borrow(t, s, p, lim)
<1>1. CASE Borrowed(t) = "str"
  <2> DEFINE x == ReadString(s, p, lim)
  <2>1. z = x /\ t.k = "str"
    BY <1>1, BorrowIs, BorrowedIs
  <2>2. CanonicalTo(Limit)[t] = Texts
    BY <2>1, CanonicalForms
  <2>3. x.err = "none"
    BY <2>1
  <2>4. Slice(s, p, x.pos) \in Texts /\ x.val = Slice(s, p, x.pos)
    BY <2>1, <2>3, StringGives
  <2>5. Returns(x, s, p, NoView, Sized)
    BY ReadStringReturns
  <2> HIDE DEF x, z
  <2>6. x.view = << >>
    BY <2>5, ReturnsParts DEF NoView
  <2>7. Found(x, s, p, t)
    BY <2>2, <2>4, <2>6, PlainFound
  <2> QED BY <2>1, <2>7 DEF z
<1>2. CASE Borrowed(t) = "bytes"
  <2> DEFINE x == ReadBytes(s, p, lim)
  <2>1. z = x /\ t.k = "vec" /\ IsByteVec(t)
    BY <1>2, BorrowIs, BorrowedIs DEF Borrowed, IsByteVec
  <2>2. CanonicalTo(Limit)[t] = Sized
    BY <2>1, ByteVecIs
  <2>3. Returns(x, s, p, NoView, Sized) /\ (x.err = "none" => x.val = Slice(s, p, x.pos))
    BY ReadBytesReturns
  <2> HIDE DEF x
  <2>4. x.err = "none"
    BY <2>1
  <2>5. x.view = << >> /\ Slice(s, p, x.pos) \in Sized
    BY <2>3, <2>4, ReturnsParts DEF NoView
  <2>6. Found(x, s, p, t)
    BY <2>2, <2>3, <2>4, <2>5, PlainFound
  <2> HIDE DEF z
  <2> QED BY <2>1, <2>6 DEF z
<1>3. CASE Borrowed(t) = "view"
  <2>1. z = View(t, s, p, lim)
    BY <1>3, BorrowIs
  <2>2. View(t, s, p, lim).err = "none"
    BY <2>1
  <2>3. Found(View(t, s, p, lim), s, p, t)
    BY <1>3, <2>2, ViewFound
  <2> QED BY <2>1, <2>3
<1>4. CASE Borrowed(t) = "owned"
  <2>1. z = Own(s, lim)[t][p]
    BY <1>4, BorrowIs
  <2>2. Finds(Own(s, lim)[t], s, t)
    <3>1. CASE t \in copied
      BY <3>1, CopiedFound
    <3>2. CASE t.k = "u8"
      <4>1. Copies({t})
        BY <3>2 DEF Copies, Parts
      <4> QED BY <4>1, CopiedFound
    <3> QED BY <1>4, <3>1, <3>2
  <2>3. Own(s, lim)[t][p].err = "none"
    BY <2>1
  <2>4. Found(Own(s, lim)[t][p], s, p, t)
    BY <2>2, <2>3 DEF Finds
  <2> QED BY <2>1, <2>4
<1> QED BY <1>1, <1>2, <1>3, <1>4, BorrowedIs

(* Of the field of a message.                                              *)
LEMMA FieldFound ==
  ASSUME NEW s \in Bytes, NEW lim, lim.packet \in Nat, Len(s) <= lim.packet, NEW t \in Types
  PROVE  Finds(BorrowField(s, lim)[t], s, t)
<1> DEFINE borrow == BorrowField(s, lim)
           T == {r \in Types : Finds(borrow[r], s, r)}
<1>1. ASSUME NEW r \in Types, Parts(r) \subseteq T PROVE Finds(borrow[r], s, r)
  <2> SUFFICES ASSUME NEW p \in 0 .. Len(s), borrow[r][p].err = "none"
               PROVE  Found(borrow[r][p], s, p, r)
    BY DEF Finds
  <2>1. CASE r.k = "fixed"
    <3> DEFINE x == ReadSlice(s, p, r.n)
    <3>1. borrow[r][p] = x
      BY <2>1, BorrowFieldIs, BorrowOfIs
    <3>2. r.n \in Nat
      BY <2>1, PartsAre
    <3>3. /\ Returns(x, s, p, NoView, Exactly(r.n))
          /\ x.err = "none" => x.pos = p + r.n /\ x.val = Slice(s, p, p + r.n)
      BY <3>2, ReadSliceReturns
    <3>4. CanonicalTo(Limit)[r] = Exactly(r.n)
      BY <2>1, CanonicalForms
    <3> HIDE DEF x, borrow
    <3>5. x.err = "none"
      BY <3>1
    <3>6. x.view = << >> /\ Slice(s, p, x.pos) \in Exactly(r.n)
      BY <3>3, <3>5, ReturnsParts DEF NoView
    <3>7. x.val = Slice(s, p, x.pos)
      BY <3>3, <3>5
    <3>8. Found(x, s, p, r)
      BY <3>4, <3>6, <3>7, PlainFound
    <3> QED BY <3>1, <3>8
  <2>2. CASE r.k = "option"
    <3> DEFINE reader == borrow[r.of]
    <3>1. borrow[r][p] = ReadOption(reader, s, p)
      BY <2>2, BorrowFieldIs, BorrowOfIs
    <3>2. r.of \in Types /\ r.of \in Parts(r)
      BY <2>2, PartsAre
    <3>3. Finds(reader, s, r.of)
      BY <1>1, <3>2
    <3>4. ReaderOf(reader, s, Views, Bytes)
      BY <3>2, BorrowFieldReads
    <3> HIDE DEF borrow, reader
    <3>5. ReadOption(reader, s, p).err = "none"
      BY <3>1
    <3>6. Found(ReadOption(reader, s, p), s, p, r)
      BY <2>2, <3>3, <3>4, <3>5, OptionFound
    <3> QED BY <3>1, <3>6
  <2>3. CASE r.k \notin {"fixed", "option"}
    <3>1. borrow[r][p] = Borrow(r, s, p, lim)
      BY <2>3, BorrowFieldIs, BorrowOfIs
    <3>2. Borrow(r, s, p, lim).err = "none"
      BY <3>1
    <3>3. Copies({})
      BY DEF Copies
    <3>4. Borrowed(r) = "owned" => r.k = "u8"
      BY <2>3, BorrowedIs
    <3>5. Found(Borrow(r, s, p, lim), s, p, r)
      BY <2>3, <3>2, <3>3, <3>4, BorrowFound
    <3> QED BY <3>1, <3>5
  <2> QED BY <2>1, <2>2, <2>3
<1>2. \A r \in Types : Parts(r) \subseteq T => r \in T
  BY <1>1
<1>3. T \in SUBSET Types
  OBVIOUS
<1> HIDE DEF T
<1>4. T = Types
  BY <1>2, <1>3, TypeInduction
<1> QED BY <1>4 DEF T

-----------------------------------------------------------------------------
(* What a next() shows                                                     *)

(* What is left of the bytes of an iterator are its remaining items, as the*)
(* encoder writes them.                                                    *)
ItemsWhole(it) ==
  From(it.view.bytes, it.pos) \in Remaining(Limit, it.view.ty, it.remaining, it.previous)

(* The items of views that are decoded as the owned decode does.           *)
Agrees(copied) ==
  /\ Copies(copied)
  /\ \A t \in Types : Borrowed(t) = "view" =>
       t.of.k # "fixed" /\ (Borrowed(t.of) = "owned" => t.of \in copied)

LEMMA ItemsAgree ==
  ASSUME NEW copied, Agrees(copied), NEW t \in Types, t.k \in {"vec", "map"}
  PROVE  /\ t.of \in Types /\ t.of.k # "fixed"
         /\ Borrowed(t.of) = "owned" => t.of.k = "u8" \/ t.of \in copied
<1>1. t.of \in Types
  BY PartsAre
<1>2. CASE Borrowed(t) = "view"
  BY <1>1, <1>2 DEF Agrees
<1>3. CASE Borrowed(t) # "view"
  <2>1. t.of.k = "u8"
    BY <1>3 DEF Borrowed, IsByteVec
  <2> QED BY <1>1, <2>1
<1> QED BY <1>2, <1>3

(* A key that an iterator decodes.                                         *)
LEMMA KeyFound ==
  ASSUME NEW s \in Bytes, NEW p \in 0 .. Len(s), NEW lim, NEW t \in Types, t.k \in {"u8", "str"},
         Borrow(t, s, p, lim).err = "none"
  PROVE  /\ Borrow(t, s, p, lim).key \in Keys(t)
         /\ Borrow(t, s, p, lim).val = KeyCode(t, Borrow(t, s, p, lim).key)
         /\ Borrow(t, s, p, lim).val = Slice(s, p, Borrow(t, s, p, lim).pos)
<1> DEFINE z == Borrow(t, s, p, lim)
<1>1. CASE t.k = "u8"
  <2> DEFINE x == ReadU8(s, p)
  <2>1. z = x
    <3>1. Borrowed(t) = "owned"
      BY <1>1, BorrowedIs
    <3>2. z = Own(s, lim)[t][p]
      BY <3>1, BorrowIs
    <3> QED BY <1>1, <3>2, OwnIs, OwnOfIs
  <2>2. x.err = "none"
    BY <2>1
  <2>3. x.val = Slice(s, p, x.pos) /\ x.key = x.val /\ Returns(x, s, p, NoView, Exactly(1))
    BY <2>2, ReadU8Returns
  <2> HIDE DEF x
  <2>4. x.key \in Exactly(1)
    BY <2>2, <2>3, ReturnsParts
  <2>5. x.key \in Keys(t) /\ KeyCode(t, x.key) = x.key
    BY <1>1, <2>4 DEF Keys, KeyCode
  <2> QED BY <2>1, <2>3, <2>5
<1>2. CASE t.k = "str"
  <2> DEFINE x == ReadString(s, p, lim)
  <2>1. z = x
    BY <1>2, BorrowedIs, BorrowIs
  <2>2. x.err = "none"
    BY <2>1
  <2>3. x.val = Slice(s, p, x.pos) /\ x.key \in Keys(t) /\ x.val = KeyCode(t, x.key)
    BY <1>2, <2>2, StringGives
  <2> QED BY <2>1, <2>3
<1> QED BY <1>1, <1>2

(* What a next() has found.                                                *)
NextFound(it, item) ==
  /\ Slice(it.view.bytes, it.pos, item.pos) = Shown(item.val, item.view)
  /\ (item.view # << >> => Whole(item.view[1])) /\ ItemsWhole(Moved(it, item)) => ItemsWhole(it)

(* The item of a vector,                                                   *)
LEMMA NextOfVecFound ==
  ASSUME Top \in Iterators, Top.view.ty.k = "vec", Top.remaining > 0, NEW copied, Agrees(copied),
         NextOutcome.err = "none"
  PROVE  NextFound(Top, NextOutcome)
<1> DEFINE s == Top.view.bytes
           t == Top.view.ty
           lim == ViewLimits(Top.view)
           p == Top.pos
           x == Borrow(t.of, s, p, lim)
           n == NextOutcome
           r == Top.remaining - 1
           keys == Top.previous
           L == CanonicalTo(Limit)[t.of]
           item == Slice(s, p, n.pos)
           rest == From(s, n.pos)
<1>1. /\ Top.view \in GoodViews /\ p \in 0 .. Len(s) /\ keys \in SUBSET Bytes
      /\ t \in Types /\ s \in Bytes /\ Top.view.max_size \in Nat /\ Len(s) <= Top.view.max_size
  BY IteratorIs, GoodViewIs
<1>2. r \in Nat /\ Top.remaining = r + 1
  BY IteratorIs, GoodViewIs
<1>3. /\ t.of \in Types /\ t.of.k # "fixed"
      /\ Borrowed(t.of) = "owned" => t.of.k = "u8" \/ t.of \in copied
  BY <1>1, ItemsAgree
<1>4. n = Kept(x, keys)
  BY DEF NextOutcome, NextOfVec, TopBytes
<1>5. n.err = x.err /\ n.pos = x.pos /\ n.val = x.val /\ n.view = x.view /\ n.previous = keys
  BY <1>4 DEF Kept
<1>6. lim.packet \in Nat /\ Len(s) <= lim.packet
  BY <1>1 DEF ViewLimits
<1>7. x.err = "none"
  BY <1>5
<1>8. Found(x, s, p, t.of)
  <2> HIDE DEF s, t, p, lim
  <2> QED BY <1>1, <1>3, <1>6, <1>7, BorrowFound DEF Agrees
<1>9. Moved(Top, n) \in Iterators /\ n \in NextOutcomes(Top)
      /\ Moved(Top, n).view = Top.view /\ Moved(Top, n).pos = n.pos /\ Moved(Top, n).remaining = r
  BY NextReturns, MovedIs
<1>10. n.pos \in p .. Len(s)
  BY <1>9 DEF NextOutcomes
<1> HIDE DEF x, n, lim, s, t, p, r, keys
<1>11. item = Shown(n.val, n.view) /\ ((n.view # << >> => Whole(n.view[1])) => item \in L)
  BY <1>5, <1>8 DEF Found
<1>12. item \in Bytes /\ From(s, p) = Then(item, rest) /\ From(s, p) \in Bytes
  BY <1>1, <1>10, FromSplits, SliceFacts DEF Then
<1> HIDE DEF item, rest, L
<1>13. ASSUME n.view # << >> => Whole(n.view[1]), ItemsWhole(Moved(Top, n))
       PROVE  ItemsWhole(Top)
  <2> DEFINE later == Moved(Top, n).previous
  <2>1. rest \in Remaining(Limit, t, r, later)
    BY <1>9, <1>13 DEF ItemsWhole, rest, s, t
  <2>2. item \in L
    BY <1>11, <1>13
  <2> HIDE DEF later
  <2>3. Remaining(Limit, t, r + 1, keys) = TwoOf(L, Remaining(Limit, t, r, later))
    <3>1. t.k = "vec"
      BY DEF t
    <3> QED BY <1>1, <1>2, <3>1, VecGoesOn DEF L
  <2>4. From(s, p) = item \o rest
    BY <1>12, Zenon DEF Then
  <2>5. From(s, p) \in TwoOf(L, Remaining(Limit, t, r, later))
    BY <1>12, <2>1, <2>2, <2>4, Zenon DEF TwoOf
  <2>6. From(s, p) \in Remaining(Limit, t, Top.remaining, keys)
    BY <1>2, <2>3, <2>5
  <2> QED BY <2>6 DEF ItemsWhole, s, t, p, keys
<1> QED BY <1>11, <1>13 DEF NextFound, n, s, p, item

(* the entry of a map, whose key comes after the one before,               *)
LEMMA NextOfMapFound ==
  ASSUME Top \in Iterators, Top.view.ty.k = "map", Top.remaining > 0, NEW copied, Agrees(copied),
         NextOutcome.err = "none"
  PROVE  NextFound(Top, NextOutcome)
<1> DEFINE s == Top.view.bytes
           t == Top.view.ty
           lim == ViewLimits(Top.view)
           p == Top.pos
           x == Borrow(t.key, s, p, lim)
           m == x.pos
           y == Borrow(t.of, s, m, lim)
           n == NextOutcome
           r == Top.remaining - 1
           keys == Top.previous
           L == CanonicalTo(Limit)[t.of]
           code == Slice(s, p, m)
           item == Slice(s, m, n.pos)
           rest == From(s, n.pos)
<1>1. /\ Top.view \in GoodViews /\ p \in 0 .. Len(s) /\ keys \in SUBSET Bytes
      /\ t \in Types /\ s \in Bytes /\ Top.view.max_size \in Nat /\ Len(s) <= Top.view.max_size
  BY IteratorIs, GoodViewIs
<1>2. r \in Nat /\ Top.remaining = r + 1
  BY IteratorIs, GoodViewIs
<1>3. /\ t.of \in Types /\ t.of.k # "fixed"
      /\ Borrowed(t.of) = "owned" => t.of.k = "u8" \/ t.of \in copied
      /\ t.key \in Types /\ t.key.k \in {"u8", "str"}
  BY <1>1, ItemsAgree, PartsAre
<1>4. lim.packet \in Nat /\ Len(s) <= lim.packet
  BY <1>1 DEF ViewLimits
<1>5. n = IF x.err # "none" THEN Stopped(x.err, x.pos, keys)
          ELSE IF ~InOrder(x.key) THEN Stopped("MalformedConstructor", x.pos, keys)
          ELSE IF y.err # "none" THEN Stopped(y.err, y.pos, {x.key})
          ELSE Kept([y EXCEPT !.val = x.val \o y.val], {x.key})
  BY Zenon DEF NextOutcome, NextOfMap, KeyOfMap, ValueOfMap, TopBytes
<1>6. \A e, j, c : Stopped(e, j, c).err = e
  BY DEF Stopped, Kept, Error
<1>7. n.err = "none"
  OBVIOUS
<1> HIDE DEF n, x, y, lim, s, t, p, r, keys
<1>8. x.err = "none" /\ InOrder(x.key) /\ y.err = "none"
  BY <1>5, <1>6, <1>7
<1>9. x.key \in Keys(t.key) /\ x.val = KeyCode(t.key, x.key) /\ x.val = code
  BY <1>1, <1>3, <1>8, KeyFound DEF x
<1>10. Returns(x, s, p, Views, Scanned[t.key])
  BY <1>1, <1>3, <1>4, BorrowReturns DEF x
<1>11. m \in p .. Len(s) /\ m \in 0 .. Len(s) /\ x.val \in Bytes
  BY <1>1, <1>10, ReturnsParts
<1>12. Found(y, s, m, t.of) /\ Returns(y, s, m, Views, Scanned[t.of])
  BY <1>1, <1>3, <1>4, <1>8, <1>11, BorrowFound, BorrowReturns DEF Agrees, y
<1>13. y.pos \in m .. Len(s) /\ y.val \in Bytes /\ y.view \in Views /\ y \in Outcome(s, Views)
  <2>1. y \in Outcome(s, Views)
    BY <1>12 DEF Returns
  <2> HIDE DEF m
  <2>2. y.pos \in m .. Len(s) /\ y.val \in Bytes /\ y.view \in Views
    BY <1>1, <1>11, <1>12, ReturnsParts
  <2> QED BY <2>1, <2>2
<1>14. /\ n.pos = y.pos /\ n.val = x.val \o y.val /\ n.view = y.view /\ n.previous = {x.key}
  <2> DEFINE z == [y EXCEPT !.val = x.val \o y.val]
  <2>1. n = Kept(z, {x.key})
    BY <1>5, <1>8
  <2>2. z.pos = y.pos /\ z.val = x.val \o y.val /\ z.view = y.view
    BY <1>13 DEF Outcome
  <2> HIDE DEF z
  <2> QED BY <2>1, <2>2 DEF Kept
<1>15. n.val = Then(code, y.val)
  BY <1>9, <1>14, Zenon DEF Then
<1>16. /\ Moved(Top, n).view = Top.view /\ Moved(Top, n).pos = n.pos
       /\ Moved(Top, n).remaining = r /\ Moved(Top, n).previous = {x.key}
  <2>1. n \in NextOutcomes(Top)
    BY NextReturns DEF n
  <2>2. Top \in [view : GoodViews, pos : Nat, remaining : Nat, previous : SUBSET Bytes]
    BY DEF Iterators
  <2> QED BY <1>14, <2>1, <2>2 DEF Moved, r
<1> HIDE DEF m
<1>17. /\ item \in Bytes /\ rest \in Bytes /\ code \in Bytes
       /\ From(s, p) = Then(Then(code, item), rest) /\ From(s, p) \in Bytes
       /\ Slice(s, p, n.pos) = Then(code, item)
  <2> DEFINE q == n.pos
  <2>1. q \in m .. Len(s) /\ q \in p .. Len(s)
    BY <1>1, <1>11, <1>13, <1>14 DEF Bytes
  <2> HIDE DEF q
  <2>2. Slice(s, m, q) \in Bytes /\ Slice(s, p, m) \in Bytes /\ Slice(s, p, q) \in Bytes
    BY <1>1, <1>11, <2>1, SliceFacts
  <2>3. Slice(s, p, q) = Then(Slice(s, p, m), Slice(s, m, q))
    BY <1>1, <1>11, <2>1, SliceJoin DEF Then
  <2>4. From(s, p) = Then(Slice(s, p, q), From(s, q)) /\ From(s, q) \in Bytes /\ From(s, p) \in Bytes
    <3>1. Len(s) \in p .. Len(s)
      BY <1>1 DEF Bytes
    <3> QED BY <1>1, <2>1, <3>1, FromSplits, SliceFacts DEF Then, From
  <2> QED BY <2>2, <2>3, <2>4 DEF q
<1>18. item = Shown(y.val, y.view) /\ ((y.view # << >> => Whole(y.view[1])) => item \in L)
  BY <1>12, <1>14 DEF Found
<1> HIDE DEF item, rest, L, code
<1>19. Then(code, item) = Shown(n.val, n.view)
  <2>1. CASE y.view = << >>
    <3>1. item = y.val /\ Shown(n.val, n.view) = n.val
      BY <1>14, <1>18, <2>1 DEF Shown
    <3> QED BY <1>15, <3>1
  <2>2. CASE y.view # << >>
    <3> DEFINE b == y.view[1].bytes
    <3>1. b \in Bytes
      <4>1. PICK v \in GoodViews : y.view = <<v>>
        BY <1>13, <2>2 DEF Views, NoView
      <4>2. y.view[1] = v
        BY <4>1
      <4> QED BY <4>2, GoodViewIs
    <3>2. item = Then(y.val, b) /\ Shown(n.val, n.view) = Then(n.val, b)
      BY <1>14, <1>18, <2>2 DEF Shown
    <3> HIDE DEF b
    <3>3. Then(Then(code, y.val), b) = Then(code, Then(y.val, b))
      BY <1>13, <1>17, <3>1, ThenAssoc
    <3> QED BY <1>15, <3>2, <3>3
  <2> QED BY <2>1, <2>2
<1>20. ASSUME n.view # << >> => Whole(n.view[1]), ItemsWhole(Moved(Top, n))
       PROVE  ItemsWhole(Top)
  <2> DEFINE c == x.key
  <2>1. t.k = "map"
    BY DEF t
  <2>2. rest \in Sorted(t.key, L, r, {c})
    <3>1. rest \in Remaining(Limit, t, r, {c})
      BY <1>16, <1>20 DEF ItemsWhole, rest, s, t
    <3>2. \A a, b : Remaining(Limit, t, a, b) = Sorted(t.key, L, a, b)
      BY <1>1, <1>2, <2>1, MapGoesOn DEF L
    <3> QED BY <3>1, <3>2
  <2>3. item \in L
    BY <1>14, <1>18, <1>20
  <2>4. c \in Keys(t.key) /\ code = KeyCode(t.key, c)
    BY <1>9
  <2>5. \A b \in keys : KeyLess(b, c)
    BY <1>8 DEF InOrder, keys
  <2> HIDE DEF c
  <2>6. From(s, p) \in OneSorted(t.key, L, r, keys)
    <3>1. From(s, p) = Then(Then(KeyCode(t.key, c), item), rest)
      BY <1>17, <2>4
    <3> QED BY <1>17, <2>2, <2>3, <2>4, <2>5, <3>1, Zenon DEF OneSorted
  <2>7. Remaining(Limit, t, r + 1, keys) = OneSorted(t.key, L, r, keys)
    BY <1>1, <1>2, <2>1, MapGoesOn DEF L
  <2>8. From(s, p) \in Remaining(Limit, t, Top.remaining, keys)
    BY <1>2, <2>6, <2>7
  <2> QED BY <2>8 DEF ItemsWhole, s, t, p, keys
<1>21. Slice(s, p, n.pos) = Shown(n.val, n.view)
  BY <1>17, <1>19
<1> QED BY <1>20, <1>21 DEF NextFound, n, s, p

(* and of any view.                                                        *)
LEMMA NextIsFound ==
  ASSUME Top \in Iterators, Top.remaining > 0, NEW copied, Agrees(copied),
         NextOutcome.err = "none"
  PROVE  NextFound(Top, NextOutcome)
<1>1. Top.view.ty.k \in {"vec", "map"}
  BY IteratorIs, GoodViewIs
<1> QED BY <1>1, NextOfVecFound, NextOfMapFound

-----------------------------------------------------------------------------
(* What iterators have ahead                                               *)

(* The bytes that an iterator has ahead of it, and those that a stack of   *)
(* iterators has, one after the other: g[j] are those of the last j.       *)
Ahead(it) == From(it.view.bytes, it.pos)

Stacked(g, stack) ==
  /\ g \in [0 .. Len(stack) -> Bytes]
  /\ g[0] = << >>
  /\ \A j \in 1 .. Len(stack) : g[j] = Then(Ahead(stack[Len(stack) + 1 - j]), g[j - 1])

Unread(stack, w) == \E g : Stacked(g, stack) /\ w = g[Len(stack)]

(* What is ahead is bytes.                                                 *)
LEMMA AheadIs ==
  ASSUME NEW it \in Iterators
  PROVE  Ahead(it) \in Bytes
<1>1. it.view.bytes \in Bytes /\ it.pos \in 0 .. Len(it.view.bytes)
  BY IteratorIs, GoodViewIs
<1>2. Len(it.view.bytes) \in it.pos .. Len(it.view.bytes)
  BY <1>1 DEF Bytes
<1> QED BY <1>1, <1>2, SliceFacts DEF Ahead, From

(* No iterator has nothing ahead.                                          *)
LEMMA UnreadNone ==
  /\ Unread(<< >>, << >>)
  /\ \A w : Unread(<< >>, w) => w = << >>
<1> DEFINE none == << >>
           g == [j \in 0 .. 0 |-> none]
<1>1. Len(none) = 0 /\ none \in Bytes
  BY EmptyBytes
<1>2. g \in [0 .. 0 -> Bytes] /\ g[0] = none
  BY <1>1
<1> HIDE DEF none, g
<1>3. Stacked(g, none)
  <2>1. \A j \in 1 .. 0 : g[j] = Then(Ahead(none[0 + 1 - j]), g[j - 1])
    OBVIOUS
  <2> QED BY <1>1, <1>2, <2>1 DEF Stacked, none
<1>4. Unread(none, none)
  BY <1>1, <1>2, <1>3 DEF Unread
<1>5. \A w : Unread(none, w) => w = none
  BY <1>1 DEF Unread, Stacked, none
<1> QED BY <1>4, <1>5 DEF none

(* An iterator on top of others.                                           *)
LEMMA UnreadMore ==
  ASSUME NEW it \in Iterators, NEW b \in Seq(Iterators), NEW x, Unread(b, x),
         NEW stack, stack = <<it>> \o b
  PROVE  /\ Unread(stack, Then(Ahead(it), x))
         /\ x \in Bytes
<1> DEFINE n == Len(b)
           m == n + 1
<1>1. PICK g : Stacked(g, b) /\ x = g[n]
  BY DEF Unread
<1>2. /\ n \in Nat /\ Len(stack) = m /\ stack[1] = it /\ \A i \in 1 .. n : stack[i + 1] = b[i]
  OBVIOUS
<1>3. /\ m \in Nat /\ m \in 1 .. m /\ n \in 0 .. n /\ m - 1 = n /\ m + 1 - m = 1
      /\ \A j \in 1 .. m : j # m => j \in 1 .. n /\ j - 1 \in 0 .. n /\ j \in 0 .. n
      /\ \A j \in 0 .. m : j # m => j \in 0 .. n
      /\ \A j \in 1 .. n : n + 1 - j \in 1 .. n /\ (n + 1 - j) + 1 = m + 1 - j
      /\ \A j \in 0 .. n : j # m /\ j \in 0 .. m
      /\ 0 \in 0 .. n /\ m \in 0 .. m
  BY <1>2
<1>4. /\ g \in [0 .. n -> Bytes] /\ g[0] = << >>
      /\ \A j \in 1 .. n : g[j] = Then(Ahead(b[n + 1 - j]), g[j - 1])
  BY <1>1 DEF Stacked
<1>5. x \in Bytes
  BY <1>1, <1>3, <1>4
<1> DEFINE w == Then(Ahead(it), x)
           h == [j \in 0 .. m |-> IF j = m THEN w ELSE g[j]]
<1>6. w \in Bytes
  BY <1>5, AheadIs, JoinFacts DEF Then
<1> HIDE DEF w, m
<1>7. h \in [0 .. m -> Bytes] /\ h[m] = w /\ \A j \in 0 .. n : h[j] = g[j]
  BY <1>3, <1>4, <1>6
<1> HIDE DEF h, n
<1>8. ASSUME NEW j \in 1 .. m
      PROVE  h[j] = Then(Ahead(stack[m + 1 - j]), h[j - 1])
  <2>1. CASE j = m
    <3>1. h[j - 1] = x /\ stack[m + 1 - j] = it /\ h[j] = w
      BY <1>1, <1>2, <1>3, <1>7, <2>1
    <3> QED BY <3>1 DEF w
  <2>2. CASE j # m
    <3>1. j \in 1 .. n /\ j - 1 \in 0 .. n /\ j \in 0 .. n
      BY <1>3, <2>2
    <3>2. h[j] = g[j] /\ h[j - 1] = g[j - 1] /\ stack[m + 1 - j] = b[n + 1 - j]
      <4>1. stack[(n + 1 - j) + 1] = b[n + 1 - j]
        BY <1>2, <1>3, <3>1
      <4>2. (n + 1 - j) + 1 = m + 1 - j
        BY <1>3, <3>1
      <4> QED BY <1>7, <3>1, <4>1, <4>2
    <3> QED BY <1>4, <3>1, <3>2
  <2> QED BY <2>1, <2>2
<1>9. Stacked(h, stack)
  <2>1. h[0] = << >>
    BY <1>3, <1>4, <1>7
  <2> QED BY <1>2, <1>7, <1>8, <2>1 DEF Stacked
<1>10. Unread(stack, w)
  BY <1>2, <1>7, <1>9 DEF Unread
<1> QED BY <1>5, <1>10 DEF w

(* The innermost of some iterators.                                        *)
LEMMA UnreadTop ==
  ASSUME NEW stack \in Seq(Iterators), stack # << >>, NEW w, Unread(stack, w)
  PROVE  \E x \in Bytes : Unread(Tail(stack), x) /\ w = Then(Ahead(stack[1]), x)
<1> DEFINE b == Tail(stack)
           n == Len(b)
           m == Len(stack)
<1>1. PICK g : Stacked(g, stack) /\ w = g[m]
  BY DEF Unread
<1>2. /\ m \in Nat /\ m >= 1 /\ n = m - 1 /\ n \in Nat /\ \A i \in 1 .. n : b[i] = stack[i + 1]
  OBVIOUS
<1>3. /\ m \in 1 .. m /\ m - 1 = n /\ n \in 0 .. n /\ n \in 0 .. m /\ m + 1 - m = 1
      /\ \A j \in 0 .. n : j \in 0 .. m
      /\ \A j \in 1 .. n : j \in 1 .. m /\ j \in 0 .. n /\ j - 1 \in 0 .. n
      /\ \A j \in 1 .. n : n + 1 - j \in 1 .. n /\ (n + 1 - j) + 1 = m + 1 - j
      /\ 0 \in 0 .. n
  BY <1>2
<1>4. /\ g \in [0 .. m -> Bytes] /\ g[0] = << >>
      /\ \A j \in 1 .. m : g[j] = Then(Ahead(stack[m + 1 - j]), g[j - 1])
  BY <1>1 DEF Stacked
<1> DEFINE h == [j \in 0 .. n |-> g[j]]
<1> HIDE DEF m, n, b
<1>5. h \in [0 .. n -> Bytes] /\ \A j \in 0 .. n : h[j] = g[j]
  BY <1>3, <1>4
<1> HIDE DEF h
<1>6. ASSUME NEW j \in 1 .. n
      PROVE  h[j] = Then(Ahead(b[n + 1 - j]), h[j - 1])
  <2>1. h[j] = g[j] /\ h[j - 1] = g[j - 1] /\ b[n + 1 - j] = stack[m + 1 - j]
    BY <1>2, <1>3, <1>5
  <2>2. g[j] = Then(Ahead(stack[m + 1 - j]), g[j - 1])
    BY <1>3, <1>4
  <2> QED BY <2>1, <2>2
<1>7. h[0] = << >>
  BY <1>3, <1>4, <1>5
<1>8. Stacked(h, b)
  BY <1>5, <1>6, <1>7 DEF Stacked, n
<1>9. Unread(b, h[n])
  BY <1>8 DEF Unread, n
<1>10. w = Then(Ahead(stack[1]), h[n]) /\ h[n] \in Bytes
  <2>1. g[m] = Then(Ahead(stack[m + 1 - m]), g[m - 1])
    BY <1>3, <1>4
  <2>2. g[m - 1] = h[n]
    BY <1>3, <1>5
  <2>3. stack[m + 1 - m] = stack[1]
    BY <1>3
  <2> QED BY <1>1, <1>3, <1>5, <2>1, <2>2, <2>3
<1> QED BY <1>9, <1>10 DEF b

(* What is left of a stack of iterators are their remaining items.         *)
AllWhole(stack) == \A i \in 1 .. Len(stack) : ItemsWhole(stack[i])

(* An iterator on top of others, in one piece.                             *)
Push(it, b) == <<it>> \o b

LEMMA PushIs ==
  ASSUME NEW it \in Iterators, NEW b \in Seq(Iterators)
  PROVE  /\ Push(it, b) \in Seq(Iterators) /\ Push(it, b) # << >>
         /\ AllWhole(Push(it, b)) => ItemsWhole(it) /\ AllWhole(b)
<1> DEFINE u == Push(it, b)
<1>1. /\ u \in Seq(Iterators) /\ Len(u) = Len(b) + 1 /\ Len(b) \in Nat /\ u[1] = it
      /\ \A i \in 1 .. Len(b) : u[i + 1] = b[i]
  BY DEF Push
<1> HIDE DEF u
<1>2. u # << >>
  BY <1>1
<1>3. ASSUME AllWhole(u) PROVE ItemsWhole(it) /\ AllWhole(b)
  <2>1. \A i \in 1 .. Len(u) : ItemsWhole(u[i])
    BY <1>3 DEF AllWhole
  <2>2. 1 \in 1 .. Len(u) /\ \A i \in 1 .. Len(b) : i + 1 \in 1 .. Len(u)
    BY <1>1
  <2>3. ItemsWhole(u[1]) /\ \A i \in 1 .. Len(b) : ItemsWhole(u[i + 1])
    BY <2>1, <2>2
  <2>4. \A i \in 1 .. Len(b) : ItemsWhole(b[i])
    BY <1>1, <2>3
  <2> QED BY <1>1, <2>3, <2>4 DEF AllWhole
<1> QED BY <1>1, <1>2, <1>3 DEF u

(* The iterator that a consumer opens over the view of an outcome, if any. *)
Opens(res, stack, b) ==
  IF res.view = << >> THEN stack = b
  ELSE \E v \in GoodViews : res.view[1] = v /\ stack = Push(Iter(v), b)

LEMMA OpenedOn ==
  ASSUME NEW res, res.view \in Views, NEW b \in Seq(Iterators)
  PROVE  /\ Opens(res, Opened(res) \o b, b)
         /\ Opens(res, Opened(res), << >>)
<1>1. CASE res.view = << >>
  <2>1. Opened(res) = << >>
    BY <1>1 DEF Opened
  <2>2. << >> \o b = b
    OBVIOUS
  <2> QED BY <1>1, <2>1, <2>2 DEF Opens
<1>2. CASE res.view # << >>
  <2>1. PICK v \in GoodViews : res.view = <<v>>
    BY <1>2 DEF Views, NoView
  <2> DEFINE w == Iter(v)
  <2>2. res.view[1] = v /\ w \in Iterators
    BY <2>1, IterIs
  <2>3. Opened(res) = <<w>>
    <3>1. DOMAIN res.view = {1} /\ res.view[1] = v
      BY <2>1
    <3>2. Opened(res) = [i \in {1} |-> Iter(res.view[i])]
      BY <3>1 DEF Opened
    <3>3. \A i \in {1} : Iter(res.view[i]) = w
      BY <3>1
    <3> HIDE DEF w
    <3>4. Opened(res) = [i \in {1} |-> w]
      BY <3>2, <3>3
    <3>5. [i \in {1} |-> w] = <<w>>
      OBVIOUS
    <3> QED BY <3>4, <3>5
  <2> HIDE DEF w
  <2>4. Opened(res) \o b = Push(w, b)
    BY <2>3, Zenon DEF Push
  <2>5. Opened(res) = Push(w, << >>)
    <3>1. <<w>> \o << >> = <<w>>
      BY <2>2
    <3> QED BY <2>3, <3>1, Zenon DEF Push
  <2> QED BY <1>2, <2>2, <2>4, <2>5 DEF Opens, w
<1> QED BY <1>1, <1>2

(* A new iterator has all of its view ahead.                               *)
LEMMA IterAhead ==
  ASSUME NEW v \in GoodViews
  PROVE  /\ Ahead(Iter(v)) = v.bytes
         /\ ItemsWhole(Iter(v)) => Whole(v)
<1>1. v.bytes \in Bytes
  BY GoodViewIs
<1>2. Iter(v).view = v /\ Iter(v).pos = 0 /\ Iter(v).remaining = v.count /\ Iter(v).previous = {}
  BY DEF Iter
<1>3. From(v.bytes, 0) = v.bytes
  BY <1>1, SliceAll
<1> DEFINE i == Iter(v)
<1> HIDE DEF i
<1>4. Ahead(i) = v.bytes /\ (ItemsWhole(i) => Whole(v))
  BY <1>2, <1>3 DEF Ahead, ItemsWhole, Whole, i
<1> QED BY <1>4 DEF i

(* What an outcome shows is read now or is ahead of its iterator.          *)
LEMMA OpenedUnread ==
  ASSUME NEW res, res.view \in Views, res.val \in Bytes, NEW b \in Seq(Iterators),
         NEW x \in Bytes, Unread(b, x), NEW stack, Opens(res, stack, b)
  PROVE  /\ stack \in Seq(Iterators)
         /\ \E w \in Bytes : /\ Unread(stack, w)
                             /\ Then(res.val, w) = Then(Shown(res.val, res.view), x)
         /\ AllWhole(stack) => AllWhole(b) /\ (res.view # << >> => Whole(res.view[1]))
<1>1. CASE res.view = << >>
  BY <1>1 DEF Opens, Shown
<1>2. CASE res.view # << >>
  <2>1. PICK v \in GoodViews : res.view[1] = v /\ stack = Push(Iter(v), b)
    BY <1>2 DEF Opens
  <2> DEFINE it == Iter(v)
             w == Then(v.bytes, x)
  <2>2. it \in Iterators /\ v.bytes \in Bytes
    BY IterIs, GoodViewIs
  <2>3. Ahead(it) = v.bytes /\ (ItemsWhole(it) => Whole(v))
    BY IterAhead
  <2> HIDE DEF it
  <2>4. stack = Push(it, b)
    BY <2>1 DEF it
  <2>5. stack \in Seq(Iterators) /\ (AllWhole(stack) => ItemsWhole(it) /\ AllWhole(b))
    BY <2>2, <2>4, PushIs
  <2>6. Unread(stack, w)
    <3>1. stack = <<it>> \o b
      BY <2>4, Zenon DEF Push
    <3>2. Unread(stack, Then(Ahead(it), x))
      BY <2>2, <3>1, UnreadMore
    <3> QED BY <2>3, <3>2
  <2>7. w \in Bytes
    BY <2>2, JoinFacts DEF Then
  <2>8. Then(res.val, w) = Then(Shown(res.val, res.view), x)
    <3>1. Shown(res.val, res.view) = Then(res.val, v.bytes)
      BY <1>2, <2>1 DEF Shown
    <3>2. Then(Then(res.val, v.bytes), x) = Then(res.val, Then(v.bytes, x))
      BY <2>2, ThenAssoc
    <3> QED BY <3>1, <3>2
  <2> HIDE DEF w
  <2> QED BY <2>1, <2>3, <2>5, <2>6, <2>7, <2>8
<1> QED BY <1>1, <1>2

-----------------------------------------------------------------------------
(* The walk, and the packet it reads                                       *)

(* The packet is what has been read and then what the iterators have ahead;*)
(* and if that are their items, as the encoder writes them, then the packet*)
(* is a canonical encoding.                                                *)
OnTheWay(s, r, stack, t) ==
  /\ \E w \in Bytes : Unread(stack, w) /\ s = Then(r, w)
  /\ AllWhole(stack) => s \in CanonicalTo(Limit)[t]

(* A message that has been opened is on the way,                           *)
LEMMA OpenReads ==
  ASSUME WalkInv, BorrowedDecode.err = "none"
  PROVE  OnTheWay(packet, BorrowedDecode.val, Opened(BorrowedDecode), field.ty)
<1> DEFINE d == BorrowedDecode
           stack == Opened(d)
           none == << >>
           t == field.ty
           u == Slice(packet, 0, d.pos)
<1>1. /\ packet \in Packets /\ limits \in Limits /\ field \in Fields /\ Len(packet) <= limits.packet
  BY DEF WalkInv
<1>2. packet \in Bytes /\ 0 \in 0 .. Len(packet) /\ limits.packet \in Nat /\ t \in Types
  BY <1>1, PacketIs
<1>3. /\ d.view \in Views /\ d.val \in Bytes
      /\ d = BorrowField(packet, limits)[t][0] /\ d.pos = Len(packet)
  BY <1>1, BorrowedDecodeReturns
<1>4. Finds(BorrowField(packet, limits)[t], packet, t)
  BY <1>1, <1>2, FieldFound
<1>5. d.err = "none"
  OBVIOUS
<1> HIDE DEF d
<1>6. Found(d, packet, 0, t)
  BY <1>2, <1>3, <1>4, <1>5 DEF Finds
<1>7. u = packet
  <2>1. From(packet, 0) = packet
    BY <1>2, SliceAll
  <2> QED BY <1>3, <2>1 DEF From
<1> HIDE DEF u
<1>8. /\ packet = Shown(d.val, d.view)
      /\ (d.view # << >> => Whole(d.view[1])) => packet \in CanonicalTo(Limit)[t]
  BY <1>6, <1>7 DEF Found, u
<1>9. none \in Seq(Iterators) /\ none \in Bytes /\ Unread(none, none) /\ Opens(d, stack, none)
  <2>1. none \in Seq(Iterators)
    OBVIOUS
  <2>2. Opens(d, stack, none)
    BY <1>3, <2>1, OpenedOn
  <2> QED BY <2>1, <2>2, EmptyBytes, UnreadNone
<1> HIDE DEF stack, none
<1>10. /\ \E w \in Bytes : Unread(stack, w) /\ Then(d.val, w) = Then(Shown(d.val, d.view), none)
       /\ AllWhole(stack) => (d.view # << >> => Whole(d.view[1]))
  BY <1>3, <1>9, OpenedUnread
<1>11. Then(packet, none) = packet
  BY <1>2, JoinEmpty DEF Then, none
<1>12. OnTheWay(packet, d.val, stack, t)
  BY <1>8, <1>10, <1>11 DEF OnTheWay
<1> QED BY <1>12 DEF d, stack

(* The items of the innermost iterator and those of the others are all.    *)
LEMMA TopTail ==
  ASSUME iterators \in Seq(Iterators), iterators # << >>, ItemsWhole(Top),
         AllWhole(Tail(iterators))
  PROVE  AllWhole(iterators)
<1> DEFINE b == Tail(iterators)
<1>1. /\ Top = iterators[1] /\ Len(iterators) \in Nat /\ Len(b) = Len(iterators) - 1
      /\ \A i \in 1 .. Len(b) : b[i] = iterators[i + 1]
  BY TopIs
<1>2. SUFFICES ASSUME NEW i \in 1 .. Len(iterators) PROVE ItemsWhole(iterators[i])
  BY DEF AllWhole
<1>3. CASE i = 1
  BY <1>1, <1>3
<1>4. CASE i # 1
  <2> DEFINE j == i - 1
  <2>1. j \in 1 .. Len(b) /\ i = j + 1
    BY <1>1, <1>4
  <2>2. b[j] = iterators[i] /\ ItemsWhole(b[j])
    <3> HIDE DEF b, j
    <3>1. AllWhole(b)
      BY DEF b
    <3> QED BY <1>1, <2>1, <3>1 DEF AllWhole
  <2> QED BY <2>2
<1> QED BY <1>3, <1>4

(* stays so with each next() that returns no Err,                          *)
LEMMA NextReads ==
  ASSUME WalkInv, iterators # << >>, Top.remaining > 0, NextOutcome.err = "none",
         NEW copied, Agrees(copied), NEW t, OnTheWay(packet, read, iterators, t)
  PROVE  OnTheWay(packet, Then(read, NextOutcome.val),
                  Opened(NextOutcome) \o Push(Moved(Top, NextOutcome), Tail(iterators)), t)
<1> DEFINE n == NextOutcome
           it == Moved(Top, n)
           b == Tail(iterators)
           base == Push(it, b)
           stack == Opened(n) \o base
           s == Top.view.bytes
           p == Top.pos
           rest == Ahead(it)
           shown == Shown(n.val, n.view)
<1>1. iterators \in Seq(Iterators) /\ read \in Bytes
  BY DEF WalkInv
<1>2. /\ Top \in Iterators /\ Top = iterators[1] /\ b \in Seq(Iterators)
  BY <1>1, TopIs
<1>3. /\ n \in NextOutcomes(Top) /\ NextFound(Top, n)
  BY <1>2, NextReturns, NextIsFound
<1>4. n.err = "none"
  OBVIOUS
<1> HIDE DEF n
<1>5. n.view \in Views /\ n.val \in Bytes /\ n.pos \in p .. Len(s)
  BY <1>3 DEF NextOutcomes
<1>6. it \in Iterators /\ it.view = Top.view /\ it.pos = n.pos
  BY <1>2, <1>3, MovedIs
<1>7. s \in Bytes /\ p \in 0 .. Len(s)
  BY <1>2, IteratorIs, GoodViewIs
<1>8. PICK x \in Bytes : Unread(b, x) /\ packet = Then(read, Then(Ahead(Top), x))
  <2>1. PICK w \in Bytes : Unread(iterators, w) /\ packet = Then(read, w)
    BY DEF OnTheWay
  <2>2. PICK x \in Bytes : Unread(Tail(iterators), x) /\ w = Then(Ahead(iterators[1]), x)
    BY <1>1, <2>1, UnreadTop
  <2> QED BY <1>2, <2>1, <2>2
<1> HIDE DEF b
<1>9. Ahead(Top) = Then(shown, rest) /\ rest \in Bytes /\ shown \in Bytes
  <2>1. From(s, p) = Then(Slice(s, p, n.pos), From(s, n.pos))
        /\ From(s, n.pos) \in Bytes /\ Slice(s, p, n.pos) \in Bytes
    BY <1>5, <1>7, FromSplits DEF Then
  <2>2. shown = Slice(s, p, n.pos)
    BY <1>3 DEF NextFound
  <2>3. rest = From(s, n.pos) /\ Ahead(Top) = From(s, p)
    BY <1>6 DEF Ahead
  <2> HIDE DEF s, p, rest, shown
  <2> QED BY <2>1, <2>2, <2>3
<1> HIDE DEF it, s, p, rest, shown
<1> DEFINE y == Then(rest, x)
<1>10. base \in Seq(Iterators) /\ (AllWhole(base) => ItemsWhole(it) /\ AllWhole(b))
  BY <1>2, <1>6, PushIs
<1>11. Unread(base, y) /\ y \in Bytes
  <2>1. base = <<it>> \o b
    BY Zenon DEF Push
  <2> HIDE DEF base
  <2>2. Unread(base, Then(Ahead(it), x))
    BY <1>2, <1>6, <1>8, <2>1, UnreadMore
  <2> QED BY <1>8, <1>9, <2>2, JoinFacts DEF rest, Then
<1>12. Opens(n, stack, base)
  <2> HIDE DEF base
  <2> QED BY <1>5, <1>10, OpenedOn
<1> HIDE DEF stack, base, y
<1>13. /\ \E w \in Bytes : Unread(stack, w) /\ Then(n.val, w) = Then(shown, y)
       /\ AllWhole(stack) => AllWhole(base) /\ (n.view # << >> => Whole(n.view[1]))
  BY <1>5, <1>10, <1>11, <1>12, OpenedUnread DEF shown
<1>14. PICK w \in Bytes : Unread(stack, w) /\ Then(n.val, w) = Then(shown, y)
  BY <1>13
<1>15. packet = Then(Then(read, n.val), w)
  <2>1. Then(Then(read, n.val), w) = Then(read, Then(n.val, w))
    BY <1>1, <1>5, <1>14, ThenAssoc
  <2>2. Then(Then(shown, rest), x) = Then(shown, y)
    BY <1>8, <1>9, ThenAssoc DEF y
  <2> QED BY <1>8, <1>9, <1>14, <2>1, <2>2
<1>16. ASSUME AllWhole(stack) PROVE packet \in CanonicalTo(Limit)[t]
  <2>1. ItemsWhole(it) /\ AllWhole(b) /\ (n.view # << >> => Whole(n.view[1]))
    BY <1>10, <1>13, <1>16
  <2>2. ItemsWhole(Top)
    BY <1>3, <2>1 DEF NextFound, it
  <2>3. AllWhole(iterators)
    BY <1>1, <1>2, <2>1, <2>2, TopTail DEF b
  <2> QED BY <2>3 DEF OnTheWay
<1>17. OnTheWay(packet, Then(read, n.val), stack, t)
  BY <1>14, <1>15, <1>16 DEF OnTheWay
<1> QED BY <1>17 DEF n, stack, base, it, b

(* and at the end of a view.                                               *)
LEMMA EndReads ==
  ASSUME WalkInv, iterators # << >>, Top.remaining = 0, ~failed,
         NEW t, OnTheWay(packet, read, iterators, t)
  PROVE  OnTheWay(packet, read, Tail(iterators), t)
<1> DEFINE b == Tail(iterators)
           none == << >>
<1>1. iterators \in Seq(Iterators) /\ read \in Bytes
  BY DEF WalkInv
<1>2. /\ Top \in Iterators /\ Top = iterators[1] /\ b \in Seq(Iterators) /\ 1 \in 1 .. Len(iterators)
  BY <1>1, TopIs
<1>3. Ahead(Top) = none
  <2>1. ItemsRemain(Top)
    BY <1>2 DEF WalkInv
  <2>2. Ahead(Top) \in Joined(Items(Top.view.ty), 0)
    BY <2>1 DEF ItemsRemain, Ahead
  <2> QED BY <2>2, JoinedNone
<1>4. ItemsWhole(Top)
  <2>1. Top.view.ty \in Types /\ Top.view.ty.k \in {"vec", "map"}
    BY <1>2, IteratorIs, GoodViewIs
  <2>2. Remaining(Limit, Top.view.ty, 0, Top.previous) = {none}
    BY <2>1, NoneRemain
  <2>3. Ahead(Top) \in Remaining(Limit, Top.view.ty, Top.remaining, Top.previous)
    BY <1>3, <2>2
  <2> QED BY <2>3 DEF ItemsWhole, Ahead
<1>5. AllWhole(b) => AllWhole(iterators)
  BY <1>1, <1>2, <1>4, TopTail
<1>6. PICK w \in Bytes : Unread(iterators, w) /\ packet = Then(read, w)
  BY DEF OnTheWay
<1>7. PICK x \in Bytes : Unread(b, x) /\ w = Then(Ahead(iterators[1]), x)
  BY <1>1, <1>6, UnreadTop
<1>8. w = x
  <2>1. Then(none, x) = x
    BY <1>7, JoinEmpty DEF Then
  <2> HIDE DEF none
  <2> QED BY <1>2, <1>3, <1>7, <2>1
<1> HIDE DEF b
<1> QED BY <1>5, <1>6, <1>7, <1>8 DEF OnTheWay, b

(* The invariant: as long as no iterator has returned an Err, the packet is*)
(* what has been read and what is ahead.                                   *)
ReadInv ==
  /\ WalkInv
  /\ phase = "done" => iterators = << >>
  /\ phase \in {"walking", "done"} /\ ~failed => OnTheWay(packet, read, iterators, field.ty)

(* HasMap is the solution of its equation.                                 *)
LEMMA HasMapIs ==
  ASSUME NEW t \in Types
  PROVE  HasMap[t] = (t.k = "map" \/ \E part \in Parts(t) : HasMap[part])
<1> DEFINE V == {TRUE, FALSE}
           has(q, g) == q.k = "map" \/ \E part \in Parts(q) : g[part]
           Step == [q \in Types |-> [g \in [Types -> V] |-> has(q, g)]]
           Eq(f) == f = [q \in Types |-> has(q, f)]
<1>1. \A q \in Types, g \in [Types -> V] : Step[q][g] = has(q, g)
  OBVIOUS
<1>2. \A q, g : has(q, g) \in V
  OBVIOUS
<1>3. ASSUME NEW q \in Types, NEW g \in [Types -> V], NEW h \in [Types -> V],
             \A p \in Parts(q) : g[p] = h[p]
      PROVE  has(q, g) = has(q, h)
  <2> HIDE DEF V
  <2> QED BY <1>3, Zenon
<1> HIDE DEF has
<1>4. Step \in [Types -> [[Types -> V] -> V]]
  BY <1>2
<1>6. V # {}
  OBVIOUS
<1> HIDE DEF Step, V
<1>5. LooksAtParts(V, Step)
  <2> SUFFICES ASSUME NEW q \in Types, NEW g \in [Types -> V], NEW h \in [Types -> V],
                      \A p \in Parts(q) : g[p] = h[p]
               PROVE  Step[q][g] = Step[q][h]
    BY DEF LooksAtParts
  <2>1. has(q, g) = has(q, h)
    BY <1>3
  <2>2. Step[q][g] = has(q, g) /\ Step[q][h] = has(q, h)
    BY <1>1
  <2> QED BY <2>1, <2>2
<1>7. PICK f : Solves(f, Types, V, Step)
  BY <1>4, <1>5, <1>6, TypeRecursion
<1>8. Eq(f)
  BY <1>1, <1>7 DEF Solves
<1>9. HasMap = CHOOSE h : Eq(h)
  BY Zenon DEF HasMap, has
<1>10. Eq(HasMap)
  <2> HIDE DEF Eq
  <2> QED BY <1>8, <1>9, Zenon
<1>11. HasMap[t] = has(t, HasMap)
  BY <1>10
<1> QED BY <1>11, Zenon DEF has

(* What messages are read alike has to say of views.                       *)
LEMMA ReadingsAgree ==
  ASSUME SameReadings(Types)
  PROVE  \E copied : Agrees(copied)
<1> DEFINE copied == {t \in Types : ~HasMap[t]}
<1>1. ASSUME NEW t \in copied PROVE t.k # "map" /\ Parts(t) \subseteq copied
  <2>1. t \in Types /\ ~HasMap[t]
    OBVIOUS
  <2>2. Parts(t) \subseteq Types
    BY PartsAre
  <2>3. t.k # "map" /\ \A part \in Parts(t) : ~HasMap[part]
    BY <2>1, HasMapIs, Zenon
  <2> QED BY <2>2, <2>3
<1>2. Copies(copied)
  BY <1>1 DEF Copies
<1>3. ASSUME NEW t \in Types, Borrowed(t) = "view"
      PROVE  t.of.k # "fixed" /\ (Borrowed(t.of) = "owned" => t.of \in copied)
  <2>1. t.of \in Types
    BY <1>3, PartsAre, BorrowedIs
  <2>2. t.of.k # "fixed"
    BY <1>3 DEF SameReadings, ItemsHaveLengths
  <2>3. Borrowed(t.of) = "owned" => ~HasMap[t.of]
    BY <1>3 DEF SameReadings, CopiesItems
  <2> QED BY <2>1, <2>2, <2>3
<1>4. Agrees(copied)
  BY <1>2, <1>3 DEF Agrees
<1> QED BY <1>4

LEMMA ReadInit == Init => ReadInv
<1> SUFFICES ASSUME Init PROVE ReadInv
  OBVIOUS
<1>1. WalkInv
  BY WalkInit
<1>2. phase = "start"
  BY DEF Init
<1> QED BY <1>1, <1>2 DEF ReadInv

(* The iterators after a next().                                           *)
LEMMA NextPushes ==
  ASSUME WalkInv, NextItem
  PROVE  iterators' = Opened(NextOutcome) \o Push(Moved(Top, NextOutcome), Tail(iterators))
<1> DEFINE n == NextOutcome
           a == Opened(n)
           it == Moved(Top, n)
           b == Tail(iterators)
           c == <<it>>
<1>1. iterators \in Seq(Iterators) /\ iterators # << >> /\ Top.remaining > 0
  BY DEF WalkInv, NextItem
<1>2. iterators' = a \o c \o b
  BY DEF NextItem, Advanced, Left, Moved
<1>3. Top \in Iterators /\ b \in Seq(Iterators)
  BY <1>1, TopIs
<1>4. n \in NextOutcomes(Top)
  BY <1>3, NextReturns
<1> HIDE DEF n
<1>5. n.view \in Views
  BY <1>4 DEF NextOutcomes
<1>6. a \in Seq(Iterators) /\ it \in Iterators
  BY <1>1, <1>3, <1>4, <1>5, OpenedIs, MovedIs
<1> HIDE DEF a, it, b
<1>7. c \in Seq(Iterators)
  BY <1>6
<1> HIDE DEF c
<1>8. (a \o c) \o b = a \o (c \o b)
  BY <1>3, <1>6, <1>7, ConcatIsAssoc
<1>9. c \o b = Push(it, b)
  BY Zenon DEF Push, c
<1> QED BY <1>2, <1>8, <1>9 DEF n, a, it, b

LEMMA ReadStep ==
  ASSUME SameReadings(Types)
  PROVE  ReadInv /\ [Next]_vars => ReadInv'
<1> SUFFICES ASSUME ReadInv, [Next]_vars PROVE ReadInv'
  OBVIOUS
<1>1. WalkInv /\ WalkInv'
  BY WalkStep DEF ReadInv
<1>2. CASE Open
  <2> DEFINE d == BorrowedDecode
  <2>1. /\ phase' = IF d.err = "none" THEN "walking" ELSE "refused"
        /\ iterators' = Opened(d) /\ read' = d.val
        /\ UNCHANGED <<packet, field, limits, failed>>
    BY <1>2 DEF Open, Opening
  <2>2. d.err = "none" => OnTheWay(packet, d.val, Opened(d), field.ty)
    BY <1>1, OpenReads
  <2> HIDE DEF d
  <2>3. phase' # "done"
    BY <2>1
  <2>4. phase' \in {"walking", "done"} => OnTheWay(packet', read', iterators', field'.ty)
    BY <2>1, <2>2
  <2> QED BY <1>1, <2>3, <2>4 DEF ReadInv
<1>3. CASE NextItem
  <2> DEFINE n == NextOutcome
             base == Push(Moved(Top, n), Tail(iterators))
  <2>1. /\ phase = "walking" /\ iterators # << >> /\ Top.remaining > 0
        /\ read' = read \o n.val
        /\ failed' = (failed \/ n.err # "none")
        /\ UNCHANGED <<packet, field, limits, phase>>
    BY <1>3 DEF NextItem, Advanced
  <2>2. iterators' = Opened(n) \o base
    BY <1>1, <1>3, NextPushes
  <2>3. PICK copied : Agrees(copied)
    BY ReadingsAgree
  <2>4. ASSUME ~failed' PROVE OnTheWay(packet', read', iterators', field'.ty)
    <3>1. ~failed /\ n.err = "none"
      <4> HIDE DEF n
      <4>1. failed \in BOOLEAN
        BY <1>1 DEF WalkInv
      <4> QED BY <2>1, <2>4, <4>1
    <3>2. OnTheWay(packet, read, iterators, field.ty)
      BY <2>1, <3>1 DEF ReadInv
    <3>3. OnTheWay(packet, Then(read, n.val), Opened(n) \o base, field.ty)
      BY <1>1, <2>1, <2>3, <3>1, <3>2, NextReads
    <3> HIDE DEF n, base
    <3>4. read' = Then(read, n.val)
      BY <2>1, Zenon DEF Then
    <3> QED BY <2>1, <2>2, <3>3, <3>4
  <2> QED BY <1>1, <2>1, <2>4 DEF ReadInv
<1>4. CASE EndOfView
  <2>1. /\ phase = "walking" /\ iterators # << >> /\ Top.remaining = 0
        /\ iterators' = Tail(iterators)
        /\ UNCHANGED <<packet, field, limits, phase, read, failed>>
    BY <1>4 DEF EndOfView
  <2>2. ~failed => OnTheWay(packet, read, Tail(iterators), field.ty)
    BY <1>1, <2>1, EndReads DEF ReadInv
  <2> QED BY <1>1, <2>1, <2>2 DEF ReadInv
<1>5. CASE Done
  <2>1. /\ phase = "walking" /\ iterators = << >>
        /\ UNCHANGED <<packet, field, limits, iterators, read, failed>>
    BY <1>5 DEF Done
  <2>2. ~failed => OnTheWay(packet, read, iterators, field.ty)
    BY <2>1 DEF ReadInv
  <2> QED BY <1>1, <2>1, <2>2 DEF ReadInv
<1>6. CASE UNCHANGED vars
  BY <1>1, <1>6 DEF vars, ReadInv
<1> QED BY <1>2, <1>3, <1>4, <1>5, <1>6 DEF Next

(* A byte vector that is the whole of a packet.                            *)
LEMMA SizedTakes ==
  ASSUME NEW s \in Bytes, NEW p \in 0 .. Len(s), NEW q \in p .. Len(s), NEW lim,
         NEW E, NEW k, Excused(E, lim, s, k),
         Slice(s, p, q) \in Sized
  PROVE  Takes(E, ReadBytes(s, p, lim), s, p, q)
<1> DEFINE F == [n \in 0 .. Limit - 1 |-> Exactly(n)]
           u == Slice(s, p, q)
           r == ReadBytes(s, p, lim)
<1>1. u \in Headed(F)
  BY DEF Sized
<1>2. \A n \in 0 .. Limit - 1 : F[n] = Exactly(n)
  OBVIOUS
<1> HIDE DEF F
<1>3. PICK n \in 0 .. Limit - 1 : \E w \in F[n] : u = EncodeVarint[n] \o w
  BY <1>1, Zenon DEF Headed
<1>4. PICK w \in F[n] : u = EncodeVarint[n] \o w
  BY <1>3
<1>5. w \in Bytes /\ Len(w) = n
  BY <1>2, <1>4 DEF Exactly
<1>6. u = Then(EncodeVarint[n], w)
  BY <1>4, Zenon DEF Then
<1>7. Len(w) \in 0 .. Limit - 1 /\ u = Then(EncodeVarint[Len(w)], w)
  BY <1>5, <1>6
<1>8. r.err \in E \/ r = Value(q, u, w)
  BY <1>5, <1>7, BytesTake
<1> HIDE DEF r, u
<1>9. CASE r = Value(q, u, w)
  <2>1. r.err = "none" /\ r.pos = q /\ r.val = u
    BY <1>9 DEF Value
  <2> QED BY <2>1 DEF Takes, r, u
<1> QED BY <1>8, <1>9 DEF Takes, r

(* The length of bytes that have been read is the one before them.         *)
LEMMA LengthIsRead ==
  ASSUME NEW s \in Bytes, NEW p \in 0 .. Len(s), NEW lim, ReadBytes(s, p, lim).err = "none"
  PROVE  Len(ReadBytes(s, p, lim).key) = ReadVarint(s, p).val
<1> DEFINE c == ReadVarint(s, p)
           x == SubSeq(s, c.pos + 1, c.pos + c.val)
           u == EncodeVarint[c.val] \o x
<1>1. IntegerRead(c, s, p)
  BY VarintRead
<1>2. ReadBytes(s, p, lim) =
        IF c.err # "none" THEN Error(c.err, c.pos)
        ELSE IF c.val > lim.field THEN Error("PacketTooLarge", c.pos)
        ELSE IF c.pos + c.val > Len(s) THEN Error("UnexpectedEof", c.pos)
        ELSE Value(c.pos + c.val, u, x)
  BY ReadBytesIs
<1>3. \A e, j : Error(e, j).err = e
  BY DEF Error
<1> DEFINE n == c.val
           m == c.pos
<1>4. /\ c.err = "none" /\ ~(m + n > Len(s))
      /\ ReadBytes(s, p, lim) = Value(m + n, u, x)
  <2> HIDE DEF c, x, u
  <2> QED BY <1>2, <1>3
<1>5. n \in Nat /\ m \in 0 .. Len(s) /\ Len(s) \in Nat
  BY <1>1, <1>4 DEF IntegerRead, Bytes
<1> HIDE DEF c
<1>6. m + n \in m .. Len(s) /\ m + n - m = n
  BY <1>4, <1>5
<1>7. x \in Exactly(n)
  <2>1. x = Slice(s, m, m + n)
    BY DEF Slice
  <2> HIDE DEF x, m, n
  <2> QED BY <1>5, <1>6, <2>1, SliceFacts DEF Exactly
<1>8. Len(x) = n
  BY <1>7 DEF Exactly
<1> HIDE DEF x, u, m
<1>9. ReadBytes(s, p, lim).key = x
  BY <1>4 DEF Value
<1> QED BY <1>8, <1>9 DEF n, c

(* A canonical encoding is what the owned decode accepts, but for a count  *)
(* that is over its limit and for another length than that of the field.   *)
LEMMA CanonicalIsOwned ==
  ASSUME packet \in Packets, limits \in Limits, field \in Fields,
         packet \in CanonicalTo(Limit)[field.ty]
  PROVE  \/ Owned.err = "PacketTooLarge"
         \/ Owned.err = "none" /\ Owned.val = packet
         \/ Owned.err = "MalformedConstructor" /\ ~LengthIsExact
<1> DEFINE t == field.ty
           r == OwnField(field, packet, limits)
           q == Len(packet)
           E == {"PacketTooLarge"}
<1>1. packet \in Bytes /\ 0 \in 0 .. Len(packet) /\ t \in Types /\ q \in 0 .. q /\ q \in Nat
  BY PacketIs
<1>2. Slice(packet, 0, q) = packet
  BY <1>1, SliceAll DEF From
<1>30. Excused(E, limits, packet, Limit)
  BY DEF Excused
<1>3. Takes(E, r, packet, 0, q) \/ (r.err = "MalformedConstructor" /\ ~LengthIsExact)
  <2>1. CASE ~IsByteVec(t)
    <3>1. r = Own(packet, limits)[t][0]
      BY <2>1 DEF OwnField
    <3>2. Complete(E, Own(packet, limits)[t], packet, CanonicalTo(Limit)[t])
      BY <1>1, <1>30, OwnTakes
    <3> QED BY <1>1, <1>2, <3>1, <3>2 DEF Complete
  <2>2. CASE IsByteVec(t)
    <3> DEFINE x == ReadBytes(packet, 0, limits)
    <3>0. x.err = "none" /\ LengthIsExact => field.exact = {} \/ Len(x.key) \in field.exact
      BY <1>1, LengthIsRead DEF LengthIsExact
    <3>1. r = IF x.err # "none" THEN Error(x.err, x.pos)
              ELSE IF field.exact # {} /\ Len(x.key) \notin field.exact
                THEN Error("MalformedConstructor", x.pos)
              ELSE x
      BY <2>2 DEF OwnField, Try
    <3>2. Takes(E, x, packet, 0, q)
      <4>1. CanonicalTo(Limit)[t] = Sized
        BY <1>1, <2>2, ByteVecIs
      <4> QED BY <1>1, <1>2, <1>30, <4>1, SizedTakes
    <3>3. \A e, j : Error(e, j).err = e
      BY DEF Error
    <3> HIDE DEF x, r
    <3> QED BY <3>0, <3>1, <3>2, <3>3 DEF Takes
  <2> QED BY <2>1, <2>2
<1>4. Owned = IF r.err # "none" THEN Error(r.err, r.pos)
              ELSE IF r.pos # q THEN Error("MalformedConstructor", r.pos) ELSE r
  BY DEF Owned, OwnedDecode, Finished, Try
<1>5. \A e, j : Error(e, j).err = e
  BY DEF Error
<1> HIDE DEF r, q
<1> QED BY <1>2, <1>3, <1>4, <1>5 DEF Takes

LEMMA ReadIsDecoded ==
  ASSUME SameReadings(Types)
  PROVE  ReadInv => WalkedIsDecoded
<1> SUFFICES ASSUME ReadInv, phase = "done", ~failed
             PROVE  /\ LengthIsExact => Owned.err \in {"none", "PacketTooLarge"}
                    /\ Owned.err = "none" => Owned.val = read
                    /\ read = packet
  BY DEF WalkedIsDecoded
<1> DEFINE none == << >>
<1>1. WalkInv /\ iterators = none /\ OnTheWay(packet, read, iterators, field.ty)
  BY DEF ReadInv
<1>2. PICK w \in Bytes : Unread(none, w) /\ packet = Then(read, w)
  BY <1>1 DEF OnTheWay
<1>3. w = none /\ read \in Bytes
  BY <1>1, <1>2, UnreadNone DEF WalkInv
<1>4. Then(read, none) = read
  BY <1>3, JoinEmpty DEF Then
<1>5. AllWhole(none)
  BY DEF AllWhole
<1> HIDE DEF none
<1>6. packet \in CanonicalTo(Limit)[field.ty]
  BY <1>1, <1>5 DEF OnTheWay
<1>7. packet \in Packets /\ limits \in Limits /\ field \in Fields
  BY <1>1 DEF WalkInv
<1>8. \/ Owned.err = "PacketTooLarge"
      \/ Owned.err = "none" /\ Owned.val = packet
      \/ Owned.err = "MalformedConstructor" /\ ~LengthIsExact
  BY <1>6, <1>7, CanonicalIsOwned
<1> QED BY <1>2, <1>3, <1>4, <1>8

(* A walk to the end without an Err has given what the owned decode gives, *)
(* byte for byte the packet, but for exact_len and a limit of the owned    *)
(* decode on a Vec<u8> (wire.rs:133-268, 487-494, 589-613).  The types are *)
(* those of which a walk gives every byte: with a map that is copied out of*)
(* a view (wire.rs:84-131, 876-907) the packet may be another one than the *)
(* value is encoded as.                                                    *)
THEOREM WalksAreDecoded ==
  ASSUME SameReadings(Types)
  PROVE  Spec => []WalkedIsDecoded
<1>1. Init => ReadInv
  BY ReadInit
<1>2. ReadInv /\ [Next]_vars => ReadInv'
  BY ReadStep
<1>3. ReadInv => WalkedIsDecoded
  BY ReadIsDecoded
<1> QED BY <1>1, <1>2, <1>3, PTL DEF Spec

-----------------------------------------------------------------------------
(* The scan follows the owned decode                                       *)

(* Of two reads of the same bytes, the second goes as far as the first, or *)
(* finds a count or a length over its limit.                               *)
Follows(y, x) ==
  x.err = "none" => y.err = "PacketTooLarge" \/ (y.err = "none" /\ y.pos = x.pos)

AllFollow(b, a, s) == \A p \in 0 .. Len(s) : Follows(b[p], a[p])

(* Two reads, one after the other,                                         *)
LEMMA AfterFollows ==
  ASSUME NEW s, NEW a, NEW b, AllFollow(b, a, s), NEW x, NEW y, Follows(y, x),
         x.pos \in 0 .. Len(s), NEW k1, NEW k2
  PROVE  Follows(After(b, y, k2), After(a, x, k1))
<1> SUFFICES ASSUME After(a, x, k1).err = "none",
                    After(b, y, k2).err # "PacketTooLarge"
             PROVE  After(b, y, k2).err = "none" /\ After(b, y, k2).pos = After(a, x, k1).pos
  BY DEF Follows
<1> DEFINE u == a[x.pos]
           v == b[y.pos]
<1>1. \A e, j : Error(e, j).err = e
  BY DEF Error
<1>2. After(a, x, k1) = IF x.err # "none" THEN Error(x.err, x.pos)
                        ELSE IF u.err # "none" THEN Error(u.err, u.pos)
                        ELSE Value(u.pos, x.val \o u.val, k1)
  BY DEF After
<1>3. After(b, y, k2) = IF y.err # "none" THEN Error(y.err, y.pos)
                        ELSE IF v.err # "none" THEN Error(v.err, v.pos)
                        ELSE Value(v.pos, y.val \o v.val, k2)
  BY DEF After
<1>4. x.err = "none"
  BY <1>1, <1>2
<1>5. u.err = "none"
  BY <1>1, <1>2, <1>4
<1>6. y.err = "none"
  BY <1>1, <1>3, <1>4 DEF Follows
<1>7. y.pos = x.pos
  BY <1>4, <1>6 DEF Follows
<1>8. Follows(v, u)
  BY <1>7 DEF AllFollow
<1> HIDE DEF u, v
<1>9. v.err = "none"
  BY <1>1, <1>3, <1>5, <1>6, <1>8 DEF Follows
<1>10. v.pos = u.pos
  BY <1>5, <1>8, <1>9 DEF Follows
<1>11. \A j, w, k : Value(j, w, k).err = "none" /\ Value(j, w, k).pos = j
  BY DEF Value
<1> QED BY <1>2, <1>3, <1>4, <1>5, <1>6, <1>9, <1>10, <1>11

(* the two readers of an entry,                                            *)
LEMMA PairFollows ==
  ASSUME NEW s \in Bytes, NEW W, NEW k1, NEW k2, NEW v1, NEW v2,
         ReaderOf(k1, s, W, Bytes), ReaderOf(k2, s, W, Bytes),
         AllFollow(k2, k1, s), AllFollow(v2, v1, s)
  PROVE  AllFollow(Pair(k2, v2), Pair(k1, v1), s)
<1> SUFFICES ASSUME NEW p \in 0 .. Len(s)
             PROVE  Follows(Pair(k2, v2)[p], Pair(k1, v1)[p])
  BY DEF AllFollow
<1>1. p \in DOMAIN k1 /\ p \in DOMAIN k2 /\ Returns(k1[p], s, p, W, Bytes)
  BY DEF ReaderOf
<1>2. k1[p].pos \in 0 .. Len(s) /\ Follows(k2[p], k1[p])
  BY <1>1, ReturnsParts DEF AllFollow
<1>3. Follows(After(v2, k2[p], k2[p].key), After(v1, k1[p], k1[p].key))
  BY <1>2, AfterFollows
<1> QED BY <1>1, <1>3, PairIs

(* and a reader over and over.                                             *)
LEMMA RepeatFollows ==
  ASSUME NEW s \in Bytes, NEW p \in 0 .. Len(s), NEW n \in Nat, NEW W, NEW a, NEW b,
         ReaderOf(a, s, W, Bytes), ReaderOf(b, s, W, Bytes), AllFollow(b, a, s)
  PROVE  Follows(Repeat(b, p, n), Repeat(a, p, n))
<1>1. PICK f : Repeats(f, a, p, n) /\ Repeat(a, p, n) = f[n]
  BY RepeatIs
<1>2. PICK g : Repeats(g, b, p, n) /\ Repeat(b, p, n) = g[n]
  BY RepeatIs
<1>3. /\ f[0] = Value(p, << >>, << >>) /\ \A i \in 1 .. n : f[i] = After(a, f[i - 1], << >>)
      /\ g[0] = f[0] /\ \A i \in 1 .. n : g[i] = After(b, g[i - 1], << >>)
  BY <1>1, <1>2 DEF Repeats
<1> DEFINE Good(i) == i <= n => Follows(g[i], f[i]) /\ Returns(f[i], s, p, NoView, Bytes)
           T == {i \in Nat : Good(i)}
<1>4. Good(0)
  <2>1. p \in p .. Len(s) /\ << >> \in NoView /\ Slice(s, p, p) \in Bytes
    BY SliceFacts DEF Bytes, NoView
  <2>2. Returns(Value(p, << >>, << >>), s, p, NoView, Bytes)
    BY <2>1, EmptyBytes, ValueReturns
  <2>3. Follows(g[0], f[0])
    BY <1>3 DEF Follows, Value
  <2> QED BY <1>3, <2>2, <2>3
<1>5. ASSUME NEW i \in Nat, Good(i) PROVE Good(i + 1)
  <2> SUFFICES ASSUME i + 1 <= n
               PROVE  Follows(g[i + 1], f[i + 1]) /\ Returns(f[i + 1], s, p, NoView, Bytes)
    OBVIOUS
  <2>1. Returns(f[i], s, p, NoView, Bytes) /\ Follows(g[i], f[i])
    BY <1>5
  <2> DEFINE k == i + 1
  <2>2. k \in 1 .. n /\ k - 1 = i
    OBVIOUS
  <2>3. f[k] = After(a, f[i], << >>) /\ g[k] = After(b, g[i], << >>)
    <3> HIDE DEF k
    <3> QED BY <1>3, <2>2
  <2>4. f[i].pos \in 0 .. Len(s)
    BY <2>1, ReturnsParts
  <2>5. Follows(After(b, g[i], << >>), After(a, f[i], << >>))
    BY <2>1, <2>4, AfterFollows
  <2>6. Returns(After(a, f[i], << >>), s, p, NoView, TwoOf(Bytes, Bytes))
    BY <2>1, EmptyBytes, AfterReturns DEF NoView
  <2>7. Returns(After(a, f[i], << >>), s, p, NoView, Bytes)
    <3>1. TwoOf(Bytes, Bytes) \subseteq Bytes
      BY DEF TwoOf
    <3> QED BY <2>6, <3>1, ReturnsWider
  <2> QED BY <2>3, <2>5, <2>7
<1> HIDE DEF Good
<1>6. T = Nat
  <2>1. T \in SUBSET Nat /\ 0 \in T /\ \A i \in T : i + 1 \in T
    BY <1>4, <1>5
  <2> HIDE DEF T
  <2> QED BY <2>1, NatInductionOnSets
<1>7. Good(n)
  BY <1>6
<1> QED BY <1>1, <1>2, <1>7 DEF Good

(* A round of Collect reads an entry, as a round of Repeat does.           *)
LEMMA AddingFollows ==
  ASSUME NEW s \in Bytes, NEW W, NEW a, NEW b, ReaderOf(a, s, W, Bytes), AllFollow(b, a, s),
         NEW x \in Entries(s), NEW y, Follows(y, x)
  PROVE  Follows(After(b, y, << >>), Adding(a, x))
<1> DEFINE z == Adding(a, x)
           w == After(a, x, << >>)
<1>1. /\ z.err = "none" => x.err = "none" /\ a[x.pos].err = "none"
      /\ x.err = "none" => z.pos = a[x.pos].pos
  BY AddingType
<1>2. x.pos \in 0 .. Len(s)
  BY DEF Entries
<1>3. Follows(After(b, y, << >>), w)
  BY <1>2, AfterFollows
<1>4. x.err = "none" /\ a[x.pos].err = "none" => w.err = "none" /\ w.pos = a[x.pos].pos
  BY DEF After, Value
<1> HIDE DEF z, w
<1>5. z.err = "none" => w.err = "none" /\ w.pos = z.pos
  BY <1>1, <1>4
<1>6. Follows(After(b, y, << >>), z)
  BY <1>3, <1>5 DEF Follows
<1> QED BY <1>6 DEF z

LEMMA CollectFollows ==
  ASSUME NEW s \in Bytes, NEW p \in 0 .. Len(s), NEW n \in Nat, NEW W, NEW a, NEW b,
         ReaderOf(a, s, W, Bytes), ReaderOf(b, s, W, Bytes), AllFollow(b, a, s)
  PROVE  Follows(Repeat(b, p, n), Collect(a, p, n))
<1>1. PICK f : Collects(f, a, p, n) /\ Collect(a, p, n) = f[n]
  BY CollectIs
<1>2. PICK g : Repeats(g, b, p, n) /\ Repeat(b, p, n) = g[n]
  BY RepeatIs
<1>3. /\ f[0] = Value(p, << >>, << >>) /\ \A i \in 1 .. n : f[i] = Adding(a, f[i - 1])
      /\ g[0] = f[0] /\ \A i \in 1 .. n : g[i] = After(b, g[i - 1], << >>)
  BY <1>1, <1>2 DEF Repeats, Collects
<1> DEFINE Good(i) == i <= n => Follows(g[i], f[i]) /\ f[i] \in Entries(s)
           T == {i \in Nat : Good(i)}
<1>4. Good(0)
  <2> DEFINE x == Value(p, << >>, << >>)
  <2>1. << >> \in Seq(Piece) /\ << >> \in Bytes /\ << >> \in NoView /\ "none" \in Codes
    BY EmptyBytes DEF NoView, Codes
  <2>2. x \in Entries(s)
    BY <2>1 DEF Value, Entries
  <2>3. Follows(g[0], f[0])
    BY <1>3 DEF Follows, Value
  <2> HIDE DEF x
  <2>4. f[0] = x
    BY <1>3 DEF x
  <2> QED BY <2>2, <2>3, <2>4
<1>5. ASSUME NEW i \in Nat, Good(i) PROVE Good(i + 1)
  <2> SUFFICES ASSUME i + 1 <= n
               PROVE  Follows(g[i + 1], f[i + 1]) /\ f[i + 1] \in Entries(s)
    OBVIOUS
  <2>1. f[i] \in Entries(s) /\ Follows(g[i], f[i])
    BY <1>5
  <2> DEFINE k == i + 1
  <2>2. k \in 1 .. n /\ k - 1 = i
    OBVIOUS
  <2>3. f[k] = Adding(a, f[i]) /\ g[k] = After(b, g[i], << >>)
    <3> HIDE DEF k
    <3> QED BY <1>3, <2>2
  <2>4. Follows(After(b, g[i], << >>), Adding(a, f[i]))
    BY <2>1, AddingFollows
  <2>5. Adding(a, f[i]) \in Entries(s)
    BY <2>1, AddingType
  <2> QED BY <2>3, <2>4, <2>5
<1> HIDE DEF Good
<1>6. T = Nat
  <2>1. T \in SUBSET Nat /\ 0 \in T /\ \A i \in T : i + 1 \in T
    BY <1>4, <1>5
  <2> HIDE DEF T
  <2> QED BY <2>1, NatInductionOnSets
<1>7. Good(n)
  BY <1>6
<1> QED BY <1>1, <1>2, <1>7 DEF Good

(* The items of a collection, decoded and scanned.                         *)
LEMMA ItemsFollow ==
  ASSUME NEW s \in Bytes, NEW lim, NEW t \in Types, t.k \in {"vec", "map"},
         \A r \in Parts(t) : AllFollow(Skip(s, lim)[r], Own(s, lim)[r], s)
  PROVE  /\ ReaderOf(Item(t, Own(s, lim)), s, NoView, Bytes)
         /\ ReaderOf(Item(t, Skip(s, lim)), s, NoView, Bytes)
         /\ AllFollow(Item(t, Skip(s, lim)), Item(t, Own(s, lim)), s)
<1> DEFINE own == Own(s, lim)
           skip == Skip(s, lim)
           a == Item(t, own)
           b == Item(t, skip)
           G == [r \in Types |-> Bytes]
<1>1. ASSUME NEW r \in Types
      PROVE  ReaderOf(own[r], s, NoView, Bytes) /\ ReaderOf(skip[r], s, NoView, Bytes)
  <2> DEFINE reader == skip[r]
  <2>1. ReaderOf(reader, s, NoView, Scanned[r]) /\ Scanned[r] \subseteq Bytes
    BY SkipReads, ScannedIs
  <2> HIDE DEF reader
  <2>2. \A p \in 0 .. Len(s) : Returns(reader[p], s, p, NoView, Bytes)
    BY <2>1, ReturnsWider DEF ReaderOf
  <2>3. ReaderOf(reader, s, NoView, Bytes)
    BY <2>1, <2>2 DEF ReaderOf
  <2> QED BY <2>3, OwnWider DEF reader
<1>2. Parts(t) \subseteq Types
  BY PartsAre
<1>3. ReaderOf(a, s, NoView, Bytes) /\ ReaderOf(b, s, NoView, Bytes)
  <2>1. G \in [Types -> SUBSET Bytes] /\ \A r \in Types : G[r] = Bytes
    OBVIOUS
  <2> HIDE DEF G, own, skip
  <2>2. \A r \in Parts(t) : ReaderOf(own[r], s, NoView, G[r]) /\ ReaderOf(skip[r], s, NoView, G[r])
    BY <1>1, <1>2, <2>1
  <2>3. /\ ReaderOf(a, s, NoView, ItemForm(t, G)) /\ ItemForm(t, G) \subseteq Bytes
        /\ ReaderOf(b, s, NoView, ItemForm(t, G))
    BY <2>1, <2>2, ItemReads
  <2> HIDE DEF a, b
  <2>4. \A p \in 0 .. Len(s) : /\ Returns(a[p], s, p, NoView, Bytes)
                               /\ Returns(b[p], s, p, NoView, Bytes)
    BY <2>3, ReturnsWider DEF ReaderOf
  <2> QED BY <2>3, <2>4 DEF ReaderOf
<1>4. AllFollow(b, a, s)
  <2> HIDE DEF own, skip
  <2>1. CASE t.k = "map"
    <3>1. t.key \in Parts(t) /\ t.of \in Parts(t)
      BY <2>1 DEF Parts
    <3>2. a = Pair(own[t.key], own[t.of]) /\ b = Pair(skip[t.key], skip[t.of])
      BY <2>1 DEF Item
    <3>3. /\ ReaderOf(own[t.key], s, NoView, Bytes) /\ ReaderOf(skip[t.key], s, NoView, Bytes)
          /\ AllFollow(skip[t.key], own[t.key], s) /\ AllFollow(skip[t.of], own[t.of], s)
      BY <1>1, <1>2, <3>1 DEF own, skip
    <3> HIDE DEF a, b
    <3> QED BY <3>2, <3>3, PairFollows
  <2>2. CASE t.k = "vec"
    <3>1. t.of \in Parts(t) /\ a = own[t.of] /\ b = skip[t.of]
      BY <2>2 DEF Parts, Item
    <3> QED BY <3>1 DEF own, skip
  <2> QED BY <2>1, <2>2
<1> QED BY <1>3, <1>4

(* A collection, decoded and scanned.                                      *)
LEMMA ViewFollows ==
  ASSUME NEW s \in Bytes, NEW p \in 0 .. Len(s), NEW lim, NEW t \in Types, t.k \in {"vec", "map"},
         \A r \in Parts(t) : AllFollow(Skip(s, lim)[r], Own(s, lim)[r], s)
  PROVE  Follows(SkipView(t, Skip(s, lim), s, p, lim), Own(s, lim)[t][p])
<1> DEFINE c == ReadCount(s, p, lim)
           n == c.val
           m == c.pos
           a == Item(t, Own(s, lim))
           b == Item(t, Skip(s, lim))
           x == Own(s, lim)[t][p]
           y == SkipView(t, Skip(s, lim), s, p, lim)
           items == Repeat(a, m, n)
           entries == Collect(a, m, n)
           all == Repeat(b, m, n)
<1>1. /\ ReaderOf(a, s, NoView, Bytes) /\ ReaderOf(b, s, NoView, Bytes) /\ AllFollow(b, a, s)
  BY ItemsFollow
<1>2. c.err = "none" => n \in Nat /\ m \in 0 .. Len(s)
  BY CountRead DEF IntegerRead
<1>3. y = IF c.err # "none" THEN Error(c.err, c.pos) ELSE all
  BY SkipViewIs
<1>4. \A e, j : Error(e, j).err = e
  BY DEF Error
<1>5. \A j, w, k : Value(j, w, k).err = "none" /\ Value(j, w, k).pos = j
  BY DEF Value
<1>6. CASE t.k = "vec"
  <2>1. x = OwnVec(t, a, s, p, lim)
    <3>1. a = Own(s, lim)[t.of]
      BY <1>6 DEF Item
    <3> HIDE DEF a
    <3>2. x = OwnVec(t, Own(s, lim)[t.of], s, p, lim)
      BY <1>6, OwnIs, OwnOfIs
    <3> QED BY <3>1, <3>2
  <2> HIDE DEF a, b, x, y, c, items, all
  <2>2. x = IF c.err # "none" THEN Error(c.err, c.pos)
            ELSE IF n * FixedLen(t.of) > Len(s) - m THEN Error("UnexpectedEof", m)
            ELSE IF items.err # "none" THEN Error(items.err, items.pos)
            ELSE Value(items.pos, EncodeVarint[n] \o items.val, << >>)
    BY <2>1, OwnVecIs DEF c, items
  <2>3. x.err = "none" => c.err = "none" /\ items.err = "none" /\ x.pos = items.pos
    BY <1>4, <1>5, <2>2
  <2>4. c.err = "none" => Follows(all, items)
    BY <1>1, <1>2, RepeatFollows DEF all, items
  <2> QED BY <1>3, <2>3, <2>4 DEF Follows, x, y
<1>7. CASE t.k = "map"
  <2> DEFINE Full == /\ FixedLen(t.key) > 0 /\ FixedLen(t.of) > 0
                     /\ n * (FixedLen(t.key) + FixedLen(t.of)) > Len(s) - m
  <2>1. x = OwnMap(t, a, s, p, lim)
    <3>1. a = Pair(Own(s, lim)[t.key], Own(s, lim)[t.of])
      BY <1>7 DEF Item
    <3> HIDE DEF a
    <3>2. x = OwnMap(t, Pair(Own(s, lim)[t.key], Own(s, lim)[t.of]), s, p, lim)
      BY <1>7, OwnIs, OwnOfIs
    <3> QED BY <3>1, <3>2
  <2> HIDE DEF a, b, x, y, c, entries, all
  <2>2. x = IF c.err # "none" THEN Error(c.err, c.pos)
            ELSE IF Full THEN Error("UnexpectedEof", m)
            ELSE IF entries.err # "none" THEN Error(entries.err, entries.pos)
            ELSE Value(entries.pos, EncodeVarint[n] \o Concat(entries.val), << >>)
    BY <2>1, OwnMapIs DEF c, entries
  <2> HIDE DEF Full
  <2>3. x.err = "none" => c.err = "none" /\ entries.err = "none" /\ x.pos = entries.pos
    BY <1>4, <1>5, <2>2
  <2>4. c.err = "none" => Follows(all, entries)
    BY <1>1, <1>2, CollectFollows DEF all, entries
  <2> QED BY <1>3, <2>3, <2>4 DEF Follows, x, y
<1> QED BY <1>6, <1>7

(* A Vec<u8>, decoded byte by byte and read in one piece.                  *)
LEMMA ByteVecFollows ==
  ASSUME NEW s \in Bytes, NEW p \in 0 .. Len(s), NEW lim, NEW t \in Types, IsByteVec(t)
  PROVE  Follows(ReadBytes(s, p, lim), Own(s, lim)[t][p])
<1> DEFINE c == ReadCount(s, p, lim)
           n == c.val
           m == c.pos
           a == Own(s, lim)[t.of]
           x == Own(s, lim)[t][p]
           y == ReadBytes(s, p, lim)
           o == ReadVarint(s, p)
           items == Repeat(a, m, n)
<1>1. t.k = "vec" /\ t.of.k = "u8" /\ t.of \in Types
  BY PartsAre DEF IsByteVec
<1>2. x = OwnVec(t, a, s, p, lim)
  BY <1>1, OwnIs, OwnOfIs
<1>3. c.err = "none" => n \in Nat /\ m \in 0 .. Len(s) /\ c = o
  BY CountRead DEF IntegerRead
<1>4. y = IF o.err # "none" THEN Error(o.err, o.pos)
          ELSE IF o.val > lim.field THEN Error("PacketTooLarge", o.pos)
          ELSE IF o.pos + o.val > Len(s) THEN Error("UnexpectedEof", o.pos)
          ELSE Value(o.pos + o.val, EncodeVarint[o.val] \o SubSeq(s, o.pos + 1, o.pos + o.val),
                     SubSeq(s, o.pos + 1, o.pos + o.val))
  BY ReadBytesIs
<1>5. ReaderOf(a, s, NoView, Exactly(1))
  <2>1. ReaderOf(a, s, NoView, Encoded[t.of])
    BY <1>1, OwnReads
  <2>2. Encoded[t.of] = Exactly(1)
    BY <1>1, EncodedIs DEF OwnForm
  <2> QED BY <2>1, <2>2
<1>6. \A e, j : Error(e, j).err = e
  BY DEF Error
<1>7. \A j, w, k : Value(j, w, k).err = "none" /\ Value(j, w, k).pos = j
  BY DEF Value
<1> HIDE DEF a, c, x, y, o, items
<1>8. x = IF c.err # "none" THEN Error(c.err, c.pos)
          ELSE IF n * FixedLen(t.of) > Len(s) - m THEN Error("UnexpectedEof", m)
          ELSE IF items.err # "none" THEN Error(items.err, items.pos)
          ELSE Value(items.pos, EncodeVarint[n] \o items.val, << >>)
  BY <1>2, OwnVecIs DEF c, items
<1>9. x.err = "none" => c.err = "none" /\ items.err = "none" /\ x.pos = items.pos
  BY <1>6, <1>7, <1>8
<1>10. ASSUME c.err = "none", items.err = "none" PROVE items.pos = m + n /\ m + n <= Len(s)
  <2>1. Returns(items, s, m, NoView, Joined(Exactly(1), n))
    BY <1>3, <1>5, <1>10, RepeatReturns DEF items, Exactly
  <2>2. items.pos \in m .. Len(s) /\ Slice(s, m, items.pos) \in Joined(Exactly(1), n)
    BY <1>3, <1>10, <2>1, ReturnsParts
  <2>3. Slice(s, m, items.pos) \in Exactly(n * 1)
    BY <1>3, <1>10, <2>2, JoinedLength
  <2>4. Len(Slice(s, m, items.pos)) = items.pos - m
    BY <1>3, <1>10, <2>2, SliceFacts
  <2>5. Len(s) \in Nat /\ n \in Nat /\ m \in Nat
    BY <1>3, <1>10 DEF Bytes
  <2> QED BY <2>2, <2>3, <2>4, <2>5 DEF Exactly
<1>11. ASSUME x.err = "none" PROVE y.err = "PacketTooLarge" \/ (y.err = "none" /\ y.pos = x.pos)
  <2>1. o.err = "none" /\ o.val = n /\ o.pos = m /\ x.pos = m + n
    BY <1>3, <1>9, <1>10, <1>11
  <2>2. ~(o.pos + o.val > Len(s))
    <3>1. n \in Nat /\ m \in Nat /\ Len(s) \in Nat /\ m + n <= Len(s)
      BY <1>3, <1>9, <1>10, <1>11 DEF Bytes
    <3> QED BY <2>1, <3>1
  <2>3. CASE o.val > lim.field
    <3>1. y = Error("PacketTooLarge", o.pos)
      BY <1>4, <2>1, <2>3
    <3> QED BY <1>6, <3>1
  <2>4. CASE ~(o.val > lim.field)
    <3>1. y = Value(o.pos + o.val, EncodeVarint[o.val] \o SubSeq(s, o.pos + 1, o.pos + o.val),
                    SubSeq(s, o.pos + 1, o.pos + o.val))
      BY <1>4, <2>1, <2>2, <2>4
    <3> QED BY <1>7, <2>1, <3>1
  <2> QED BY <2>3, <2>4
<1> QED BY <1>11 DEF Follows, x, y

(* The text of a String is not looked at by the scan.                      *)
LEMMA StringFollows ==
  ASSUME NEW s, NEW p, NEW lim
  PROVE  Follows(ReadBytes(s, p, lim), ReadString(s, p, lim))
<1> DEFINE x == ReadString(s, p, lim)
           y == ReadBytes(s, p, lim)
<1>1. x = IF y.err # "none" THEN Error(y.err, y.pos)
          ELSE IF NotUtf8 \in Range(y.key) THEN Error("InvalidUtf8", y.pos)
          ELSE y
  BY ReadStringIs
<1>2. \A e, j : Error(e, j).err = e
  BY DEF Error
<1> HIDE DEF x, y
<1>3. x.err = "none" => x = y
  BY <1>1, <1>2
<1>4. Follows(y, x)
  BY <1>3 DEF Follows
<1> QED BY <1>4 DEF x, y

(* An option of two readers.                                               *)
LEMMA OptionFollows ==
  ASSUME NEW s \in Bytes, NEW p \in 0 .. Len(s), NEW V, NEW W, NEW a, NEW b,
         ReaderOf(a, s, V, Bytes), ReaderOf(b, s, W, Bytes), AllFollow(b, a, s)
  PROVE  Follows(ReadOption(b, s, p), ReadOption(a, s, p))
<1> DEFINE c == ReadMarker(s, p)
           x == ReadOption(a, s, p)
           y == ReadOption(b, s, p)
           u == a[c.pos]
           v == b[c.pos]
<1>1. x = IF c.err # "none" THEN Error(c.err, c.pos)
          ELSE IF c.val = <<0>> THEN c
          ELSE IF u.err # "none" THEN Error(u.err, u.pos)
          ELSE [u EXCEPT !.val = <<1>> \o u.val]
  BY OptionIs
<1>2. y = IF c.err # "none" THEN Error(c.err, c.pos)
          ELSE IF c.val = <<0>> THEN c
          ELSE IF v.err # "none" THEN Error(v.err, v.pos)
          ELSE [v EXCEPT !.val = <<1>> \o v.val]
  BY OptionIs
<1>3. \A e, j : Error(e, j).err = e
  BY DEF Error
<1>4. c.pos \in 0 .. Len(s)
  <2> HIDE DEF c
  <2>1. Returns(c, s, p, NoView, Exactly(1))
    BY MarkerReturns DEF c
  <2> QED BY <2>1, ReturnsParts
<1>5. Follows(v, u) /\ u \in Outcome(s, V) /\ v \in Outcome(s, W)
  BY <1>4 DEF AllFollow, ReaderOf, Returns
<1> DEFINE some(w) == [w EXCEPT !.val = <<1>> \o w.val]
<1> HIDE DEF c, x, y, u, v
<1>6. some(u).err = u.err /\ some(u).pos = u.pos /\ some(v).err = v.err /\ some(v).pos = v.pos
  BY <1>5 DEF Outcome
<1>7. /\ x = IF c.err # "none" THEN Error(c.err, c.pos)
             ELSE IF c.val = <<0>> THEN c
             ELSE IF u.err # "none" THEN Error(u.err, u.pos) ELSE some(u)
      /\ y = IF c.err # "none" THEN Error(c.err, c.pos)
             ELSE IF c.val = <<0>> THEN c
             ELSE IF v.err # "none" THEN Error(v.err, v.pos) ELSE some(v)
  BY <1>1, <1>2
<1> HIDE DEF some
<1>8. CASE c.err # "none" \/ c.val = <<0>>
  <2>1. x = y
    BY <1>7, <1>8
  <2> QED BY <2>1 DEF Follows, x, y
<1>9. CASE c.err = "none" /\ c.val # <<0>>
  <2>1. /\ x = IF u.err # "none" THEN Error(u.err, u.pos) ELSE some(u)
        /\ y = IF v.err # "none" THEN Error(v.err, v.pos) ELSE some(v)
    BY <1>7, <1>9
  <2>2. (x.err = "none" => u.err = "none" /\ x.pos = u.pos) /\ y.err = v.err
    BY <1>3, <1>6, <2>1
  <2>3. v.err = "none" => y.pos = v.pos
    BY <1>6, <2>1
  <2>4. Follows(y, x)
    BY <1>5, <2>2, <2>3 DEF Follows
  <2> QED BY <2>4 DEF x, y
<1> QED BY <1>8, <1>9

(* A scan goes as far as the owned decode.                                 *)
LEMMA SkipFollows ==
  ASSUME ItemsHaveLengths(Types), NEW s \in Bytes, NEW lim, NEW t \in Types, t.k # "fixed"
  PROVE  AllFollow(Skip(s, lim)[t], Own(s, lim)[t], s)
<1> DEFINE own == Own(s, lim)
           skip == Skip(s, lim)
           T == {r \in Types : r.k # "fixed" => AllFollow(skip[r], own[r], s)}
<1>1. ASSUME NEW r \in Types, Parts(r) \subseteq T, r.k # "fixed"
      PROVE  AllFollow(skip[r], own[r], s)
  <2> SUFFICES ASSUME NEW p \in 0 .. Len(s) PROVE Follows(skip[r][p], own[r][p])
    BY DEF AllFollow
  <2>1. CASE Borrowed(r) = "str"
    <3> DEFINE x == ReadString(s, p, lim)
               y == ReadBytes(s, p, lim)
    <3>1. skip[r][p] = y /\ own[r][p] = x
      BY <2>1, BorrowedIs, SkipIs, SkipOfIs, OwnIs, OwnOfIs
    <3>2. Follows(y, x)
      BY StringFollows
    <3> QED BY <3>1, <3>2
  <2>2. CASE Borrowed(r) = "bytes"
    <3> DEFINE y == ReadBytes(s, p, lim)
    <3>1. skip[r][p] = y
      BY <2>2, SkipIs, SkipOfIs
    <3>2. IsByteVec(r)
      BY <1>1, <2>2 DEF Borrowed
    <3>3. Follows(y, own[r][p])
      BY <3>2, ByteVecFollows
    <3> QED BY <3>1, <3>3
  <2>3. CASE Borrowed(r) = "view"
    <3> DEFINE y == SkipView(r, skip, s, p, lim)
    <3>1. skip[r][p] = y
      BY <2>3, SkipIs, SkipOfIs
    <3>2. r.k \in {"vec", "map"}
      BY <2>3, BorrowedIs
    <3>3. ASSUME NEW q \in Parts(r) PROVE q.k # "fixed"
      <4>1. r.of.k # "fixed"
        BY <2>3 DEF ItemsHaveLengths
      <4>2. r.k = "map" => r.key.k # "fixed"
        BY PartsAre
      <4> QED BY <3>2, <4>1, <4>2 DEF Parts
    <3>4. \A q \in Parts(r) : AllFollow(skip[q], own[q], s)
      BY <1>1, <3>3
    <3>5. Follows(y, own[r][p])
      BY <3>2, <3>4, ViewFollows
    <3> QED BY <3>1, <3>5
  <2>4. CASE Borrowed(r) = "owned"
    <3>1. skip[r][p] = own[r][p]
      BY <2>4, SkipIs, SkipOfIs
    <3> QED BY <3>1 DEF Follows
  <2> QED BY <2>1, <2>2, <2>3, <2>4, BorrowedIs
<1>2. \A r \in Types : Parts(r) \subseteq T => r \in T
  BY <1>1
<1>3. T \in SUBSET Types
  OBVIOUS
<1> HIDE DEF T
<1>4. T = Types
  BY <1>2, <1>3, TypeInduction
<1> QED BY <1>4 DEF T

(* So does the borrowed decode that scans,                                 *)
LEMMA BorrowFollows ==
  ASSUME ItemsHaveLengths(Types), NEW s \in Bytes, NEW lim, NEW t \in Types, t.k # "fixed",
         NEW p \in 0 .. Len(s)
  PROVE  Follows(Borrow(t, s, p, lim), Own(s, lim)[t][p])
<1> DEFINE x == Own(s, lim)[t][p]
           y == Borrow(t, s, p, lim)
<1>1. CASE Borrowed(t) = "str"
  <2>1. y = ReadString(s, p, lim)
    BY <1>1, BorrowIs
  <2>2. x = ReadString(s, p, lim)
    BY <1>1, BorrowedIs, OwnIs, OwnOfIs
  <2> QED BY <2>1, <2>2 DEF Follows
<1>2. CASE Borrowed(t) = "bytes"
  <2>1. y = ReadBytes(s, p, lim)
    BY <1>2, BorrowIs
  <2>2. IsByteVec(t)
    BY <1>2 DEF Borrowed
  <2> QED BY <2>1, <2>2, ByteVecFollows
<1>3. CASE Borrowed(t) = "view"
  <2> DEFINE c == ReadCount(s, p, lim)
             scan == Skip(s, lim)[t][p]
             v == [ty |-> t, bytes |-> SubSeq(s, c.pos + 1, scan.pos),
                   count |-> c.val, max_size |-> ViewSize(lim)]
             o == Value(scan.pos, EncodeVarint[c.val], << >>)
             z == [o EXCEPT !.view = <<v>>]
  <2>1. y = View(t, s, p, lim)
    BY <1>3, BorrowIs
  <2>2. y = IF c.err # "none" THEN Error(c.err, c.pos)
            ELSE IF scan.err # "none" THEN Error(scan.err, scan.pos) ELSE z
    BY <2>1, ViewIs
  <2>3. z.err = "none" /\ z.pos = scan.pos
    <3> HIDE DEF v
    <3> QED BY DEF Value
  <2>4. Follows(scan, x)
    BY SkipFollows DEF AllFollow
  <2>5. scan = IF c.err # "none" THEN Error(c.err, c.pos)
               ELSE Repeat(Item(t, Skip(s, lim)), c.pos, c.val)
    <3>1. scan = SkipView(t, Skip(s, lim), s, p, lim)
      BY <1>3, SkipIs, SkipOfIs
    <3> HIDE DEF scan
    <3> QED BY <3>1, SkipViewIs
  <2>6. \A e, j : Error(e, j).err = e
    BY DEF Error
  <2> HIDE DEF x, y, z, scan, c
  <2>7. c.err # "none" => y.err = scan.err
    BY <2>2, <2>5, <2>6
  <2>8. c.err = "none" /\ scan.err # "none" => y.err = scan.err
    BY <2>2, <2>6
  <2>9. scan.err = "none" => c.err = "none"
    BY <2>5, <2>6
  <2>10. scan.err = "none" => y.err = "none" /\ y.pos = scan.pos
    BY <2>2, <2>3, <2>9
  <2>11. y.err = scan.err
    BY <2>7, <2>8, <2>10
  <2>12. Follows(y, x)
    BY <2>4, <2>10, <2>11 DEF Follows
  <2> QED BY <2>12 DEF x, y
<1>4. CASE Borrowed(t) = "owned"
  <2>1. y = x
    BY <1>4, BorrowIs
  <2> QED BY <2>1 DEF Follows
<1> QED BY <1>1, <1>2, <1>3, <1>4, BorrowedIs

(* and that of a field.                                                    *)
LEMMA FieldFollows ==
  ASSUME ItemsHaveLengths(Types), NEW s \in Bytes, NEW lim, lim.packet \in Nat,
         Len(s) <= lim.packet, NEW t \in Types
  PROVE  AllFollow(BorrowField(s, lim)[t], Own(s, lim)[t], s)
<1> DEFINE own == Own(s, lim)
           borrow == BorrowField(s, lim)
           T == {r \in Types : AllFollow(borrow[r], own[r], s)}
<1>1. ASSUME NEW r \in Types, Parts(r) \subseteq T PROVE AllFollow(borrow[r], own[r], s)
  <2> SUFFICES ASSUME NEW p \in 0 .. Len(s) PROVE Follows(borrow[r][p], own[r][p])
    BY DEF AllFollow
  <2>1. CASE r.k = "fixed"
    <3>1. borrow[r][p] = ReadSlice(s, p, r.n)
      BY <2>1, BorrowFieldIs, BorrowOfIs
    <3>2. own[r][p] = ReadSlice(s, p, r.n)
      BY <2>1, OwnIs, OwnOfIs
    <3> QED BY <3>1, <3>2 DEF Follows
  <2>2. CASE r.k = "option"
    <3>1. borrow[r][p] = ReadOption(borrow[r.of], s, p)
      BY <2>2, BorrowFieldIs, BorrowOfIs
    <3>2. own[r][p] = ReadOption(own[r.of], s, p)
      BY <2>2, OwnIs, OwnOfIs
    <3>3. r.of \in Parts(r)
      BY <2>2, PartsAre
    <3>4. AllFollow(borrow[r.of], own[r.of], s)
      BY <1>1, <3>3
    <3>5. ReaderOf(own[r.of], s, NoView, Bytes) /\ ReaderOf(borrow[r.of], s, Views, Bytes)
      <4>1. r.of \in Types
        BY <2>2, PartsAre
      <4> QED BY <4>1, OwnWider, BorrowFieldReads
    <3> DEFINE a == own[r.of]
               b == borrow[r.of]
    <3> HIDE DEF a, b
    <3>6. Follows(ReadOption(b, s, p), ReadOption(a, s, p))
      BY <3>4, <3>5, OptionFollows DEF a, b
    <3> QED BY <3>1, <3>2, <3>6 DEF a, b
  <2>3. CASE r.k \notin {"fixed", "option"}
    <3>1. borrow[r][p] = Borrow(r, s, p, lim)
      BY <2>3, BorrowFieldIs, BorrowOfIs
    <3>2. Follows(Borrow(r, s, p, lim), own[r][p])
      BY <2>3, BorrowFollows
    <3> QED BY <3>1, <3>2
  <2> QED BY <2>1, <2>2, <2>3
<1>2. \A r \in Types : Parts(r) \subseteq T => r \in T
  BY <1>1
<1>3. T \in SUBSET Types
  OBVIOUS
<1> HIDE DEF T
<1>4. T = Types
  BY <1>2, <1>3, TypeInduction
<1> QED BY <1>4 DEF T

(* What the owned decode accepts, the borrowed one does too, but for limits*)
LEMMA DecodeOpens ==
  ASSUME ItemsHaveLengths(Types), packet \in Packets, limits \in Limits, field \in Fields,
         Len(packet) <= limits.packet, Owned.err = "none"
  PROVE  BorrowedDecode.err \in {"none", "PacketTooLarge"}
<1> DEFINE t == field.ty
           x == OwnField(field, packet, limits)
           z == BorrowField(packet, limits)[t][0]
<1>1. packet \in Bytes /\ 0 \in 0 .. Len(packet) /\ limits.packet \in Nat /\ t \in Types
  BY PacketIs
<1>2. Owned = IF x.err # "none" THEN Error(x.err, x.pos)
              ELSE IF x.pos # Len(packet) THEN Error("MalformedConstructor", x.pos) ELSE x
  BY DEF Owned, OwnedDecode, Finished, Try
<1>3. BorrowedDecode = IF z.err # "none" THEN Error(z.err, z.pos)
                       ELSE IF z.pos # Len(packet) THEN Error("MalformedConstructor", z.pos) ELSE z
  BY DEF BorrowedDecode, Finished, Try
<1>4. \A e, j : Error(e, j).err = e
  BY DEF Error
<1>5. Follows(z, x)
  <2>1. CASE ~IsByteVec(t)
    <3>1. x = Own(packet, limits)[t][0]
      BY <2>1 DEF OwnField
    <3>2. AllFollow(BorrowField(packet, limits)[t], Own(packet, limits)[t], packet)
      BY <1>1, FieldFollows
    <3> QED BY <1>1, <3>1, <3>2 DEF AllFollow
  <2>2. CASE IsByteVec(t)
    <3> DEFINE y == ReadBytes(packet, 0, limits)
    <3>1. x = IF y.err # "none" THEN Error(y.err, y.pos)
              ELSE IF field.exact # {} /\ Len(y.key) \notin field.exact
                THEN Error("MalformedConstructor", y.pos)
              ELSE y
      BY <2>2 DEF OwnField, Try
    <3>2. t.k = "vec" /\ Borrowed(t) = "bytes"
      BY <2>2 DEF IsByteVec, Borrowed
    <3>3. z = Borrow(t, packet, 0, limits)
      BY <1>1, <3>2, BorrowFieldIs, BorrowOfIs
    <3>4. z = y
      BY <1>1, <3>2, <3>3, BorrowIs
    <3> HIDE DEF x, y, z
    <3>5. x.err = "none" => x = y
      BY <1>4, <3>1
    <3> QED BY <3>4, <3>5 DEF Follows
  <2> QED BY <2>1, <2>2
<1> HIDE DEF x, z
<1>6. Owned.err = "none"
  OBVIOUS
<1>7. x.err = "none" /\ x.pos = Len(packet)
  BY <1>2, <1>4, <1>6
<1>8. z.err = "PacketTooLarge" \/ (z.err = "none" /\ z.pos = Len(packet))
  BY <1>5, <1>7 DEF Follows
<1> QED BY <1>3, <1>4, <1>8

(* A message is refused for the outcome of its borrowed decode.            *)
OpenInv == WalkInv /\ (phase = "refused" => BorrowedDecode.err # "none")

LEMMA OpenInvariance ==
  /\ Init => OpenInv
  /\ OpenInv /\ [Next]_vars => OpenInv'
<1>1. Init => OpenInv
  <2>1. Init => phase = "start"
    BY DEF Init
  <2> QED BY <2>1, WalkInit DEF OpenInv
<1>2. ASSUME OpenInv, [Next]_vars PROVE OpenInv'
  <2>1. WalkInv'
    BY <1>2, WalkStep DEF OpenInv
  <2>2. UNCHANGED <<packet, field, limits>>
    BY <1>2 DEF Next, Open, NextItem, EndOfView, Done, vars
  <2>3. BorrowedDecode' = BorrowedDecode
    BY <2>2 DEF BorrowedDecode
  <2>4. \/ phase' = phase \/ phase' = "done"
        \/ phase' = IF BorrowedDecode.err = "none" THEN "walking" ELSE "refused"
    BY <1>2, Zenon DEF Next, Open, Opening, NextItem, EndOfView, Done, vars
  <2> QED BY <1>2, <2>1, <2>3, <2>4 DEF OpenInv
<1> QED BY <1>1, <1>2

LEMMA OpenedIfDecoded ==
  ASSUME ItemsHaveLengths(Types)
  PROVE  OpenInv => DecodedIsOpened
<1> SUFFICES ASSUME OpenInv, Owned.err = "none", phase = "refused"
             PROVE  BorrowedDecode.err = "PacketTooLarge"
  BY DEF DecodedIsOpened
<1>1. BorrowedDecode.err \in {"none", "PacketTooLarge"}
  BY DecodeOpens DEF OpenInv, WalkInv
<1> QED BY <1>1 DEF OpenInv

(* What the owned decode accepts, the borrowed decode opens, but for its   *)
(* limit on a Vec<u8> (wire.rs:589-613, 624-662).                          *)
THEOREM DecodedOpens ==
  ASSUME ItemsHaveLengths(Types)
  PROVE  Spec => []DecodedIsOpened
BY OpenedIfDecoded, OpenInvariance, PTL DEF Spec

-----------------------------------------------------------------------------
(* An entry inserted in order                                              *)

(* What goes down to 1 is the numbers up to one of them.                   *)
LEMMA LowerNumbers ==
  ASSUME NEW n \in Nat, NEW T \in SUBSET (1 .. n), \A i \in T : \A j \in 1 .. n : j < i => j \in T
  PROVE  \E m \in 0 .. n : T = 1 .. m /\ Cardinality(T) = m
<1> DEFINE D == {m \in 0 .. n : m + 1 \notin T}
<1>1. D \in SUBSET Nat /\ D # {}
  <2>1. n \in 0 .. n /\ n + 1 \notin T
    OBVIOUS
  <2>2. n \in D
    BY <2>1
  <2>3. \A m \in D : m \in Nat
    OBVIOUS
  <2> QED BY <2>2, <2>3
<1>2. PICK m \in D : \A j \in D : m <= j
  BY <1>1, NatMinimum
<1>3. m \in 0 .. n /\ m \in Nat /\ m + 1 \notin T
  OBVIOUS
<1>4. ASSUME NEW j \in 1 .. m PROVE j \in T
  <2>1. j - 1 \in 0 .. n /\ j - 1 < m /\ j - 1 + 1 = j
    BY <1>3
  <2>2. j - 1 \notin D
    BY <1>2, <1>3, <2>1
  <2> QED BY <2>1, <2>2
<1>5. ASSUME NEW j \in T PROVE j \in 1 .. m
  <2> SUFFICES ASSUME j > m PROVE FALSE
    BY <1>3
  <2>1. m + 1 \in 1 .. n /\ (m + 1 < j \/ m + 1 = j)
    BY <1>3
  <2> QED BY <1>3, <2>1
<1>6. T = 1 .. m
  BY <1>4, <1>5
<1>7. Cardinality(1 .. m) = m
  <2>1. m \in Int /\ 1 \in Int
    BY <1>3
  <2>2. Cardinality(1 .. m) = IF 1 > m THEN 0 ELSE m - 1 + 1
    BY <2>1, FS_Interval
  <2> QED BY <1>3, <2>2
<1> QED BY <1>3, <1>6, <1>7

(* Of two keys that differ, one is less.                                   *)
LEMMA KeyLessTotal ==
  ASSUME NEW a \in Bytes, NEW b \in Bytes, a # b
  PROVE  KeyLess(a, b) \/ KeyLess(b, a)
<1> DEFINE D == {n \in Nat : n = Len(a) \/ n = Len(b) \/ a[n + 1] # b[n + 1]}
<1>1. Len(a) \in Nat /\ Len(b) \in Nat
  BY DEF Bytes
<1>2. PICK m \in D : \A j \in D : m <= j
  <2>1. D \in SUBSET Nat /\ D # {}
    BY <1>1
  <2> QED BY <2>1, NatMinimum
<1>3. m \in Nat /\ m <= Len(a) /\ m <= Len(b)
  BY <1>1, <1>2
<1>4. Agree(a, b, m) /\ Agree(b, a, m)
  <2>1. ASSUME NEW i \in 1 .. m PROVE a[i] = b[i]
    <3>1. i - 1 \in Nat /\ i - 1 < m /\ i - 1 + 1 = i
      BY <1>3
    <3> DEFINE j == i - 1
    <3>2. j \in Nat /\ ~(m <= j)
      BY <1>3, <3>1
    <3> HIDE DEF j
    <3>3. j \notin D
      BY <1>2, <3>2
    <3>4. a[j + 1] = b[j + 1]
      BY <3>2, <3>3
    <3> QED BY <3>1, <3>4 DEF j
  <2> QED BY <2>1 DEF Agree
<1>5. CASE m = Len(a) /\ m = Len(b)
  BY <1>4, <1>5, SameBytes DEF Agree
<1>6. CASE m < Len(b) /\ (m = Len(a) \/ a[m + 1] < b[m + 1])
  <2>1. LessAt(a, b, m)
    BY <1>1, <1>3, <1>4, <1>6 DEF LessAt
  <2> QED BY <1>3, <2>1, KeyLessIs
<1>7. CASE m < Len(a) /\ (m = Len(b) \/ b[m + 1] < a[m + 1])
  <2>1. LessAt(b, a, m)
    BY <1>1, <1>3, <1>4, <1>7 DEF LessAt
  <2> QED BY <1>3, <2>1, KeyLessIs
<1>8. ASSUME m < Len(a), m < Len(b)
      PROVE  a[m + 1] < b[m + 1] \/ b[m + 1] < a[m + 1]
  <2>1. m + 1 \in 1 .. Len(a) /\ m + 1 \in 1 .. Len(b)
    BY <1>1, <1>3, <1>8
  <2>2. a[m + 1] \in Nat /\ b[m + 1] \in Nat
    BY <2>1, BytesAreNumbers
  <2>3. a[m + 1] # b[m + 1]
    BY <1>8, <1>2, <1>1
  <2> QED BY <2>2, <2>3
<1> QED BY <1>1, <1>3, <1>5, <1>6, <1>7, <1>8

(* Two sequences, one after the other.                                     *)
IsJoin(z, s, t) ==
  /\ Len(z) = Len(s) + Len(t)
  /\ \A i \in 1 .. Len(s) : z[i] = s[i]
  /\ \A i \in 1 .. Len(t) : z[Len(s) + i] = t[i]

LEMMA SequencesJoin ==
  ASSUME NEW S, NEW s \in Seq(S), NEW t \in Seq(S)
  PROVE  s \o t \in Seq(S) /\ IsJoin(s \o t, s, t)
BY DEF IsJoin

(* Entries with ascending keys.                                            *)
Ascending(entries) ==
  \A i, j \in 1 .. Len(entries) : i < j => KeyLess(entries[i].key, entries[j].key)

(* Insert keeps them so, and makes none up.                                *)
LEMMA InsertAscends ==
  ASSUME NEW entry \in Piece, NEW entries \in Seq(Piece), Ascending(entries),
         ~IsDuplicate(entry.key, entries), NEW z, z = Insert(entry, entries)
  PROVE  /\ z \in Seq(Piece) /\ Len(z) = Len(entries) + 1 /\ Ascending(z)
         /\ \A i \in 1 .. Len(z) : z[i] = entry \/ \E j \in 1 .. Len(entries) : z[i] = entries[j]
<1> DEFINE n == Len(entries)
           c == entry.key
           T == {i \in 1 .. n : KeyLess(entries[i].key, c)}
<1>1. n \in Nat /\ DOMAIN entries = 1 .. n /\ \A i \in 1 .. n : entries[i] \in Piece
  OBVIOUS
<1>2. c \in Bytes /\ \A i \in 1 .. n : entries[i].key \in Bytes
  BY <1>1 DEF Piece
<1>3. \A i \in T : \A j \in 1 .. n : j < i => j \in T
  <2> SUFFICES ASSUME NEW i \in T, NEW j \in 1 .. n, j < i PROVE KeyLess(entries[j].key, c)
    OBVIOUS
  <2>1. KeyLess(entries[j].key, entries[i].key) /\ KeyLess(entries[i].key, c)
    BY DEF Ascending
  <2> QED BY <1>2, <2>1, KeyLessTransitive
<1>4. PICK m \in 0 .. n : T = 1 .. m /\ Cardinality(T) = m
  <2>1. T \in SUBSET (1 .. n)
    OBVIOUS
  <2> HIDE DEF T, n
  <2> QED BY <1>1, <1>3, <2>1, LowerNumbers
<1>5. \A i \in 1 .. m : KeyLess(entries[i].key, c)
  BY <1>4
<1>6. ASSUME NEW i \in m + 1 .. n PROVE KeyLess(c, entries[i].key)
  <2>1. i \in 1 .. n /\ i \notin 1 .. m
    BY <1>1
  <2>2. ~KeyLess(entries[i].key, c)
    BY <1>4, <2>1
  <2>3. entries[i].key # c
    BY <1>1, <2>1 DEF IsDuplicate
  <2> QED BY <1>2, <2>1, <2>2, <2>3, KeyLessTotal
<1>7. z = SubSeq(entries, 1, m) \o <<entry>> \o SubSeq(entries, m + 1, n)
  <2> DEFINE k == m + 1
  <2>1. k - 1 = m
    BY <1>1
  <2>2. z = InsertAt(entries, k, entry)
    BY <1>1, <1>4 DEF Insert
  <2> HIDE DEF k
  <2>3. z = SubSeq(entries, 1, k - 1) \o <<entry>> \o SubSeq(entries, k, Len(entries))
    BY <2>2, InsertAtIs
  <2> QED BY <2>1, <2>3 DEF k
<1>8. /\ z \in Seq(Piece) /\ Len(z) = n + 1
      /\ \A i \in 1 .. m : z[i] = entries[i]
      /\ z[m + 1] = entry
      /\ \A i \in m + 2 .. n + 1 : z[i] = entries[i - 1]
  <2> DEFINE a == SubSeq(entries, 1, m)
             b == SubSeq(entries, m + 1, n)
  <2>1. a \in Seq(Piece) /\ Len(a) = m /\ \A i \in 1 .. m : a[i] = entries[i]
    BY <1>1
  <2>2. b \in Seq(Piece) /\ Len(b) = n - m /\ \A i \in 1 .. n - m : b[i] = entries[m + i]
    <3>1. m + 1 \in 1 .. n + 1 /\ n \in m + 1 - 1 .. n
      BY <1>1
    <3>2. /\ b \in Seq(Piece) /\ Len(b) = n - (m + 1) + 1
          /\ \A i \in 1 .. n - (m + 1) + 1 : b[i] = entries[m + 1 + i - 1]
      BY <3>1, SubSeqProperties
    <3>3. n - (m + 1) + 1 = n - m /\ \A i \in 1 .. n - m : m + 1 + i - 1 = m + i
      BY <1>1
    <3> HIDE DEF b
    <3> QED BY <3>2, <3>3
  <2> HIDE DEF a, b
  <2> DEFINE d == a \o <<entry>>
  <2>3. /\ d \in Seq(Piece) /\ Len(d) = m + 1 /\ \A i \in 1 .. m : d[i] = a[i]
        /\ d[m + 1] = entry
    BY <1>1, <2>1
  <2> HIDE DEF d
  <2>4. z = d \o b
    BY <1>7 DEF a, b, d
  <2>5. /\ z \in Seq(Piece) /\ Len(z) = n + 1
        /\ \A i \in 1 .. m + 1 : z[i] = d[i]
        /\ \A i \in 1 .. n - m : z[m + 1 + i] = b[i]
    <3>1. z \in Seq(Piece) /\ IsJoin(z, d, b)
      BY <2>2, <2>3, <2>4, SequencesJoin
    <3>2. m + 1 + (n - m) = n + 1
      BY <1>1
    <3> QED BY <2>2, <2>3, <3>1, <3>2 DEF IsJoin
  <2>6. ASSUME NEW i \in m + 2 .. n + 1 PROVE z[i] = entries[i - 1]
    <3> DEFINE j == i - m - 1
    <3>1. j \in 1 .. n - m /\ m + 1 + j = i /\ m + j = i - 1
      BY <1>1
    <3> HIDE DEF j
    <3> QED BY <2>2, <2>5, <3>1
  <2>7. m + 1 \in 1 .. m + 1 /\ 1 .. m \subseteq 1 .. m + 1
    BY <1>1
  <2> QED BY <2>1, <2>3, <2>5, <2>6, <2>7
<1>9. ASSUME NEW i \in 1 .. n + 1
      PROVE  i \in 1 .. m \/ i = m + 1 \/ (i \in m + 2 .. n + 1 /\ i - 1 \in m + 1 .. n)
  BY <1>1
<1>10. Ascending(z)
  <2> SUFFICES ASSUME NEW i \in 1 .. n + 1, NEW j \in 1 .. n + 1, i < j
               PROVE  KeyLess(z[i].key, z[j].key)
    BY <1>8 DEF Ascending
  <2>1. CASE j \in 1 .. m
    <3>1. i \in 1 .. m /\ i \in 1 .. n /\ j \in 1 .. n
      BY <1>1, <2>1
    <3> QED BY <1>8, <2>1, <3>1 DEF Ascending
  <2>2. CASE j = m + 1
    <3>1. i \in 1 .. m
      BY <1>1, <2>2
    <3> QED BY <1>5, <1>8, <2>2, <3>1
  <2>3. CASE j \in m + 2 .. n + 1 /\ j - 1 \in m + 1 .. n
    <3>1. z[j] = entries[j - 1] /\ j - 1 \in 1 .. n
      BY <1>1, <1>8, <2>3
    <3>2. CASE i \in 1 .. m
      <4>1. i \in 1 .. n /\ i < j - 1
        BY <1>1, <2>3, <3>2
      <4> QED BY <1>8, <3>1, <3>2, <4>1 DEF Ascending
    <3>3. CASE i = m + 1
      BY <1>6, <1>8, <2>3, <3>1, <3>3
    <3>4. CASE i \in m + 2 .. n + 1 /\ i - 1 \in m + 1 .. n
      <4>1. z[i] = entries[i - 1] /\ i - 1 \in 1 .. n /\ i - 1 < j - 1
        BY <1>1, <1>8, <3>4
      <4> QED BY <3>1, <4>1 DEF Ascending
    <3> QED BY <1>9, <3>2, <3>3, <3>4
  <2> QED BY <1>9, <2>1, <2>2, <2>3
<1>11. ASSUME NEW i \in 1 .. n + 1
       PROVE  z[i] = entry \/ \E j \in 1 .. n : z[i] = entries[j]
  <2>1. 1 .. m \subseteq 1 .. n /\ m + 1 .. n \subseteq 1 .. n
    BY <1>1
  <2> QED BY <1>8, <1>9, <2>1
<1> QED BY <1>8, <1>10, <1>11

(* The first entry, and those after it.                                    *)
LEMMA ConcatFirst ==
  ASSUME NEW entries \in Seq(Piece), entries # << >>
  PROVE  Concat(entries) = Then(entries[1].val, Concat(Tail(entries)))
<1> DEFINE n == Len(entries)
           tail == Tail(entries)
           v == [i \in DOMAIN entries |-> entries[i].val]
           w == [i \in DOMAIN tail |-> tail[i].val]
<1>1. /\ n \in Nat /\ n > 0 /\ DOMAIN entries = 1 .. n
      /\ \A i \in 1 .. n : entries[i] \in Piece
      /\ tail \in Seq(Piece) /\ Len(tail) = n - 1 /\ DOMAIN tail = 1 .. n - 1
      /\ \A i \in 1 .. n - 1 : tail[i] = entries[i + 1]
  OBVIOUS
<1>2. Concat(entries) = FlattenSeq(v) /\ Concat(tail) = FlattenSeq(w)
  BY DEF Concat
<1> HIDE DEF n, tail
<1>3. /\ v \in Seq(Seq(Byte)) /\ Len(v) = n /\ v # << >>
      /\ \A i \in 1 .. n : v[i] = entries[i].val
  <2>1. \A i \in 1 .. n : entries[i].val \in Seq(Byte)
    BY <1>1 DEF Piece, Bytes
  <2>2. v \in Seq(Seq(Byte)) /\ Len(v) = n /\ \A i \in 1 .. n : v[i] = entries[i].val
    BY <1>1, <2>1
  <2> HIDE DEF v
  <2>3. v # << >>
    BY <1>1, <2>2
  <2> QED BY <2>2, <2>3
<1>4. /\ w \in Seq(Seq(Byte)) /\ Len(w) = n - 1
      /\ \A i \in 1 .. n - 1 : w[i] = entries[i + 1].val
  <2>1. \A i \in 1 .. n - 1 : i + 1 \in 1 .. n
    BY <1>1
  <2>2. \A i \in 1 .. n - 1 : entries[i + 1].val \in Seq(Byte)
    BY <1>1, <2>1 DEF Piece, Bytes
  <2>3. n - 1 \in Nat
    BY <1>1
  <2> QED BY <1>1, <2>2, <2>3
<1> HIDE DEF v, w
<1>5. Tail(v) = w
  <2> DEFINE b == Tail(v)
  <2>1. b \in Seq(Seq(Byte)) /\ Len(b) = n - 1 /\ \A i \in 1 .. n - 1 : b[i] = v[i + 1]
    BY <1>1, <1>3
  <2>2. \A i \in 1 .. n - 1 : i + 1 \in 1 .. n
    BY <1>1
  <2> HIDE DEF b
  <2>3. \A i \in 1 .. n - 1 : b[i] = w[i]
    BY <1>3, <1>4, <2>1, <2>2
  <2>4. b = w
    BY <1>4, <2>1, <2>3, SeqEqual
  <2> QED BY <2>4 DEF b
<1>6. Head(v) = entries[1].val
  BY <1>1, <1>3
<1>7. FlattenSeq(v) = Then(Head(v), FlattenSeq(Tail(v)))
  BY <1>3, FlattenCons, Zenon DEF Then
<1> QED BY <1>2, <1>5, <1>6, <1>7 DEF tail

(* A key, written, and a value of L.                                       *)
IsEntry(key, val, t, L) == key \in Keys(t) /\ \E v \in L : val = Then(KeyCode(t, key), v)

(* The entries of an owned map.                                            *)
Listed(entries, t, L) ==
  /\ Ascending(entries)
  /\ \A i \in 1 .. Len(entries) : IsEntry(entries[i].key, entries[i].val, t, L)

(* In the order of its iteration they are canonical.                       *)
LEMMA ListedSorted ==
  ASSUME NEW t, NEW L, NEW entries \in Seq(Piece), Listed(entries, t, L)
  PROVE  Concat(entries) \in Sorted(t, L, Len(entries), {})
<1> DEFINE Good(n) ==
             \A e \in Seq(Piece) : Len(e) = n /\ Listed(e, t, L) =>
               \A keys : (n > 0 => \A c \in keys : KeyLess(c, e[1].key)) =>
                 Concat(e) \in Sorted(t, L, n, keys)
           T == {n \in Nat : Good(n)}
<1>1. Good(0)
  <2> SUFFICES ASSUME NEW e \in Seq(Piece), Len(e) = 0, NEW keys
               PROVE  Concat(e) \in Sorted(t, L, 0, keys)
    OBVIOUS
  <2>1. e = << >>
    OBVIOUS
  <2>2. Concat(<< >>) = << >>
    <3>1. [i \in DOMAIN << >> |-> << >>[i].val] = << >>
      OBVIOUS
    <3> QED BY <3>1, FlattenEmpty DEF Concat
  <2> QED BY <2>1, <2>2, SortedNone
<1>2. ASSUME NEW n \in Nat, Good(n) PROVE Good(n + 1)
  <2> SUFFICES ASSUME NEW e \in Seq(Piece), Len(e) = n + 1, Listed(e, t, L), NEW keys,
                      n + 1 > 0 => \A c \in keys : KeyLess(c, e[1].key)
               PROVE  Concat(e) \in Sorted(t, L, n + 1, keys)
    OBVIOUS
  <2> DEFINE d == Tail(e)
             c == e[1].key
             x == Concat(d)
  <2>1. /\ d \in Seq(Piece) /\ Len(d) = n /\ \A i \in 1 .. n : d[i] = e[i + 1]
        /\ 1 \in 1 .. n + 1 /\ e # << >> /\ n + 1 > 0
        /\ \A i \in 1 .. n : i + 1 \in 1 .. n + 1 /\ 1 < i + 1
        /\ \A i, j \in 1 .. n : i < j => i + 1 < j + 1
    OBVIOUS
  <2> HIDE DEF d
  <2>2. \A i, j \in 1 .. n + 1 : i < j => KeyLess(e[i].key, e[j].key)
    BY DEF Listed, Ascending
  <2>3. \A i \in 1 .. n + 1 : IsEntry(e[i].key, e[i].val, t, L)
    BY DEF Listed
  <2>4. Listed(d, t, L)
    <3>1. Ascending(d)
      BY <2>1, <2>2 DEF Ascending
    <3>2. \A i \in 1 .. n : IsEntry(d[i].key, d[i].val, t, L)
      BY <2>1, <2>3
    <3> QED BY <2>1, <3>1, <3>2 DEF Listed
  <2>5. n > 0 => \A b \in {c} : KeyLess(b, d[1].key)
    <3> SUFFICES ASSUME n > 0 PROVE KeyLess(c, d[1].key)
      OBVIOUS
    <3>1. 1 \in 1 .. n
      OBVIOUS
    <3>2. d[1] = e[1 + 1] /\ 1 + 1 \in 1 .. n + 1 /\ 1 < 1 + 1
      BY <2>1, <3>1
    <3> QED BY <2>1, <2>2, <3>2
  <2>6. x \in Sorted(t, L, n, {c})
    BY <1>2, <2>1, <2>4, <2>5
  <2>7. IsEntry(c, e[1].val, t, L)
    BY <2>1, <2>3
  <2>8. PICK v \in L : e[1].val = Then(KeyCode(t, c), v)
    BY <2>7 DEF IsEntry
  <2>9. Concat(e) = Then(e[1].val, x)
    BY <2>1, ConcatFirst DEF d
  <2>10. Concat(e) \in Bytes
    BY ConcatIsBytes
  <2>11. \A b \in keys : KeyLess(b, c)
    BY <2>1
  <2> HIDE DEF c, x
  <2>12. c \in Keys(t) /\ Concat(e) = Then(Then(KeyCode(t, c), v), x)
    BY <2>7, <2>8, <2>9 DEF IsEntry
  <2>13. Concat(e) \in OneSorted(t, L, n, keys)
    BY <2>6, <2>10, <2>11, <2>12 DEF OneSorted
  <2> QED BY <2>13, SortedFirst
<1> HIDE DEF Good
<1>3. T = Nat
  <2>1. T \in SUBSET Nat /\ 0 \in T /\ \A i \in T : i + 1 \in T
    BY <1>1, <1>2
  <2> HIDE DEF T
  <2> QED BY <2>1, NatInductionOnSets
<1>4. Len(entries) \in Nat
  OBVIOUS
<1>5. Good(Len(entries))
  BY <1>3, <1>4
<1>6. Len(entries) > 0 => \A c \in {} : KeyLess(c, entries[1].key)
  OBVIOUS
<1> QED BY <1>5, <1>6 DEF Good

-----------------------------------------------------------------------------
(* What the owned decode gives is canonical                                *)

(* A reader that gives only values of L, and one that gives only entries.  *)
Gives(reader, s, L) ==
  \A p \in 0 .. Len(s) : reader[p].err = "none" => reader[p].val \in L
GivesEntries(reader, s, t, L) ==
  \A p \in 0 .. Len(s) : reader[p].err = "none" => IsEntry(reader[p].key, reader[p].val, t, L)

(* A reader over and over gives as many of them,                           *)
LEMMA RepeatGives ==
  ASSUME NEW s \in Bytes, NEW p \in 0 .. Len(s), NEW n \in Nat, NEW W, NEW L, L \subseteq Bytes,
         NEW reader, ReaderOf(reader, s, W, Bytes), Gives(reader, s, L),
         Repeat(reader, p, n).err = "none"
  PROVE  Repeat(reader, p, n).val \in Joined(L, n)
<1>1. PICK f : Repeats(f, reader, p, n) /\ Repeat(reader, p, n) = f[n]
  BY RepeatIs
<1>2. f[0] = Value(p, << >>, << >>) /\ \A i \in 1 .. n : f[i] = After(reader, f[i - 1], << >>)
  BY <1>1 DEF Repeats
<1> DEFINE Good(i) == f[i].pos \in 0 .. Len(s) /\ (f[i].err = "none" => f[i].val \in Joined(L, i))
           T == {i \in Nat : i <= n => Good(i)}
<1>3. Good(0)
  BY <1>2, JoinedNone DEF Value
<1>4. ASSUME NEW i \in Nat, Good(i), i + 1 <= n PROVE Good(i + 1)
  <2> DEFINE k == i + 1
             x == f[i]
             y == reader[x.pos]
             z == f[k]
  <2>1. z = After(reader, x, << >>)
    <3>1. k \in 1 .. n /\ k - 1 = i
      BY <1>4
    <3> HIDE DEF k
    <3> QED BY <1>2, <3>1
  <2>2. x.pos \in 0 .. Len(s) /\ (x.err = "none" => x.val \in Joined(L, i))
    BY <1>4
  <2>3. Joined(L, k) = TwoOf(Joined(L, i), L)
    BY JoinedMore
  <2> HIDE DEF x, k
  <2>4. z = IF x.err # "none" THEN Error(x.err, x.pos)
            ELSE IF y.err # "none" THEN Error(y.err, y.pos)
            ELSE Value(y.pos, Then(x.val, y.val), << >>)
    BY <2>1, Zenon DEF After, Then
  <2>5. y.pos \in 0 .. Len(s) /\ y.val \in Bytes /\ (y.err = "none" => y.val \in L)
    <3>1. Returns(y, s, x.pos, W, Bytes)
      BY <2>2 DEF ReaderOf
    <3> HIDE DEF y
    <3>2. y.pos \in 0 .. Len(s) /\ y.val \in Bytes
      BY <2>2, <3>1, ReturnsParts
    <3>3. y.err = "none" => y.val \in L
      BY <2>2 DEF Gives, y
    <3> QED BY <3>2, <3>3
  <2> HIDE DEF y, z
  <2>6. CASE x.err # "none"
    <3>1. z.err = x.err /\ z.pos = x.pos
      BY <2>4, <2>6 DEF Error
    <3> QED BY <2>2, <2>6, <3>1 DEF k, z
  <2>7. CASE x.err = "none" /\ y.err # "none"
    <3>1. z.err = y.err /\ z.pos = y.pos
      BY <2>4, <2>7 DEF Error
    <3> QED BY <2>5, <2>7, <3>1 DEF k, z
  <2>8. CASE x.err = "none" /\ y.err = "none"
    <3>1. z.pos = y.pos /\ z.val = Then(x.val, y.val)
      BY <2>4, <2>8 DEF Value
    <3>2. x.val \in Joined(L, i) /\ y.val \in L
      BY <2>2, <2>5, <2>8
    <3>3. Then(x.val, y.val) \in Bytes
      BY <2>5, <3>2, JoinedBytes, JoinFacts DEF Then
    <3>4. z.val \in TwoOf(Joined(L, i), L)
      BY <3>1, <3>2, <3>3, Zenon DEF TwoOf, Then
    <3> QED BY <2>3, <2>5, <3>1, <3>4 DEF k, z
  <2> QED BY <2>6, <2>7, <2>8
<1> HIDE DEF Good
<1>5. T = Nat
  <2>1. T \in SUBSET Nat /\ 0 \in T /\ \A i \in T : i + 1 \in T
    BY <1>3, <1>4
  <2> HIDE DEF T
  <2> QED BY <2>1, NatInductionOnSets
<1>6. Good(n)
  BY <1>5
<1> QED BY <1>1, <1>6 DEF Good

(* one more entry keeps a map in order,                                    *)
LEMMA AddingGives ==
  ASSUME NEW s \in Bytes, NEW t, NEW L, NEW W, NEW reader, ReaderOf(reader, s, W, Bytes),
         GivesEntries(reader, s, t, L), NEW x \in Entries(s),
         x.err = "none" => Listed(x.val, t, L), Adding(reader, x).err = "none"
  PROVE  Listed(Adding(reader, x).val, t, L) /\ Len(Adding(reader, x).val) = Len(x.val) + 1
<1> DEFINE z == Adding(reader, x)
           y == reader[x.pos]
           e == [key |-> y.key, val |-> y.val]
           more == Insert(e, x.val)
<1>1. z = IF x.err # "none" THEN Error(x.err, x.pos)
          ELSE IF y.err # "none" THEN Error(y.err, y.pos)
          ELSE IF IsDuplicate(y.key, x.val) THEN Error("MalformedConstructor", y.pos)
          ELSE Value(y.pos, more, << >>)
  BY DEF Adding
<1>2. x.pos \in 0 .. Len(s) /\ x.val \in Seq(Piece)
  BY DEF Entries
<1>3. y.key \in Bytes /\ y.val \in Bytes
  BY <1>2 DEF ReaderOf, Returns, Outcome
<1>4. \A a, i : Error(a, i).err = a
  BY DEF Error
<1>5. e \in Piece /\ e.key = y.key /\ e.val = y.val
  BY <1>3 DEF Piece
<1>60. y.err = "none" => IsEntry(y.key, y.val, t, L)
  BY <1>2 DEF GivesEntries
<1> HIDE DEF z, y, e, more
<1>6. x.err = "none" /\ y.err = "none" /\ ~IsDuplicate(y.key, x.val) /\ z = Value(y.pos, more, << >>)
  <2>1. z.err = "none"
    BY DEF z
  <2> QED BY <1>1, <1>4, <2>1
<1>7. Listed(x.val, t, L) /\ ~IsDuplicate(e.key, x.val)
  BY <1>5, <1>6
<1>8. /\ more \in Seq(Piece) /\ Len(more) = Len(x.val) + 1 /\ Ascending(more)
      /\ \A i \in 1 .. Len(more) : more[i] = e \/ \E j \in 1 .. Len(x.val) : more[i] = x.val[j]
  <2>1. Ascending(x.val)
    BY <1>7 DEF Listed
  <2> DEFINE v == x.val
  <2>2. more = Insert(e, v)
    BY DEF more
  <2>3. v \in Seq(Piece) /\ Ascending(v) /\ ~IsDuplicate(e.key, v)
    BY <1>2, <1>7, <2>1
  <2> HIDE DEF v
  <2>4. \A z1 : z1 = Insert(e, v) =>
          /\ z1 \in Seq(Piece) /\ Len(z1) = Len(v) + 1 /\ Ascending(z1)
          /\ \A i \in 1 .. Len(z1) : z1[i] = e \/ \E j \in 1 .. Len(v) : z1[i] = v[j]
    BY <1>5, <2>3, InsertAscends
  <2>5. /\ more \in Seq(Piece) /\ Len(more) = Len(v) + 1 /\ Ascending(more)
        /\ \A i \in 1 .. Len(more) : more[i] = e \/ \E j \in 1 .. Len(v) : more[i] = v[j]
    BY <2>2, <2>4
  <2> QED BY <2>5 DEF v
<1>9. IsEntry(e.key, e.val, t, L)
  BY <1>5, <1>6, <1>60
<1>10. \A j \in 1 .. Len(x.val) : IsEntry(x.val[j].key, x.val[j].val, t, L)
  BY <1>7 DEF Listed
<1>11. \A i \in 1 .. Len(more) : IsEntry(more[i].key, more[i].val, t, L)
  BY <1>8, <1>9, <1>10
<1>12. Listed(more, t, L)
  BY <1>8, <1>11 DEF Listed
<1>13. z.val = more
  BY <1>6 DEF Value
<1> QED BY <1>8, <1>12, <1>13 DEF z

(* and a whole map is given in its order.                                  *)
LEMMA CollectGives ==
  ASSUME NEW s \in Bytes, NEW p \in 0 .. Len(s), NEW n \in Nat, NEW t, NEW L, NEW W,
         NEW reader, ReaderOf(reader, s, W, Bytes), GivesEntries(reader, s, t, L),
         Collect(reader, p, n).err = "none"
  PROVE  Concat(Collect(reader, p, n).val) \in Sorted(t, L, n, {})
<1>1. PICK f : Collects(f, reader, p, n) /\ Collect(reader, p, n) = f[n]
  BY CollectIs
<1>2. f[0] = Value(p, << >>, << >>) /\ \A i \in 1 .. n : f[i] = Adding(reader, f[i - 1])
  BY <1>1 DEF Collects
<1> DEFINE Good(i) == /\ f[i] \in Entries(s)
                      /\ f[i].err = "none" => Listed(f[i].val, t, L) /\ Len(f[i].val) = i
           T == {i \in Nat : i <= n => Good(i)}
<1>3. Good(0)
  <2> DEFINE x == Value(p, << >>, << >>)
  <2>1. << >> \in Seq(Piece) /\ << >> \in Bytes /\ << >> \in NoView /\ "none" \in Codes
    BY EmptyBytes DEF NoView, Codes
  <2>2. x \in Entries(s) /\ x.val = << >>
    BY <2>1 DEF Value, Entries
  <2> HIDE DEF x
  <2>3. Listed(<< >>, t, L) /\ Len(<< >>) = 0
    BY DEF Listed, Ascending
  <2> QED BY <1>2, <2>2, <2>3 DEF x
<1>4. ASSUME NEW i \in Nat, Good(i), i + 1 <= n PROVE Good(i + 1)
  <2> DEFINE k == i + 1
             x == f[i]
             z == Adding(reader, x)
  <2>1. k \in 1 .. n /\ k - 1 = i
    BY <1>4
  <2>2. x \in Entries(s) /\ (x.err = "none" => Listed(x.val, t, L) /\ Len(x.val) = i)
    BY <1>4
  <2>20. k = i + 1
    OBVIOUS
  <2> HIDE DEF k
  <2>3. f[k] = z
    BY <1>2, <2>1
  <2> HIDE DEF x
  <2>4. z \in Entries(s) /\ (z.err = "none" => x.err = "none")
    BY <2>2, AddingType
  <2>5. z.err = "none" => Listed(z.val, t, L) /\ Len(z.val) = Len(x.val) + 1
    BY <2>2, AddingGives
  <2> HIDE DEF z
  <2>6. Good(k)
    BY <2>2, <2>3, <2>4, <2>5, <2>20
  <2> QED BY <2>6 DEF k
<1> HIDE DEF Good
<1>5. T = Nat
  <2>1. T \in SUBSET Nat /\ 0 \in T /\ \A i \in T : i + 1 \in T
    BY <1>3, <1>4
  <2> HIDE DEF T
  <2> QED BY <2>1, NatInductionOnSets
<1>6. Good(n)
  BY <1>5
<1> DEFINE x == f[n]
<1>7. x.val \in Seq(Piece) /\ Listed(x.val, t, L) /\ Len(x.val) = n
  BY <1>1, <1>6 DEF Good, Entries
<1> HIDE DEF x
<1>8. Concat(x.val) \in Sorted(t, L, Len(x.val), {})
  BY <1>7, ListedSorted
<1> QED BY <1>1, <1>7, <1>8 DEF x

(* A count, and what is to follow it.                                      *)
LEMMA HeadedHas ==
  ASSUME NEW n \in 0 .. Limit - 1, n \in Nat, NEW F, NEW w \in Bytes, w \in F[n]
  PROVE  Then(EncodeVarint[n], w) \in Headed(F)
<1>1. EncodeVarint[n] \in Bytes
  BY EncodeIsBytes DEF Bytes
<1>2. EncodeVarint[n] \o w \in Bytes
  BY <1>1, JoinFacts
<1>3. EncodeVarint[n] \o w \in Headed(F)
  BY <1>2 DEF Headed
<1> QED BY <1>3, Zenon DEF Then

(* An option gives its marker, and what its item gives;                    *)
LEMMA OptionGives ==
  ASSUME NEW s \in Bytes, NEW p \in 0 .. Len(s), NEW W, NEW reader, ReaderOf(reader, s, W, Bytes),
         NEW L, L \subseteq Bytes, Gives(reader, s, L), ReadOption(reader, s, p).err = "none"
  PROVE  ReadOption(reader, s, p).val \in Marked(L)
<1> DEFINE marker == ReadMarker(s, p)
           item == reader[marker.pos]
           r == ReadOption(reader, s, p)
<1>1. r = IF marker.err # "none" THEN Error(marker.err, marker.pos)
          ELSE IF marker.val = <<0>> THEN marker
          ELSE IF item.err # "none" THEN Error(item.err, item.pos)
          ELSE [item EXCEPT !.val = Then(<<1>>, item.val)]
  BY OptionIs, Zenon DEF Then
<1>2. \A e, j : Error(e, j).err = e
  BY DEF Error
<1>3. marker.pos \in 0 .. Len(s)
  BY MarkerReturns, ReturnsParts
<1>4. item \in Outcome(s, W) /\ (item.err = "none" => item.val \in L)
  BY <1>3 DEF ReaderOf, Returns, Gives
<1> HIDE DEF marker, item, r
<1>5. r.err = "none"
  BY DEF r
<1>6. CASE marker.val = <<0>>
  <2>1. r.val = <<0>>
    BY <1>1, <1>2, <1>5, <1>6
  <2> QED BY <2>1 DEF Marked, r
<1>7. CASE marker.val # <<0>>
  <2> DEFINE u == Then(<<1>>, item.val)
  <2>1. item.err = "none" /\ r = [item EXCEPT !.val = u]
    BY <1>1, <1>2, <1>5, <1>7
  <2>2. item.val \in L /\ item.val \in Bytes
    BY <1>4, <2>1
  <2>3. u \in Bytes
    BY <2>2, OneByte, JoinFacts DEF Then
  <2>4. u = <<1>> \o item.val
    BY Zenon DEF Then
  <2>5. u \in Marked(L)
    BY <2>2, <2>3, <2>4, Zenon DEF Marked
  <2> HIDE DEF u
  <2>6. r.val = u
    BY <1>4, <2>1 DEF Outcome
  <2> QED BY <2>5, <2>6 DEF r
<1> QED BY <1>6, <1>7

(* a Vec its count, and that many items;                                   *)
LEMMA VecGives ==
  ASSUME NEW s \in Bytes, NEW p \in 0 .. Len(s), NEW lim, lim.items \in Nat, NEW t,
         NEW W, NEW reader, ReaderOf(reader, s, W, Bytes), NEW L, L \subseteq Bytes,
         Gives(reader, s, L), OwnVec(t, reader, s, p, lim).err = "none"
  PROVE  \E n \in 0 .. Limit - 1 : \E w \in Bytes :
           /\ n \in Nat /\ n <= lim.items /\ w \in Joined(L, n)
           /\ OwnVec(t, reader, s, p, lim).val = Then(EncodeVarint[n], w)
<1> DEFINE count == ReadCount(s, p, lim)
           n == count.val
           m == count.pos
           x == Repeat(reader, m, n)
           r == OwnVec(t, reader, s, p, lim)
<1>1. r = IF count.err # "none" THEN Error(count.err, m)
          ELSE IF n * FixedLen(t.of) > Len(s) - m THEN Error("UnexpectedEof", m)
          ELSE IF x.err # "none" THEN Error(x.err, x.pos)
          ELSE Value(x.pos, Then(EncodeVarint[n], x.val), << >>)
  BY OwnVecIs, Zenon DEF Then
<1>2. \A e, j : Error(e, j).err = e
  BY DEF Error
<1>3. /\ IntegerRead(count, s, p)
      /\ count.err = "none" => count = ReadVarint(s, p) /\ ~(ReadVarint(s, p).val > lim.items)
  BY CountRead
<1> HIDE DEF count, r, x
<1>4. r.err = "none"
  BY DEF r
<1>5. count.err = "none" /\ x.err = "none" /\ r = Value(x.pos, Then(EncodeVarint[n], x.val), << >>)
  <2> DEFINE big == n * FixedLen(t.of) > Len(s) - m
  <2>1. r = IF count.err # "none" THEN Error(count.err, m)
            ELSE IF big THEN Error("UnexpectedEof", m)
            ELSE IF x.err # "none" THEN Error(x.err, x.pos)
            ELSE Value(x.pos, Then(EncodeVarint[n], x.val), << >>)
    BY <1>1
  <2> HIDE DEF big
  <2> QED BY <1>2, <1>4, <2>1
<1>6. n \in 0 .. Limit - 1 /\ n \in Nat /\ m \in 0 .. Len(s)
  BY <1>3, <1>5 DEF IntegerRead
<1>7. n <= lim.items
  <2>1. ~(n > lim.items)
    BY <1>3, <1>5
  <2> HIDE DEF n
  <2> QED BY <1>6, <2>1
<1> HIDE DEF n, m
<1>8. x.val \in Joined(L, n)
  BY <1>5, <1>6, RepeatGives DEF x
<1>9. x.val \in Bytes
  BY <1>8, JoinedBytes
<1>10. r.val = Then(EncodeVarint[n], x.val)
  BY <1>5 DEF Value
<1> QED BY <1>6, <1>7, <1>8, <1>9, <1>10 DEF r

(* and a map its count, and that many entries in the order of their keys.  *)
InOrderUpTo(val, k, t, L) ==
  \E n \in 0 .. Limit - 1 : \E w \in Bytes :
    n \in Nat /\ n <= k /\ w \in Sorted(t, L, n, {}) /\ val = Then(EncodeVarint[n], w)

LEMMA MapGives ==
  ASSUME NEW s \in Bytes, NEW p \in 0 .. Len(s), NEW lim, lim.items \in Nat, NEW t,
         NEW W, NEW reader, ReaderOf(reader, s, W, Bytes), NEW L,
         GivesEntries(reader, s, t.key, L), OwnMap(t, reader, s, p, lim).err = "none"
  PROVE  InOrderUpTo(OwnMap(t, reader, s, p, lim).val, lim.items, t.key, L)
<1> DEFINE count == ReadCount(s, p, lim)
           n == count.val
           m == count.pos
           x == Collect(reader, m, n)
           w == Concat(x.val)
           r == OwnMap(t, reader, s, p, lim)
<1>1. r = IF count.err # "none" THEN Error(count.err, m)
          ELSE IF /\ FixedLen(t.key) > 0 /\ FixedLen(t.of) > 0
                  /\ n * (FixedLen(t.key) + FixedLen(t.of)) > Len(s) - m
            THEN Error("UnexpectedEof", m)
          ELSE IF x.err # "none" THEN Error(x.err, x.pos)
          ELSE Value(x.pos, Then(EncodeVarint[n], w), << >>)
  BY OwnMapIs, Zenon DEF Then
<1>2. \A e, j : Error(e, j).err = e
  BY DEF Error
<1>3. /\ IntegerRead(count, s, p)
      /\ count.err = "none" => count = ReadVarint(s, p) /\ ~(ReadVarint(s, p).val > lim.items)
  BY CountRead
<1> HIDE DEF count, r, x, w
<1>4. r.err = "none"
  BY DEF r
<1>5. count.err = "none" /\ x.err = "none" /\ r = Value(x.pos, Then(EncodeVarint[n], w), << >>)
  <2> DEFINE big == /\ FixedLen(t.key) > 0 /\ FixedLen(t.of) > 0
                    /\ n * (FixedLen(t.key) + FixedLen(t.of)) > Len(s) - m
  <2>1. r = IF count.err # "none" THEN Error(count.err, m)
            ELSE IF big THEN Error("UnexpectedEof", m)
            ELSE IF x.err # "none" THEN Error(x.err, x.pos)
            ELSE Value(x.pos, Then(EncodeVarint[n], w), << >>)
    BY <1>1
  <2> HIDE DEF big
  <2> QED BY <1>2, <1>4, <2>1
<1>6. n \in 0 .. Limit - 1 /\ n \in Nat /\ m \in 0 .. Len(s)
  BY <1>3, <1>5 DEF IntegerRead
<1>7. n <= lim.items
  <2>1. ~(n > lim.items)
    BY <1>3, <1>5
  <2> HIDE DEF n
  <2> QED BY <1>6, <2>1
<1> HIDE DEF n, m
<1>8. w \in Sorted(t.key, L, n, {})
  BY <1>5, <1>6, CollectGives DEF x, w
<1>9. w \in Bytes
  BY <1>8, SortedBytes
<1>10. r.val = Then(EncodeVarint[n], w)
  BY <1>5 DEF Value
<1>11. InOrderUpTo(r.val, lim.items, t.key, L)
  BY <1>6, <1>7, <1>8, <1>9, <1>10 DEF InOrderUpTo
<1> QED BY <1>11 DEF r

(* A key that has been read is one, written.                               *)
LEMMA KeyGives ==
  ASSUME NEW s \in Bytes, NEW p \in 0 .. Len(s), NEW lim, NEW t \in Types, t.k \in {"u8", "str"},
         Own(s, lim)[t][p].err = "none"
  PROVE  /\ Own(s, lim)[t][p].key \in Keys(t)
         /\ Own(s, lim)[t][p].val = KeyCode(t, Own(s, lim)[t][p].key)
<1> DEFINE r == Own(s, lim)[t][p]
<1>1. CASE t.k = "u8"
  <2> DEFINE x == ReadU8(s, p)
  <2>1. r = x
    BY <1>1, OwnIs, OwnOfIs
  <2>2. Returns(x, s, p, NoView, Exactly(1)) /\ (x.err = "none" => x.val = Slice(s, p, x.pos) /\ x.key = x.val)
    BY ReadU8Returns
  <2> HIDE DEF x
  <2>3. x.err = "none" => Slice(s, p, x.pos) \in Exactly(1)
    BY <2>2, ReturnsParts
  <2>4. x.err = "none"
    BY <2>1
  <2>5. x.key \in Exactly(1) /\ x.val = x.key
    BY <2>2, <2>3, <2>4
  <2>6. Keys(t) = Exactly(1) /\ KeyCode(t, x.key) = x.key
    BY <1>1 DEF Keys, KeyCode
  <2> QED BY <2>1, <2>5, <2>6
<1>2. CASE t.k = "str"
  <2>1. r = ReadString(s, p, lim)
    BY <1>2, OwnIs, OwnOfIs
  <2> QED BY <1>2, <2>1, StringGives
<1> QED BY <1>1, <1>2

(* So the entries of a map are entries.                                    *)
LEMMA EntriesGive ==
  ASSUME NEW s \in Bytes, NEW lim, NEW t \in Types, t.k = "map", NEW L,
         Gives(Own(s, lim)[t.of], s, L)
  PROVE  /\ GivesEntries(Pair(Own(s, lim)[t.key], Own(s, lim)[t.of]), s, t.key, L)
         /\ ReaderOf(Pair(Own(s, lim)[t.key], Own(s, lim)[t.of]), s, NoView, Bytes)
<1> DEFINE keys == Own(s, lim)[t.key]
           values == Own(s, lim)[t.of]
           pair == Pair(keys, values)
<1>1. t.key \in Types /\ t.key.k \in {"u8", "str"} /\ t.of \in Types
  BY PartsAre
<1>2. ReaderOf(keys, s, NoView, Bytes) /\ ReaderOf(values, s, NoView, Bytes)
  BY <1>1, OwnWider
<1>3. ReaderOf(pair, s, NoView, Bytes)
  <2>1. ReaderOf(pair, s, NoView, TwoOf(Bytes, Bytes))
    BY <1>2, PairReads
  <2>2. TwoOf(Bytes, Bytes) \subseteq Bytes
    BY DEF TwoOf
  <2> HIDE DEF pair
  <2>3. \A j \in 0 .. Len(s) : Returns(pair[j], s, j, NoView, Bytes)
    BY <2>1, <2>2, ReturnsWider DEF ReaderOf
  <2> QED BY <2>1, <2>3 DEF ReaderOf
<1>4. ASSUME NEW p \in 0 .. Len(s), pair[p].err = "none"
      PROVE  IsEntry(pair[p].key, pair[p].val, t.key, L)
  <2> DEFINE a == keys[p]
             b == values[a.pos]
             z == pair[p]
  <2>1. p \in DOMAIN keys
    BY <1>2 DEF ReaderOf
  <2>2. z = After(values, a, a.key)
    BY <2>1, PairIs
  <2>3. z = IF a.err # "none" THEN Error(a.err, a.pos)
            ELSE IF b.err # "none" THEN Error(b.err, b.pos)
            ELSE Value(b.pos, Then(a.val, b.val), a.key)
    BY <2>2, Zenon DEF After, Then
  <2>4. \A e, j : Error(e, j).err = e
    BY DEF Error
  <2>5. z.err = "none"
    BY <1>4
  <2>6. a.err = "none" => a.key \in Keys(t.key) /\ a.val = KeyCode(t.key, a.key)
    BY <1>1, KeyGives
  <2>7. a.pos \in 0 .. Len(s)
    BY <1>2 DEF ReaderOf, Returns, Outcome
  <2>8. b.err = "none" => b.val \in L
    BY <2>7 DEF Gives
  <2> HIDE DEF a, b, z
  <2>9. a.err = "none" /\ b.err = "none" /\ z = Value(b.pos, Then(a.val, b.val), a.key)
    BY <2>3, <2>4, <2>5
  <2>10. z.key = a.key /\ z.val = Then(KeyCode(t.key, a.key), b.val)
    BY <2>6, <2>9 DEF Value
  <2>11. IsEntry(z.key, z.val, t.key, L)
    BY <2>6, <2>8, <2>9, <2>10 DEF IsEntry
  <2> QED BY <2>11 DEF z
<1> HIDE DEF pair
<1>5. GivesEntries(pair, s, t.key, L)
  BY <1>4 DEF GivesEntries
<1> QED BY <1>3, <1>5 DEF pair

(* What the owned decode gives for a type, as for its parts.               *)
LEMMA OwnGivesOf ==
  ASSUME NEW s \in Bytes, NEW lim, lim.items \in Nat, NEW t \in Types,
         \A r \in Parts(t) : Gives(Own(s, lim)[r], s, CanonicalTo(lim.items)[r]),
         NEW p \in 0 .. Len(s), Own(s, lim)[t][p].err = "none"
  PROVE  Own(s, lim)[t][p].val \in CanonicalTo(lim.items)[t]
<1> DEFINE r == Own(s, lim)[t][p]
           k == lim.items
           C == CanonicalTo(k)
           item == Own(s, lim)[t.of]
<1>1. /\ t.k = "u8" => r = ReadU8(s, p)
      /\ t.k = "str" => r = ReadString(s, p, lim)
      /\ t.k = "fixed" => r = ReadSlice(s, p, t.n)
      /\ t.k = "option" => r = ReadOption(item, s, p)
      /\ t.k = "vec" => r = OwnVec(t, item, s, p, lim)
      /\ t.k = "map" => r = OwnMap(t, Pair(Own(s, lim)[t.key], item), s, p, lim)
  BY OwnIs, OwnOfIs
<1>2. t.k \in {"option", "vec", "map"} =>
        /\ t.of \in Types /\ C[t.of] \subseteq Bytes
        /\ Gives(item, s, C[t.of]) /\ ReaderOf(item, s, NoView, Bytes)
  <2> SUFFICES ASSUME t.k \in {"option", "vec", "map"}
               PROVE  /\ t.of \in Types /\ C[t.of] \subseteq Bytes
                      /\ Gives(item, s, C[t.of]) /\ ReaderOf(item, s, NoView, Bytes)
    OBVIOUS
  <2>1. t.of \in Parts(t) /\ t.of \in Types
    BY PartsAre
  <2>2. Gives(item, s, C[t.of])
    BY <2>1
  <2>3. C[t.of] \subseteq Bytes
    BY <2>1, CanonicalForms
  <2>4. ReaderOf(item, s, NoView, Bytes)
    BY <2>1, OwnWider
  <2> QED BY <2>1, <2>2, <2>3, <2>4
<1>3. r.err = "none"
  OBVIOUS
<1>4. CASE t.k = "u8"
  <2> DEFINE x == ReadU8(s, p)
  <2>1. Returns(x, s, p, NoView, Exactly(1)) /\ (x.err = "none" => x.val = Slice(s, p, x.pos))
    BY ReadU8Returns
  <2>2. r = x
    BY <1>1, <1>4
  <2> HIDE DEF x, r
  <2>3. x.val \in Exactly(1)
    BY <1>3, <2>1, <2>2, ReturnsParts
  <2>4. C[t] = Exactly(1)
    BY <1>4, CanonicalForms
  <2> HIDE DEF C
  <2>5. r.val \in C[t]
    BY <2>2, <2>3, <2>4
  <2> QED BY <2>5 DEF r, C
<1>5. CASE t.k = "str"
  <2>1. C[t] = Texts
    BY <1>5, CanonicalForms
  <2>2. r = ReadString(s, p, lim)
    BY <1>1, <1>5
  <2>3. ReadString(s, p, lim).val \in Texts
    BY <1>3, <1>5, <2>2, StringGives
  <2> HIDE DEF C, r
  <2>4. r.val \in C[t]
    BY <2>1, <2>2, <2>3
  <2> QED BY <2>4 DEF C, r
<1>6. CASE t.k = "fixed"
  <2> DEFINE x == ReadSlice(s, p, t.n)
  <2>1. t.n \in Nat
    BY <1>6, PartsAre
  <2>2. /\ Returns(x, s, p, NoView, Exactly(t.n))
        /\ x.err = "none" => x.pos = p + t.n /\ x.val = Slice(s, p, p + t.n)
    BY <2>1, ReadSliceReturns
  <2>3. C[t] = Exactly(t.n)
    BY <1>6, CanonicalForms
  <2>4. r = x
    BY <1>1, <1>6
  <2> HIDE DEF x, r, C
  <2>5. x.val \in Exactly(t.n)
    BY <1>3, <2>2, <2>4, ReturnsParts
  <2>6. r.val \in C[t]
    BY <2>3, <2>4, <2>5
  <2> QED BY <2>6 DEF r, C
<1>7. CASE t.k = "option"
  <2>1. C[t] = Marked(C[t.of])
    BY <1>7, CanonicalForms
  <2>2. r = ReadOption(item, s, p)
    BY <1>1, <1>7
  <2> HIDE DEF C, item, r
  <2>3. ReadOption(item, s, p).val \in Marked(C[t.of])
    BY <1>2, <1>3, <1>7, <2>2, OptionGives
  <2>4. r.val \in C[t]
    BY <2>1, <2>2, <2>3
  <2> QED BY <2>4 DEF r, C
<1>8. CASE t.k = "vec"
  <2> DEFINE L == C[t.of]
  <2>1. r = OwnVec(t, item, s, p, lim)
    BY <1>1, <1>8
  <2>2. L \subseteq Bytes /\ Gives(item, s, L) /\ ReaderOf(item, s, NoView, Bytes) /\ t.of \in Types
    BY <1>2, <1>8
  <2> HIDE DEF C, item, r, L
  <2>3. PICK n \in 0 .. Limit - 1 : \E w \in Bytes :
          /\ n \in Nat /\ n <= lim.items /\ w \in Joined(L, n)
          /\ r.val = Then(EncodeVarint[n], w)
    <3>1. OwnVec(t, item, s, p, lim).err = "none"
      BY <1>3, <2>1
    <3>2. \E n \in 0 .. Limit - 1 : \E w \in Bytes :
            /\ n \in Nat /\ n <= lim.items /\ w \in Joined(L, n)
            /\ OwnVec(t, item, s, p, lim).val = Then(EncodeVarint[n], w)
      BY <2>2, <3>1, VecGives
    <3> QED BY <2>1, <3>2
  <2>4. PICK w \in Bytes : /\ n \in Nat /\ n <= k /\ w \in Joined(L, n)
                           /\ r.val = Then(EncodeVarint[n], w)
    BY <2>3
  <2> DEFINE F == [i \in 0 .. Limit - 1 |-> {u \in Remaining(k, t, i, {}) : i <= k}]
  <2>5. Remaining(k, t, n, {}) = Joined(L, n)
    BY <1>8 DEF Remaining, ItemsAfter, L, C
  <2>6. w \in F[n]
    BY <2>4, <2>5
  <2> HIDE DEF F
  <2>7. Then(EncodeVarint[n], w) \in Headed(F)
    BY <2>4, <2>6, HeadedHas
  <2>8. C[t] = Headed(F)
    BY <1>8, CanonicalForms DEF C, F
  <2>9. r.val \in C[t]
    BY <2>4, <2>7, <2>8
  <2> QED BY <2>9 DEF r, C
<1>9. CASE t.k = "map"
  <2> DEFINE L == C[t.of]
             pair == Pair(Own(s, lim)[t.key], item)
             F == [i \in 0 .. Limit - 1 |-> {u \in Remaining(k, t, i, {}) : i <= k}]
  <2>1. r = OwnMap(t, pair, s, p, lim)
    BY <1>1, <1>9
  <2>2. GivesEntries(pair, s, t.key, L) /\ ReaderOf(pair, s, NoView, Bytes)
    BY <1>2, <1>9, EntriesGive
  <2> HIDE DEF C, item, r, L, pair
  <2>3. InOrderUpTo(r.val, k, t.key, L)
    <3>1. OwnMap(t, pair, s, p, lim).err = "none"
      BY <1>3, <2>1
    <3>2. InOrderUpTo(OwnMap(t, pair, s, p, lim).val, k, t.key, L)
      BY <2>2, <3>1, MapGives
    <3> QED BY <2>1, <3>2
  <2>4. PICK n \in 0 .. Limit - 1 : \E w \in Bytes :
          /\ n \in Nat /\ n <= k /\ w \in Sorted(t.key, L, n, {})
          /\ r.val = Then(EncodeVarint[n], w)
    BY <2>3 DEF InOrderUpTo
  <2>5. PICK w \in Bytes : /\ n \in Nat /\ n <= k /\ w \in Sorted(t.key, L, n, {})
                           /\ r.val = Then(EncodeVarint[n], w)
    BY <2>4
  <2>6. Remaining(k, t, n, {}) = Sorted(t.key, L, n, {})
    BY <1>9 DEF Remaining, ItemsAfter, L, C
  <2>7. w \in F[n]
    BY <2>5, <2>6
  <2> HIDE DEF F
  <2>8. Then(EncodeVarint[n], w) \in Headed(F)
    BY <2>5, <2>7, HeadedHas
  <2>9. C[t] = Headed(F)
    BY <1>9, CanonicalForms DEF C, F
  <2>10. r.val \in C[t]
    BY <2>5, <2>8, <2>9
  <2> QED BY <2>10 DEF r, C
<1>10. t.k \in {"u8", "str", "fixed", "option", "vec", "map"}
  BY PartsAre
<1> QED BY <1>4, <1>5, <1>6, <1>7, <1>8, <1>9, <1>10

(* What the owned decode gives is canonical, within its count limit.       *)
LEMMA OwnGives ==
  ASSUME NEW s \in Bytes, NEW lim, lim.items \in Nat, NEW t \in Types
  PROVE  Gives(Own(s, lim)[t], s, CanonicalTo(lim.items)[t])
<1> DEFINE T == {r \in Types : Gives(Own(s, lim)[r], s, CanonicalTo(lim.items)[r])}
<1>1. ASSUME NEW r \in Types, Parts(r) \subseteq T PROVE r \in T
  <2>1. \A j \in Parts(r) : Gives(Own(s, lim)[j], s, CanonicalTo(lim.items)[j])
    BY <1>1
  <2>2. ASSUME NEW p \in 0 .. Len(s), Own(s, lim)[r][p].err = "none"
        PROVE  Own(s, lim)[r][p].val \in CanonicalTo(lim.items)[r]
    BY <2>1, <2>2, OwnGivesOf
  <2>3. Gives(Own(s, lim)[r], s, CanonicalTo(lim.items)[r])
    BY <2>2, Zenon DEF Gives
  <2> QED BY <2>3
<1>2. T \in SUBSET Types
  OBVIOUS
<1> HIDE DEF T
<1>3. T = Types
  BY <1>1, <1>2, TypeInduction
<1> QED BY <1>3 DEF T

-----------------------------------------------------------------------------
(* Readers sure of a canonical encoding                                    *)

(* A read that ends at q, and a reader that reads all of L so.             *)
Reaches(res, q) == res.err = "none" /\ res.pos = q
Sure(reader, s, L) ==
  \A p \in 0 .. Len(s) : \A q \in p .. Len(s) : Slice(s, p, q) \in L => Reaches(reader[p], q)

(* The owned decode is, within its limits;                                 *)
LEMMA OwnSure ==
  ASSUME NEW s \in Bytes, NEW lim, NEW k, Roomy(lim, s, k), NEW t \in Types
  PROVE  Sure(Own(s, lim)[t], s, CanonicalTo(k)[t])
<1>1. Excused({}, lim, s, k)
  BY DEF Excused
<1>2. Complete({}, Own(s, lim)[t], s, CanonicalTo(k)[t])
  BY <1>1, OwnTakes
<1> QED BY <1>2, Zenon DEF Complete, Takes, Sure, Reaches

(* and all sized bytes and texts are read.                                 *)
LEMMA SizedReach ==
  ASSUME NEW s \in Bytes, NEW p \in 0 .. Len(s), NEW q \in p .. Len(s), NEW lim,
         NEW k, Roomy(lim, s, k), Slice(s, p, q) \in Sized
  PROVE  Reaches(ReadBytes(s, p, lim), q)
<1>1. Excused({}, lim, s, k)
  BY DEF Excused
<1>2. Takes({}, ReadBytes(s, p, lim), s, p, q)
  BY <1>1, SizedTakes
<1> QED BY <1>2 DEF Takes, Reaches

LEMMA TextsReach ==
  ASSUME NEW s \in Bytes, NEW p \in 0 .. Len(s), NEW q \in p .. Len(s), NEW lim,
         NEW k, Roomy(lim, s, k), Slice(s, p, q) \in Texts
  PROVE  Reaches(ReadString(s, p, lim), q) /\ Slice(s, p, q) \in Sized
<1>1. PICK n \in 0 .. Limit - 1 : \E w \in Text(n) : Slice(s, p, q) = EncodeVarint[n] \o w
  BY DEF Texts, Headed
<1>2. PICK w \in Text(n) : Slice(s, p, q) = EncodeVarint[n] \o w
  BY <1>1
<1>3. Len(w) = n /\ w \in Exactly(n)
  BY DEF Text, Exactly
<1>4. Slice(s, p, q) = Then(EncodeVarint[n], w)
  BY <1>2, Zenon DEF Then
<1>5. Slice(s, p, q) = Then(EncodeVarint[Len(w)], w)
  BY <1>3, <1>4
<1>6. ReadString(s, p, lim) = Value(q, Slice(s, p, q), w)
  <2>1. Excused({}, lim, s, k)
    BY DEF Excused
  <2>2. \/ ReadString(s, p, lim).err \in {}
        \/ ReadString(s, p, lim) = Value(q, Slice(s, p, q), w)
    BY <1>3, <1>5, <2>1, TextTakes
  <2> QED BY <2>2
<1>7. Slice(s, p, q) \in Sized
  <2> DEFINE F == [i \in 0 .. Limit - 1 |-> Exactly(i)]
  <2>1. w \in F[n]
    BY <1>3
  <2>2. Slice(s, p, q) \in Bytes
    BY SliceFacts
  <2> HIDE DEF F
  <2>3. Slice(s, p, q) \in Headed(F)
    BY <1>2, <2>1, <2>2 DEF Headed
  <2> QED BY <2>3 DEF Sized, F
<1>8. Reaches(ReadString(s, p, lim), q)
  BY <1>6 DEF Value, Reaches
<1> QED BY <1>7, <1>8

(* A count of as many items as the limit lets through.                     *)
CountsOn(c, s, p, q, k, t) ==
  \E n \in 0 .. Limit - 1 : \E m \in p .. Len(s) :
    /\ c = Ok(m, n) /\ n <= k
    /\ m \in 0 .. Len(s) /\ q \in m .. Len(s) /\ n \in Nat
    /\ Slice(s, p, m) = EncodeVarint[n] /\ Slice(s, m, q) \in Remaining(k, t, n, {})

LEMMA CountReach ==
  ASSUME NEW s \in Bytes, NEW p \in 0 .. Len(s), NEW q \in p .. Len(s), NEW lim,
         lim.items \in Nat, NEW k \in Nat, k <= lim.items, NEW t \in Types, Borrowed(t) = "view",
         Slice(s, p, q) \in CanonicalTo(k)[t]
  PROVE  CountsOn(ReadCount(s, p, lim), s, p, q, k, t)
<1> DEFINE F == [i \in 0 .. Limit - 1 |-> {u \in Remaining(k, t, i, {}) : i <= k}]
<1>1. t.k = "map" \/ (t.k = "vec" /\ ~IsByteVec(t))
  BY BorrowedIs
<1>2. CanonicalTo(k)[t] = Headed(F)
  BY <1>1, CanonicalForms
<1>3. \A n : Remaining(k, t, n, {}) \subseteq Bytes
  BY <1>1, NoneRemain
<1>4. \A n \in 0 .. Limit - 1 : F[n] \subseteq Bytes /\ F[n] = {u \in Remaining(k, t, n, {}) : n <= k}
  BY <1>3
<1> HIDE DEF F
<1>5. PICK n \in 0 .. Limit - 1 : \E w \in F[n] : Slice(s, p, q) = EncodeVarint[n] \o w
  BY <1>2 DEF Headed
<1>6. PICK w \in F[n] : Slice(s, p, q) = EncodeVarint[n] \o w
  BY <1>5
<1>7. w \in Bytes /\ w \in Remaining(k, t, n, {}) /\ n <= k
  BY <1>4
<1>8. Slice(s, p, q) = Then(EncodeVarint[n], w)
  BY <1>6, Zenon DEF Then
<1>9. PICK m \in p .. Len(s) :
           /\ ReadVarint(s, p) = Ok(m, n)
           /\ m \in 0 .. Len(s) /\ q \in m .. Len(s) /\ n \in Nat
           /\ Slice(s, p, m) = EncodeVarint[n] /\ Slice(s, m, q) = w
  BY <1>7, <1>8, IntegerTakes
<1> DEFINE c == ReadCount(s, p, lim)
           o == Ok(m, n)
<1>10. c = IF o.err # "none" THEN Error(o.err, o.pos)
           ELSE IF o.val > lim.items THEN Error("PacketTooLarge", o.pos) ELSE o
  BY <1>9, CountIs
<1>11. o.err = "none" /\ o.val = n
  BY DEF Ok
<1>12. ~(n > lim.items)
  BY <1>7, <1>9
<1> HIDE DEF c, o
<1>13. c = o
  BY <1>10, <1>11, <1>12
<1> QED BY <1>7, <1>9, <1>13 DEF c, o, CountsOn

(* One reader after another, and a reader over and over.                   *)
LEMMA AfterReach ==
  ASSUME NEW x, NEW m, Reaches(x, m), NEW reader, NEW q, Reaches(reader[m], q), NEW key
  PROVE  Reaches(After(reader, x, key), q)
<1> DEFINE y == reader[m]
           v == x.val \o y.val
<1>1. x.err = "none" /\ x.pos = m /\ y.err = "none" /\ y.pos = q
  BY DEF Reaches
<1>2. After(reader, x, key) = Value(q, v, key)
  BY <1>1 DEF After
<1> HIDE DEF v
<1> QED BY <1>2 DEF Value, Reaches

LEMMA PairReach ==
  ASSUME NEW s \in Bytes, NEW W, NEW keys, ReaderOf(keys, s, W, Bytes), NEW values,
         NEW L, L \subseteq Bytes, NEW M, M \subseteq Bytes, Sure(keys, s, L), Sure(values, s, M)
  PROVE  Sure(Pair(keys, values), s, TwoOf(L, M))
<1> DEFINE pair == Pair(keys, values)
<1> SUFFICES ASSUME NEW p \in 0 .. Len(s), NEW q \in p .. Len(s), Slice(s, p, q) \in TwoOf(L, M)
             PROVE  Reaches(pair[p], q)
  BY Zenon DEF Sure
<1>1. PICK a \in L, b \in M : Slice(s, p, q) = Then(a, b)
  BY Zenon DEF TwoOf, Then
<1> DEFINE m == p + Len(a)
<1>2. m = p + Len(a) /\ a \in Bytes /\ b \in Bytes
  OBVIOUS
<1> HIDE DEF m
<1>3. /\ m \in p .. Len(s) /\ m \in 0 .. Len(s) /\ q \in m .. Len(s)
      /\ Slice(s, p, m) = a /\ Slice(s, m, q) = b
  BY <1>1, <1>2, SliceParts
<1>4. Reaches(keys[p], m) /\ Reaches(values[m], q)
  BY <1>3 DEF Sure
<1>5. p \in DOMAIN keys
  BY DEF ReaderOf
<1>6. pair[p] = After(values, keys[p], keys[p].key)
  BY <1>5, PairIs
<1> HIDE DEF pair
<1>7. Reaches(After(values, keys[p], keys[p].key), q)
  BY <1>4, AfterReach
<1> QED BY <1>6, <1>7

LEMMA RepeatReach ==
  ASSUME NEW s \in Bytes, NEW p \in 0 .. Len(s), NEW q \in p .. Len(s), NEW n \in Nat,
         NEW L, L \subseteq Bytes, NEW reader, NEW W, ReaderOf(reader, s, W, Bytes),
         Sure(reader, s, L), Slice(s, p, q) \in Joined(L, n)
  PROVE  Reaches(Repeat(reader, p, n), q)
<1>1. PICK f : Repeats(f, reader, p, n) /\ Repeat(reader, p, n) = f[n]
  BY RepeatIs
<1>2. f[0] = Value(p, << >>, << >>) /\ \A i \in 1 .. n : f[i] = After(reader, f[i - 1], << >>)
  BY <1>1 DEF Repeats
<1> DEFINE Good(i) == \A r \in p .. Len(s) : Slice(s, p, r) \in Joined(L, i) => Reaches(f[i], r)
           T == {i \in Nat : i <= n => Good(i)}
<1>3. Good(0)
  <2> SUFFICES ASSUME NEW r \in p .. Len(s), Slice(s, p, r) \in Joined(L, 0)
               PROVE  Reaches(f[0], r)
    OBVIOUS
  <2>1. Slice(s, p, r) = << >>
    BY JoinedNone
  <2>2. r = p
    <3>1. Len(Slice(s, p, r)) = r - p /\ Len(s) \in Nat
      BY FromSplits DEF Bytes
    <3>2. r - p = 0
      BY <2>1, <3>1
    <3> QED BY <3>1, <3>2
  <2> QED BY <1>2, <2>2 DEF Reaches, Value
<1>4. ASSUME NEW i \in Nat, Good(i), i + 1 <= n PROVE Good(i + 1)
  <2> SUFFICES ASSUME NEW r \in p .. Len(s), Slice(s, p, r) \in Joined(L, i + 1)
               PROVE  Reaches(f[i + 1], r)
    OBVIOUS
  <2> DEFINE k == i + 1
             x == f[i]
  <2>1. f[k] = After(reader, x, << >>)
    <3>1. k \in 1 .. n /\ k - 1 = i
      BY <1>4
    <3> HIDE DEF k
    <3> QED BY <1>2, <3>1
  <2>2. PICK a \in Joined(L, i), b \in L : Slice(s, p, r) = Then(a, b)
    <3>1. Slice(s, p, r) \in TwoOf(Joined(L, i), L)
      BY JoinedMore
    <3> QED BY <3>1 DEF TwoOf, Then
  <2> DEFINE m == p + Len(a)
  <2>3. m = p + Len(a) /\ a \in Bytes /\ b \in Bytes
    BY JoinedBytes
  <2> HIDE DEF m
  <2>4. /\ m \in p .. Len(s) /\ m \in 0 .. Len(s) /\ r \in m .. Len(s)
        /\ Slice(s, p, m) = a /\ Slice(s, m, r) = b
    BY <2>2, <2>3, SliceParts
  <2>5. Reaches(x, m) /\ Reaches(reader[m], r)
    BY <1>4, <2>4 DEF Sure
  <2> HIDE DEF x
  <2>6. Reaches(After(reader, x, << >>), r)
    BY <2>5, AfterReach
  <2> QED BY <2>1, <2>6
<1> HIDE DEF Good
<1>5. T = Nat
  <2>1. T \in SUBSET Nat /\ 0 \in T /\ \A i \in T : i + 1 \in T
    BY <1>3, <1>4
  <2> HIDE DEF T
  <2> QED BY <2>1, NatInductionOnSets
<1>6. Good(n)
  BY <1>5
<1> QED BY <1>1, <1>6 DEF Good

(* The keys of a map are canonical.                                        *)
LEMMA KeyCodesAre ==
  ASSUME NEW t \in Types, t.k \in {"u8", "str"}, NEW k
  PROVE  KeyCodes(t) \subseteq CanonicalTo(k)[t]
<1> SUFFICES ASSUME NEW c \in Keys(t) PROVE KeyCode(t, c) \in CanonicalTo(k)[t]
  BY DEF KeyCodes
<1>1. CASE t.k = "u8"
  <2>1. c \in Exactly(1) /\ KeyCode(t, c) = c
    BY <1>1, KeysAre
  <2> QED BY <1>1, <2>1, CanonicalForms
<1>2. CASE t.k = "str"
  <2> DEFINE n == Len(c)
             F == [i \in 0 .. Limit - 1 |-> Text(i)]
  <2>1. c \in Bytes /\ n \in 0 .. Limit - 1 /\ c \in Text(n) /\ KeyCode(t, c) = Then(EncodeVarint[n], c)
    BY <1>2, KeysAre
  <2>2. n \in Nat
    BY <2>1 DEF Bytes
  <2> HIDE DEF n
  <2>3. c \in F[n]
    BY <2>1
  <2> HIDE DEF F
  <2>4. Then(EncodeVarint[n], c) \in Headed(F)
    BY <2>1, <2>2, <2>3, HeadedHas
  <2>5. CanonicalTo(k)[t] = Headed(F)
    BY <1>2, CanonicalForms DEF Texts, F
  <2> QED BY <2>1, <2>4, <2>5
<1> QED BY <1>1, <1>2

(* The types of the items of views: a bytes[N] is none of them.            *)
IsItem(t) == t.k # "fixed"

LEMMA PartsAreItems ==
  ASSUME ItemsHaveLengths(Types), NEW t \in Types, t.k \in {"vec", "map"}
  PROVE  /\ IsItem(t.of) /\ t.of \in Types /\ t.of \in Parts(t)
         /\ t.k = "map" => IsItem(t.key) /\ t.key \in Types /\ t.key \in Parts(t)
<1>1. IsItem(t.of)
  <2>1. CASE Borrowed(t) = "view"
    BY <2>1 DEF ItemsHaveLengths, IsItem
  <2>2. CASE Borrowed(t) # "view"
    BY <2>2 DEF Borrowed, IsByteVec, IsItem
  <2> QED BY <2>1, <2>2
<1>2. t.of \in Types /\ t.of \in Parts(t)
  BY PartsAre
<1>3. t.k = "map" => t.key \in Types /\ t.key \in Parts(t) /\ t.key.k \in {"u8", "str"}
  BY PartsAre
<1> QED BY <1>1, <1>2, <1>3 DEF IsItem

(* A scan of the items of a view reads all that remain.                    *)
LEMMA ItemsReach ==
  ASSUME NEW s \in Bytes, NEW lim, NEW k, NEW t \in Types, t.k \in {"vec", "map"},
         Sure(Skip(s, lim)[t.of], s, CanonicalTo(k)[t.of]),
         t.k = "map" => Sure(Skip(s, lim)[t.key], s, CanonicalTo(k)[t.key]),
         NEW m \in 0 .. Len(s), NEW q \in m .. Len(s), NEW n \in Nat,
         Slice(s, m, q) \in Remaining(k, t, n, {})
  PROVE  Reaches(Repeat(Item(t, Skip(s, lim)), m, n), q)
<1> DEFINE skip == Skip(s, lim)
           items == Item(t, skip)
           L == CanonicalTo(k)[t.of]
<1>1. t.of \in Types /\ L \subseteq Bytes
  BY PartsAre, CanonicalForms
<1>2. ReaderOf(items, s, NoView, Bytes)
  <2>1. ReaderOf(items, s, NoView, Items(t)) /\ Items(t) \subseteq Bytes
    BY ItemsAre
  <2> HIDE DEF items
  <2>2. \A j \in 0 .. Len(s) : Returns(items[j], s, j, NoView, Bytes)
    BY <2>1, ReturnsWider DEF ReaderOf
  <2> QED BY <2>1, <2>2 DEF ReaderOf
<1>3. CASE t.k = "vec"
  <2>1. items = skip[t.of]
    BY <1>3 DEF Item
  <2>2. Slice(s, m, q) \in Joined(L, n)
    BY <1>3 DEF Remaining, ItemsAfter
  <2>3. Sure(items, s, L)
    BY <2>1
  <2> HIDE DEF items, L
  <2>4. Reaches(Repeat(items, m, n), q)
    BY <1>1, <1>2, <2>2, <2>3, RepeatReach
  <2> QED BY <2>4 DEF items
<1>4. CASE t.k = "map"
  <2> DEFINE keys == skip[t.key]
             values == skip[t.of]
             K == KeyCodes(t.key)
             M == TwoOf(K, L)
  <2>1. t.key \in Types /\ t.key.k \in {"u8", "str"}
    BY <1>4, PartsAre
  <2>2. items = Pair(keys, values)
    BY <1>4 DEF Item
  <2>3. K \subseteq CanonicalTo(k)[t.key] /\ K \subseteq Bytes
    BY <2>1, KeyCodesAre, CanonicalForms
  <2>4. Sure(keys, s, K)
    BY <1>4, <2>3 DEF Sure
  <2>5. Slice(s, m, q) \in Joined(M, n)
    <3>1. Slice(s, m, q) \in Sorted(t.key, L, n, {})
      BY <1>4 DEF Remaining, ItemsAfter
    <3> HIDE DEF L
    <3> QED BY <1>1, <2>1, <3>1, SortedJoined
  <2>6. ReaderOf(keys, s, NoView, Bytes)
    <3>1. ReaderOf(keys, s, NoView, Scanned[t.key]) /\ Scanned[t.key] \subseteq Bytes
      BY <2>1, SkipReads, ScannedIs
    <3> HIDE DEF keys
    <3>2. \A j \in 0 .. Len(s) : Returns(keys[j], s, j, NoView, Bytes)
      BY <3>1, ReturnsWider DEF ReaderOf
    <3> QED BY <3>1, <3>2 DEF ReaderOf
  <2>7. Sure(values, s, L)
    OBVIOUS
  <2>8. M \subseteq Bytes
    BY DEF TwoOf
  <2> HIDE DEF items, L, K, keys, values
  <2>9. Sure(items, s, M)
    BY <1>1, <2>2, <2>3, <2>4, <2>6, <2>7, PairReach
  <2> HIDE DEF M
  <2>10. Reaches(Repeat(items, m, n), q)
    BY <1>2, <2>5, <2>8, <2>9, RepeatReach
  <2> QED BY <2>10 DEF items
<1> QED BY <1>3, <1>4

(* A scan reads all that is canonical.                                     *)
LEMMA SkipReach ==
  ASSUME NEW s \in Bytes, NEW lim, NEW k, Roomy(lim, s, k), ItemsHaveLengths(Types),
         NEW t \in Types, IsItem(t)
  PROVE  Sure(Skip(s, lim)[t], s, CanonicalTo(k)[t])
<1> DEFINE skip == Skip(s, lim)
           C == CanonicalTo(k)
           T == {r \in Types : IsItem(r) => Sure(skip[r], s, C[r])}
<1>1. lim.field \in Nat /\ Len(s) <= lim.field /\ k \in Nat /\ lim.items \in Nat /\ k <= lim.items
  BY DEF Roomy
<1>2. ASSUME NEW r \in Types, Parts(r) \subseteq T, IsItem(r)
      PROVE  Sure(skip[r], s, C[r])
  <2> SUFFICES ASSUME NEW p \in 0 .. Len(s), NEW q \in p .. Len(s), Slice(s, p, q) \in C[r]
               PROVE  Reaches(skip[r][p], q)
    BY Zenon DEF Sure
  <2>1. CASE Borrowed(r) = "str"
    <3>1. skip[r][p] = ReadBytes(s, p, lim)
      BY <2>1, SkipIs, SkipOfIs
    <3>2. r.k = "str"
      BY <2>1, BorrowedIs
    <3>3. Slice(s, p, q) \in Texts
      BY <3>2, CanonicalForms
    <3>4. Slice(s, p, q) \in Sized
      BY <1>1, <3>3, TextsReach
    <3>5. Reaches(ReadBytes(s, p, lim), q)
      BY <1>1, <3>4, SizedReach
    <3> QED BY <3>1, <3>5
  <2>2. CASE Borrowed(r) = "bytes"
    <3>1. skip[r][p] = ReadBytes(s, p, lim)
      BY <2>2, SkipIs, SkipOfIs
    <3>2. r.k = "vec" /\ IsByteVec(r)
      BY <1>2, <2>2 DEF Borrowed, IsItem, IsByteVec
    <3>3. Slice(s, p, q) \in Sized
      BY <3>2, ByteVecIs
    <3>4. Reaches(ReadBytes(s, p, lim), q)
      BY <1>1, <3>3, SizedReach
    <3> QED BY <3>1, <3>4
  <2>3. CASE Borrowed(r) = "view"
    <3> DEFINE c == ReadCount(s, p, lim)
               z == skip[r][p]
    <3>1. r.k \in {"vec", "map"}
      BY <2>3, BorrowedIs
    <3>2. CountsOn(c, s, p, q, k, r)
      BY <1>1, <2>3, CountReach
    <3>3. z = IF c.err # "none" THEN Error(c.err, c.pos)
              ELSE Repeat(Item(r, skip), c.pos, c.val)
      BY <2>3, SkipIs, SkipOfIs, SkipViewIs
    <3> HIDE DEF c, z
    <3>4. PICK n \in 0 .. Limit - 1 : \E m \in p .. Len(s) :
            /\ c = Ok(m, n) /\ n <= k
            /\ m \in 0 .. Len(s) /\ q \in m .. Len(s) /\ n \in Nat
            /\ Slice(s, p, m) = EncodeVarint[n] /\ Slice(s, m, q) \in Remaining(k, r, n, {})
      BY <3>2 DEF CountsOn
    <3>5. PICK m \in p .. Len(s) :
            /\ c = Ok(m, n) /\ m \in 0 .. Len(s) /\ q \in m .. Len(s) /\ n \in Nat
            /\ Slice(s, m, q) \in Remaining(k, r, n, {})
      BY <3>4
    <3>6. c.err = "none" /\ c.pos = m /\ c.val = n
      BY <3>5 DEF Ok
    <3>7. Sure(skip[r.of], s, C[r.of]) /\ (r.k = "map" => Sure(skip[r.key], s, C[r.key]))
      BY <1>2, <3>1, PartsAreItems
    <3>8. Reaches(Repeat(Item(r, skip), m, n), q)
      BY <3>1, <3>5, <3>7, ItemsReach
    <3>9. Reaches(z, q)
      BY <3>3, <3>6, <3>8
    <3> QED BY <3>9 DEF z
  <2>4. CASE Borrowed(r) = "owned"
    <3>1. skip[r][p] = Own(s, lim)[r][p]
      BY <2>4, SkipIs, SkipOfIs
    <3>2. Sure(Own(s, lim)[r], s, C[r])
      BY OwnSure
    <3>3. Reaches(Own(s, lim)[r][p], q)
      BY <3>2 DEF Sure
    <3> QED BY <3>1, <3>3
  <2> QED BY <2>1, <2>2, <2>3, <2>4, BorrowedIs
<1>3. \A r \in Types : Parts(r) \subseteq T => r \in T
  BY <1>2
<1>4. T \in SUBSET Types
  OBVIOUS
<1> HIDE DEF T
<1>5. T = Types
  BY <1>3, <1>4, TypeInduction
<1> QED BY <1>5 DEF T

-----------------------------------------------------------------------------
(* What a view of a canonical encoding holds                               *)

(* An integer and what follows it, in an encoding.                         *)
LEMMA IntegerThen ==
  ASSUME NEW v \in 0 .. Limit - 1, NEW u \in 0 .. Limit - 1, NEW x \in Bytes, NEW y \in Bytes,
         Then(EncodeVarint[v], x) = Then(EncodeVarint[u], y)
  PROVE  v = u /\ x = y
<1>1. EncodeVarint[v] \o x = EncodeVarint[u] \o y
  BY Zenon DEF Then
<1>2. \A a, b \in Bytes : EncodeVarint[v] \o a = EncodeVarint[u] \o b => v = u /\ a = b
  BY IntegersArePrefixFree
<1> QED BY <1>1, <1>2, Zenon

(* A view of all the items of a canonical collection, and a view, if any,  *)
(* that is one.                                                            *)
HoldsAll(k, v) == v.bytes \in Remaining(k, v.ty, v.count, {})
ShowsAll(k, res) == res.view # << >> => HoldsAll(k, res.view[1])

LEMMA ViewHoldsAll ==
  ASSUME NEW s \in Bytes, NEW p \in 0 .. Len(s), NEW lim, lim.packet \in Nat,
         Len(s) <= lim.packet, NEW t \in Types, Borrowed(t) = "view", NEW k,
         View(t, s, p, lim).err = "none",
         Slice(s, p, View(t, s, p, lim).pos) \in CanonicalTo(k)[t]
  PROVE  ShowsAll(k, View(t, s, p, lim))
<1> DEFINE r == View(t, s, p, lim)
           u == Slice(s, p, r.pos)
           F == [i \in 0 .. Limit - 1 |-> {x \in Remaining(k, t, i, {}) : i <= k}]
<1>1. PICK v \in GoodViews :
        /\ r.view = <<v>> /\ v.ty = t /\ v.count \in 0 .. Limit - 1
        /\ r.val = EncodeVarint[v.count]
        /\ u = Then(r.val, v.bytes)
  BY ViewReturns DEF OpensView
<1>2. t.k \in {"vec", "map"} /\ (t.k = "vec" => ~IsByteVec(t))
  BY BorrowedIs
<1>3. CanonicalTo(k)[t] = Headed(F)
  BY <1>2, CanonicalForms
<1>4. u \in CanonicalTo(k)[t]
  OBVIOUS
<1>5. \A n \in 0 .. Limit - 1 : F[n] \subseteq Bytes /\ F[n] \subseteq Remaining(k, t, n, {})
  BY <1>2, NoneRemain
<1> HIDE DEF F, u, r
<1>6. u \in Headed(F)
  BY <1>3, <1>4
<1>7. PICK n \in 0 .. Limit - 1 : \E w \in F[n] : u = EncodeVarint[n] \o w
  BY <1>6, Zenon DEF Headed
<1>8. PICK w \in F[n] : u = EncodeVarint[n] \o w
  BY <1>7
<1>9. w \in Bytes /\ v.bytes \in Bytes
  BY <1>5, GoodViewIs
<1>10. Then(EncodeVarint[v.count], v.bytes) = Then(EncodeVarint[n], w)
  BY <1>1, <1>8, Zenon DEF Then
<1>11. v.count = n /\ v.bytes = w
  BY <1>1, <1>9, <1>10, IntegerThen
<1>12. HoldsAll(k, v)
  BY <1>1, <1>5, <1>8, <1>11 DEF HoldsAll
<1>13. ShowsAll(k, r)
  BY <1>1, <1>12 DEF ShowsAll
<1> QED BY <1>13 DEF r

(* An item that is canonical is decoded, and a view in it holds all of its *)
(* items;                                                                  *)
LEMMA BorrowReach ==
  ASSUME NEW s \in Bytes, NEW lim, lim.packet \in Nat, Len(s) <= lim.packet,
         NEW k, Roomy(lim, s, k), ItemsHaveLengths(Types), NEW t \in Types, IsItem(t),
         NEW p \in 0 .. Len(s), NEW q \in p .. Len(s), Slice(s, p, q) \in CanonicalTo(k)[t]
  PROVE  Reaches(Borrow(t, s, p, lim), q) /\ ShowsAll(k, Borrow(t, s, p, lim))
<1> DEFINE r == Borrow(t, s, p, lim)
<1>1. lim.field \in Nat /\ Len(s) <= lim.field /\ k \in Nat /\ lim.items \in Nat /\ k <= lim.items
  BY DEF Roomy
<1>2. ASSUME NEW x, NEW L, Returns(x, s, p, NoView, L) PROVE ShowsAll(k, x)
  <2>1. x.view = << >>
    BY <1>2 DEF Returns, Outcome, NoView
  <2> QED BY <2>1 DEF ShowsAll
<1>3. CASE Borrowed(t) = "str"
  <2>1. r = ReadString(s, p, lim)
    BY <1>3, BorrowIs
  <2>2. t.k = "str"
    BY <1>3, BorrowedIs
  <2>3. Slice(s, p, q) \in Texts
    BY <2>2, CanonicalForms
  <2>4. Reaches(ReadString(s, p, lim), q)
    BY <1>1, <2>3, TextsReach
  <2>5. ShowsAll(k, ReadString(s, p, lim))
    BY <1>2, ReadStringReturns
  <2> QED BY <2>1, <2>4, <2>5
<1>4. CASE Borrowed(t) = "bytes"
  <2>1. r = ReadBytes(s, p, lim)
    BY <1>4, BorrowIs
  <2>2. t.k = "vec" /\ IsByteVec(t)
    BY <1>4 DEF Borrowed, IsItem, IsByteVec
  <2>3. Slice(s, p, q) \in Sized
    BY <2>2, ByteVecIs
  <2>4. Reaches(ReadBytes(s, p, lim), q)
    BY <1>1, <2>3, SizedReach
  <2>5. ShowsAll(k, ReadBytes(s, p, lim))
    BY <1>2, ReadBytesReturns
  <2> QED BY <2>1, <2>4, <2>5
<1>5. CASE Borrowed(t) = "view"
  <2> DEFINE c == ReadCount(s, p, lim)
             scan == Skip(s, lim)[t][p]
             z == View(t, s, p, lim)
             w == [Value(scan.pos, EncodeVarint[c.val], << >>) EXCEPT
                     !.view = <<[ty |-> t, bytes |-> SubSeq(s, c.pos + 1, scan.pos),
                                 count |-> c.val, max_size |-> ViewSize(lim)]>>]
  <2>1. r = z
    BY <1>5, BorrowIs
  <2>2. CountsOn(c, s, p, q, k, t)
    BY <1>1, <1>5, CountReach
  <2>3. Reaches(scan, q)
    <3>1. Sure(Skip(s, lim)[t], s, CanonicalTo(k)[t])
      BY SkipReach
    <3> QED BY <3>1 DEF Sure
  <2>4. z = IF c.err # "none" THEN Error(c.err, c.pos)
            ELSE IF scan.err # "none" THEN Error(scan.err, scan.pos) ELSE w
    BY ViewIs
  <2>5. w.err = "none" /\ w.pos = scan.pos
    BY DEF Value
  <2> HIDE DEF c, scan, z, w
  <2>6. c.err = "none"
    BY <2>2 DEF CountsOn, Ok
  <2>7. Reaches(z, q)
    BY <2>3, <2>4, <2>5, <2>6 DEF Reaches
  <2>8. ShowsAll(k, z)
    <3>1. z.err = "none" /\ Slice(s, p, z.pos) \in CanonicalTo(k)[t]
      BY <2>7 DEF Reaches
    <3> QED BY <1>5, <3>1, ViewHoldsAll DEF z
  <2> QED BY <2>1, <2>7, <2>8
<1>6. CASE Borrowed(t) = "owned"
  <2> DEFINE own == Own(s, lim)[t]
  <2>1. r = own[p]
    BY <1>6, BorrowIs
  <2>3. Sure(own, s, CanonicalTo(k)[t])
    BY OwnSure
  <2>4. Returns(own[p], s, p, NoView, Encoded[t])
    BY OwnReads DEF ReaderOf
  <2> HIDE DEF own
  <2>5. Reaches(own[p], q)
    BY <2>3 DEF Sure
  <2>6. ShowsAll(k, own[p])
    BY <1>2, <2>4
  <2> QED BY <2>1, <2>5, <2>6
<1> QED BY <1>3, <1>4, <1>5, <1>6, BorrowedIs

(* and so is a key, for what it is.                                        *)
LEMMA KeyReach ==
  ASSUME NEW s \in Bytes, NEW lim, NEW k, Roomy(lim, s, k), NEW t \in Types,
         t.k \in {"u8", "str"}, NEW p \in 0 .. Len(s), NEW q \in p .. Len(s),
         NEW c \in Keys(t), Slice(s, p, q) = KeyCode(t, c)
  PROVE  Reaches(Borrow(t, s, p, lim), q) /\ Borrow(t, s, p, lim).key = c
<1> DEFINE r == Borrow(t, s, p, lim)
<1>1. Excused({}, lim, s, k)
  BY DEF Excused
<1>2. CASE t.k = "u8"
  <2> DEFINE x == ReadU8(s, p)
  <2>1. Borrowed(t) = "owned"
    BY <1>2, BorrowedIs
  <2>2. r = x
    BY <1>2, <2>1, BorrowIs, OwnIs, OwnOfIs
  <2>3. c \in Exactly(1) /\ Slice(s, p, q) = c
    BY <1>2, KeysAre
  <2>4. x.err = "none" /\ x.pos = q /\ x.key = Slice(s, p, q)
    BY <2>3, ByteTakes
  <2> HIDE DEF x
  <2> QED BY <2>2, <2>3, <2>4 DEF Reaches
<1>3. CASE t.k = "str"
  <2> DEFINE x == ReadString(s, p, lim)
  <2>1. r = x
    BY <1>3, BorrowedIs, BorrowIs
  <2>2. /\ Len(c) \in 0 .. Limit - 1 /\ c \in Text(Len(c))
        /\ Slice(s, p, q) = Then(EncodeVarint[Len(c)], c)
    BY <1>3, KeysAre
  <2>3. x = Value(q, Slice(s, p, q), c)
    <3>1. x.err \in {} \/ x = Value(q, Slice(s, p, q), c)
      BY <1>1, <2>2, TextTakes
    <3> QED BY <3>1
  <2> HIDE DEF x
  <2>4. x.err = "none" /\ x.pos = q /\ x.key = c
    BY <2>3 DEF Value
  <2> QED BY <2>1, <2>4 DEF Reaches
<1> QED BY <1>2, <1>3

(* The item of an option that is canonical is so too.                      *)
LEMMA OptionShowsAll ==
  ASSUME NEW s \in Bytes, NEW p \in 0 .. Len(s), NEW reader, ReaderOf(reader, s, Views, Bytes),
         NEW k, NEW L, L \subseteq Bytes,
         \A j \in 0 .. Len(s) : reader[j].err = "none" /\ Slice(s, j, reader[j].pos) \in L =>
                                  ShowsAll(k, reader[j]),
         ReadOption(reader, s, p).err = "none",
         Slice(s, p, ReadOption(reader, s, p).pos) \in Marked(L)
  PROVE  ShowsAll(k, ReadOption(reader, s, p))
<1> DEFINE c == ReadMarker(s, p)
           m == c.pos
           u == reader[m]
           z == ReadOption(reader, s, p)
           v == [u EXCEPT !.val = <<1>> \o u.val]
<1>1. z = IF c.err # "none" THEN Error(c.err, m)
          ELSE IF c.val = <<0>> THEN c
          ELSE IF u.err # "none" THEN Error(u.err, u.pos) ELSE v
  BY OptionIs, Zenon
<1>2. /\ Returns(c, s, p, NoView, Exactly(1))
      /\ c.err = "none" => c.val \in {<<0>>, <<1>>} /\ c.val = Slice(s, p, m)
  BY MarkerReturns
<1>3. z.err = "none" /\ Slice(s, p, z.pos) \in Marked(L) /\ \A e, j : Error(e, j).err = e
  BY DEF Error
<1> HIDE DEF c
<1>4. m \in p .. Len(s) /\ m \in 0 .. Len(s) /\ c.view = << >>
  BY <1>2, ReturnsParts DEF NoView
<1>5. u \in Outcome(s, Views) /\ Returns(u, s, m, Views, Bytes)
  BY <1>4 DEF ReaderOf, Returns
<1> HIDE DEF u, m
<1>6. v.err = u.err /\ v.pos = u.pos /\ v.view = u.view
  BY <1>5 DEF Outcome
<1>7. u.pos \in m .. Len(s)
  BY <1>4, <1>5, ReturnsParts
<1> HIDE DEF v, z
<1>8. CASE c.val = <<0>>
  <2>1. z = c
    BY <1>1, <1>3, <1>8
  <2>2. ShowsAll(k, z)
    BY <1>4, <2>1 DEF ShowsAll
  <2> QED BY <2>2 DEF z
<1>9. CASE c.val # <<0>>
  <2> DEFINE q == u.pos
             y == Slice(s, m, q)
             one == <<1>>
             none == <<0>>
  <2>1. c.err = "none" /\ u.err = "none" /\ z = v
    BY <1>1, <1>3, <1>9
  <2>2. Slice(s, p, m) = one /\ Slice(s, p, q) \in Marked(L)
    BY <1>2, <1>3, <1>6, <1>9, <2>1
  <2>3. y \in Bytes /\ one \in Bytes /\ none \in Bytes
    BY <1>4, <1>7, OneByte, SliceFacts
  <2>4. Slice(s, p, q) = one \o y
    BY <1>4, <1>7, <2>2, SliceJoin
  <2>5. one \o y = none \/ \E a \in L : one \o y = one \o a
    BY <2>2, <2>4 DEF Marked
  <2>6. one \o y # none
    <3>1. (one \o y)[1] = 1
      BY <2>3, OneByte
    <3>2. none[1] = 0 /\ 0 # 1
      OBVIOUS
    <3> HIDE DEF one, none, y
    <3> QED BY <3>1, <3>2
  <2> HIDE DEF y, one, none
  <2>7. PICK a \in L : one \o y = one \o a
    BY <2>5, <2>6
  <2>8. a \in Bytes
    OBVIOUS
  <2>9. y = a
    BY <2>3, <2>7, <2>8, JoinCancels
  <2>10. ShowsAll(k, u)
    BY <1>4, <2>1, <2>9 DEF u, y
  <2>11. ShowsAll(k, z)
    BY <1>6, <2>1, <2>10 DEF ShowsAll
  <2> QED BY <2>11 DEF z
<1> QED BY <1>8, <1>9

(* A view in a field that is canonical holds all of its items.             *)
LEMMA FieldShowsAll ==
  ASSUME NEW s \in Bytes, NEW lim, lim.packet \in Nat, Len(s) <= lim.packet, NEW k,
         NEW t \in Types, NEW p \in 0 .. Len(s), BorrowField(s, lim)[t][p].err = "none",
         Slice(s, p, BorrowField(s, lim)[t][p].pos) \in CanonicalTo(k)[t]
  PROVE  ShowsAll(k, BorrowField(s, lim)[t][p])
<1> DEFINE borrow == BorrowField(s, lim)
           C == CanonicalTo(k)
           Good(r, j) == borrow[r][j].err = "none" /\ Slice(s, j, borrow[r][j].pos) \in C[r] =>
                           ShowsAll(k, borrow[r][j])
           T == {r \in Types : \A j \in 0 .. Len(s) : Good(r, j)}
<1>1. ASSUME NEW x, NEW j, NEW L, Returns(x, s, j, NoView, L) PROVE ShowsAll(k, x)
  <2>1. x.view = << >>
    BY <1>1 DEF Returns, Outcome, NoView
  <2> QED BY <2>1 DEF ShowsAll
<1>2. ASSUME NEW r \in Types, Parts(r) \subseteq T, NEW j \in 0 .. Len(s), borrow[r][j].err = "none",
             Slice(s, j, borrow[r][j].pos) \in C[r]
      PROVE  ShowsAll(k, borrow[r][j])
  <2> DEFINE z == borrow[r][j]
  <2>1. CASE r.k = "fixed"
    <3>1. z = ReadSlice(s, j, r.n)
      BY <2>1, BorrowFieldIs, BorrowOfIs
    <3>2. r.n \in Nat
      BY <2>1, PartsAre
    <3>3. ShowsAll(k, ReadSlice(s, j, r.n))
      BY <1>1, <3>2, ReadSliceReturns
    <3> QED BY <3>1, <3>3
  <2>2. CASE r.k = "option"
    <3> DEFINE reader == borrow[r.of]
               L == C[r.of]
    <3>1. z = ReadOption(reader, s, j)
      BY <2>2, BorrowFieldIs, BorrowOfIs
    <3>2. r.of \in Types /\ r.of \in T
      BY <1>2, <2>2, PartsAre
    <3>3. ReaderOf(reader, s, Views, Bytes)
      BY <3>2, BorrowFieldReads
    <3>4. C[r] = Marked(L) /\ L \subseteq Bytes
      BY <2>2, <3>2, CanonicalForms
    <3>5. \A i \in 0 .. Len(s) : reader[i].err = "none" /\ Slice(s, i, reader[i].pos) \in L =>
                                   ShowsAll(k, reader[i])
      BY <3>2
    <3>6. z.err = "none" /\ Slice(s, j, z.pos) \in C[r]
      BY <1>2
    <3> HIDE DEF borrow, C, L, reader, z
    <3>7. ReadOption(reader, s, j).err = "none" /\ Slice(s, j, ReadOption(reader, s, j).pos) \in Marked(L)
      BY <3>1, <3>4, <3>6
    <3>8. ShowsAll(k, ReadOption(reader, s, j))
      BY <3>3, <3>4, <3>5, <3>7, OptionShowsAll
    <3> QED BY <3>1, <3>8 DEF z
  <2>3. CASE r.k \notin {"fixed", "option"}
    <3>1. z = Borrow(r, s, j, lim)
      BY <2>3, BorrowFieldIs, BorrowOfIs
    <3>2. CASE Borrowed(r) = "str"
      <4>1. z = ReadString(s, j, lim)
        BY <3>1, <3>2, BorrowIs
      <4>2. ShowsAll(k, ReadString(s, j, lim))
        BY <1>1, ReadStringReturns
      <4> QED BY <4>1, <4>2
    <3>3. CASE Borrowed(r) = "bytes"
      <4>1. z = ReadBytes(s, j, lim)
        BY <3>1, <3>3, BorrowIs
      <4>2. ShowsAll(k, ReadBytes(s, j, lim))
        BY <1>1, ReadBytesReturns
      <4> QED BY <4>1, <4>2
    <3>4. CASE Borrowed(r) = "view"
      <4> DEFINE x == View(r, s, j, lim)
      <4>1. z = x
        BY <3>1, <3>4, BorrowIs
      <4>2. x.err = "none" /\ Slice(s, j, x.pos) \in C[r]
        BY <1>2, <4>1
      <4>3. ShowsAll(k, x)
        BY <3>4, <4>2, ViewHoldsAll
      <4> QED BY <4>1, <4>3
    <3>5. CASE Borrowed(r) = "owned"
      <4>1. z = Own(s, lim)[r][j]
        BY <3>1, <3>5, BorrowIs
      <4>2. Returns(Own(s, lim)[r][j], s, j, NoView, Encoded[r])
        BY OwnReads DEF ReaderOf
      <4>3. ShowsAll(k, Own(s, lim)[r][j])
        BY <1>1, <4>2
      <4> QED BY <4>1, <4>3
    <3> QED BY <3>2, <3>3, <3>4, <3>5, BorrowedIs
  <2> QED BY <2>1, <2>2, <2>3
<1>3. \A r \in Types : Parts(r) \subseteq T => r \in T
  BY <1>2
<1>4. T \in SUBSET Types
  OBVIOUS
<1> HIDE DEF T
<1>5. T = Types
  BY <1>3, <1>4, TypeInduction
<1>6. \A j \in 0 .. Len(s) : Good(t, j)
  BY <1>5 DEF T
<1> QED BY <1>6

-----------------------------------------------------------------------------
(* The iterators of a canonical packet                                     *)

(* The items that remain are canonical, for the count limit of the owned   *)
(* decode.                                                                 *)
HoldsRest(k, it) ==
  From(it.view.bytes, it.pos) \in Remaining(k, it.view.ty, it.remaining, it.previous)

(* An iterator decodes the next one, and those after it remain.            *)
NextHolds(k, it, item) ==
  item.err = "none" /\ HoldsRest(k, Moved(it, item)) /\ ShowsAll(k, item)

LEMMA ViewIsRoomy ==
  ASSUME NEW v \in GoodViews, NEW k \in Nat, k <= DefaultItems
  PROVE  Roomy(ViewLimits(v), v.bytes, k)
<1>1. v.max_size \in Nat /\ Len(v.bytes) <= v.max_size
  BY GoodViewIs
<1>2. DefaultItems \in Nat
  BY MessagesAssumption
<1> QED BY <1>1, <1>2 DEF Roomy, ViewLimits

LEMMA NextOfVecHolds ==
  ASSUME Top \in Iterators, Top.view.ty.k = "vec", Top.remaining > 0, ItemsHaveLengths(Types),
         NEW k \in Nat, k <= DefaultItems, HoldsRest(k, Top)
  PROVE  NextHolds(k, Top, NextOutcome)
<1> DEFINE s == Top.view.bytes
           t == Top.view.ty
           lim == ViewLimits(Top.view)
           p == Top.pos
           x == Borrow(t.of, s, p, lim)
           n == NextOutcome
           r == Top.remaining - 1
           keys == Top.previous
           L == CanonicalTo(k)[t.of]
           M == Remaining(k, t, r, keys)
<1>1. /\ Top.view \in GoodViews /\ p \in 0 .. Len(s) /\ keys \in SUBSET Bytes
      /\ t \in Types /\ s \in Bytes /\ Top.view.max_size \in Nat /\ Len(s) <= Top.view.max_size
  BY IteratorIs, GoodViewIs
<1>2. r \in Nat /\ Top.remaining = r + 1
  BY IteratorIs, GoodViewIs
<1>3. t.of \in Types /\ IsItem(t.of)
  BY <1>1, PartsAreItems
<1>4. n.err = x.err /\ n.pos = x.pos /\ n.view = x.view /\ n.previous = keys
  BY DEF NextOutcome, NextOfVec, TopBytes, Kept
<1>5. lim.packet \in Nat /\ Len(s) <= lim.packet /\ Roomy(lim, s, k)
  BY <1>1, ViewIsRoomy DEF ViewLimits
<1>6. From(s, p) \in TwoOf(L, M)
  <2>1. From(s, p) \in Remaining(k, t, r + 1, keys)
    BY <1>2 DEF HoldsRest
  <2>2. t.k = "vec"
    OBVIOUS
  <2>3. t \in Types /\ r \in Nat
    BY <1>1, <1>2
  <2> HIDE DEF s, t, p, r, keys, L
  <2>4. \A later : Remaining(k, t, r + 1, keys) = TwoOf(L, Remaining(k, t, r, later))
    <3> TAKE later
    <3> QED BY <2>2, <2>3, VecGoesOn DEF L
  <2>5. Remaining(k, t, r + 1, keys) = TwoOf(L, M)
    BY <2>4
  <2> QED BY <2>1, <2>5
<1>7. L \subseteq Bytes /\ M \subseteq Bytes
  BY <1>1, <1>3, CanonicalForms, NoneRemain
<1>8. Moved(Top, n).view = Top.view /\ Moved(Top, n).pos = n.pos
      /\ Moved(Top, n).remaining = r /\ Moved(Top, n).previous = keys
  <2>1. Top \in [view : GoodViews, pos : Nat, remaining : Nat, previous : SUBSET Bytes]
    BY DEF Iterators
  <2> QED BY <1>4, <2>1 DEF Moved
<1> HIDE DEF s, t, lim, p, x, n, r, keys, L
<1>9. PICK a \in L, b \in M : From(s, p) = Then(a, b)
  BY <1>6, Zenon DEF TwoOf, Then
<1>10. a \in Bytes /\ b \in Bytes
  BY <1>7
<1> DEFINE q == p + Len(a)
<1>11. q = p + Len(a)
  OBVIOUS
<1> HIDE DEF q, M
<1>12. q \in p .. Len(s) /\ Slice(s, p, q) = a /\ From(s, q) = b
  BY <1>1, <1>9, <1>10, <1>11, SliceFront
<1>13. Slice(s, p, q) \in CanonicalTo(k)[t.of]
  BY <1>12 DEF L
<1>14. Reaches(x, q) /\ ShowsAll(k, x)
  BY <1>1, <1>3, <1>5, <1>12, <1>13, BorrowReach DEF x
<1>15. n.err = "none" /\ n.pos = q /\ ShowsAll(k, n)
  BY <1>4, <1>14 DEF Reaches, ShowsAll
<1>16. From(s, q) \in M
  BY <1>12
<1>17. HoldsRest(k, Moved(Top, n))
  BY <1>8, <1>15, <1>16 DEF HoldsRest, M, s, t
<1> QED BY <1>15, <1>17 DEF NextHolds, n

LEMMA NextOfMapHolds ==
  ASSUME Top \in Iterators, Top.view.ty.k = "map", Top.remaining > 0, ItemsHaveLengths(Types),
         NEW k \in Nat, k <= DefaultItems, HoldsRest(k, Top)
  PROVE  NextHolds(k, Top, NextOutcome)
<1> DEFINE s == Top.view.bytes
           t == Top.view.ty
           lim == ViewLimits(Top.view)
           p == Top.pos
           x == Borrow(t.key, s, p, lim)
           y == Borrow(t.of, s, x.pos, lim)
           n == NextOutcome
           r == Top.remaining - 1
           keys == Top.previous
           L == CanonicalTo(k)[t.of]
<1>1. /\ Top.view \in GoodViews /\ p \in 0 .. Len(s) /\ keys \in SUBSET Bytes
      /\ t \in Types /\ s \in Bytes /\ Top.view.max_size \in Nat /\ Len(s) <= Top.view.max_size
  BY IteratorIs, GoodViewIs
<1>2. r \in Nat /\ Top.remaining = r + 1
  BY IteratorIs, GoodViewIs
<1>3. /\ t.of \in Types /\ IsItem(t.of)
      /\ t.key \in Types /\ t.key.k \in {"u8", "str"}
  BY <1>1, PartsAreItems, PartsAre
<1>4. lim.packet \in Nat /\ Len(s) <= lim.packet /\ Roomy(lim, s, k)
  BY <1>1, ViewIsRoomy DEF ViewLimits
<1>5. n = IF x.err # "none" THEN Stopped(x.err, x.pos, keys)
          ELSE IF ~InOrder(x.key) THEN Stopped("MalformedConstructor", x.pos, keys)
          ELSE IF y.err # "none" THEN Stopped(y.err, y.pos, {x.key})
          ELSE Kept([y EXCEPT !.val = x.val \o y.val], {x.key})
  BY Zenon DEF NextOutcome, NextOfMap, KeyOfMap, ValueOfMap, TopBytes
<1>6. t.k = "map"
  OBVIOUS
<1>7. From(s, p) \in OneSorted(t.key, L, r, keys)
  <2>1. From(s, p) \in Remaining(k, t, r + 1, keys)
    BY <1>2 DEF HoldsRest
  <2> HIDE DEF s, t, p, r, keys
  <2>2. Remaining(k, t, r + 1, keys) = OneSorted(t.key, L, r, keys)
    BY <1>1, <1>2, <1>6, MapGoesOn
  <2> QED BY <2>1, <2>2
<1>8. L \subseteq Bytes
  BY <1>3, CanonicalForms
<1>9. \A a, b : Remaining(k, t, a, b) = Sorted(t.key, L, a, b)
  <2> HIDE DEF t, s, p, r, keys
  <2> QED BY <1>1, <1>2, <1>6, MapGoesOn
<1>10. ASSUME n.pos = y.pos, NEW c, n.previous = {c}
       PROVE  /\ Moved(Top, n).view = Top.view /\ Moved(Top, n).pos = n.pos
              /\ Moved(Top, n).remaining = r /\ Moved(Top, n).previous = {c}
  <2>1. Top \in [view : GoodViews, pos : Nat, remaining : Nat, previous : SUBSET Bytes]
    BY DEF Iterators
  <2> QED BY <1>10, <2>1 DEF Moved
<1> HIDE DEF s, t, lim, p, x, y, n, r, keys, L
<1>11. PICK c \in Keys(t.key), v \in L : \E b \in Sorted(t.key, L, r, {c}) :
         /\ From(s, p) = Then(Then(KeyCode(t.key, c), v), b)
         /\ \A a \in keys : KeyLess(a, c)
  BY <1>7, Zenon DEF OneSorted
<1>12. PICK b \in Sorted(t.key, L, r, {c}) :
         /\ From(s, p) = Then(Then(KeyCode(t.key, c), v), b)
         /\ \A a \in keys : KeyLess(a, c)
  BY <1>11
<1> DEFINE code == KeyCode(t.key, c)
           m == p + Len(code)
           q == m + Len(v)
<1>13. /\ m = p + Len(code) /\ q = m + Len(v)
       /\ code \in Bytes /\ v \in Bytes /\ b \in Bytes /\ code = KeyCode(t.key, c)
       /\ From(s, p) = Then(Then(code, v), b)
  BY <1>3, <1>8, <1>12, KeysAre, SortedBytes
<1> HIDE DEF code, m, q
<1>14. From(s, p) = Then(code, Then(v, b)) /\ Then(v, b) \in Bytes
  <2>1. Then(Then(code, v), b) = Then(code, Then(v, b))
    BY <1>13, ThenAssoc
  <2>2. Then(v, b) \in Bytes
    BY <1>13, JoinFacts DEF Then
  <2> QED BY <1>13, <2>1, <2>2
<1>15. m \in p .. Len(s) /\ Slice(s, p, m) = code /\ From(s, m) = Then(v, b)
  <2> DEFINE w == Then(v, b)
  <2>1. w \in Bytes /\ From(s, p) = Then(code, w)
    BY <1>14
  <2> HIDE DEF w
  <2>2. m \in p .. Len(s) /\ Slice(s, p, m) = code /\ From(s, m) = w
    BY <1>1, <1>13, <2>1, SliceFront
  <2> QED BY <2>2 DEF w
<1>16. m \in 0 .. Len(s)
  BY <1>1, <1>15 DEF Bytes
<1>17. q \in m .. Len(s) /\ Slice(s, m, q) = v /\ From(s, q) = b
  BY <1>1, <1>13, <1>15, <1>16, SliceFront
<1>18. Reaches(x, m) /\ x.key = c
  <2>1. Slice(s, p, m) = KeyCode(t.key, c)
    BY <1>13, <1>15
  <2> QED BY <1>1, <1>3, <1>4, <1>15, <2>1, KeyReach DEF x
<1> DEFINE z == Borrow(t.of, s, m, lim)
<1>19. y = z
  BY <1>18 DEF Reaches, y
<1>20. Reaches(z, q) /\ ShowsAll(k, z)
  <2>1. Slice(s, m, q) \in CanonicalTo(k)[t.of]
    BY <1>17 DEF L
  <2> QED BY <1>1, <1>3, <1>4, <1>16, <1>17, <2>1, BorrowReach
<1>21. z \in Outcome(s, Views)
  BY <1>1, <1>3, <1>4, <1>16, BorrowReturns DEF Returns
<1> HIDE DEF z
<1>22. InOrder(c)
  BY <1>12 DEF InOrder, keys
<1>23. n.err = "none" /\ n.pos = q /\ n.view = z.view /\ n.previous = {c}
  <2> DEFINE w == [z EXCEPT !.val = x.val \o z.val]
  <2>1. w.err = z.err /\ w.pos = z.pos /\ w.view = z.view
    BY <1>21 DEF Outcome
  <2>2. n = Kept(w, {c})
    BY <1>5, <1>18, <1>19, <1>20, <1>22 DEF Reaches
  <2> HIDE DEF w
  <2> QED BY <1>20, <2>1, <2>2 DEF Reaches, Kept
<1>24. ShowsAll(k, n)
  BY <1>20, <1>23 DEF ShowsAll
<1>25. HoldsRest(k, Moved(Top, n))
  <2>1. n.pos = y.pos
    BY <1>19, <1>20, <1>23 DEF Reaches
  <2>2. /\ Moved(Top, n).view = Top.view /\ Moved(Top, n).pos = n.pos
        /\ Moved(Top, n).remaining = r /\ Moved(Top, n).previous = {c}
    BY <1>10, <1>23, <2>1
  <2>3. From(s, q) \in Remaining(k, t, r, {c})
    BY <1>9, <1>17
  <2> QED BY <1>23, <2>2, <2>3 DEF HoldsRest, s, t
<1> QED BY <1>23, <1>24, <1>25 DEF NextHolds, n

LEMMA NextIsHeld ==
  ASSUME Top \in Iterators, Top.remaining > 0, ItemsHaveLengths(Types),
         NEW k \in Nat, k <= DefaultItems, HoldsRest(k, Top)
  PROVE  NextHolds(k, Top, NextOutcome)
<1>1. Top.view.ty.k \in {"vec", "map"}
  BY IteratorIs, GoodViewIs
<1> QED BY <1>1, NextOfVecHolds, NextOfMapHolds

(* A packet that the owned decode gives back is a canonical encoding, but  *)
(* for its count limit, which a Vec<u8> field does not know.               *)
LEMMA OwnedIsCanonical ==
  ASSUME packet \in Packets, limits \in Limits, field \in Fields,
         Owned.err = "none", Owned.val = packet
  PROVE  /\ limits.items \in Nat
         /\ IsByteVec(field.ty) \/ packet \in CanonicalTo(limits.items)[field.ty]
<1> DEFINE t == field.ty
           x == OwnField(field, packet, limits)
           k == limits.items
<1>1. packet \in Bytes /\ 0 \in 0 .. Len(packet) /\ t \in Types
  BY PacketIs
<1>2. k \in Nat
  BY MessagesAssumption
<1>3. Owned = IF x.err # "none" THEN Error(x.err, x.pos)
              ELSE IF x.pos # Len(packet) THEN Error("MalformedConstructor", x.pos) ELSE x
  BY DEF Owned, OwnedDecode, Finished, Try
<1>4. \A e, j : Error(e, j).err = e
  BY DEF Error
<1>5. x.err = "none" /\ x.val = packet
  <2> HIDE DEF x
  <2> QED BY <1>3, <1>4
<1>6. CASE ~IsByteVec(t)
  <2>1. x = Own(packet, limits)[t][0]
    BY <1>6 DEF OwnField
  <2>2. Gives(Own(packet, limits)[t], packet, CanonicalTo(k)[t])
    BY <1>1, <1>2, OwnGives
  <2>3. x.val \in CanonicalTo(k)[t]
    BY <1>1, <1>5, <2>1, <2>2 DEF Gives
  <2> QED BY <1>2, <1>5, <2>3
<1> QED BY <1>2, <1>6

(* The items of all the iterators are canonical.                           *)
AllHold(k, stack) == \A i \in 1 .. Len(stack) : HoldsRest(k, stack[i])

LEMMA PushHolds ==
  ASSUME NEW k, NEW it \in Iterators, HoldsRest(k, it), NEW b \in Seq(Iterators), AllHold(k, b)
  PROVE  AllHold(k, Push(it, b))
<1> DEFINE u == Push(it, b)
<1>1. /\ Len(u) = Len(b) + 1 /\ Len(b) \in Nat /\ u[1] = it
      /\ \A i \in 1 .. Len(b) : u[i + 1] = b[i]
  BY DEF Push
<1> HIDE DEF u
<1>2. ASSUME NEW i \in 1 .. Len(u) PROVE HoldsRest(k, u[i])
  <2>1. CASE i = 1
    BY <1>1, <2>1
  <2>2. CASE i # 1
    <3> DEFINE j == i - 1
    <3>1. j \in 1 .. Len(b) /\ i = j + 1
      BY <1>1, <2>2
    <3> HIDE DEF j
    <3>2. HoldsRest(k, b[j])
      BY <3>1 DEF AllHold
    <3> QED BY <1>1, <3>1, <3>2
  <2> QED BY <2>1, <2>2
<1>3. AllHold(k, u)
  BY <1>2 DEF AllHold
<1> QED BY <1>3 DEF u

(* An iterator that is opened over what an outcome shows holds it.         *)
LEMMA OpensHolds ==
  ASSUME NEW k, NEW res, res.view \in Views, ShowsAll(k, res),
         NEW b \in Seq(Iterators), AllHold(k, b), NEW stack, Opens(res, stack, b)
  PROVE  AllHold(k, stack)
<1>1. CASE res.view = << >>
  BY <1>1 DEF Opens
<1>2. CASE res.view # << >>
  <2>1. PICK v \in GoodViews : res.view[1] = v /\ stack = Push(Iter(v), b)
    BY <1>2 DEF Opens
  <2>2. HoldsAll(k, v)
    BY <1>2, <2>1 DEF ShowsAll
  <2> DEFINE i == Iter(v)
  <2>3. i \in Iterators /\ Ahead(i) = v.bytes
    BY IterIs, IterAhead
  <2>4. i.view = v /\ i.remaining = v.count /\ i.previous = {}
    BY DEF Iter
  <2> HIDE DEF i
  <2>5. HoldsRest(k, i)
    BY <2>2, <2>3, <2>4 DEF HoldsRest, HoldsAll, Ahead
  <2>6. AllHold(k, Push(i, b))
    BY <2>3, <2>5, PushHolds
  <2> QED BY <2>1, <2>6 DEF i
<1> QED BY <1>1, <1>2

(* The iterators of a canonical packet, when it is opened,                 *)
LEMMA OpenHolds ==
  ASSUME WalkInv, BorrowedDecode.err = "none", NEW k,
         IsByteVec(field.ty) \/ packet \in CanonicalTo(k)[field.ty]
  PROVE  AllHold(k, Opened(BorrowedDecode))
<1> DEFINE d == BorrowedDecode
           t == field.ty
           stack == Opened(d)
           none == << >>
<1>1. /\ packet \in Packets /\ limits \in Limits /\ field \in Fields /\ Len(packet) <= limits.packet
  BY DEF WalkInv
<1>2. packet \in Bytes /\ 0 \in 0 .. Len(packet) /\ limits.packet \in Nat /\ t \in Types
  BY <1>1, PacketIs
<1>3. d.view \in Views /\ d = BorrowField(packet, limits)[t][0] /\ d.pos = Len(packet)
  BY <1>1, BorrowedDecodeReturns
<1>4. Slice(packet, 0, Len(packet)) = packet
  BY <1>2, SliceAll DEF From
<1>5. Opens(d, stack, none)
  <2> HIDE DEF d
  <2>1. none \in Seq(Iterators)
    OBVIOUS
  <2> QED BY <1>3, <2>1, OpenedOn
<1>6. d.err = "none"
  OBVIOUS
<1>7. ShowsAll(k, d)
  <2> HIDE DEF d
  <2>1. BorrowField(packet, limits)[t][0].err = "none"
    BY <1>3, <1>6
  <2>2. CASE IsByteVec(t)
    <3> DEFINE x == ReadBytes(packet, 0, limits)
    <3>1. t.k = "vec" /\ Borrowed(t) = "bytes"
      BY <2>2 DEF IsByteVec, Borrowed
    <3>2. BorrowField(packet, limits)[t][0] = Borrow(t, packet, 0, limits)
      <4> HIDE DEF t, x
      <4>1. t.k \notin {"fixed", "option"}
        BY <3>1
      <4> QED BY <1>1, <1>2, <4>1, BorrowFieldIs, BorrowOfIs
    <3>4. Borrow(t, packet, 0, limits) = x
      BY <1>2, <3>1, BorrowIs
    <3>3. x.view \in NoView
      BY <1>2, ReadBytesReturns DEF Returns, Outcome
    <3> HIDE DEF x
    <3> QED BY <1>3, <3>2, <3>3, <3>4 DEF NoView, ShowsAll
  <2>3. CASE ~IsByteVec(t)
    <3>1. Slice(packet, 0, BorrowField(packet, limits)[t][0].pos) \in CanonicalTo(k)[t]
      BY <1>3, <1>4, <2>3
    <3>2. ShowsAll(k, BorrowField(packet, limits)[t][0])
      BY <1>1, <1>2, <2>1, <3>1, FieldShowsAll
    <3> QED BY <1>3, <3>2
  <2> QED BY <2>2, <2>3
<1> HIDE DEF d, stack
<1>8. none \in Seq(Iterators) /\ AllHold(k, none)
  BY DEF AllHold
<1> HIDE DEF none
<1>9. AllHold(k, stack)
  BY <1>3, <1>5, <1>7, <1>8, OpensHolds
<1> QED BY <1>9 DEF stack, d

(* at the end of a view,                                                   *)
LEMMA TailHolds ==
  ASSUME iterators \in Seq(Iterators), iterators # << >>, NEW k, AllHold(k, iterators)
  PROVE  HoldsRest(k, Top) /\ AllHold(k, Tail(iterators))
<1>1. /\ Top = iterators[1] /\ 1 \in 1 .. Len(iterators)
      /\ \A i \in 1 .. Len(Tail(iterators)) :
           i + 1 \in 1 .. Len(iterators) /\ Tail(iterators)[i] = iterators[i + 1]
  BY TopIs
<1> DEFINE b == Tail(iterators)
<1> HIDE DEF b
<1>2. \A i \in 1 .. Len(b) : HoldsRest(k, b[i])
  BY <1>1 DEF AllHold, b
<1>3. HoldsRest(k, iterators[1])
  BY <1>1 DEF AllHold
<1> QED BY <1>1, <1>2, <1>3 DEF AllHold, b

(* and with each next(), which returns no Err.                             *)
LEMMA NextHeld ==
  ASSUME WalkInv, iterators # << >>, Top.remaining > 0, ItemsHaveLengths(Types),
         NEW k \in Nat, k <= DefaultItems, AllHold(k, iterators)
  PROVE  /\ NextOutcome.err = "none"
         /\ AllHold(k, Opened(NextOutcome) \o Push(Moved(Top, NextOutcome), Tail(iterators)))
<1> DEFINE n == NextOutcome
           it == Moved(Top, n)
           b == Tail(iterators)
           base == Push(it, b)
           stack == Opened(n) \o base
<1>1. iterators \in Seq(Iterators)
  BY DEF WalkInv
<1>2. Top \in Iterators /\ b \in Seq(Iterators) /\ HoldsRest(k, Top) /\ AllHold(k, b)
  BY <1>1, TopIs, TailHolds
<1>3. n \in NextOutcomes(Top) /\ NextHolds(k, Top, n)
  BY <1>2, NextReturns, NextIsHeld
<1> HIDE DEF n, b
<1>4. n.view \in Views /\ it \in Iterators
  BY <1>2, <1>3, MovedIs DEF NextOutcomes
<1>5. n.err = "none" /\ HoldsRest(k, it) /\ ShowsAll(k, n)
  BY <1>3 DEF NextHolds
<1> HIDE DEF it
<1>6. base \in Seq(Iterators) /\ AllHold(k, base)
  BY <1>2, <1>4, <1>5, PushIs, PushHolds
<1> HIDE DEF base
<1>7. Opens(n, stack, base)
  BY <1>4, <1>6, OpenedOn
<1> HIDE DEF stack
<1>8. AllHold(k, stack)
  BY <1>4, <1>5, <1>6, <1>7, OpensHolds
<1> QED BY <1>5, <1>8 DEF n, it, b, base, stack

(* The invariant: no iterator has returned an Err for a packet that the    *)
(* owned decode gives back, and none will, as all that remains is          *)
(* canonical.                                                              *)
HoldInv ==
  /\ OpenInv
  /\ Owned.err = "none" /\ Owned.val = packet /\ limits.items <= DefaultItems =>
       /\ ~failed
       /\ phase \in {"walking", "done"} => AllHold(limits.items, iterators)

LEMMA HoldInit == Init => HoldInv
<1> SUFFICES ASSUME Init PROVE HoldInv
  OBVIOUS
<1>1. OpenInv
  BY OpenInvariance
<1>2. phase = "start" /\ failed = FALSE
  BY DEF Init
<1> QED BY <1>1, <1>2 DEF HoldInv

LEMMA HoldStep ==
  ASSUME ItemsHaveLengths(Types)
  PROVE  HoldInv /\ [Next]_vars => HoldInv'
<1> SUFFICES ASSUME HoldInv, [Next]_vars PROVE HoldInv'
  OBVIOUS
<1> DEFINE k == limits.items
<1>1. OpenInv /\ OpenInv' /\ WalkInv
  BY OpenInvariance DEF HoldInv, OpenInv
<1>2. UNCHANGED <<packet, field, limits>>
  BY Zenon DEF Next, Open, NextItem, EndOfView, Done, vars
<1>3. Owned' = Owned
  BY <1>2 DEF Owned
<1> SUFFICES ASSUME Owned.err = "none", Owned.val = packet, k <= DefaultItems
             PROVE  ~failed' /\ (phase' \in {"walking", "done"} => AllHold(k, iterators'))
  BY <1>1, <1>2, <1>3 DEF HoldInv
<1>4. ~failed /\ (phase \in {"walking", "done"} => AllHold(k, iterators))
  BY DEF HoldInv
<1>5. k \in Nat /\ (IsByteVec(field.ty) \/ packet \in CanonicalTo(k)[field.ty])
  BY <1>1, OwnedIsCanonical DEF WalkInv
<1> HIDE DEF k
<1>6. CASE Open
  <2> DEFINE d == BorrowedDecode
  <2>1. /\ phase' = IF d.err = "none" THEN "walking" ELSE "refused"
        /\ iterators' = Opened(d) /\ UNCHANGED failed
    BY <1>6 DEF Open, Opening
  <2>2. d.err = "none" => AllHold(k, Opened(d))
    BY <1>1, <1>5, OpenHolds
  <2> HIDE DEF d
  <2> QED BY <1>4, <2>1, <2>2
<1>7. CASE NextItem
  <2> DEFINE n == NextOutcome
             stack == Opened(n) \o Push(Moved(Top, n), Tail(iterators))
  <2>1. /\ phase = "walking" /\ iterators # << >> /\ Top.remaining > 0
        /\ failed' = (failed \/ n.err # "none")
    BY <1>7 DEF NextItem, Advanced
  <2>2. iterators' = stack
    BY <1>1, <1>7, NextPushes
  <2>4. n.err = "none" /\ AllHold(k, stack)
    BY <1>1, <1>4, <1>5, <2>1, NextHeld
  <2> HIDE DEF n, stack
  <2> QED BY <1>4, <2>1, <2>2, <2>4
<1>8. CASE EndOfView
  <2>1. /\ phase = "walking" /\ iterators # << >> /\ iterators' = Tail(iterators)
        /\ UNCHANGED <<phase, failed>>
    BY <1>8 DEF EndOfView
  <2>2. AllHold(k, Tail(iterators))
    BY <1>1, <1>4, <2>1, TailHolds DEF WalkInv
  <2> QED BY <1>4, <2>1, <2>2
<1>9. CASE Done
  BY <1>4, <1>9 DEF Done
<1>10. CASE UNCHANGED vars
  BY <1>4, <1>10 DEF vars
<1> QED BY <1>6, <1>7, <1>8, <1>9, <1>10 DEF Next

(* What the owned decode accepts, the borrowed decode opens, but for its   *)
(* limit on a Vec<u8>; and its iterators return no Err, but for the keys of*)
(* a map that the owned decode has put in order (wire.rs:487-494, 589-662).*)
THEOREM DecodedWalks ==
  ASSUME ItemsHaveLengths(Types)
  PROVE  Spec => []DecodedIsWalked
<1>1. Init => HoldInv
  BY HoldInit
<1>2. HoldInv /\ [Next]_vars => HoldInv'
  BY HoldStep
<1>3. HoldInv => DecodedIsWalked
  <2> SUFFICES ASSUME HoldInv PROVE DecodedIsWalked
    OBVIOUS
  <2>1. DecodedIsOpened
    BY OpenedIfDecoded DEF HoldInv
  <2>2. limits.items <= DefaultItems => ItemsDecode
    BY DEF HoldInv, ItemsDecode
  <2> QED BY <2>1, <2>2 DEF DecodedIsWalked
<1> QED BY <1>1, <1>2, <1>3, PTL DEF Spec
=============================================================================
