--------------------------- MODULE EncoderProofs ---------------------------
(***************************************************************************)
(* For every set of values, which are finite trees, and every limit: the   *)
(* encoder's buffer stays within its limit, whatever is written, refused,  *)
(* reset or reused; encoded_len is the number of bytes encode writes; a    *)
(* packet is the values accepted; and encode_value refuses exactly what is *)
(* too large.                                                              *)
(***************************************************************************)
EXTENDS Encoder, Recursion

(* A value without parts is one write: it is still to be made, and the     *)
(* buffer is as the call found it, or nothing is left to write.            *)
OneWrite ==
  status = "encoding" /\ current.items = << >> /\ todo # << >> =>
    /\ todo = <<current>>
    /\ ~dirty => bytes = Encodings(accepted)

(* encode_value writes a value that fits into an encoder of its own, which *)
(* no other call is given.                                                 *)
CheckedFits ==
  checked =>
    /\ status # "idle"
    /\ status = "encoding" =>
         /\ ~dirty
         /\ accepted = << >>
         /\ max_size = DefaultMax
         /\ EncodedLen[current] <= DefaultMax

IInv ==
  TypeOK /\ WithinLimit /\ PacketIsItsValues /\ PrecheckIsExact /\ OneWrite /\ CheckedFits

(* The atomic write of a value is a sequence of bytes.                     *)
LEMMA LeadingIsBytes ==
  ASSUME NEW v \in Values
  PROVE  Leading(v) \in Seq(Byte)
<1>1. /\ v.bytes \in Seq(Byte)
      /\ Varint[Len(v.bytes)] \in Seq(Byte)
      /\ Varint[Count(v)] \in Seq(Byte)
      /\ v.tag \in Tags
  BY ValuesAssumption
<1>2. CASE v.tag = "fixed"
  BY <1>1, <1>2 DEF Leading
<1>3. CASE v.tag \in {"bytes", "exact"}
  <2>1. Leading(v) = Varint[Len(v.bytes)] \o v.bytes
    BY <1>3 DEF Leading
  <2> QED BY <1>1, <2>1
<1>4. CASE v.tag = "option"
  <2>1. Leading(v) = <<0>> \/ Leading(v) = <<1>>
    BY <1>4 DEF Leading
  <2>2. <<0>> \in Seq(Byte) /\ <<1>> \in Seq(Byte)
    <3>1. 0 \in Byte /\ 1 \in Byte
      BY SizesAssumption
    <3> QED BY <3>1
  <2> QED BY <2>1, <2>2
<1>5. CASE v.tag \in {"vec", "map"}
  <2>1. Leading(v) = Varint[Count(v)]
    BY <1>5 DEF Leading
  <2> QED BY <1>1, <2>1
<1> QED BY <1>1, <1>2, <1>3, <1>4, <1>5 DEF Tags

-----------------------------------------------------------------------------
(* The bytes of a value.  A value is a finite tree, so that its encoding,  *)
(* which is written by recursion over its parts, exists and is made of     *)
(* bytes.                                                                  *)
Parts == [v \in Values |-> {v.items[i] : i \in DOMAIN v.items}]

LEMMA ItemsAreValues ==
  ASSUME NEW v \in Values
  PROVE  /\ v.items \in Seq(Values)
         /\ \A i \in DOMAIN v.items : v.items[i] \in Values
<1>1. v.items \in Seq(Values)
  BY ValuesAssumption
<1> QED BY <1>1

LEMMA ValuesAreTrees ==
  /\ Parts \in [Values -> SUBSET Values]
  /\ WellFounded(Values, Parts)
<1>1. Parts \in [Values -> SUBSET Values]
  BY ItemsAreValues DEF Parts
<1>2. WellFounded(Values, Parts)
  <2> SUFFICES ASSUME NEW S \in SUBSET Values, S # {}
               PROVE  \E v \in S : Parts[v] \cap S = {}
    BY DEF WellFounded
  <2>1. PICK v \in S : \A i \in DOMAIN v.items : v.items[i] \notin S
    BY TreesAssumption
  <2>2. Parts[v] = {v.items[i] : i \in DOMAIN v.items}
    BY <2>1 DEF Parts
  <2> QED BY <2>1, <2>2
<1> QED BY <1>1, <1>2

(* The encodings of the items, when those of all values are known.         *)
Each(f, values) == [i \in DOMAIN values |-> f[values[i]]]

LEMMA EachIsSeq ==
  ASSUME NEW V, NEW f, NEW values \in Seq(Values), \A v \in Values : f[v] \in V
  PROVE  Each(f, values) \in Seq(V) /\ Len(Each(f, values)) = Len(values)
<1> DEFINE n == Len(values)
<1>1. n \in Nat /\ DOMAIN values = 1 .. n /\ \A i \in 1 .. n : values[i] \in Values
  OBVIOUS
<1> HIDE DEF n
<1>2. Each(f, values) = [i \in 1 .. n |-> f[values[i]]]
  BY <1>1 DEF Each
<1>3. \A i \in 1 .. n : f[values[i]] \in V
  BY <1>1
<1>4. Each(f, values) \in Seq(V) /\ Len(Each(f, values)) = n
  BY <1>1, <1>2, <1>3
<1> QED BY <1>4 DEF n

LEMMA EncodingEquation ==
  Encoding = [v \in Values |-> Leading(v) \o FlattenSeq(Each(Encoding, v.items))]
<1> DEFINE V == Seq(Byte)
           Rule(v, f) == Leading(v) \o FlattenSeq(Each(f, v.items))
           Rules == [v \in Values |-> [f \in [Values -> V] |-> Rule(v, f)]]
           Eq(f) == f = [v \in Values |-> Rule(v, f)]
<1>1. \A v \in Values, f \in [Values -> V] : Rule(v, f) \in V
  <2> SUFFICES ASSUME NEW v \in Values, NEW f \in [Values -> V] PROVE Rule(v, f) \in V
    OBVIOUS
  <2>1. Each(f, v.items) \in Seq(V)
    <3>1. v.items \in Seq(Values) /\ \A w \in Values : f[w] \in V
      BY ItemsAreValues
    <3> HIDE DEF V
    <3> QED BY <3>1, EachIsSeq
  <2>2. FlattenSeq(Each(f, v.items)) \in V
    BY <2>1, FlattenType
  <2> QED BY <2>2, LeadingIsBytes, ConcatProperties
<1>2. LocalTo(Values, V, Parts, Rules)
  <2> SUFFICES ASSUME NEW v \in Values, NEW f \in [Values -> V], NEW g \in [Values -> V],
                      \A w \in Parts[v] : f[w] = g[w]
               PROVE  Rules[v][f] = Rules[v][g]
    BY DEF LocalTo
  <2>1. Each(f, v.items) = Each(g, v.items)
    <3>1. \A i \in DOMAIN v.items : v.items[i] \in Parts[v]
      BY DEF Parts
    <3>2. \A i \in DOMAIN v.items : f[v.items[i]] = g[v.items[i]]
      BY <3>1
    <3> QED BY <3>2, Zenon DEF Each
  <2>2. Rule(v, f) = Rule(v, g)
    BY <2>1
  <2> HIDE DEF Rule, V
  <2> QED BY <2>2
<1>3. \E f : Eq(f)
  <2>1. Rules \in [Values -> [[Values -> V] -> V]]
    <3> HIDE DEF Rule, V
    <3> QED BY <1>1
  <2>2. V # {}
    BY EmptySeq
  <2>3. IsRecursion(Values, V, Parts, Rules)
    <3> HIDE DEF Rules, V
    <3> QED BY <1>2, <2>1, <2>2, ValuesAreTrees DEF IsRecursion
  <2>4. PICK f : Solves(f, Values, V, Rules)
    <3> HIDE DEF Rules, V
    <3> QED BY <2>3, RecursiveFunctionExists
  <2> HIDE DEF Rule, V
  <2>5. f \in [Values -> V] /\ \A v \in Values : f[v] = Rule(v, f)
    BY <2>4 DEF Solves
  <2>6. Eq(f)
    BY <2>5
  <2> HIDE DEF Eq
  <2> QED BY <2>6
<1>4. Encoding = CHOOSE f : Eq(f)
  BY Zenon DEF Encoding, Each
<1>5. Eq(Encoding)
  <2> HIDE DEF Eq
  <2> QED BY <1>3, <1>4, Zenon
<1> QED BY <1>5

LEMMA EncodingStep ==
  ASSUME NEW v \in Values
  PROVE  Encoding[v] = Leading(v) \o Encodings(v.items)
<1>1. Encoding[v] = Leading(v) \o FlattenSeq(Each(Encoding, v.items))
  BY EncodingEquation, Zenon
<1>2. Encodings(v.items) = FlattenSeq(Each(Encoding, v.items))
  BY Zenon DEF Encodings, Each
<1> QED BY <1>1, <1>2

LEMMA EncodingIsBytes == \A v \in Values : Encoding[v] \in Seq(Byte)
<1> DEFINE T == {v \in Values : Encoding[v] \in Seq(Byte)}
<1>1. ASSUME NEW v \in Values, Parts[v] \subseteq T PROVE v \in T
  <2> DEFINE s == Each(Encoding, v.items)
             n == Len(v.items)
  <2>1. v.items \in Seq(Values)
    BY ItemsAreValues
  <2>2. n \in Nat /\ DOMAIN v.items = 1 .. n
    BY <2>1
  <2>3. \A i \in 1 .. n : Encoding[v.items[i]] \in Seq(Byte)
    <3>1. \A i \in DOMAIN v.items : v.items[i] \in Parts[v]
      BY DEF Parts
    <3> QED BY <1>1, <2>2, <3>1
  <2>4. s = [i \in 1 .. n |-> Encoding[v.items[i]]]
    BY <2>2, Zenon DEF Each
  <2> HIDE DEF n, s
  <2>5. s \in Seq(Seq(Byte))
    BY <2>2, <2>3, <2>4
  <2>6. FlattenSeq(s) \in Seq(Byte)
    BY <2>5, FlattenType
  <2>7. Encoding[v] = Leading(v) \o FlattenSeq(s)
    BY EncodingEquation, Zenon DEF s
  <2> QED BY <2>6, <2>7, LeadingIsBytes, ConcatProperties
<1>2. T \in SUBSET Values
  OBVIOUS
<1>3. T = Values
  <2> HIDE DEF T
  <2>1. \A v \in Values : Parts[v] \subseteq T => v \in T
    BY <1>1
  <2>2. \A v \in Values : Parts[v] \subseteq Values
    BY ValuesAreTrees
  <2> QED BY <1>2, <2>1, <2>2, ValuesAreTrees, TreeInduction
<1> QED BY <1>3

(* What Encodings does to the ways a sequence of values is taken apart.    *)
LEMMA EncodingsIsFlat ==
  ASSUME NEW s \in Seq(Values)
  PROVE  /\ Encodings(s) = FlattenSeq(Each(Encoding, s))
         /\ Each(Encoding, s) \in Seq(Seq(Byte))
         /\ Len(Each(Encoding, s)) = Len(s)
         /\ Encodings(s) \in Seq(Byte)
<1>1. Encodings(s) = FlattenSeq(Each(Encoding, s))
  BY Zenon DEF Encodings, Each
<1>2. Each(Encoding, s) \in Seq(Seq(Byte)) /\ Len(Each(Encoding, s)) = Len(s)
  <2> DEFINE V == Seq(Byte)
  <2>1. \A v \in Values : Encoding[v] \in V
    BY EncodingIsBytes
  <2> HIDE DEF V
  <2>2. Each(Encoding, s) \in Seq(V) /\ Len(Each(Encoding, s)) = Len(s)
    BY <2>1, EachIsSeq
  <2> QED BY <2>2 DEF V
<1> QED BY <1>1, <1>2, FlattenType

LEMMA EachConcat ==
  ASSUME NEW f, NEW V, \A v \in Values : f[v] \in V,
         NEW s \in Seq(Values), NEW t \in Seq(Values)
  PROVE  Each(f, s \o t) = Each(f, s) \o Each(f, t)
<1> DEFINE n == Len(s)
           m == Len(t)
           u == s \o t
           a == Each(f, s)
           b == Each(f, t)
           c == Each(f, u)
<1>1. /\ u \in Seq(Values) /\ Len(u) = n + m /\ n \in Nat /\ m \in Nat
      /\ \A i \in 1 .. n : u[i] = s[i]
      /\ \A i \in n + 1 .. n + m : u[i] = t[i - n]
      /\ DOMAIN s = 1 .. n /\ DOMAIN t = 1 .. m /\ DOMAIN u = 1 .. n + m
  BY ConcatProperties
<1>2. /\ a = [i \in 1 .. n |-> f[s[i]]]
      /\ b = [i \in 1 .. m |-> f[t[i]]]
      /\ c = [i \in 1 .. n + m |-> f[u[i]]]
  <2> HIDE DEF n, m, u
  <2> QED BY <1>1, Zenon DEF Each
<1>3. /\ a \in Seq(V) /\ b \in Seq(V) /\ c \in Seq(V)
      /\ Len(a) = n /\ Len(b) = m /\ Len(c) = n + m
  <2> HIDE DEF u
  <2>1. a \in Seq(V) /\ Len(a) = n
    BY EachIsSeq
  <2>2. b \in Seq(V) /\ Len(b) = m
    BY EachIsSeq
  <2>3. c \in Seq(V) /\ Len(c) = Len(u)
    BY <1>1, EachIsSeq
  <2> QED BY <1>1, <2>1, <2>2, <2>3
<1> HIDE DEF n, m, u, a, b, c
<1>4. \A i \in 1 .. n : c[i] = a[i]
  <2> SUFFICES ASSUME NEW i \in 1 .. n PROVE c[i] = a[i]
    OBVIOUS
  <2>1. u[i] = s[i] /\ i \in 1 .. n + m
    BY <1>1
  <2> QED BY <1>2, <2>1
<1>5. \A i \in n + 1 .. n + m : c[i] = b[i - n]
  <2> SUFFICES ASSUME NEW i \in n + 1 .. n + m PROVE c[i] = b[i - n]
    OBVIOUS
  <2>1. u[i] = t[i - n] /\ i \in 1 .. n + m /\ i - n \in 1 .. m
    BY <1>1
  <2> QED BY <1>2, <2>1
<1>6. c = a \o b
  <2>1. /\ a \o b \in Seq(V) /\ Len(a \o b) = n + m
        /\ \A i \in 1 .. n : (a \o b)[i] = a[i]
        /\ \A i \in n + 1 .. n + m : (a \o b)[i] = b[i - n]
    BY <1>3, ConcatProperties
  <2>2. \A i \in 1 .. n + m : i \in 1 .. n \/ i \in n + 1 .. n + m
    BY <1>1
  <2>3. \A i \in 1 .. Len(c) : c[i] = (a \o b)[i]
    BY <1>3, <1>4, <1>5, <2>1, <2>2
  <2> QED BY <1>3, <2>1, <2>3, SeqEqual
<1> QED BY <1>6 DEF a, b, c, u

LEMMA EncodingsConcat ==
  ASSUME NEW s \in Seq(Values), NEW t \in Seq(Values)
  PROVE  Encodings(s \o t) = Encodings(s) \o Encodings(t)
<1>1. s \o t \in Seq(Values)
  BY ConcatProperties
<1>2. Each(Encoding, s \o t) = Each(Encoding, s) \o Each(Encoding, t)
  <2> DEFINE V == Seq(Byte)
  <2>1. \A v \in Values : Encoding[v] \in V
    BY EncodingIsBytes
  <2> HIDE DEF V
  <2> QED BY <2>1, EachConcat
<1>3. Each(Encoding, s) \in Seq(Seq(Byte)) /\ Each(Encoding, t) \in Seq(Seq(Byte))
  BY EncodingsIsFlat
<1>4. FlattenSeq(Each(Encoding, s) \o Each(Encoding, t))
        = FlattenSeq(Each(Encoding, s)) \o FlattenSeq(Each(Encoding, t))
  BY <1>3, FlattenConcat
<1>5. /\ Encodings(s) = FlattenSeq(Each(Encoding, s))
      /\ Encodings(t) = FlattenSeq(Each(Encoding, t))
      /\ Encodings(s \o t) = FlattenSeq(Each(Encoding, s \o t))
  BY <1>1, EncodingsIsFlat
<1> QED BY <1>2, <1>4, <1>5, Zenon

LEMMA EncodingsEmpty == Encodings(<< >>) = << >>
<1>1. << >> \in Seq(Values) /\ Len(<< >>) = 0
  OBVIOUS
<1>2. Len(Each(Encoding, << >>)) = 0 /\ Each(Encoding, << >>) \in Seq(Seq(Byte))
  BY <1>1, EncodingsIsFlat
<1>3. Each(Encoding, << >>) = << >>
  BY <1>2
<1> QED BY <1>1, <1>3, EncodingsIsFlat, FlattenEmpty

LEMMA EncodingsSingle ==
  ASSUME NEW v \in Values
  PROVE  Encodings(<<v>>) = Encoding[v]
<1> DEFINE s == <<v>>
<1>1. s \in Seq(Values) /\ DOMAIN s = {1} /\ s[1] = v
  OBVIOUS
<1>2. Each(Encoding, s) = <<Encoding[v]>>
  <2>1. Each(Encoding, s) \in Seq(Seq(Byte)) /\ Len(Each(Encoding, s)) = 1
    <3>1. Len(s) = 1
      OBVIOUS
    <3> HIDE DEF s
    <3> QED BY <1>1, <3>1, EncodingsIsFlat
  <2>2. Each(Encoding, s)[1] = Encoding[v]
    <3> HIDE DEF s
    <3> QED BY <1>1 DEF Each
  <2> HIDE DEF s
  <2> QED BY <2>1, <2>2
<1>3. FlattenSeq(<<Encoding[v]>>) = Encoding[v]
  BY EncodingIsBytes, FlattenSingle
<1> QED BY <1>1, <1>2, <1>3, EncodingsIsFlat

LEMMA EncodingsAppend ==
  ASSUME NEW s \in Seq(Values), NEW v \in Values
  PROVE  Encodings(Append(s, v)) = Encodings(s) \o Encoding[v]
<1>1. Append(s, v) = s \o <<v>> /\ <<v>> \in Seq(Values)
  OBVIOUS
<1> QED BY <1>1, EncodingsConcat, EncodingsSingle

LEMMA EncodingsHead ==
  ASSUME NEW s \in Seq(Values), s # << >>
  PROVE  Encodings(s) = Leading(Head(s)) \o Encodings(Head(s).items \o Tail(s))
<1> DEFINE h == Head(s)
           t == Tail(s)
<1>1. h \in Values /\ t \in Seq(Values) /\ s = <<h>> \o t /\ <<h>> \in Seq(Values)
  OBVIOUS
<1>2. h.items \in Seq(Values)
  BY <1>1, ItemsAreValues
<1> HIDE DEF h, t
<1>3. Encodings(s) = Encoding[h] \o Encodings(t)
  BY <1>1, EncodingsConcat, EncodingsSingle
<1>4. Encoding[h] = Leading(h) \o Encodings(h.items)
  BY <1>1, EncodingStep
<1>5. Encodings(h.items \o t) = Encodings(h.items) \o Encodings(t)
  BY <1>1, <1>2, EncodingsConcat
<1>6. (Leading(h) \o Encodings(h.items)) \o Encodings(t)
        = Leading(h) \o (Encodings(h.items) \o Encodings(t))
  <2>1. Leading(h) \in Seq(Byte) /\ Encodings(h.items) \in Seq(Byte) /\ Encodings(t) \in Seq(Byte)
    BY <1>1, <1>2, LeadingIsBytes, EncodingsIsFlat
  <2>2. ConcatAssoc(Byte)
    BY ConcatIsAssoc
  <2> QED BY <2>1, <2>2, Zenon DEF ConcatAssoc
<1> QED BY <1>3, <1>4, <1>5, <1>6, Zenon DEF h, t

-----------------------------------------------------------------------------
(* The length of a value.                                                  *)
LEMMA TotalIsLength ==
  ASSUME NEW S, NEW s \in Seq(Seq(S)), NEW p \in Nat, NEW lengths \in Seq(Nat),
         Len(lengths) = Len(s), \A i \in 1 .. Len(s) : lengths[i] = Len(s[i])
  PROVE  Total(p, lengths) = p + Len(FlattenSeq(s))
<1> DEFINE n == Len(lengths)
           Eq(sum) == sum = [i \in 0 .. n |-> IF i = 0 THEN p ELSE sum[i - 1] + lengths[i]]
           sum0 == CHOOSE sum : Eq(sum)
           Add == [i \in 1 .. n |-> [x \in Nat |-> x + lengths[i]]]
<1>1. n \in Nat /\ n = Len(s) /\ \A i \in 1 .. n : lengths[i] \in Nat /\ lengths[i] = Len(s[i])
  OBVIOUS
<1>2. Total(p, lengths) = sum0[n]
  BY Zenon DEF Total
<1> HIDE DEF n
<1>3. PICK f \in [0 .. n -> Nat] : f[0] = p /\ \A i \in 1 .. n : f[i] = Add[i][f[i - 1]]
  <2>1. Add \in [1 .. n -> [Nat -> Nat]]
    BY <1>1
  <2> DEFINE V == Nat
  <2>2. Add \in [1 .. n -> [V -> V]] /\ p \in V
    BY <2>1
  <2> HIDE DEF Add, V
  <2>3. PICK f : Counts(f, n, V, p, Add)
    BY <1>1, <2>2, CountedRecursion
  <2> QED BY <2>3 DEF V, Counts
<1>4. \A i \in 1 .. n : f[i] = f[i - 1] + lengths[i]
  <2> SUFFICES ASSUME NEW i \in 1 .. n PROVE f[i] = f[i - 1] + lengths[i]
    OBVIOUS
  <2>1. i - 1 \in 0 .. n
    BY <1>1
  <2>2. f[i - 1] \in Nat
    BY <1>3, <2>1
  <2> QED BY <1>3, <2>2
<1>5. Eq(f)
  <2>1. \A i \in 0 .. n : f[i] = IF i = 0 THEN p ELSE f[i - 1] + lengths[i]
    BY <1>1, <1>3, <1>4
  <2> QED BY <1>3, <2>1
<1>6. Eq(sum0)
  <2> HIDE DEF Eq
  <2> QED BY <1>5, Zenon
<1> HIDE DEF sum0
<1>7. \A i \in 0 .. n : sum0[i] = IF i = 0 THEN p ELSE sum0[i - 1] + lengths[i]
  BY <1>6
<1>8. sum0[0] = p /\ \A i \in 1 .. n : sum0[i] = sum0[i - 1] + lengths[i]
  BY <1>1, <1>7
<1>9. sum0 \in [0 .. n -> Nat]
  <2> DEFINE T == {i \in Nat : i <= n => sum0[i] \in Nat}
  <2>1. 0 \in T
    BY <1>8
  <2>2. \A i \in T : i + 1 \in T
    <3> SUFFICES ASSUME NEW i \in T, i + 1 <= n PROVE sum0[i + 1] \in Nat
      OBVIOUS
    <3> DEFINE j == i + 1
    <3>1. j \in 1 .. n /\ j - 1 = i /\ sum0[i] \in Nat
      BY <1>1
    <3> HIDE DEF j, T
    <3>2. sum0[j] \in Nat
      BY <1>1, <1>8, <3>1
    <3> QED BY <3>2 DEF j
  <2>3. T \in SUBSET Nat
    OBVIOUS
  <2>4. T = Nat
    <3> HIDE DEF T
    <3> QED BY <2>1, <2>2, <2>3, NatInductionOnSets
  <2>5. \A i \in 0 .. n : sum0[i] \in Nat
    BY <1>1, <2>4
  <2> QED BY <1>6, <2>5
<1>10. sum0[n] = p + Len(FlattenSeq(s))
  <2>1. \A i \in 1 .. n : sum0[i] = sum0[i - 1] + Len(s[i])
    BY <1>1, <1>8
  <2> QED BY <1>1, <1>8, <1>9, <2>1, FlattenLength
<1> QED BY <1>2, <1>10

-----------------------------------------------------------------------------
(* A number is its bytes.                                                  *)
LEMMA FixedIsLength ==
  ASSUME NEW v \in Values, FixedLen(v) > 0
  PROVE  FixedLen(v) = Len(Encoding[v]) /\ FixedLen(v) \in Nat
<1>1. v.tag = "fixed" /\ FixedLen(v) = Len(v.bytes)
  BY DEF FixedLen
<1>2. v.items = << >> /\ v.bytes \in Seq(Byte)
  BY <1>1, ValuesAssumption
<1>3. Leading(v) = v.bytes
  BY <1>1 DEF Leading
<1>4. Encoding[v] = v.bytes \o << >>
  BY <1>2, <1>3, EncodingStep, EncodingsEmpty
<1>5. v.bytes \o << >> = v.bytes
  BY <1>2, ConcatEmptySeq
<1> QED BY <1>1, <1>2, <1>4, <1>5

(* Values of one codec and a fixed width are of one length.                *)
LEMMA SameCodecSameLength ==
  ASSUME NEW v \in Values, NEW w \in Values, SameCodec(v, w)
  PROVE  FixedLen(v) = FixedLen(w)
BY DEF SameCodec, FixedLen

(* encoded_len of a value whose parts are measured by their lengths.       *)
LEMMA MeasureIsLength ==
  ASSUME NEW v \in Values, NEW lengths \in Seq(Nat), Len(lengths) = Len(v.items),
         \A i \in 1 .. Len(v.items) : lengths[i] = Len(Encoding[v.items[i]])
  PROVE  Measure(v, lengths) = Len(Encoding[v])
<1> DEFINE n == Len(v.items)
           items == v.items
           prefix == Len(Leading(v))
           isFixed == items # << >> /\ \A i \in DOMAIN items : FixedLen(items[i]) > 0
           s == Each(Encoding, items)
<1>1. /\ items \in Seq(Values) /\ n \in Nat /\ DOMAIN items = 1 .. n
      /\ \A i \in 1 .. n : items[i] \in Values
      /\ items # << >> => n > 0
  <2>1. items \in Seq(Values)
    BY ItemsAreValues
  <2> QED BY <2>1
<1>2. prefix \in Nat /\ Leading(v) \in Seq(Byte)
  BY LeadingIsBytes
<1>3. /\ s \in Seq(Seq(Byte)) /\ Len(s) = n
      /\ \A i \in 1 .. n : s[i] = Encoding[items[i]]
  <2>1. s \in Seq(Seq(Byte)) /\ Len(s) = n
    BY <1>1, EncodingsIsFlat
  <2>2. s = [i \in 1 .. n |-> Encoding[items[i]]]
    <3> HIDE DEF n, items
    <3> QED BY <1>1, Zenon DEF Each
  <2> HIDE DEF s
  <2> QED BY <2>1, <2>2
<1>4. Len(Encoding[v]) = prefix + Len(FlattenSeq(s)) /\ Len(FlattenSeq(s)) \in Nat
  <2>1. Encoding[v] = Leading(v) \o FlattenSeq(s)
    BY EncodingEquation, Zenon
  <2>2. FlattenSeq(s) \in Seq(Byte)
    BY <1>3, FlattenType
  <2> HIDE DEF s
  <2> QED BY <1>2, <2>1, <2>2, ConcatProperties
<1>5. \A i, j \in 1 .. n :
        v.tag = "vec" \/ (v.tag = "map" /\ i % 2 = j % 2) => FixedLen(items[i]) = FixedLen(items[j])
  <2> SUFFICES ASSUME NEW i \in 1 .. n, NEW j \in 1 .. n,
                      v.tag = "vec" \/ (v.tag = "map" /\ i % 2 = j % 2)
               PROVE  FixedLen(items[i]) = FixedLen(items[j])
    OBVIOUS
  <2>1. SameCodec(items[i], items[j])
    <3>1. i \in DOMAIN v.items /\ j \in DOMAIN v.items
      BY <1>1
    <3> QED BY <3>1, CodecAssumption
  <2> QED BY <1>1, <2>1, SameCodecSameLength
<1>6. ASSUME isFixed
      PROVE  \A i \in 1 .. n : Len(s[i]) = FixedLen(items[i]) /\ FixedLen(items[i]) \in Nat
  <2> SUFFICES ASSUME NEW i \in 1 .. n
               PROVE  Len(s[i]) = FixedLen(items[i]) /\ FixedLen(items[i]) \in Nat
    OBVIOUS
  <2>1. FixedLen(items[i]) > 0 /\ items[i] \in Values
    BY <1>1, <1>6
  <2> HIDE DEF items, s, n
  <2> QED BY <1>3, <2>1, FixedIsLength
<1>7. CASE isFixed /\ v.tag = "vec"
  <2> DEFINE k == FixedLen(items[1])
  <2>1. Measure(v, lengths) = prefix + Count(v) * k
    BY <1>7 DEF Measure
  <2>2. Count(v) = n
    BY <1>7 DEF Count
  <2>3. 1 \in 1 .. n
    BY <1>1, <1>7
  <2>4. k \in Nat /\ \A i \in 1 .. n : Len(s[i]) = k
    <3> HIDE DEF items, s, n, isFixed
    <3>1. k \in Nat
      BY <1>6, <1>7, <2>3
    <3>2. \A i \in 1 .. n : FixedLen(items[i]) = k
      BY <1>5, <1>7, <2>3
    <3> QED BY <1>6, <1>7, <3>1, <3>2
  <2> HIDE DEF k, s, n
  <2>5. Len(FlattenSeq(s)) = n * k
    BY <1>3, <2>4, FlattenUniform
  <2> QED BY <1>4, <2>1, <2>2, <2>5
<1>8. CASE isFixed /\ v.tag = "map"
  <2> DEFINE a == FixedLen(items[1])
             b == FixedLen(items[2])
             m == n \div 2
  <2>1. Measure(v, lengths) = prefix + Count(v) * (a + b)
    BY <1>8 DEF Measure
  <2>2. Count(v) = m
    BY <1>8 DEF Count
  <2>3. n = 2 * m /\ m \in Nat /\ 1 \in 1 .. n /\ 2 \in 1 .. n
    <3>1. n % 2 = 0 /\ n > 0
      BY <1>1, <1>8, CodecAssumption
    <3> HIDE DEF n
    <3> QED BY <1>1, <3>1
  <2>4. /\ a \in Nat /\ b \in Nat
        /\ \A i \in 1 .. n : Len(s[i]) = IF i % 2 = 1 THEN a ELSE b
    <3> HIDE DEF items, s, n, isFixed, m
    <3>1. a \in Nat /\ b \in Nat
      BY <1>6, <1>8, <2>3
    <3> SUFFICES ASSUME NEW i \in 1 .. n PROVE Len(s[i]) = IF i % 2 = 1 THEN a ELSE b
      BY <3>1
    <3>2. Len(s[i]) = FixedLen(items[i])
      BY <1>6, <1>8
    <3>3. CASE i % 2 = 1
      <4>1. 1 % 2 = 1
        OBVIOUS
      <4>2. FixedLen(items[i]) = FixedLen(items[1])
        BY <1>5, <1>8, <2>3, <3>3, <4>1
      <4> QED BY <3>2, <3>3, <4>2
    <3>4. CASE i % 2 # 1
      <4>1. i % 2 = 0 /\ 2 % 2 = 0
        BY <1>1, <3>4
      <4>2. FixedLen(items[i]) = FixedLen(items[2])
        BY <1>5, <1>8, <2>3, <4>1
      <4> QED BY <3>2, <3>4, <4>2
    <3> QED BY <3>3, <3>4
  <2> HIDE DEF a, b, s, n, m
  <2>5. Len(FlattenSeq(s)) = m * (a + b)
    BY <1>3, <2>3, <2>4, FlattenPaired
  <2> QED BY <1>4, <2>1, <2>2, <2>5
<1>9. CASE ~(isFixed /\ v.tag = "vec") /\ ~(isFixed /\ v.tag = "map")
  <2>1. Measure(v, lengths) = Total(prefix, lengths)
    BY <1>9 DEF Measure
  <2>2. \A i \in 1 .. Len(s) : lengths[i] = Len(s[i])
    <3> HIDE DEF s
    <3> QED BY <1>3
  <2> HIDE DEF s, prefix
  <2>3. Total(prefix, lengths) = prefix + Len(FlattenSeq(s))
    BY <1>2, <1>3, <2>2, TotalIsLength
  <2> QED BY <1>4, <2>1, <2>3
<1> QED BY <1>7, <1>8, <1>9

(* encoded_len is the number of bytes that encode writes.                  *)
THEOREM EncodedLenIsLength == \A v \in Values : EncodedLen[v] = Len(Encoding[v])
<1> DEFINE Eq(f) == f = [v \in Values |-> Measure(v, Each(f, v.items))]
           size == [v \in Values |-> Len(Encoding[v])]
           T == {v \in Values : EncodedLen[v] = Len(Encoding[v])}
<1>1. \A v \in Values : size[v] \in Nat /\ size[v] = Len(Encoding[v])
  BY EncodingIsBytes
<1>2. ASSUME NEW v \in Values
      PROVE  Measure(v, Each(size, v.items)) = Len(Encoding[v])
  <2> HIDE DEF size
  <2> DEFINE L == Each(size, v.items)
             n == Len(v.items)
  <2>1. v.items \in Seq(Values) /\ n \in Nat /\ DOMAIN v.items = 1 .. n
        /\ \A i \in 1 .. n : v.items[i] \in Values
    <3>1. v.items \in Seq(Values)
      BY ItemsAreValues
    <3> QED BY <3>1
  <2>2. L \in Seq(Nat) /\ Len(L) = n
    <3> DEFINE V == Nat
    <3>1. \A w \in Values : size[w] \in V
      BY <1>1
    <3> DEFINE items == v.items
    <3>2. items \in Seq(Values)
      BY <2>1
    <3> HIDE DEF V, items
    <3>3. Each(size, items) \in Seq(V) /\ Len(Each(size, items)) = Len(items)
      BY <3>1, <3>2, EachIsSeq
    <3> QED BY <3>3 DEF V, items
  <2>3. \A i \in 1 .. n : L[i] = Len(Encoding[v.items[i]])
    <3>1. L = [i \in 1 .. n |-> size[v.items[i]]]
      <4> HIDE DEF n
      <4> QED BY <2>1, Zenon DEF Each
    <3> HIDE DEF L
    <3> QED BY <1>1, <2>1, <3>1
  <2> HIDE DEF L
  <2>4. Measure(v, L) = Len(Encoding[v])
    BY <2>2, <2>3, MeasureIsLength
  <2> QED BY <2>4 DEF L
<1>3. Eq(size)
  BY <1>2
<1>4. EncodedLen = CHOOSE f : Eq(f)
  BY Zenon DEF EncodedLen, Each
<1>5. Eq(EncodedLen)
  <2> HIDE DEF Eq, size
  <2> QED BY <1>3, <1>4, Zenon
<1>6. ASSUME NEW v \in Values, Parts[v] \subseteq T PROVE v \in T
  <2>1. \A i \in DOMAIN v.items : v.items[i] \in Parts[v]
    BY DEF Parts
  <2> HIDE DEF size
  <2>2. \A i \in DOMAIN v.items : EncodedLen[v.items[i]] = size[v.items[i]]
    BY <1>1, <1>6, <2>1
  <2>3. Each(EncodedLen, v.items) = Each(size, v.items)
    BY <2>2, Zenon DEF Each
  <2>4. EncodedLen[v] = Measure(v, Each(EncodedLen, v.items))
    BY <1>5, Zenon
  <2> QED BY <1>2, <2>3, <2>4
<1>7. T \in SUBSET Values
  OBVIOUS
<1>8. T = Values
  <2> HIDE DEF T
  <2>1. \A v \in Values : Parts[v] \subseteq T => v \in T
    BY <1>6
  <2>2. \A v \in Values : Parts[v] \subseteq Values
    BY ValuesAreTrees
  <2> QED BY <1>7, <2>1, <2>2, ValuesAreTrees, TreeInduction
<1> QED BY <1>8

-----------------------------------------------------------------------------
(* The value at the head of the work is a value, and so is what replaces it.*)
LEMMA HeadIsValue ==
  ASSUME TypeOK, todo # << >>
  PROVE  /\ Head(todo) \in Values
         /\ Head(todo).items \o Tail(todo) \in Seq(Values)
<1>1. Head(todo) \in Values /\ Tail(todo) \in Seq(Values)
  BY DEF TypeOK
<1>2. Head(todo).items \in Seq(Values)
  BY <1>1, ValuesAssumption
<1> HIDE DEF TypeOK
<1> QED BY <1>1, <1>2

LEMMA EmptyIsBytes == << >> \in Seq(Byte) /\ << >> \in Seq(Values) /\ Len(<< >>) = 0
OBVIOUS

LEMMA SingletonIsValues ==
  ASSUME NEW v \in Values
  PROVE  <<v>> \in Seq(Values)
OBVIOUS

(* Whichever of the two checks is made, a write that passes it fits.       *)
LEMMA NotRefusedFits ==
  ASSUME NEW v \in Values, TypeOK, ~Refused(v)
  PROVE  /\ bytes \o Leading(v) \in Seq(Byte)
         /\ Len(bytes \o Leading(v)) <= max_size
<1> DEFINE w == Leading(v)
<1>1. bytes \in Seq(Byte) /\ w \in Seq(Byte)
  BY LeadingIsBytes DEF TypeOK
<1>2. Len(bytes) + Len(w) <= max_size
  <2> DEFINE n == Len(bytes)
             m == Len(w)
  <2>1. n \in Nat /\ m \in Nat /\ max_size \in Nat
    BY <1>1 DEF TypeOK
  <2>2. \/ m = 1 /\ ~(n >= max_size)
        \/ ~(n + m > max_size)
    BY DEF Refused
  <2> HIDE DEF n, m
  <2>3. n + m <= max_size
    BY <2>1, <2>2
  <2> QED BY <2>3 DEF n, m
<1> HIDE DEF w
<1>3. bytes \o w \in Seq(Byte) /\ Len(bytes \o w) = Len(bytes) + Len(w)
  BY <1>1
<1> QED BY <1>2, <1>3 DEF w

LEMMA EmptyFits ==
  ASSUME NEW b, b = << >>, NEW limit \in Nat
  PROVE  b \in Seq(Byte) /\ Len(b) <= limit
OBVIOUS

LEMMA TypeInit == Init => TypeOK /\ WithinLimit
<1> SUFFICES ASSUME Init PROVE TypeOK /\ WithinLimit
  OBVIOUS
<1>1. max_size \in Nat
  BY SizesAssumption DEF Init
<1>2. bytes \in Seq(Byte) /\ WithinLimit
  BY <1>1, EmptyFits DEF Init, WithinLimit
<1>3. TypeOK
  BY <1>1, <1>2, EmptyIsBytes DEF Init, TypeOK
<1> QED BY <1>2, <1>3

LEMMA TypeStep == TypeOK /\ WithinLimit /\ [Next]_vars => TypeOK' /\ WithinLimit'
<1> SUFFICES ASSUME TypeOK, WithinLimit, [Next]_vars PROVE TypeOK' /\ WithinLimit'
  OBVIOUS
<1>1. CASE NewEncoder
  <2>1. PICK limit \in MaxSizes : New(limit)
    BY <1>1 DEF NewEncoder
  <2>2. /\ max_size' \in Nat /\ bytes' = << >>
        /\ accepted' = << >> /\ dirty' = FALSE /\ todo' = << >>
    BY <2>1, SizesAssumption DEF New
  <2>3. bytes' \in Seq(Byte) /\ WithinLimit'
    BY <2>2, EmptyFits DEF WithinLimit
  <2>4. TypeOK'
    BY <1>1, <2>2, <2>3, EmptyIsBytes DEF NewEncoder, TypeOK
  <2> QED BY <2>3, <2>4
<1>2. CASE Value
  <2>1. PICK v \in Values : current' = v /\ todo' = <<v>>
    BY <1>2 DEF Value
  <2>2. todo' \in Seq(Values)
    BY <2>1, SingletonIsValues
  <2> QED BY <1>2, <2>1, <2>2 DEF Value, TypeOK, WithinLimit
<1>3. CASE EncodeValue
  <2>1. PICK v \in Values :
          /\ current' = v
          /\ status' \in {"dropped", "encoding"}
          /\ error' \in {"none", "PacketTooLarge"}
          /\ todo' = << >> \/ todo' = <<v>>
    BY <1>3 DEF EncodeValue
  <2>2. todo' \in Seq(Values)
    BY <2>1, SingletonIsValues, EmptyIsBytes
  <2>3. /\ bytes' = << >> /\ max_size' = DefaultMax /\ accepted' = << >>
        /\ dirty' = FALSE /\ checked' = TRUE /\ calls' = calls + 1
    BY <1>3 DEF EncodeValue
  <2>4. bytes' \in Seq(Byte) /\ WithinLimit' /\ max_size' \in Nat
    BY <2>3, EmptyFits, SizesAssumption DEF WithinLimit
  <2>5. /\ current' \in Values
        /\ status' \in {"idle", "encoding", "finished", "dropped"}
        /\ error' \in {"none", "PacketTooLarge", "MalformedConstructor"}
    BY <2>1
  <2>6. /\ checked' \in BOOLEAN /\ dirty' \in BOOLEAN
        /\ accepted' \in Seq(Values) /\ calls' \in Nat
    <3>1. checked' = TRUE /\ dirty' = FALSE /\ accepted' = << >>
      BY <2>3
    <3>2. calls' \in Nat
      BY <2>3 DEF TypeOK
    <3> QED BY <3>1, <3>2, EmptyIsBytes
  <2>7. TypeOK'
    BY <2>2, <2>4, <2>5, <2>6 DEF TypeOK
  <2> QED BY <2>4, <2>7
<1>4. CASE Write
  <2>1. Head(todo) \in Values /\ todo # << >>
    BY <1>4, HeadIsValue DEF Write
  <2>2. bytes' \in Seq(Byte) /\ Len(bytes') <= max_size
    BY <1>4, <2>1, NotRefusedFits DEF Write
  <2>3. todo' \in Seq(Values)
    BY <1>4, <2>1, HeadIsValue DEF Write
  <2>4. UNCHANGED <<max_size, status, current, error, checked, accepted, dirty, calls>>
    BY <1>4 DEF Write
  <2> QED BY <2>2, <2>3, <2>4 DEF TypeOK, WithinLimit
<1>5. CASE WriteFails
  <2>1. /\ todo' = << >>
        /\ error' \in {"MalformedConstructor", "PacketTooLarge"}
        /\ status' \in {"dropped", "idle"}
        /\ dirty' \in BOOLEAN
        /\ UNCHANGED <<bytes, max_size, current, checked, accepted, calls>>
    BY <1>5 DEF WriteFails
  <2> QED BY <2>1, EmptyIsBytes DEF TypeOK, WithinLimit
<1>6. CASE Return
  <2>1. accepted' \in Seq(Values)
    BY <1>6 DEF Return, TypeOK
  <2> QED BY <1>6, <2>1 DEF Return, TypeOK, WithinLimit
<1>7. CASE Reset
  <2>1. bytes' \in Seq(Byte) /\ WithinLimit'
    BY <1>7, EmptyFits DEF Reset, TypeOK, WithinLimit
  <2>2. TypeOK'
    BY <1>7, <2>1, EmptyIsBytes DEF Reset, TypeOK
  <2> QED BY <2>1, <2>2
<1>8. CASE Finish
  BY <1>8 DEF Finish, TypeOK, WithinLimit
<1>9. CASE WithBuffer
  <2>1. /\ max_size' \in Nat /\ bytes' = << >>
        /\ status' \in {"dropped", "idle"}
        /\ error' \in {"PacketTooLarge", "none"}
        /\ accepted' = << >> /\ dirty' = FALSE /\ checked' = FALSE
        /\ UNCHANGED <<current, todo, calls>>
    BY <1>9, SizesAssumption DEF WithBuffer
  <2>2. bytes' \in Seq(Byte) /\ WithinLimit'
    BY <2>1, EmptyFits DEF WithinLimit
  <2>3. TypeOK'
    BY <2>1, <2>2, EmptyIsBytes DEF TypeOK
  <2> QED BY <2>2, <2>3
<1>10. CASE UNCHANGED vars
  BY <1>10 DEF vars, TypeOK, WithinLimit
<1> QED
  BY <1>1, <1>2, <1>3, <1>4, <1>5, <1>6, <1>7, <1>8, <1>9, <1>10 DEF Next

-----------------------------------------------------------------------------
(* The invariants of the packet, by the kind of step.                      *)
PacketInv == PacketIsItsValues /\ OneWrite
PrecheckInv == PrecheckIsExact /\ CheckedFits

(* An empty buffer that holds no value.                                    *)
LEMMA EmptyPacket ==
  ASSUME bytes' = << >>, accepted' = << >>, status' # "encoding"
  PROVE  PacketInv'
<1>1. bytes' = Encodings(accepted')
  BY EncodingsEmpty
<1> QED BY <1>1 DEF PacketInv, PacketIsItsValues, OneWrite

(* The start of a call: everything is still to be written.                 *)
LEMMA StartPacket ==
  ASSUME NEW v \in Values, accepted' \in Seq(Values), bytes' = Encodings(accepted'),
         current' = v, todo' = <<v>>
  PROVE  PacketInv' \/ status' # "encoding"
<1>1. bytes' \o Encodings(todo') = Encodings(Append(accepted', current'))
  <2>1. Encodings(todo') = Encoding[v]
    BY EncodingsSingle
  <2>2. Encodings(Append(accepted', v)) = Encodings(accepted') \o Encoding[v]
    BY EncodingsAppend
  <2> QED BY <2>1, <2>2
<1> QED BY <1>1 DEF PacketInv, PacketIsItsValues, OneWrite

LEMMA PacketStep ==
  TypeOK /\ PacketInv /\ CheckedFits /\ [Next]_vars => PacketInv'
<1> SUFFICES ASSUME TypeOK, PacketInv, CheckedFits, [Next]_vars PROVE PacketInv'
  OBVIOUS
<1>0. bytes \in Seq(Byte) /\ accepted \in Seq(Values) /\ current \in Values /\ todo \in Seq(Values)
  BY DEF TypeOK
<1>1. CASE NewEncoder
  <2>1. bytes' = << >> /\ accepted' = << >> /\ status' = "idle"
    BY <1>1 DEF NewEncoder, New
  <2> QED BY <2>1, EmptyPacket
<1>2. CASE Value
  <2>1. PICK v \in Values : current' = v /\ todo' = <<v>>
    BY <1>2 DEF Value
  <2>2. /\ status = "idle" /\ status' = "encoding"
        /\ bytes' = bytes /\ accepted' = accepted /\ dirty' = dirty
    BY <1>2 DEF Value
  <2>3. CASE ~dirty
    <3>1. bytes' = Encodings(accepted')
      BY <2>2, <2>3 DEF PacketInv, PacketIsItsValues
    <3> QED BY <1>0, <2>1, <2>2, <3>1, StartPacket
  <2>4. CASE dirty
    <3>1. dirty' /\ (todo' = <<current'>>)
      BY <2>1, <2>2, <2>4
    <3> QED BY <3>1 DEF PacketInv, PacketIsItsValues, OneWrite
  <2> QED BY <2>3, <2>4
<1>3. CASE EncodeValue
  <2>1. PICK v \in Values :
          /\ current' = v
          /\ status' = "dropped" \/ (status' = "encoding" /\ todo' = <<v>>)
    BY <1>3 DEF EncodeValue
  <2>2. bytes' = << >> /\ accepted' = << >>
    BY <1>3 DEF EncodeValue
  <2>3. accepted' \in Seq(Values) /\ bytes' = Encodings(accepted')
    BY <2>2, EmptyIsBytes, EncodingsEmpty
  <2>4. CASE status' = "dropped"
    BY <2>2, <2>4, EmptyPacket
  <2>5. CASE status' = "encoding" /\ todo' = <<v>>
    BY <2>1, <2>3, <2>5, StartPacket
  <2> QED BY <2>1, <2>4, <2>5
<1>4. CASE Write
  <2> DEFINE h == Head(todo)
  <2>1. /\ todo # << >> /\ status = "encoding" /\ status' = "encoding"
        /\ bytes' = bytes \o Leading(h) /\ todo' = h.items \o Tail(todo)
        /\ current' = current /\ accepted' = accepted /\ dirty' = dirty
    BY <1>4 DEF Write
  <2>2. h \in Values /\ todo' \in Seq(Values)
    BY <2>1, HeadIsValue
  <2>3. Encodings(todo) = Leading(h) \o Encodings(todo')
    BY <1>0, <2>1, EncodingsHead
  <2>4. bytes' \o Encodings(todo') = bytes \o Encodings(todo)
    <3>1. Leading(h) \in Seq(Byte) /\ Encodings(todo') \in Seq(Byte)
      BY <2>2, LeadingIsBytes, EncodingsIsFlat
    <3>2. ConcatAssoc(Byte)
      BY ConcatIsAssoc
    <3>3. (bytes \o Leading(h)) \o Encodings(todo') = bytes \o (Leading(h) \o Encodings(todo'))
      BY <1>0, <3>1, <3>2, Zenon DEF ConcatAssoc
    <3> QED BY <2>1, <2>3, <3>3
  <2>5. PacketIsItsValues'
    <3>1. ~dirty => bytes \o Encodings(todo) = Encodings(Append(accepted, current))
      BY <2>1 DEF PacketInv, PacketIsItsValues
    <3> HIDE DEF h
    <3> QED BY <2>1, <2>4, <3>1 DEF PacketIsItsValues
  <2>6. OneWrite'
    <3> SUFFICES ASSUME current.items = << >> PROVE todo' = << >>
      BY <2>1 DEF OneWrite
    <3>1. todo = <<current>>
      BY <2>1 DEF PacketInv, OneWrite
    <3>2. h = current /\ Tail(todo) = << >>
      BY <3>1
    <3>3. todo' = << >> \o << >>
      BY <2>1, <3>2
    <3> QED BY <3>3
  <2> QED BY <2>5, <2>6 DEF PacketInv
<1>5. CASE WriteFails
  <2>1. /\ status = "encoding" /\ todo # << >> /\ status' \in {"dropped", "idle"}
        /\ dirty' = (dirty \/ current.items # << >>)
        /\ bytes' = bytes /\ accepted' = accepted
    BY <1>5 DEF WriteFails
  <2>2. ~dirty' => bytes' = Encodings(accepted')
    <3> SUFFICES ASSUME ~dirty' PROVE bytes = Encodings(accepted)
      BY <2>1
    <3>1. ~dirty /\ current.items = << >>
      BY <2>1
    <3> QED BY <2>1, <3>1 DEF PacketInv, OneWrite
  <2> QED BY <2>1, <2>2 DEF PacketInv, PacketIsItsValues, OneWrite
<1>6. CASE Return
  <2>1. /\ status = "encoding" /\ todo = << >> /\ status' \in {"finished", "idle"}
        /\ accepted' = Append(accepted, current) /\ bytes' = bytes /\ dirty' = dirty
    BY <1>6 DEF Return
  <2>2. bytes \o Encodings(todo) = bytes
    <3>1. Encodings(todo) = << >>
      BY <2>1, EncodingsEmpty
    <3> QED BY <1>0, <3>1, ConcatEmptySeq
  <2>3. ~dirty' => bytes' = Encodings(accepted')
    BY <2>1, <2>2 DEF PacketInv, PacketIsItsValues
  <2> QED BY <2>1, <2>3 DEF PacketInv, PacketIsItsValues, OneWrite
<1>7. CASE Reset
  BY <1>7, EmptyPacket DEF Reset
<1>8. CASE Finish
  BY <1>8 DEF Finish, PacketInv, PacketIsItsValues, OneWrite
<1>9. CASE WithBuffer
  <2>1. bytes' = << >> /\ accepted' = << >> /\ status' # "encoding"
    BY <1>9 DEF WithBuffer
  <2> QED BY <2>1, EmptyPacket
<1>10. CASE UNCHANGED vars
  BY <1>10 DEF vars, PacketInv, PacketIsItsValues, OneWrite
<1> QED
  BY <1>1, <1>2, <1>3, <1>4, <1>5, <1>6, <1>7, <1>8, <1>9, <1>10 DEF Next

(* What is written and what is left of a checked value are no longer than  *)
(* encoded_len has said, so that no write of it is refused.                *)
LEMMA CheckedNotRefused ==
  ASSUME TypeOK, PacketInv, CheckedFits, checked, status = "encoding", todo # << >>
  PROVE  ~Refused(Head(todo))
<1> DEFINE h == Head(todo)
           t == Encodings(h.items \o Tail(todo))
<1>1. h \in Values /\ h.items \o Tail(todo) \in Seq(Values)
  BY HeadIsValue
<1>2. bytes \in Seq(Byte) /\ Leading(h) \in Seq(Byte) /\ t \in Seq(Byte)
  BY <1>1, LeadingIsBytes, EncodingsIsFlat DEF TypeOK
<1>3. bytes \o (Leading(h) \o t) = Encoding[current]
  <2>1. Encodings(todo) = Leading(h) \o t
    BY EncodingsHead DEF TypeOK
  <2>2. bytes \o Encodings(todo) = Encodings(Append(<< >>, current))
    BY DEF CheckedFits, PacketInv, PacketIsItsValues
  <2>3. Append(<< >>, current) = <<current>> /\ current \in Values
    BY DEF TypeOK
  <2> HIDE DEF h, t
  <2> QED BY <2>1, <2>2, <2>3, EncodingsSingle
<1>4. Len(Encoding[current]) <= max_size /\ max_size \in Nat
  BY EncodedLenIsLength DEF CheckedFits, TypeOK
<1> HIDE DEF h, t
<1>5. Len(bytes \o (Leading(h) \o t)) = Len(bytes) + (Len(Leading(h)) + Len(t))
  <2>1. Leading(h) \o t \in Seq(Byte) /\ Len(Leading(h) \o t) = Len(Leading(h)) + Len(t)
    BY <1>2, ConcatProperties
  <2> QED BY <1>2, <2>1, ConcatProperties
<1> DEFINE n == Len(bytes)
           m == Len(Leading(h))
           k == Len(t)
<1>6. n \in Nat /\ m \in Nat /\ k \in Nat
  BY <1>2
<1>7. n + (m + k) <= max_size
  BY <1>3, <1>4, <1>5
<1> HIDE DEF n, m, k
<1>8. n + m <= max_size /\ (m = 1 => ~(n >= max_size))
  BY <1>4, <1>6, <1>7
<1>9. ~(n + m > max_size)
  BY <1>4, <1>6, <1>8
<1> QED BY <1>8, <1>9 DEF Refused, n, m, h

LEMMA PrecheckStep ==
  TypeOK /\ PacketInv /\ PrecheckInv /\ [Next]_vars => PrecheckInv'
<1> SUFFICES ASSUME TypeOK, PacketInv, PrecheckInv, [Next]_vars PROVE PrecheckInv'
  OBVIOUS
<1>1. CASE NewEncoder
  BY <1>1 DEF NewEncoder, PrecheckInv, PrecheckIsExact, CheckedFits
<1>2. CASE Value
  BY <1>2 DEF Value, PrecheckInv, PrecheckIsExact, CheckedFits
<1>3. CASE EncodeValue
  <2>1. PICK v \in Values :
          /\ current' = v
          /\ \/ EncodedLen[v] > DefaultMax /\ status' = "dropped"
             \/ EncodedLen[v] <= DefaultMax /\ status' = "encoding"
    BY <1>3 DEF EncodeValue
  <2>2. bytes' = << >> /\ max_size' = DefaultMax /\ accepted' = << >> /\ dirty' = FALSE
    BY <1>3 DEF EncodeValue
  <2>3. Len(Encoding[v]) = EncodedLen[v]
    BY EncodedLenIsLength
  <2> QED BY <2>1, <2>2, <2>3 DEF PrecheckInv, PrecheckIsExact, CheckedFits
<1>4. CASE Write
  BY <1>4 DEF Write, PrecheckInv, PrecheckIsExact, CheckedFits
<1>5. CASE WriteFails
  <2> SUFFICES ASSUME checked PROVE PrecheckInv'
    BY <1>5 DEF WriteFails, PrecheckInv, PrecheckIsExact, CheckedFits
  <2>1. /\ status = "encoding" /\ todo # << >> /\ checked' = checked
        /\ Mismatched(Head(todo)) \/ Refused(Head(todo))
        /\ error' = IF Mismatched(Head(todo)) THEN "MalformedConstructor" ELSE "PacketTooLarge"
        /\ status' = "dropped"
    BY <1>5 DEF WriteFails
  <2>2. ~Refused(Head(todo))
    BY <2>1, CheckedNotRefused DEF PrecheckInv
  <2>3. error' = "MalformedConstructor"
    BY <2>1, <2>2
  <2> QED BY <2>1, <2>3 DEF PrecheckInv, PrecheckIsExact, CheckedFits
<1>6. CASE Return
  <2> SUFFICES ASSUME checked PROVE PrecheckInv'
    BY <1>6 DEF Return, PrecheckInv, PrecheckIsExact, CheckedFits
  <2>1. /\ status = "encoding" /\ todo = << >> /\ checked' = checked
        /\ status' = "finished" /\ bytes' = bytes /\ current' = current
    BY <1>6 DEF Return
  <2>2. bytes \o Encodings(todo) = Encodings(Append(<< >>, current))
    BY <2>1 DEF PrecheckInv, CheckedFits, PacketInv, PacketIsItsValues
  <2>3. Append(<< >>, current) = <<current>> /\ current \in Values /\ bytes \in Seq(Byte)
    BY DEF TypeOK
  <2>4. bytes = Encoding[current]
    <3>1. Encodings(todo) = << >> /\ bytes \o << >> = bytes
      BY <2>1, <2>3, EncodingsEmpty, ConcatEmptySeq
    <3> QED BY <2>2, <2>3, <3>1, EncodingsSingle
  <2>5. Len(bytes') = EncodedLen[current']
    BY <2>1, <2>3, <2>4, EncodedLenIsLength
  <2> QED BY <2>1, <2>5 DEF PrecheckInv, PrecheckIsExact, CheckedFits
<1>7. CASE Reset
  BY <1>7 DEF Reset, PrecheckInv, PrecheckIsExact, CheckedFits
<1>8. CASE Finish
  BY <1>8 DEF Finish, PrecheckInv, PrecheckIsExact, CheckedFits
<1>9. CASE WithBuffer
  BY <1>9 DEF WithBuffer, PrecheckInv, PrecheckIsExact, CheckedFits
<1>10. CASE UNCHANGED vars
  BY <1>10 DEF vars, PrecheckInv, PrecheckIsExact, CheckedFits
<1> QED
  BY <1>1, <1>2, <1>3, <1>4, <1>5, <1>6, <1>7, <1>8, <1>9, <1>10 DEF Next

LEMMA InitHolds == Init => IInv
<1> SUFFICES ASSUME Init PROVE IInv
  OBVIOUS
<1>1. TypeOK /\ WithinLimit
  BY TypeInit
<1>2. bytes = << >> /\ accepted = << >> /\ status = "idle" /\ ~checked
  BY DEF Init
<1>3. bytes = Encodings(accepted)
  BY <1>2, EncodingsEmpty
<1>4. PacketIsItsValues /\ PrecheckIsExact /\ OneWrite /\ CheckedFits
  BY <1>2, <1>3 DEF PacketIsItsValues, PrecheckIsExact, OneWrite, CheckedFits
<1> QED BY <1>1, <1>4 DEF IInv

LEMMA StepKeeps == IInv /\ [Next]_vars => IInv'
<1> SUFFICES ASSUME IInv, [Next]_vars PROVE IInv'
  OBVIOUS
<1>1. TypeOK /\ WithinLimit /\ PacketInv /\ PrecheckInv /\ CheckedFits
  BY DEF IInv, PacketInv, PrecheckInv
<1>2. TypeOK' /\ WithinLimit'
  BY <1>1, TypeStep
<1>3. PacketInv' /\ PrecheckInv'
  BY <1>1, PacketStep, PrecheckStep
<1> QED BY <1>2, <1>3 DEF IInv, PacketInv, PrecheckInv

(* The inductive invariant.                                                *)
THEOREM Invariance == Spec => []IInv
<1> QED BY InitHolds, StepKeeps, PTL DEF Spec

(* Every variable stays in its range.                                      *)
THEOREM TypeCorrect == Spec => []TypeOK
<1>1. IInv => TypeOK
  BY DEF IInv
<1> QED BY Invariance, <1>1, PTL

(* The buffer never passes its limit.                                      *)
THEOREM LimitKept == Spec => []WithinLimit
<1>1. IInv => WithinLimit
  BY DEF IInv
<1> QED BY Invariance, <1>1, PTL

(* The packet is the values accepted, whatever was refused, reset or       *)
(* reused, unless a compound value failed part way.                        *)
THEOREM PacketCorrect == Spec => []PacketIsItsValues
<1>1. IInv => PacketIsItsValues
  BY DEF IInv
<1> QED BY Invariance, <1>1, PTL

(* encode_value refuses exactly what is too large, before a byte of it.    *)
THEOREM PrecheckCorrect == Spec => []PrecheckIsExact
<1>1. IInv => PrecheckIsExact
  BY DEF IInv
<1> QED BY Invariance, <1>1, PTL
=============================================================================
