------------------------- MODULE GuardedStructProofs -------------------------
(***************************************************************************)
(* For every schema - any number of fields, owners and shared bits - and   *)
(* every packet: presence decides the bits, what is encoded is decoded,    *)
(* what is decoded is encoded to the same packet, and nothing fails that   *)
(* the caller has not caused.                                              *)
(***************************************************************************)
EXTENDS GuardedStruct, FiniteSetTheorems, SequenceTheorems, TLAPS

(* s lists the fields of S in the order of the struct.                     *)
IsListing(s, S) ==
  /\ s \in Seq(Fields)
  /\ \A i \in 1 .. Len(s) : s[i] \in S
  /\ \A f \in S : \E i \in 1 .. Len(s) : s[i] = f
  /\ \A i, j \in 1 .. Len(s) : i < j => s[i] < s[j]

IsPrefixOf(t, s) ==
  /\ Len(t) <= Len(s)
  /\ \A i \in 1 .. Len(t) : t[i] = s[i]

(* The fields before k that the encoder sends, that the decoder has read.  *)
Sending(k) == {f \in Fields : f < k /\ Enabled(f, effective)}
Taking(k) == {f \in Fields : f < k /\ decoded[f] # None}

(* The wire after the fields before k have been encoded.                   *)
Encoded(k) ==
  /\ message \in Messages
  /\ effective = [o \in Owners |-> Effective(o)]
  /\ IsListing(sent, Sending(k))
  /\ Len(wire) = Len(sent)
  /\ \A i \in 1 .. Len(sent) : wire[i] = Outgoing(sent[i])
  /\ \A f \in Sending(k) : Encodable(f)

(* What is known after the fields before k have been decoded.              *)
Decoded(k) ==
  /\ IsListing(taken, Taking(k))
  /\ Len(taken) = position
  /\ \A i \in 1 .. Len(taken) : packet[i] = decoded[taken[i]]
  /\ \A f \in Fields : f < k => (decoded[f] # None <=> Enabled(f, decoded))
  /\ \A f \in Fields : decoded[f] # None => f < k /\ decoded[f] \in Legal[f]

InEncode == phase \in {"encoding", "encoded"}
InDecode == phase \in {"decoding", "decoded", "refused"}

EncodedTo == IF phase = "encoding" THEN field ELSE N + 1
DecodedTo == IF phase = "decoding" THEN field ELSE N + 1

Relayed == source # "none" /\ phase \in {"ready", "encoding", "encoded"}

WireInv == InEncode \/ (InDecode /\ source = "encoder") => Encoded(EncodedTo)

ReadInv ==
  phase \in {"decoding", "decoded"} \/ Relayed =>
    /\ Decoded(DecodedTo)
    /\ phase # "decoding" => position = Len(packet)

(* A decoder of what the encoder made is on the encoder's tracks.          *)
PeerInv ==
  source = "encoder" /\ phase \in {"decoding", "decoded"} =>
    /\ packet = wire
    /\ \A f \in Fields : f < DecodedTo => decoded[f] = Outgoing(f)
    /\ IsPrefixOf(taken, sent)

(* An encoder of what has been decoded is on the decoder's.                *)
RelayInv ==
  Relayed => /\ message = decoded
             /\ InEncode => IsPrefixOf(sent, taken)

PhaseInv ==
  /\ source = "encoder" => phase # "refused"
  /\ source = "none" => phase \in {"ready", "encoding", "encoded", "failed"}
  /\ phase = "ready" => message \in Messages
  /\ phase \in {"encoded", "decoded"} => field = N + 1

IInv ==
  /\ TypeOK
  /\ WireInv
  /\ ReadInv
  /\ PeerInv
  /\ RelayInv
  /\ PhaseInv
  /\ FailsForACause
-----------------------------------------------------------------------------
(* Listings.                                                               *)
LEMMA ListingFacts ==
  ASSUME NEW s, NEW S, IsListing(s, S)
  PROVE  /\ s \in Seq(Fields)
         /\ Len(s) \in Nat
         /\ \A i \in 1 .. Len(s) : s[i] \in S /\ s[i] \in Fields /\ s[i] \in Int
         /\ \A i, j \in 1 .. Len(s) : i < j => s[i] < s[j]
         /\ \A f \in S : \E i \in 1 .. Len(s) : s[i] = f
<1>1. s \in Seq(Fields) /\ Len(s) \in Nat
  BY DEF IsListing
<1>2. \A i \in 1 .. Len(s) : s[i] \in Fields
  BY <1>1
<1>3. \A f \in Fields : f \in Int
  BY DEF Fields
<1>4. \A i \in 1 .. Len(s) : s[i] \in S
  BY DEF IsListing
<1>5. \A i, j \in 1 .. Len(s) : i < j => s[i] < s[j]
  BY DEF IsListing
<1>6. \A f \in S : \E i \in 1 .. Len(s) : s[i] = f
  BY DEF IsListing
<1> QED BY <1>1, <1>2, <1>3, <1>4, <1>5, <1>6

LEMMA ListingEmpty == IsListing(<< >>, {})
BY DEF IsListing

LEMMA ListingAppend ==
  ASSUME NEW s, NEW S, IsListing(s, S), NEW k \in Fields,
         \A f \in S : f < k
  PROVE  IsListing(Append(s, k), S \cup {k})
<1> DEFINE t == Append(s, k)
           n == Len(s)
<1>1. /\ s \in Seq(Fields) /\ n \in Nat /\ t \in Seq(Fields) /\ Len(t) = n + 1
      /\ \A i \in 1 .. n : t[i] = s[i]
      /\ t[n + 1] = k
  BY DEF IsListing
<1>2. /\ \A i \in 1 .. n : s[i] \in S
      /\ \A f \in S : \E i \in 1 .. n : s[i] = f
      /\ \A i, j \in 1 .. n : i < j => s[i] < s[j]
  BY DEF IsListing
<1> HIDE DEF t, n
<1>3. \A i \in 1 .. n + 1 : t[i] \in S \cup {k}
  BY <1>1, <1>2
<1>4. \A f \in S \cup {k} : \E i \in 1 .. n + 1 : t[i] = f
  <2>1. \A f \in S : \E i \in 1 .. n + 1 : t[i] = f
    BY <1>1, <1>2
  <2>2. n + 1 \in 1 .. n + 1
    BY <1>1
  <2> QED BY <1>1, <2>1, <2>2
<1>5. \A i, j \in 1 .. n + 1 : i < j => t[i] < t[j]
  <2> SUFFICES ASSUME NEW i \in 1 .. n + 1, NEW j \in 1 .. n + 1, i < j
               PROVE  t[i] < t[j]
    OBVIOUS
  <2>1. i \in 1 .. n /\ t[i] = s[i] /\ s[i] \in S
    BY <1>1, <1>2
  <2>2. CASE j = n + 1
    BY <1>1, <2>1, <2>2
  <2>3. CASE j # n + 1
    BY <1>1, <1>2, <2>3
  <2> QED BY <2>2, <2>3
<1> QED BY <1>1, <1>3, <1>4, <1>5 DEF IsListing, t

(* Two listings that agree so far agree on the next field.                 *)
LEMMA NextOfPrefix ==
  ASSUME NEW s, NEW S, IsListing(s, S),
         NEW t, NEW T, IsListing(t, T),
         IsPrefixOf(t, s),
         NEW k \in S, T = {f \in S : f < k}
  PROVE  Len(t) + 1 <= Len(s) /\ s[Len(t) + 1] = k
<1> DEFINE n == Len(s)
           m == Len(t)
<1>1. /\ n \in Nat /\ m \in Nat /\ m <= n
      /\ \A i \in 1 .. m : t[i] = s[i]
      /\ \A i \in 1 .. n : s[i] \in S /\ s[i] \in Int
      /\ \A i, j \in 1 .. n : i < j => s[i] < s[j]
      /\ \A f \in T : \E i \in 1 .. m : t[i] = f
      /\ \A i \in 1 .. m : t[i] < k
  <2>1. /\ n \in Nat
        /\ \A i \in 1 .. n : s[i] \in S /\ s[i] \in Int
        /\ \A i, j \in 1 .. n : i < j => s[i] < s[j]
    BY ListingFacts
  <2>2. /\ m \in Nat
        /\ \A f \in T : \E i \in 1 .. m : t[i] = f
        /\ \A i \in 1 .. m : t[i] \in T
    BY DEF IsListing
  <2>3. m <= n /\ \A i \in 1 .. m : t[i] = s[i]
    BY DEF IsPrefixOf
  <2>4. \A f \in T : f < k
    OBVIOUS
  <2> QED BY <2>1, <2>2, <2>3, <2>4
<1>2. PICK j \in 1 .. n : s[j] = k
  BY DEF IsListing
<1> HIDE DEF n, m
<1>3. j > m
  BY <1>1, <1>2, NAssumption
<1>4. CASE j = m + 1
  BY <1>1, <1>2, <1>4 DEF n, m
<1>5. CASE j > m + 1
  <2> DEFINE f == s[m + 1]
  <2>1. m + 1 \in 1 .. n /\ f \in S /\ f < k
    BY <1>1, <1>2, <1>5
  <2>2. PICK i \in 1 .. m : t[i] = f
    BY <1>1, <2>1
  <2>3. i \in 1 .. n /\ i < m + 1 /\ s[i] = f
    BY <1>1, <2>2
  <2>4. s[i] < s[m + 1]
    BY <1>1, <2>1, <2>3
  <2>5. f \in Int
    BY <1>1, <2>1
  <2> QED BY <2>3, <2>4, <2>5, NAssumption
<1> QED BY <1>1, <1>2, <1>3, <1>4, <1>5

LEMMA PrefixIsWhole ==
  ASSUME NEW s, NEW t, NEW S, IsListing(s, S), IsListing(t, S), IsPrefixOf(t, s)
  PROVE  Len(t) = Len(s)
<1> DEFINE n == Len(s)
           m == Len(t)
<1>1. /\ n \in Nat /\ m \in Nat /\ m <= n
      /\ \A i \in 1 .. m : t[i] = s[i]
      /\ \A i \in 1 .. n : s[i] \in S /\ s[i] \in Int
      /\ \A i, j \in 1 .. n : i < j => s[i] < s[j]
      /\ \A f \in S : \E i \in 1 .. m : t[i] = f
  BY ListingFacts DEF IsPrefixOf
<1> HIDE DEF n, m
<1>2. ASSUME m < n
      PROVE  FALSE
  <2>1. n \in 1 .. n /\ s[n] \in S
    BY <1>1, <1>2
  <2>2. PICK i \in 1 .. m : t[i] = s[n]
    BY <1>1, <2>1
  <2>3. i \in 1 .. n /\ i < n /\ s[i] = s[n]
    BY <1>1, <1>2, <2>2
  <2>4. s[i] < s[n] /\ s[n] \in Int
    BY <1>1, <2>1, <2>3
  <2> QED BY <2>3, <2>4, NAssumption
<1>3. m = n
  BY <1>1, <1>2
<1> QED BY <1>3 DEF n, m

LEMMA ListingCounts ==
  ASSUME NEW s, NEW S, IsListing(s, S)
  PROVE  Cardinality(S) = Len(s)
<1> DEFINE n == Len(s)
           b == [i \in 1 .. n |-> s[i]]
<1>1. /\ n \in Nat
      /\ \A i \in 1 .. n : s[i] \in S /\ s[i] \in Int
      /\ \A i, j \in 1 .. n : i < j => s[i] < s[j]
      /\ \A f \in S : \E i \in 1 .. n : s[i] = f
  BY ListingFacts
<1> HIDE DEF n
<1>2. b \in [1 .. n -> S]
  BY <1>1
<1>3. \A i, j \in 1 .. n : b[i] = b[j] => i = j
  <2> SUFFICES ASSUME NEW i \in 1 .. n, NEW j \in 1 .. n, s[i] = s[j], i # j
               PROVE  FALSE
    OBVIOUS
  <2>1. i < j \/ j < i
    BY <1>1
  <2> QED BY <1>1, <2>1, NAssumption
<1>4. \A f \in S : \E i \in 1 .. n : b[i] = f
  BY <1>1
<1> HIDE DEF b
<1>5. b \in Bijection(1 .. n, S)
  BY <1>2, <1>3, <1>4 DEF Bijection, Injection, Surjection, IsInjective
<1>6. ExistsBijection(1 .. n, S)
  BY <1>5 DEF ExistsBijection
<1>7. Cardinality(S) = n
  BY <1>1, <1>6, FS_CountingElements
<1> QED BY <1>7 DEF n
-----------------------------------------------------------------------------
(* The schema, and the bits.                                               *)
LEMMA SchemaFacts ==
  /\ \A f \in Fields : /\ Bit[f] \in Bits
                       /\ Legal[f] \subseteq Word
                       /\ Guarded(f) => /\ Owner[f] \in Owners
                                        /\ Owner[f] \in Fields
                                        /\ Owner[f] < f
  /\ \A o \in Owners : o \in Fields /\ ~Guarded(o) /\ Legal[o] = Word
  /\ \A f \in Fields : f \in Int
<1>1. \A f \in Fields : f \in Int /\ f >= 1 /\ f <= N
  BY NAssumption DEF Fields
<1>2. \A f \in Fields : Owner[f] \in 0 .. N /\ Owner[f] < f /\ Bit[f] \in Bits
                       /\ Legal[f] \subseteq Word
  BY SchemaAssumption
<1>3. \A f \in Fields : Guarded(f) => Owner[f] \in Owners /\ Owner[f] \in Fields
  BY <1>2, NAssumption DEF Guarded, Owners, Fields
<1>4. \A o \in Owners : o \in Fields
  BY <1>2, NAssumption DEF Owners, Fields
<1>5. \A o \in Owners : ~Guarded(o) /\ Legal[o] = Word
  BY SchemaAssumption DEF Guarded
<1> QED BY <1>1, <1>2, <1>3, <1>4, <1>5

LEMMA EffectiveIsWord ==
  ASSUME message \in Messages, NEW o \in Owners
  PROVE  Effective(o) \in Word
<1>1. message[o] \in Word
  BY SchemaFacts DEF Messages
<1>2. PresentBits(o) \subseteq Bits
  BY SchemaFacts DEF PresentBits
<1> QED BY <1>1, <1>2 DEF Effective, Word

(* A guard bit is set exactly if a field under it is present.              *)
LEMMA BitDecides ==
  ASSUME NEW f \in Fields, Guarded(f)
  PROVE  Bit[f] \in Effective(Owner[f]) <=>
           \E g \in Fields : /\ Owner[g] = Owner[f] /\ Bit[g] = Bit[f]
                            /\ message[g] # None
<1>1. Bit[f] \in GuardBits(Owner[f])
  BY DEF GuardBits
<1>2. Bit[f] \in Effective(Owner[f]) <=> Bit[f] \in PresentBits(Owner[f])
  BY <1>1 DEF Effective
<1> QED BY <1>2 DEF PresentBits

(* The flags that have been decoded are already in line.                   *)
LEMMA DecodedIsEffective ==
  ASSUME TypeOK, Decoded(N + 1), message = decoded
  PROVE  /\ message \in Messages
         /\ \A o \in Owners : Effective(o) = decoded[o]
         /\ \A f \in Fields : Enabled(f, decoded) => Encodable(f)
<1>1. \A f \in Fields : f < N + 1
  BY NAssumption DEF Fields
<1> USE DEF Enabled, Guarded
<1>2. /\ \A f \in Fields : decoded[f] # None <=> (Owner[f] # 0 => Bit[f] \in decoded[Owner[f]])
      /\ \A f \in Fields : decoded[f] # None => decoded[f] \in Legal[f]
  BY <1>1 DEF Decoded
<1>0. message \in Messages
  BY <1>2 DEF Messages, TypeOK
<1>3. ASSUME NEW o \in Owners
      PROVE  Effective(o) = decoded[o]
  <2>1. decoded[o] \in Word
    BY <1>0, SchemaFacts DEF Messages
  <2>2. PresentBits(o) \subseteq GuardBits(o)
    BY DEF PresentBits, GuardBits
  <2>3. ASSUME NEW b \in GuardBits(o)
        PROVE  b \in PresentBits(o) <=> b \in decoded[o]
    <3>1. PICK f \in Fields : Owner[f] = o /\ Bit[f] = b
      BY DEF GuardBits
    <3>2. \A g \in Fields : Owner[g] = o /\ Bit[g] = b =>
                             (decoded[g] # None <=> b \in decoded[o])
      <4>1. o # 0
        BY DEF Owners
      <4> QED BY <1>2, <4>1
    <3> QED BY <3>1, <3>2 DEF PresentBits
  <2> QED BY <2>1, <2>2, <2>3 DEF Effective
<1>4. \A f \in Fields : Enabled(f, decoded) => Encodable(f)
  BY <1>2 DEF Encodable
<1> QED BY <1>0, <1>3, <1>4

LEMMA TypeStep ==
  ASSUME TypeOK, PhaseInv, [Next]_vars
  PROVE  TypeOK'
<1> USE DEF TypeOK
<1>1. N + 1 \in Nat /\ 1 \in 1 .. N + 1 /\ \A f \in Fields : f + 1 \in 1 .. N + 1
  BY NAssumption DEF Fields
<1>2. CASE BeginEncode
  <2>1. [o \in Owners |-> Effective(o)] \in [Owners -> Word]
    BY <1>2, EffectiveIsWord DEF BeginEncode, PhaseInv
  <2> QED BY <1>1, <1>2, <2>1 DEF BeginEncode, dvars
<1>3. CASE WriteField
  <2>1. Outgoing(field) \in Word
    BY <1>3, SchemaFacts DEF WriteField, Outgoing, Encodable
  <2>2. Append(wire, Outgoing(field)) \in Seq(Word) /\ Append(sent, field) \in Seq(Fields)
    BY <1>3, <2>1 DEF WriteField
  <2> QED BY <1>1, <1>3, <2>2 DEF WriteField, dvars
<1>4. CASE OmitField
  BY <1>1, <1>4 DEF OmitField, mvars, dvars
<1>5. CASE EncodeFails
  BY <1>5 DEF EncodeFails, mvars, dvars
<1>6. CASE EndEncode
  BY <1>6 DEF EndEncode, mvars, dvars
<1>7. CASE BeginDecode
  <2>1. Absent \in [Fields -> Word \cup {None}]
    BY DEF Absent
  <2>2. << >> \in Seq(Fields) /\ 0 \in 0 .. Len(wire)
    OBVIOUS
  <2> QED BY <1>1, <1>7, <2>1, <2>2 DEF BeginDecode, mvars
<1>8. CASE ReadField
  <2>1. position + 1 \in 1 .. Len(packet)
    BY <1>8 DEF ReadField, Readable
  <2>2. packet[position + 1] \in Word
    BY <2>1
  <2>3. /\ [decoded EXCEPT ![field] = packet[position + 1]] \in [Fields -> Word \cup {None}]
        /\ Append(taken, field) \in Seq(Fields)
    BY <1>8, <2>2 DEF ReadField
  <2> QED BY <1>1, <1>8, <2>1, <2>3 DEF ReadField, mvars
<1>9. CASE PassField
  BY <1>1, <1>9 DEF PassField, mvars, dvars
<1>10. CASE DecodeFails
  BY <1>10 DEF DecodeFails, mvars, dvars
<1>11. CASE EndDecode
  BY <1>11 DEF EndDecode, mvars, dvars
<1>12. CASE Forward
  BY <1>12 DEF Forward, dvars
<1>13. CASE UNCHANGED vars
  BY <1>13 DEF vars, mvars, dvars
<1> QED BY <1>2, <1>3, <1>4, <1>5, <1>6, <1>7, <1>8, <1>9, <1>10, <1>11, <1>12, <1>13 DEF Next
-----------------------------------------------------------------------------
(* Each action preserves the invariant.                                    *)
LEMMA InitEstablishes ==
  ASSUME Init
  PROVE  IInv
<1>1. Absent \in [Fields -> Word \cup {None}]
  BY DEF Absent
<1>2. TypeOK
  <2>1. /\ [o \in Owners |-> {}] \in [Owners -> Word]
        /\ << >> \in Seq(Word) /\ << >> \in Seq(Fields) /\ 0 \in 0 .. Len(packet)
        /\ 1 \in 1 .. N + 1
    <3>1. Len(packet) \in Nat
      BY PacketsAssumption DEF Init
    <3> QED BY <3>1, NAssumption DEF Word
  <2>2. message \in [Fields -> Word \cup {None}] /\ packet \in Seq(Word)
    <3>1. CASE message \in Messages /\ packet = << >>
      BY <3>1 DEF Messages
    <3>2. CASE message = Absent /\ packet \in Packets
      BY <1>1, <3>2, PacketsAssumption
    <3> QED BY <3>1, <3>2 DEF Init
  <2> QED BY <1>1, <2>1, <2>2 DEF Init, TypeOK
<1>3. WireInv
  BY DEF Init, WireInv, InEncode, InDecode
<1>4. ReadInv
  <2> SUFFICES ASSUME phase = "decoding"
               PROVE  Decoded(1)
    BY DEF Init, ReadInv, Relayed, DecodedTo
  <2>1. \A f \in Fields : decoded[f] = None /\ ~(f < 1)
    BY NAssumption DEF Init, Absent, Fields
  <2>2. Taking(1) = {}
    BY <2>1 DEF Taking
  <2>3. taken = << >> /\ Len(taken) = position
    BY DEF Init
  <2>4. IsListing(taken, Taking(1))
    BY <2>2, <2>3, ListingEmpty
  <2>5. 1 .. Len(taken) = {}
    BY <2>3
  <2> QED BY <2>1, <2>3, <2>4, <2>5 DEF Decoded
<1>5. PeerInv /\ RelayInv /\ PhaseInv /\ FailsForACause
  BY DEF Init, PeerInv, RelayInv, PhaseInv, FailsForACause, Relayed
<1> QED BY <1>2, <1>3, <1>4, <1>5 DEF IInv

LEMMA BeginEncodeStep ==
  ASSUME IInv, BeginEncode
  PROVE  IInv'
<1> USE DEF BeginEncode, dvars
<1>1. TypeOK'
  BY TypeStep DEF IInv, Next
<1>2. message \in Messages /\ message' = message
  BY DEF IInv, PhaseInv
<1>3. WireInv'
  <2>1. Messages' = Messages
    BY DEF Messages
  <2>2. effective' = [o \in Owners |-> Effective(o)']
    BY <1>2 DEF Effective, GuardBits, PresentBits
  <2>3. Sending(1)' = {}
    BY NAssumption DEF Sending, Fields
  <2>4. IsListing(sent', {})
    BY ListingEmpty
  <2>5. sent' = << >> /\ Len(wire') = Len(sent') /\ 1 .. Len(sent') = {}
    OBVIOUS
  <2>6. Encoded(1)'
    BY <1>2, <2>1, <2>2, <2>3, <2>4, <2>5 DEF Encoded
  <2> QED BY <2>6 DEF WireInv, EncodedTo
<1>4. ReadInv'
  BY DEF IInv, ReadInv, Relayed, DecodedTo, Decoded, Taking, Enabled
<1>5. RelayInv'
  <2>1. IsPrefixOf(<< >>, taken)
    BY DEF IsPrefixOf, IInv, TypeOK
  <2> QED BY <2>1 DEF IInv, RelayInv, Relayed
<1>6. PeerInv' /\ PhaseInv' /\ FailsForACause'
  BY DEF IInv, PeerInv, PhaseInv, FailsForACause
<1> QED BY <1>1, <1>3, <1>4, <1>5, <1>6 DEF IInv

LEMMA WriteFieldStep ==
  ASSUME IInv, WriteField
  PROVE  IInv'
<1> USE DEF WriteField, dvars
<1>1. TypeOK'
  BY TypeStep DEF IInv, Next
<1>2. Encoded(field) /\ field \in Fields
  BY DEF IInv, WireInv, InEncode, EncodedTo
<1>3. Sending(field)' = Sending(field) \cup {field}
  <2>1. \A f \in Fields : f < field + 1 <=> f < field \/ f = field
    BY <1>2, NAssumption DEF Fields
  <2>2. effective' = effective /\ field' = field + 1
    OBVIOUS
  <2>3. Enabled(field, effective)
    OBVIOUS
  <2> QED BY <1>2, <2>1, <2>2, <2>3 DEF Sending, Enabled
<1>4. IsListing(sent', Sending(field)')
  <2>1. IsListing(sent, Sending(field)) /\ \A f \in Sending(field) : f < field
    BY <1>2 DEF Encoded, Sending
  <2> QED BY <1>2, <1>3, <2>1, ListingAppend
<1>5. /\ Len(sent') = Len(sent) + 1 /\ Len(wire') = Len(wire) + 1
      /\ \A i \in 1 .. Len(sent) : sent'[i] = sent[i]
      /\ \A i \in 1 .. Len(wire) : wire'[i] = wire[i]
      /\ sent'[Len(sent) + 1] = field
      /\ wire'[Len(wire) + 1] = Outgoing(field)
      /\ Len(sent) \in Nat
  BY DEF IInv, TypeOK
<1>6. Len(wire) = Len(sent) /\ \A i \in 1 .. Len(sent) : wire[i] = Outgoing(sent[i])
  BY <1>2 DEF Encoded
<1>7. \A f : Outgoing(f)' = Outgoing(f)
  BY DEF Outgoing
<1>8. \A i \in 1 .. Len(sent) + 1 : wire'[i] = Outgoing(sent[i])'
  <2> DEFINE n == Len(sent)
  <2>1. \A i \in 1 .. n + 1 : i \in 1 .. n \/ i = n + 1
    BY <1>5
  <2> HIDE DEF n
  <2> SUFFICES ASSUME NEW i \in 1 .. n + 1
               PROVE  wire'[i] = Outgoing(sent'[i])
    BY <1>7 DEF n, Outgoing
  <2>2. CASE i \in 1 .. n
    BY <1>5, <1>6, <2>2 DEF n
  <2>3. CASE i = n + 1
    BY <1>5, <1>6, <2>3 DEF n
  <2> QED BY <2>1, <2>2, <2>3
<1>9. WireInv'
  <2>1. \A f \in Sending(field)' : Encodable(f)'
    BY <1>2, <1>3 DEF Encoded, Encodable
  <2>2. Encoded(field)'
    BY <1>2, <1>4, <1>5, <1>6, <1>8, <2>1
       DEF Encoded, Effective, GuardBits, PresentBits, Messages
  <2> QED BY <2>2 DEF WireInv, EncodedTo
<1>10. ReadInv'
  BY DEF IInv, ReadInv, Relayed, DecodedTo, Decoded, Taking, Enabled
<1>11. RelayInv'
  <2> SUFFICES ASSUME source # "none"
               PROVE  IsPrefixOf(sent', taken)
    BY DEF IInv, RelayInv, Relayed
  <2>1. message = decoded /\ IsPrefixOf(sent, taken) /\ Decoded(N + 1)
    BY DEF IInv, RelayInv, Relayed, InEncode, ReadInv, DecodedTo
  <2>2. \A o \in Owners : effective[o] = decoded[o]
    BY <1>2, <2>1, DecodedIsEffective DEF IInv, Encoded
  <2>3. \A f \in Fields : Enabled(f, effective) <=> decoded[f] # None
    <3>1. \A f \in Fields : f < N + 1
      BY NAssumption DEF Fields
    <3> QED BY <2>1, <2>2, <3>1, SchemaFacts DEF Decoded, Enabled
  <2>4. Sending(field) = {f \in Taking(N + 1) : f < field} /\ field \in Taking(N + 1)
    <3>1. \A f \in Fields : f < N + 1
      BY NAssumption DEF Fields
    <3> QED BY <1>2, <2>3, <3>1 DEF Sending, Taking
  <2>5. Len(sent) + 1 <= Len(taken) /\ taken[Len(sent) + 1] = field
    BY <1>2, <2>1, <2>4, NextOfPrefix DEF Encoded, Decoded
  <2>6. \A i \in 1 .. Len(sent) + 1 : i \in 1 .. Len(sent) \/ i = Len(sent) + 1
    BY <1>5
  <2> QED BY <1>5, <2>1, <2>5, <2>6 DEF IsPrefixOf
<1>12. PeerInv' /\ PhaseInv' /\ FailsForACause'
  BY DEF IInv, PeerInv, PhaseInv, FailsForACause
<1> QED BY <1>1, <1>9, <1>10, <1>11, <1>12 DEF IInv

LEMMA OmitFieldStep ==
  ASSUME IInv, OmitField
  PROVE  IInv'
<1> USE DEF OmitField, mvars, dvars
<1>1. TypeOK'
  BY TypeStep DEF IInv, Next
<1>2. Encoded(field) /\ field \in Fields
  BY DEF IInv, WireInv, InEncode, EncodedTo
<1>3. Sending(field)' = Sending(field)
  <2>1. \A f \in Fields : f < field + 1 <=> f < field \/ f = field
    BY <1>2, NAssumption DEF Fields
  <2>2. effective' = effective /\ field' = field + 1
    OBVIOUS
  <2>3. ~Enabled(field, effective)
    OBVIOUS
  <2> QED BY <1>2, <2>1, <2>2, <2>3 DEF Sending, Enabled
<1>4. Encoded(field)'
  <2>1. \A f : Outgoing(f)' = Outgoing(f)
    BY DEF Outgoing
  <2>2. \A f : Encodable(f)' = Encodable(f)
    BY DEF Encodable
  <2> QED BY <1>2, <1>3, <2>1, <2>2
       DEF Encoded, Effective, GuardBits, PresentBits, Messages
<1>5. WireInv'
  BY <1>4 DEF WireInv, EncodedTo
<1>6. ReadInv' /\ RelayInv'
  BY DEF IInv, ReadInv, RelayInv, InEncode, Relayed, DecodedTo, Decoded, Taking, Enabled
<1>7. PeerInv' /\ PhaseInv' /\ FailsForACause'
  BY DEF IInv, PeerInv, PhaseInv, FailsForACause
<1> QED BY <1>1, <1>5, <1>6, <1>7 DEF IInv

LEMMA EncodeFailsStep ==
  ASSUME IInv, EncodeFails
  PROVE  IInv'
<1> USE DEF EncodeFails, mvars, dvars
<1>1. TypeOK'
  BY TypeStep DEF IInv, Next
<1>2. Encoded(field) /\ field \in Fields
  BY DEF IInv, WireInv, InEncode, EncodedTo
<1>3. source = "none"
  <2> SUFFICES ASSUME source # "none"
               PROVE  FALSE
    OBVIOUS
  <2>1. message = decoded /\ Decoded(N + 1) /\ TypeOK
    BY DEF IInv, RelayInv, Relayed, ReadInv, DecodedTo
  <2>2. \A o \in Owners : effective[o] = decoded[o]
    BY <1>2, <2>1, DecodedIsEffective DEF Encoded
  <2>3. Enabled(field, decoded)
    BY <1>2, <2>2, SchemaFacts DEF Enabled
  <2> QED BY <1>2, <2>1, <2>3, DecodedIsEffective
<1>4. \/ \E f \in Fields : message[f] # None /\ message[f] \notin Legal[f]
      \/ \E f, g \in Fields :
           /\ Guarded(f) /\ Owner[f] = Owner[g] /\ Bit[f] = Bit[g]
           /\ message[f] = None /\ message[g] # None
  <2>1. CASE message[field] # None
    BY <1>2, <2>1 DEF Encodable
  <2>2. CASE message[field] = None
    <3>1. Guarded(field)
      BY <1>2, <2>2 DEF Encoded, Messages
    <3>2. Bit[field] \in Effective(Owner[field])
      BY <1>2, <3>1, SchemaFacts DEF Encoded, Enabled
    <3> QED BY <1>2, <2>2, <3>1, <3>2, BitDecides
  <2> QED BY <2>1, <2>2
<1>5. FailsForACause'
  BY <1>3, <1>4 DEF FailsForACause, Guarded
<1>6. WireInv' /\ ReadInv' /\ RelayInv' /\ PeerInv' /\ PhaseInv'
  BY <1>3 DEF IInv, WireInv, InEncode, InDecode, ReadInv, RelayInv, Relayed, PeerInv, PhaseInv
<1> QED BY <1>1, <1>5, <1>6 DEF IInv

LEMMA EndEncodeStep ==
  ASSUME IInv, EndEncode
  PROVE  IInv'
<1> USE DEF EndEncode, mvars, dvars
<1>1. TypeOK'
  BY TypeStep DEF IInv, Next
<1>2. Encoded(N + 1)
  BY DEF IInv, WireInv, InEncode, EncodedTo
<1>3. WireInv'
  BY <1>2 DEF WireInv, EncodedTo, Encoded, Effective, GuardBits, PresentBits, Messages,
              Sending, Enabled, Outgoing, Encodable
<1>4. ReadInv' /\ RelayInv'
  BY DEF IInv, ReadInv, RelayInv, InEncode, Relayed, DecodedTo, Decoded, Taking, Enabled
<1>5. PeerInv' /\ PhaseInv' /\ FailsForACause'
  BY DEF IInv, PeerInv, PhaseInv, FailsForACause
<1> QED BY <1>1, <1>3, <1>4, <1>5 DEF IInv

LEMMA BeginDecodeStep ==
  ASSUME IInv, BeginDecode
  PROVE  IInv'
<1> USE DEF BeginDecode, mvars
<1>1. TypeOK'
  BY TypeStep DEF IInv, Next
<1>2. Encoded(N + 1)
  BY DEF IInv, WireInv, InEncode, EncodedTo
<1>3. WireInv'
  BY <1>2 DEF WireInv, EncodedTo, Encoded, Effective, GuardBits, PresentBits, Messages,
              Sending, Enabled, Outgoing, Encodable
<1>4. ReadInv'
  <2>1. \A f \in Fields : decoded'[f] = None /\ ~(f < 1)
    BY NAssumption DEF Absent, Fields
  <2>2. Taking(1)' = {}
    BY <2>1 DEF Taking
  <2>3. taken' = << >> /\ Len(taken') = position' /\ 1 .. Len(taken') = {}
    OBVIOUS
  <2>4. IsListing(taken', Taking(1)')
    BY <2>2, <2>3, ListingEmpty
  <2>5. Decoded(1)'
    BY <2>1, <2>3, <2>4 DEF Decoded
  <2> QED BY <2>5 DEF ReadInv, Relayed, DecodedTo
<1>5. PeerInv'
  <2>1. \A f \in Fields : ~(f < 1)
    BY NAssumption DEF Fields
  <2>2. Len(sent) \in Nat
    BY DEF IInv, TypeOK
  <2>3. IsPrefixOf(taken', sent')
    BY <2>2 DEF IsPrefixOf
  <2> QED BY <2>1, <2>3 DEF PeerInv, DecodedTo
<1>6. RelayInv' /\ PhaseInv' /\ FailsForACause'
  BY DEF IInv, RelayInv, Relayed, PhaseInv, FailsForACause
<1> QED BY <1>1, <1>3, <1>4, <1>5, <1>6 DEF IInv

(* A decoder of what the encoder made takes the decisions the encoder took.*)
LEMMA PeerAgrees ==
  ASSUME IInv, phase = "decoding", source = "encoder"
  PROVE  /\ \A f \in Fields : f <= field =>
              (Enabled(f, decoded) <=> Enabled(f, effective))
         /\ Taking(field) = {f \in Sending(N + 1) : f < field}
<1>1. /\ \A f \in Fields : f < field => decoded[f] = Outgoing(f)
      /\ Decoded(field)
  BY DEF IInv, PeerInv, ReadInv, DecodedTo
<1>2. field \in Int /\ \A f \in Fields : f \in Int /\ f < N + 1
  BY NAssumption DEF IInv, TypeOK, Fields
<1>3. \A o \in Owners : o < field => decoded[o] = effective[o]
  BY <1>1, SchemaFacts DEF Outgoing
<1>4. ASSUME NEW f \in Fields, f <= field
      PROVE  Enabled(f, decoded) <=> Enabled(f, effective)
  <2>1. CASE ~Guarded(f)
    BY <2>1 DEF Enabled
  <2>2. CASE Guarded(f)
    <3>1. Owner[f] \in Owners /\ Owner[f] \in Fields /\ Owner[f] < f
      BY <2>2, SchemaFacts
    <3>2. Owner[f] < field
      BY <1>2, <1>4, <3>1
    <3> QED BY <1>3, <3>1, <3>2 DEF Enabled
  <2> QED BY <2>1, <2>2
<1>5. \A f \in Fields : f < field => (decoded[f] # None <=> Enabled(f, effective))
  <2> SUFFICES ASSUME NEW f \in Fields, f < field
               PROVE  decoded[f] # None <=> Enabled(f, effective)
    OBVIOUS
  <2>1. f <= field
    BY <1>2
  <2>2. decoded[f] # None <=> Enabled(f, decoded)
    BY <1>1 DEF Decoded
  <2> QED BY <1>4, <2>1, <2>2 DEF Enabled
<1>6. Taking(field) = {f \in Sending(N + 1) : f < field}
  BY <1>2, <1>5 DEF Taking, Sending
<1> QED BY <1>4, <1>6

(* ... and finds the field it looks for. *)
LEMMA PeerFinds ==
  ASSUME IInv, phase = "decoding", source = "encoder",
         field \in Fields, Enabled(field, decoded)
  PROVE  /\ position + 1 <= Len(packet) /\ position + 1 <= Len(sent)
         /\ sent[position + 1] = field
         /\ packet[position + 1] = Outgoing(field)
         /\ Outgoing(field) \in Legal[field]
<1>1. /\ Encoded(N + 1) /\ Decoded(field)
      /\ packet = wire /\ IsPrefixOf(taken, sent)
  BY DEF IInv, WireInv, InDecode, EncodedTo, PeerInv, ReadInv, DecodedTo
<1>2. Enabled(field, effective)
  <2>1. field <= field
    BY NAssumption DEF Fields
  <2> QED BY <2>1, PeerAgrees DEF Enabled
<1>3. field \in Sending(N + 1)
  <2>1. field < N + 1
    BY NAssumption DEF Fields
  <2> QED BY <1>2, <2>1 DEF Sending
<1>4. Taking(field) = {f \in Sending(N + 1) : f < field}
  BY PeerAgrees
<1>5. Len(taken) + 1 <= Len(sent) /\ sent[Len(taken) + 1] = field
  BY <1>1, <1>3, <1>4, NextOfPrefix DEF Encoded, Decoded
<1>6. Len(taken) = position /\ Len(wire) = Len(sent) /\ Len(sent) \in Nat /\ position \in Nat
  BY <1>1 DEF IInv, TypeOK, Encoded, Decoded
<1>7. wire[position + 1] = Outgoing(field)
  <2>1. position + 1 \in 1 .. Len(sent)
    BY <1>5, <1>6
  <2> QED BY <1>1, <1>5, <1>6, <2>1 DEF Encoded
<1>8. Outgoing(field) \in Legal[field]
  <2>1. CASE field \in Owners
    BY <2>1, SchemaFacts DEF Outgoing, IInv, TypeOK
  <2>2. CASE field \notin Owners
    BY <1>1, <1>3, <2>2 DEF Outgoing, Encoded, Encodable
  <2> QED BY <2>1, <2>2
<1> QED BY <1>1, <1>5, <1>6, <1>7, <1>8

LEMMA ReadFieldStep ==
  ASSUME IInv, ReadField
  PROVE  IInv'
<1> USE DEF ReadField, mvars
<1>1. TypeOK'
  BY TypeStep DEF IInv, Next
<1>2. Decoded(field) /\ field \in Fields
  BY DEF IInv, ReadInv, DecodedTo
<1>3. /\ field \in Int /\ \A f \in Fields : f \in Int
      /\ \A f \in Fields : f < field + 1 <=> f < field \/ f = field
  BY <1>2, NAssumption DEF Fields
<1>4. /\ \A f \in Fields : f # field => decoded'[f] = decoded[f]
      /\ decoded'[field] = packet[position + 1]
      /\ packet[position + 1] \in Legal[field]
  BY DEF IInv, TypeOK, Readable
<1>5. decoded'[field] # None
  BY <1>2, <1>4, SchemaFacts, NoneAssumption
<1>6. Taking(field)' = Taking(field) \cup {field}
  <2>1. field' = field + 1
    OBVIOUS
  <2>2. \A f \in Fields : f < field' /\ decoded'[f] # None
                         <=> (f < field /\ decoded[f] # None) \/ f = field
    BY <1>3, <1>4, <1>5, <2>1
  <2> QED BY <1>2, <2>2 DEF Taking
<1>7. IsListing(taken', Taking(field)')
  <2>1. IsListing(taken, Taking(field)) /\ \A f \in Taking(field) : f < field
    BY <1>2 DEF Decoded, Taking
  <2> QED BY <1>2, <1>6, <2>1, ListingAppend
<1>8. /\ Len(taken) \in Nat /\ Len(taken) = position /\ Len(taken') = position + 1
      /\ \A i \in 1 .. position : taken'[i] = taken[i]
      /\ taken'[position + 1] = field
      /\ \A i \in 1 .. position + 1 : i \in 1 .. position \/ i = position + 1
  BY <1>2 DEF IInv, TypeOK, Decoded
<1>9. \A i \in 1 .. Len(taken') : packet'[i] = decoded'[taken'[i]]
  <2>1. \A i \in 1 .. position : packet[i] = decoded[taken[i]] /\ taken[i] # field
                               /\ taken[i] \in Fields
    <3>1. \A i \in 1 .. position : taken[i] \in Taking(field) /\ packet[i] = decoded[taken[i]]
      BY <1>2, <1>8 DEF Decoded, IsListing
    <3> QED BY <1>3, <3>1 DEF Taking
  <2> QED BY <1>4, <1>8, <2>1
<1>10. \A f \in Fields : f < field' => (decoded'[f] # None <=> Enabled(f, decoded'))
  <2> SUFFICES ASSUME NEW f \in Fields, f < field'
               PROVE  decoded'[f] # None <=> Enabled(f, decoded')
    OBVIOUS
  <2>1. f < field \/ f = field
    BY <1>3
  <2>2. Enabled(f, decoded') <=> Enabled(f, decoded)
    <3>1. CASE ~Guarded(f)
      BY <3>1 DEF Enabled
    <3>2. CASE Guarded(f)
      <4>1. Owner[f] \in Fields /\ Owner[f] # field
        BY <1>3, <2>1, <3>2, SchemaFacts
      <4> QED BY <1>4, <4>1 DEF Enabled
    <3> QED BY <3>1, <3>2
  <2>3. CASE f = field
    BY <1>5, <2>2, <2>3 DEF DecodeEnabled, Enabled
  <2>4. CASE f # field
    BY <1>2, <1>4, <2>1, <2>2, <2>4 DEF Decoded, Enabled
  <2> QED BY <2>3, <2>4
<1>11. \A f \in Fields : decoded'[f] # None => f < field' /\ decoded'[f] \in Legal[f]
  BY <1>2, <1>3, <1>4 DEF Decoded
<1>12. Decoded(field)'
  BY <1>7, <1>8, <1>9, <1>10, <1>11 DEF Decoded
<1>13. ReadInv'
  BY <1>12 DEF ReadInv, Relayed, DecodedTo
<1>14. PeerInv'
  <2> SUFFICES ASSUME source = "encoder"
               PROVE  PeerInv'
    BY DEF PeerInv
  <2>1. /\ packet = wire /\ \A f \in Fields : f < field => decoded[f] = Outgoing(f)
        /\ IsPrefixOf(taken, sent)
    BY DEF IInv, PeerInv, DecodedTo
  <2>2. /\ position + 1 <= Len(sent) /\ sent[position + 1] = field
        /\ packet[position + 1] = Outgoing(field)
    BY PeerFinds DEF DecodeEnabled
  <2>3. \A f \in Fields : f < field' => decoded'[f] = Outgoing(f)'
    BY <1>3, <1>4, <2>1, <2>2 DEF Outgoing
  <2>4. IsPrefixOf(taken', sent')
    BY <1>8, <2>1, <2>2 DEF IsPrefixOf
  <2> QED BY <2>1, <2>3, <2>4 DEF PeerInv, DecodedTo
<1>15. WireInv'
  BY DEF IInv, WireInv, InEncode, InDecode, EncodedTo, Encoded, Effective, GuardBits,
         PresentBits, Messages, Sending, Enabled, Outgoing, Encodable
<1>16. RelayInv' /\ PhaseInv' /\ FailsForACause'
  BY DEF IInv, RelayInv, Relayed, PhaseInv, FailsForACause
<1> QED BY <1>1, <1>13, <1>14, <1>15, <1>16 DEF IInv

LEMMA PassFieldStep ==
  ASSUME IInv, PassField
  PROVE  IInv'
<1> USE DEF PassField, mvars, dvars
<1>1. TypeOK'
  BY TypeStep DEF IInv, Next
<1>2. Decoded(field) /\ field \in Fields
  BY DEF IInv, ReadInv, DecodedTo
<1>3. /\ field \in Int /\ \A f \in Fields : f \in Int
      /\ \A f \in Fields : f < field + 1 <=> f < field \/ f = field
  BY <1>2, NAssumption DEF Fields
<1>4. decoded[field] = None
  BY <1>2, <1>3 DEF Decoded
<1>5. Taking(field)' = Taking(field)
  <2>1. field' = field + 1 /\ decoded' = decoded
    OBVIOUS
  <2> QED BY <1>3, <1>4, <2>1 DEF Taking
<1>6. Decoded(field)'
  <2>1. \A f \in Fields : f < field' => (decoded[f] # None <=> Enabled(f, decoded))
    BY <1>2, <1>3, <1>4 DEF Decoded, DecodeEnabled, Enabled
  <2>2. \A f \in Fields : decoded[f] # None => f < field' /\ decoded[f] \in Legal[f]
    BY <1>2, <1>3 DEF Decoded
  <2>3. decoded' = decoded /\ taken' = taken /\ packet' = packet /\ position' = position
    OBVIOUS
  <2> QED BY <1>2, <1>5, <2>1, <2>2, <2>3 DEF Decoded, Enabled
<1>7. ReadInv'
  BY <1>6 DEF ReadInv, Relayed, DecodedTo
<1>8. PeerInv'
  <2> SUFFICES ASSUME source = "encoder"
               PROVE  PeerInv'
    BY DEF PeerInv
  <2>1. /\ packet = wire /\ \A f \in Fields : f < field => decoded[f] = Outgoing(f)
        /\ IsPrefixOf(taken, sent) /\ Encoded(N + 1)
    BY DEF IInv, PeerInv, DecodedTo, WireInv, InDecode, EncodedTo
  <2>2. ~Enabled(field, effective)
    <3>1. field <= field
      BY <1>3
    <3> QED BY <1>2, <3>1, PeerAgrees DEF DecodeEnabled, Enabled
  <2>3. Guarded(field) /\ Bit[field] \notin effective[Owner[field]]
    BY <2>2 DEF Enabled
  <2>4. Bit[field] \notin Effective(Owner[field])
    BY <1>2, <2>1, <2>3, SchemaFacts DEF Encoded
  <2>5. message[field] = None
    BY <1>2, <2>3, <2>4, BitDecides
  <2>6. field \notin Owners
    BY <2>3, SchemaFacts
  <2>7. decoded[field] = Outgoing(field)
    BY <1>4, <2>5, <2>6 DEF Outgoing
  <2>8. \A f \in Fields : f < field' => decoded'[f] = Outgoing(f)'
    BY <1>3, <2>1, <2>7 DEF Outgoing
  <2> QED BY <2>1, <2>8 DEF PeerInv, DecodedTo, IsPrefixOf
<1>9. WireInv'
  BY DEF IInv, WireInv, InEncode, InDecode, EncodedTo, Encoded, Effective, GuardBits,
         PresentBits, Messages, Sending, Enabled, Outgoing, Encodable
<1>10. RelayInv' /\ PhaseInv' /\ FailsForACause'
  BY DEF IInv, RelayInv, Relayed, PhaseInv, FailsForACause
<1> QED BY <1>1, <1>7, <1>8, <1>9, <1>10 DEF IInv

LEMMA DecodeFailsStep ==
  ASSUME IInv, DecodeFails
  PROVE  IInv'
<1> USE DEF DecodeFails, mvars, dvars
<1>1. TypeOK'
  BY TypeStep DEF IInv, Next
<1>2. source # "encoder"
  <2> SUFFICES ASSUME source = "encoder"
               PROVE  FALSE
    OBVIOUS
  <2>1. /\ position + 1 <= Len(packet)
        /\ packet[position + 1] \in Legal[field]
    BY PeerFinds DEF DecodeEnabled
  <2>2. position \in Int /\ Len(packet) \in Int
    BY DEF IInv, TypeOK
  <2> QED BY <2>1, <2>2 DEF Readable
<1>3. WireInv' /\ ReadInv' /\ PeerInv' /\ RelayInv' /\ PhaseInv' /\ FailsForACause'
  BY <1>2 DEF IInv, WireInv, InEncode, InDecode, ReadInv, PeerInv, RelayInv, Relayed,
              PhaseInv, FailsForACause
<1> QED BY <1>1, <1>3 DEF IInv

LEMMA EndDecodeStep ==
  ASSUME IInv, EndDecode
  PROVE  IInv'
<1> USE DEF EndDecode, mvars, dvars
<1>1. TypeOK'
  BY TypeStep DEF IInv, Next
<1>2. Decoded(N + 1)
  BY DEF IInv, ReadInv, DecodedTo
<1>3. ASSUME source = "encoder"
      PROVE  position = Len(packet)
  <2>1. Encoded(N + 1) /\ packet = wire /\ IsPrefixOf(taken, sent)
    BY <1>3 DEF IInv, WireInv, InDecode, EncodedTo, PeerInv
  <2>2. \A f \in Fields : f < N + 1
    BY NAssumption DEF Fields
  <2>3. Taking(N + 1) = Sending(N + 1)
    <3>1. Taking(N + 1) = {f \in Sending(N + 1) : f < N + 1}
      BY <1>3, PeerAgrees
    <3> QED BY <2>2, <3>1 DEF Sending
  <2>4. Len(taken) = Len(sent)
    BY <1>2, <2>1, <2>3, PrefixIsWhole DEF Encoded, Decoded
  <2> QED BY <1>2, <2>1, <2>4 DEF Encoded, Decoded
<1>4. Decoded(N + 1)'
  BY <1>2 DEF Decoded, Taking, Enabled
<1>5. ReadInv'
  BY <1>4 DEF ReadInv, Relayed, DecodedTo
<1>6. WireInv'
  BY DEF IInv, WireInv, InEncode, InDecode, EncodedTo, Encoded, Effective, GuardBits,
         PresentBits, Messages, Sending, Enabled, Outgoing, Encodable
<1>7. PeerInv'
  BY DEF IInv, PeerInv, DecodedTo, Outgoing, IsPrefixOf
<1>8. RelayInv' /\ PhaseInv' /\ FailsForACause'
  BY <1>3 DEF IInv, RelayInv, Relayed, PhaseInv, FailsForACause
<1> QED BY <1>1, <1>5, <1>6, <1>7, <1>8 DEF IInv

LEMMA ForwardStep ==
  ASSUME IInv, Forward
  PROVE  IInv'
<1> USE DEF Forward, dvars
<1>1. TypeOK'
  BY TypeStep DEF IInv, Next
<1>2. Decoded(N + 1) /\ position = Len(packet)
  BY DEF IInv, ReadInv, DecodedTo
<1>3. Decoded(N + 1)'
  BY <1>2 DEF Decoded, Taking, Enabled
<1>4. ReadInv'
  BY <1>2, <1>3 DEF ReadInv, DecodedTo
<1>5. decoded \in Messages
  <2>1. \A f \in Fields : f < N + 1
    BY NAssumption DEF Fields
  <2>2. \A f \in Fields : decoded[f] = None => Guarded(f)
    BY <1>2, <2>1 DEF Decoded, Enabled
  <2> QED BY <2>2 DEF IInv, TypeOK, Messages
<1>6. PhaseInv'
  BY <1>5 DEF IInv, PhaseInv, Messages
<1>7. WireInv' /\ PeerInv' /\ RelayInv' /\ FailsForACause'
  BY DEF WireInv, InEncode, InDecode, PeerInv, RelayInv, Relayed, FailsForACause
<1> QED BY <1>1, <1>4, <1>6, <1>7 DEF IInv

LEMMA StutterStep ==
  ASSUME IInv, UNCHANGED vars
  PROVE  IInv'
<1> USE DEF vars, mvars, dvars
<1>1. TypeOK' /\ PhaseInv' /\ FailsForACause'
  BY DEF IInv, TypeOK, PhaseInv, Messages, FailsForACause
<1>2. WireInv'
  BY DEF IInv, WireInv, InEncode, InDecode, EncodedTo, Encoded, Effective, GuardBits,
         PresentBits, Messages, Sending, Enabled, Outgoing, Encodable
<1>3. ReadInv'
  BY DEF IInv, ReadInv, Relayed, DecodedTo, Decoded, Taking, Enabled
<1>4. PeerInv' /\ RelayInv'
  BY DEF IInv, PeerInv, RelayInv, Relayed, InEncode, DecodedTo, Outgoing, IsPrefixOf
<1> QED BY <1>1, <1>2, <1>3, <1>4 DEF IInv
-----------------------------------------------------------------------------
(* What the invariant says of the end of an encoding and of a decoding.    *)
LEMMA InductiveStep ==
  ASSUME IInv, [Next]_vars
  PROVE  IInv'
BY BeginEncodeStep, WriteFieldStep, OmitFieldStep, EncodeFailsStep, EndEncodeStep,
   BeginDecodeStep, ReadFieldStep, PassFieldStep, DecodeFailsStep, EndDecodeStep,
   ForwardStep, StutterStep DEF Next

LEMMA PresenceFollows ==
  ASSUME IInv
  PROVE  PresenceIsTheTruth
<1> SUFFICES ASSUME phase = "encoded", NEW f \in Fields, Guarded(f)
             PROVE  message[f] # None <=> Bit[f] \in effective[Owner[f]]
  BY DEF PresenceIsTheTruth
<1>1. Encoded(N + 1)
  BY DEF IInv, WireInv, InEncode, EncodedTo
<1>2. effective[Owner[f]] = Effective(Owner[f])
  BY <1>1, SchemaFacts DEF Encoded
<1>3. ASSUME message[f] # None
      PROVE  Bit[f] \in effective[Owner[f]]
  BY <1>2, <1>3, BitDecides
<1>4. ASSUME Bit[f] \in effective[Owner[f]]
      PROVE  message[f] # None
  <2>1. f < N + 1
    BY NAssumption DEF Fields
  <2>2. f \in Sending(N + 1)
    BY <1>4, <2>1 DEF Sending, Enabled
  <2> QED BY <1>1, <2>2 DEF Encoded, Encodable
<1> QED BY <1>3, <1>4

LEMMA RoundTripFollows ==
  ASSUME IInv
  PROVE  RoundTrip
<1> SUFFICES ASSUME source = "encoder", phase = "decoded"
             PROVE  decoded = [f \in Fields |-> Outgoing(f)]
  BY DEF RoundTrip, IInv, PhaseInv
<1>1. \A f \in Fields : f < N + 1 => decoded[f] = Outgoing(f)
  BY DEF IInv, PeerInv, DecodedTo
<1>2. \A f \in Fields : f < N + 1
  BY NAssumption DEF Fields
<1>3. \A f \in Fields : decoded[f] = Outgoing(f)
  BY <1>1, <1>2
<1>4. decoded = [f \in Fields |-> decoded[f]]
  BY DEF IInv, TypeOK
<1> QED BY <1>3, <1>4

LEMMA IdentityFollows ==
  ASSUME IInv
  PROVE  ForwardIsIdentity
<1> SUFFICES ASSUME phase = "encoded", source # "none"
             PROVE  wire = packet
  BY DEF ForwardIsIdentity
<1>1. /\ Encoded(N + 1) /\ Decoded(N + 1) /\ position = Len(packet)
      /\ message = decoded /\ IsPrefixOf(sent, taken) /\ TypeOK
  BY DEF IInv, WireInv, InEncode, EncodedTo, ReadInv, Relayed, DecodedTo, RelayInv
<1>2. \A o \in Owners : effective[o] = decoded[o]
  BY <1>1, DecodedIsEffective DEF Encoded
<1>3. \A f \in Fields : f < N + 1
  BY NAssumption DEF Fields
<1>4. \A f \in Fields : Enabled(f, effective) <=> decoded[f] # None
  BY <1>1, <1>2, <1>3, SchemaFacts DEF Decoded, Enabled
<1>5. Sending(N + 1) = Taking(N + 1)
  BY <1>4 DEF Sending, Taking
<1>6. Len(sent) = Len(taken)
  BY <1>1, <1>5, PrefixIsWhole DEF Encoded, Decoded
<1>7. Len(wire) = Len(packet) /\ Len(wire) = Len(sent) /\ Len(wire) = Len(taken)
  BY <1>1, <1>6 DEF Encoded, Decoded
<1>8. ASSUME NEW i \in 1 .. Len(wire)
      PROVE  wire[i] = packet[i]
  <2>1. wire[i] = Outgoing(sent[i]) /\ packet[i] = decoded[taken[i]]
    BY <1>1, <1>7 DEF Encoded, Decoded
  <2>2. taken[i] = sent[i]
    BY <1>1, <1>7 DEF IsPrefixOf
  <2>3. Outgoing(sent[i]) = decoded[sent[i]]
    BY <1>1, <1>2 DEF Outgoing
  <2> QED BY <2>1, <2>2, <2>3
<1>9. wire \in Seq(Word) /\ packet \in Seq(Word)
  BY <1>1 DEF TypeOK
<1> HIDE DEF Word
<1> QED BY <1>7, <1>8, <1>9, SeqEqual

LEMMA LenFollows ==
  ASSUME IInv
  PROVE  LenIsWritten
<1> SUFFICES ASSUME phase = "encoded"
             PROVE  Cardinality(Counted) = Len(wire)
  BY DEF LenIsWritten
<1>1. Encoded(N + 1)
  BY DEF IInv, WireInv, InEncode, EncodedTo
<1>2. Counted = Sending(N + 1)
  <2>1. \A f \in Fields : f < N + 1
    BY NAssumption DEF Fields
  <2>2. \A f \in Sending(N + 1) : message[f] # None
    BY <1>1 DEF Encoded, Encodable
  <2> QED BY <2>1, <2>2 DEF Counted, Sending
<1>3. Cardinality(Sending(N + 1)) = Len(sent)
  BY <1>1, ListingCounts DEF Encoded
<1> QED BY <1>1, <1>2, <1>3 DEF Encoded

(* The inductive invariant holds in every reachable state.                 *)
THEOREM Invariance == Spec => []IInv
<1>1. Init => IInv
  BY InitEstablishes
<1>2. IInv /\ [Next]_vars => IInv'
  BY InductiveStep
<1> QED BY <1>1, <1>2, PTL DEF Spec

(* The state keeps its types: no decoder reads past its packet (wire.rs    *)
(* Decoder::take), whatever flags the packet carries.                      *)
THEOREM TypeCorrect == Spec => []TypeOK
<1>1. IInv => TypeOK
  BY DEF IInv
<1> QED BY <1>1, Invariance, PTL

(* The effective flags of a packet that has been encoded name exactly the  *)
(* fields that are present (codegen.rs:439-451).                           *)
THEOREM PresenceDecides == Spec => []PresenceIsTheTruth
<1>1. IInv => PresenceIsTheTruth
  BY PresenceFollows
<1> QED BY <1>1, Invariance, PTL

(* Encoding fails only for a length or a half-present pair of fields that  *)
(* the caller has put there, never for a message that was decoded          *)
(* (codegen.rs:460-468).                                                   *)
THEOREM FailuresHaveCauses == Spec => []FailsForACause
<1>1. IInv => FailsForACause
  BY DEF IInv
<1> QED BY <1>1, Invariance, PTL

(* The decoder accepts all the encoder makes, to the last byte, and finds  *)
(* in it the fields that were sent (codegen.rs:452-557).                   *)
THEOREM RoundTrips == Spec => []RoundTrip
<1>1. IInv => RoundTrip
  BY RoundTripFollows
<1> QED BY <1>1, Invariance, PTL

(* Whoever made a packet, what it decodes to is encoded to it again: the   *)
(* encoding of a message is unique (codegen.rs:433-557).                   *)
THEOREM PacketsAreCanonical == Spec => []ForwardIsIdentity
<1>1. IInv => ForwardIsIdentity
  BY IdentityFollows
<1> QED BY <1>1, Invariance, PTL

(* encoded_len counts the fields that encode writes (codegen.rs:557-595).  *)
THEOREM LenIsExact == Spec => []LenIsWritten
<1>1. IInv => LenIsWritten
  BY LenFollows
<1> QED BY <1>1, Invariance, PTL
=============================================================================
