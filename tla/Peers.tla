------------------------------- MODULE Peers -------------------------------
(***************************************************************************)
(* Programs in Rust, Go and TypeScript, each with the codec that the       *)
(* compiler prints for its language, exchange messages of one schema.  A   *)
(* packet may be altered on its way in one field.  Whoever gets it decodes *)
(* it, or borrows a view of it, or a lazy view whose collections it walks  *)
(* later, and may send on what it has decoded.                             *)
(*                                                                         *)
(* Python is not a peer of its own: its codec calls the Rust one.          *)
(***************************************************************************)
EXTENDS GoCodec, TsCodec

CONSTANTS
  Catalogue,        \* schemas, by whatever names them; the message is the last item
  Values(_, _),     \* Values(name, schema): values of an item to send
  MaxHops           \* bound: how often a message is sent on

VARIABLES
  key,              \* the name of the schema
  route,            \* the peers that have encoded the message, in order
  sent,             \* the value that the last of them encoded
  packet,           \* what it made of it
  altered,          \* how the packet was altered since, or "nothing"
  got,              \* who decoded the packet, in which way, with what result
  walk              \* an iterator over a lazy collection

vars == <<key, route, sent, packet, altered, got, walk>>

schema == Catalogue[key]
message == Last(schema.items)

AllPeers == {"rust", "go", "ts"}

Init ==
  /\ key \in DOMAIN Catalogue
  /\ route = << >>
  /\ sent = Absent
  /\ packet = << >>
  /\ altered = "nothing"
  /\ got = None
  /\ walk = None

(***************************************************************************)
(* Sending                                                                 *)
(***************************************************************************)

Written(peer, value) ==
  CASE peer = "rust" -> Encode(<<message.name>>, value, schema)
    [] peer = "go" -> GoEncode(<<message.name>>, value, schema)
    [] peer = "ts" -> TsEncode(<<message.name>>, value, FALSE, schema)

(* A program that panics or throws sends nothing.                          *)
PacketOf(peer, value) ==
  IF Crash \in Range(Written(peer, value)) THEN << >> ELSE Written(peer, value)

(* The value with the flags that its guarded fields call for.              *)
Settled(value) ==
  IF message.kind = "struct"
  THEN [value EXCEPT !.parts = Effective(@, message.fields, schema)]
  ELSE value

Send(peer) ==
  /\ route = << >>
  /\ \E value \in Values(message.name, schema) :
       /\ sent' = Settled(value)
       /\ packet' = PacketOf(peer, value)
  /\ route' = <<peer>>
  /\ UNCHANGED <<key, altered, got, walk>>

(* A peer encodes what it has decoded.  Lengths that the schema rules out  *)
(* are not seen by every decoder, so that the alteration stays.            *)
SendOn ==
  /\ got # None
  /\ got[1].way = "owned"
  /\ got[1].result.ok
  /\ Len(route) <= MaxHops
  /\ route' = Append(route, got[1].peer)
  /\ sent' = got[1].result.value
  /\ packet' = PacketOf(got[1].peer, sent')
  /\ altered' = IF altered \in {"bytes", "text"} THEN altered ELSE "nothing"
  /\ got' = None
  /\ walk' = None
  /\ UNCHANGED key

(***************************************************************************)
(* Alterations of a packet, all of which keep its lengths consistent       *)
(***************************************************************************)

AllCids ==
  UNION {CASE item.kind = "struct" -> {StructCid(item, schema)}
           [] item.kind = "enum" -> {CidOfVariant(item, v, schema) : v \in Range(item.variants)}
           [] OTHER -> {} : item \in Range(schema.items)}

OtherTokens(token) ==
  CASE token.kind = "bytes" ->
         {<<"padded", [token EXCEPT !.padded = TRUE]>>, <<"text", Bytes(NotUtf8)>>}
           \cup {<<"bytes", Bytes(n)>> : n \in {1, 2}}
    [] token.kind = "count" ->
         {<<"padded", [token EXCEPT !.padded = TRUE]>>}
           \cup {<<"count", Count(n)>> : n \in 0 .. token.n + 1}
    [] token.kind = "int" ->
         {<<"number", Integer(token.width, n)>> : n \in 0 .. (IF token.width = 1 THEN 1 ELSE 4)}
           \cup {<<"bool", Integer(1, 2)>> : w \in {token.width} \cap {1}}
    [] token.kind = "marker" -> {<<"marker", Marker(n)>> : n \in 0 .. 2}
    [] token.kind = "cid" -> {<<"cid", CidOnWire(cid)>> : cid \in AllCids}

(* Bound: only on the first way, for what is sent on has the same form.    *)
Alterable == Len(route) = 1 /\ packet # << >> /\ got = None /\ altered = "nothing"

Alter(kind, other) ==
  /\ altered' = kind
  /\ packet' = other
  /\ UNCHANGED <<key, route, sent, got, walk>>

AlterToken ==
  /\ Alterable
  /\ \E i \in DOMAIN packet : \E choice \in OtherTokens(packet[i]) :
       /\ choice[2] # packet[i]
       /\ Alter(choice[1], [packet EXCEPT ![i] = choice[2]])

Truncate ==
  /\ Alterable
  /\ Alter("size", Front(packet))

Extend ==
  /\ Alterable
  /\ Alter("size", Append(packet, Integer(1, 0)))

(***************************************************************************)
(* Receiving                                                               *)
(***************************************************************************)

Whole(result) ==
  IF result.ok /\ result.rest = << >> THEN result ELSE Refused

Own == Whole(Decode(<<message.name>>, None, packet, schema))

View(peer) ==
  Whole(IF peer = "go"
        THEN GoView(<<message.name>>, packet, schema)
        ELSE TsView(<<message.name>>, FALSE, packet, schema))

Read(peer, way) ==
  CASE peer = "rust" -> Own
    [] way = "view" -> View(peer)
    [] peer = "go" /\ way = "owned" -> Whole(GoDecode(<<message.name>>, packet, schema))
    [] peer = "go" /\ way = "lazy" -> Whole(GoBorrowLazy(message.name, packet, schema))
    [] peer = "ts" /\ way = "owned" -> Whole(TsExpr(<<message.name>>, packet, schema))
    [] peer = "ts" /\ way = "lazy" -> Whole(TsBorrowLazy(message.name, packet, schema))

Ways(peer) ==
  {"owned"} \cup (IF peer = "rust" THEN {} ELSE {"view"})
            \cup (IF peer # "rust" /\ (message.kind = "enum" \/ HasLazyView(message))
                  THEN {"lazy"} ELSE {})

Receive(peer) ==
  /\ route # << >>
  /\ got = None
  /\ \E way \in Ways(peer) :
       got' = Some([peer |-> peer, way |-> way, result |-> Read(peer, way)])
  /\ UNCHANGED <<key, route, sent, packet, altered, walk>>

(***************************************************************************)
(* Walking a lazy view                                                     *)
(***************************************************************************)

RECURSIVE LazyPaths(_)
LazyPaths(value) ==
  IF value.is = "lazy"
  THEN {<< >>}
  ELSE UNION {{<<i>> \o path : path \in LazyPaths(value.parts[i])} : i \in DOMAIN value.parts}

Iterator(path, lazy) ==
  [path |-> path, lazy |-> lazy, rest |-> lazy.parts, items |-> << >>, failed |-> FALSE]

(* Iter() of a collection of the message.                                  *)
Iter ==
  /\ got # None /\ got[1].way = "lazy" /\ got[1].result.ok
  /\ walk = None
  /\ \E path \in LazyPaths(got[1].result.value) :
       walk' = Some(Iterator(path, At(got[1].result.value, path)))
  /\ UNCHANGED <<key, route, sent, packet, altered, got>>

(* Iter() of a collection of the item read last.                           *)
IterItem ==
  /\ walk # None
  /\ walk[1].items # << >>
  /\ \E path \in LazyPaths(Last(walk[1].items)) :
       walk' = Some(Iterator(walk[1].path \o <<Len(walk[1].items)>> \o path,
                             At(Last(walk[1].items), path)))
  /\ UNCHANGED <<key, route, sent, packet, altered, got>>

(* Next(), which says that there are no more items when it meets an error; *)
(* At(i) reads the same items from the start.                              *)
Moved(iterator, item) ==
  IF item.ok
  THEN [iterator EXCEPT !.rest = item.rest, !.items = Append(@, item.value)]
  ELSE [iterator EXCEPT !.failed = TRUE]

NextItem ==
  /\ walk # None
  /\ ~walk[1].failed
  /\ Len(walk[1].items) < walk[1].lazy.n
  /\ walk' = Some(Moved(walk[1],
                        IF got[1].peer = "go"
                        THEN GoLazyItem(walk[1].lazy.ty, walk[1].rest, schema)
                        ELSE TsLazyItem(walk[1].lazy.ty, walk[1].rest, schema)))
  /\ UNCHANGED <<key, route, sent, packet, altered, got>>

Next ==
  \/ \E peer \in AllPeers : Send(peer) \/ Receive(peer)
  \/ SendOn
  \/ AlterToken \/ Truncate \/ Extend
  \/ Iter \/ IterItem \/ NextItem

Spec == Init /\ [][Next]_vars

(***************************************************************************)
(* What each language supports                                             *)
(***************************************************************************)

Structs == {item \in Range(schema.items) : item.kind = "struct"}

GuardedFields(struct) == {i \in DOMAIN struct.fields : struct.fields[i].guard # None}

(* The peer knows the bits of the guards: see GoBit, TsBit and Mixes.      *)
KnowsGuards(peer) ==
  \A struct \in Structs : \A i \in GuardedFields(struct) :
    LET guard == struct.fields[i].guard[1]
        bit == GuardBit(guard, struct.fields, schema)
    IN CASE peer = "rust" -> TRUE
         [] peer = "go" -> guard.owner = "flags" /\ GoBit(guard, struct.fields) = bit
         [] peer = "ts" -> TsBit(guard, schema) = bit /\ ~Mixes(struct.fields, schema)

Fields ==
  UNION {CASE item.kind = "struct" -> Range(item.fields)
           [] item.kind = "enum" -> UNION {Range(v.fields) : v \in Range(item.variants)}
           [] OTHER -> {} : item \in Range(schema.items)}
Types == {Expanded(field.ty, schema) : field \in Fields}

(* Only strings are keys in Go and TypeScript (bridge.rs:1052, 1115, 1497, *)
(* 1543).                                                                  *)
KeysAreStrings ==
  \A ty \in Types : \A i \in DOMAIN ty : ty[i] = "Map" => ty[i + 1] = "String"

IsCollectionAt(ty, i) == ty[i] = "Map" \/ (ty[i] = "Vec" /\ ty[i + 1] # "u8")

(* A vector of collections or of byte strings of an exact length, which    *)
(* TypeScript cannot write (bridge.rs:1489) or read (bridge.rs:1535).      *)
HasDeepVectors ==
  \E ty \in Types : \E i, j \in DOMAIN ty :
    /\ i < j /\ ty[i] = "Vec"
    /\ ty[j] = "exact_len" \/ IsCollectionAt(ty, j)

(* A Go decoder loses its place in a loop inside a loop, but for the owned *)
(* one in a vector inside a map, where the outer index is the key.         *)
LosesPlace(way) ==
  \E ty \in Types : \E i \in DOMAIN ty :
    \/ ty[i] = "Vec" /\ IsCollectionAt(ty, i + 1)
    \/ ty[i] = "Map" /\ way # "owned" /\ IsCollectionAt(ty, i + 2)

Writes(peer) ==
  \/ peer = "rust"
  \/ /\ KnowsGuards(peer)
     /\ KeysAreStrings
     /\ peer = "ts" => ~HasDeepVectors

Reads(peer, way) == Writes(peer) /\ (peer = "go" => ~LosesPlace(way))

HasMaps == \E ty \in Types : "Map" \in Range(ty)
HasExactLengths ==
  \/ \E field \in Fields : field.exact # None
  \/ \E ty \in Types : "exact_len" \in Range(ty)

(* Every map is a field of the message itself.                             *)
MapsAreFields ==
  \A field \in Fields : \A ty \in {Expanded(field.ty, schema)} :
    "Map" \in Range(ty) =>
      /\ "Map" \notin Range(Tail(ty))
      /\ message.kind = "struct" => field \in Range(message.fields)

(* The view compares the keys of every map.  A lazy Go view of a struct    *)
(* does not (bridge.rs:497), nor does a TypeScript view below a field      *)
(* (bridge.rs:2128), nor any lazy view below one (bridge.rs:411, 1747).    *)
ChecksOrder(peer, way) ==
  CASE way = "owned" -> TRUE
    [] way = "view" -> peer = "go" \/ (message.kind = "struct" /\ MapsAreFields)
    [] way = "lazy" -> MapsAreFields /\ (peer = "ts" \/ message.kind = "enum")

(***************************************************************************)
(* Properties                                                              *)
(***************************************************************************)

(* The two readings of a packet are the same, as far as the first has read.*)
RECURSIVE Agrees(_, _)
Agrees(value, other) ==
  IF value.is = "lazy"
  THEN other.is \in {"vec", "map"} /\ Len(other.parts) = value.n
  ELSE /\ value.is = other.is /\ value.n = other.n
       /\ DOMAIN value.parts = DOMAIN other.parts
       /\ \A i \in DOMAIN value.parts : Agrees(value.parts[i], other.parts[i])

RECURSIVE Inside(_)
Inside(value) == {value} \cup UNION {Inside(value.parts[i]) : i \in DOMAIN value.parts}

(* TypeScript sorts the keys of a map as UTF-16 (bridge.rs:1498), and no   *)
(* view takes them in that order.                                          *)
SortedAsUtf16(value) ==
  \E map \in Inside(value) : map.is = "map" /\ TsEntries(map.parts) # map.parts



(* A lazy view keeps a place in the packet for each collection.  A walk    *)
(* that starts there later, also in a collection inside an item of another *)
(* one, never meets an error, which Next would pass off as the end, and    *)
(* finds the items that the borrowed view of the whole message holds, if   *)
(* that one keeps its place.                                               *)
LazyItemsAreDecoded ==
  walk # None =>
    LET eager == View(got[1].peer)
    IN /\ ~walk[1].failed
       /\ eager.ok /\ Reads(got[1].peer, "view") =>
            \A i \in DOMAIN walk[1].items :
              Agrees(walk[1].items[i], At(eager.value, Append(walk[1].path, i)))

(* README.en.md:163, "`Vec<T>` can be nested: `Vec<Vec<u8>>`,              *)
(* `Map<String, Vec<Message>>`": what is nested is read in Go as it was    *)
(* sent.  Violated: every loop of a Go decoder calls its index i           *)
(* (bridge.rs:746, 751, 1111), so that the inner one hides the outer one.  *)
NestingArrivesInGo ==
  got # None /\ altered = "nothing" /\ "ts" \notin Range(route) \cup {got[1].peer} =>
    got[1].result.ok /\ Agrees(got[1].result.value, sent)

(* README.en.md:212: every generator sets the linked bit for a present     *)
(* value and clears it for an absent one, so that what is guarded arrives. *)
LinkedBitIsSet ==
  altered = "nothing" /\ Len(route) = 1 =>
    LET rust == Own
    IN /\ rust.ok
       /\ \A i \in GuardedFields(message) : rust.value.parts[i] = sent.parts[i]
=============================================================================
