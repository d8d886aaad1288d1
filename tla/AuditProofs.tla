---------------------------- MODULE AuditProofs ----------------------------
(***************************************************************************)
(* The audit compares types by their names and by the types of the aliases,*)
(* each once; a constructor ID comes from the type an alias stands for, as *)
(* deep as it goes.  That equal signatures give equal IDs is proved here   *)
(* for all schemas: the expansion of a type, which is a recursive function,*)
(* has used up all aliases after as many steps as there are items; from    *)
(* equal states it takes equal steps in both schemas, so that both end with*)
(* the same type, whatever else the two schemas hold.                      *)
(***************************************************************************)
EXTENDS Audit, Recursion, FiniteSetTheorems

(* A function over the numbers given by its first value and a step.        *)
Iterates(f, V, base, Step) ==
  /\ f \in [Nat -> V]
  /\ f[0] = base
  /\ \A n \in Nat : f[n + 1] = Step[f[n]]

(* There is one, for every step: the facts about recursive functions.      *)
LEMMA IterationExists ==
  ASSUME NEW V, NEW base \in V, NEW Step \in [V -> V]
  PROVE  \E f : Iterates(f, V, base, Step)
<1> DEFINE D == Nat
           Rule(n, f) == IF n = 0 THEN base ELSE Step[f[n - 1]]
           Rules == [n \in D |-> [f \in [D -> V] |-> Rule(n, f)]]
           Below == [n \in D |-> 0 .. n - 1]
<1>1. Rules \in [D -> [[D -> V] -> V]]
  <2>1. \A n \in D, f \in [D -> V] : Rule(n, f) \in V
    <3> SUFFICES ASSUME NEW n \in D, NEW f \in [D -> V] PROVE Rule(n, f) \in V
      OBVIOUS
    <3>1. CASE n = 0
      BY <3>1
    <3>2. CASE n # 0
      <4>1. n - 1 \in D
        BY <3>2
      <4>2. f[n - 1] \in V
        BY <4>1
      <4> QED BY <3>2, <4>2
    <3> QED BY <3>1, <3>2
  <2> HIDE DEF Rule, D
  <2> QED BY <2>1
<1>2. LocalTo(D, V, Below, Rules)
  <2> SUFFICES ASSUME NEW n \in D, NEW f \in [D -> V], NEW g \in [D -> V],
                      \A m \in Below[n] : f[m] = g[m]
               PROVE  Rules[n][f] = Rules[n][g]
    BY DEF LocalTo
  <2>1. n # 0 => f[n - 1] = g[n - 1]
    OBVIOUS
  <2> HIDE DEF D
  <2> QED BY <2>1
<1>3. Below \in [D -> SUBSET D] /\ WellFounded(D, Below)
  <2>1. Below \in [D -> SUBSET D] /\ \A n \in D : \A m \in Below[n] : m < n
    OBVIOUS
  <2>2. D \in SUBSET Nat
    OBVIOUS
  <2> HIDE DEF Below, D
  <2> QED BY <2>1, <2>2, NatWellFounded
<1>4. PICK f : Solves(f, D, V, Rules)
  <2>1. V # {}
    OBVIOUS
  <2>2. IsRecursion(D, V, Below, Rules)
    <3> HIDE DEF D, Below, Rules
    <3> QED BY <1>1, <1>2, <1>3, <2>1 DEF IsRecursion
  <2> HIDE DEF D, Below, Rules
  <2> QED BY <2>2, RecursiveFunctionExists
<1>5. f \in [D -> V] /\ \A n \in D : f[n] = Rule(n, f)
  <2> HIDE DEF Rule
  <2> QED BY <1>4 DEF Solves
<1>6. f[0] = base
  BY <1>5
<1>7. \A n \in Nat : f[n + 1] = Step[f[n]]
  <2> SUFFICES ASSUME NEW n \in Nat PROVE f[n + 1] = Step[f[n]]
    OBVIOUS
  <2> DEFINE k == n + 1
  <2>1. k \in D /\ k # 0 /\ k - 1 = n
    OBVIOUS
  <2> HIDE DEF k
  <2>2. f[k] = Step[f[k - 1]]
    BY <1>5, <2>1
  <2> QED BY <2>1, <2>2 DEF k
<1> QED BY <1>5, <1>6, <1>7 DEF Iterates

-----------------------------------------------------------------------------
(* The types, as the model holds them.                                     *)
Chains == {ty \in Seq(STRING) : ty # << >>}

(* The words that the constraints of the aliases of a schema add.          *)
Words(s) == {"exact_len"} \cup {ToString(ItemOf(name, s).exact[1]) : name \in Names(s)}

(* The states an expansion may be in, the first of them, and its step.     *)
States(s) == [ty : Chains, exact : Seq(Words(s)), aliases : SUBSET Names(s)]

Start(ty) == [ty |-> ty, exact |-> << >>, aliases |-> {}]

AliasStep(s) == [state \in States(s) |-> AliasReplaced(state, s)]

(* The item of a name has this name, and is among the items.               *)
LEMMA ItemOfIs ==
  ASSUME NEW s, NEW name \in Names(s)
  PROVE  /\ \E i \in DOMAIN s.items : ItemOf(name, s) = s.items[i]
         /\ ItemOf(name, s).name = name
<1> DEFINE Is(i) == s.items[i].name = name
           i0 == CHOOSE i \in DOMAIN s.items : Is(i)
<1>1. \E i \in DOMAIN s.items : Is(i)
  BY DEF Names
<1>2. i0 \in DOMAIN s.items /\ Is(i0)
  <2> HIDE DEF Is
  <2> QED BY <1>1, Zenon
<1>3. ItemOf(name, s) = s.items[i0]
  BY Zenon DEF ItemOf
<1> QED BY <1>2, <1>3

(* A type with its end replaced by a type is one, and ends as the latter.  *)
LEMMA ChainOf ==
  ASSUME NEW ty \in Chains, NEW u \in Chains
  PROVE  Front(ty) \o u \in Chains /\ Last(Front(ty) \o u) = Last(u)
<1> DEFINE f == Front(ty)
           m == Len(u)
<1>1. f \in Seq(STRING) /\ Len(f) \in Nat
  <2>1. ty \in Seq(STRING) /\ Len(ty) \in Nat /\ Len(ty) > 0
    BY DEF Chains
  <2>2. SubSeq(ty, 1, Len(ty) - 1) \in Seq(STRING)
    BY <2>1
  <2> QED BY <2>2 DEF Front
<1>2. u \in Seq(STRING) /\ m \in Nat /\ m > 0
  BY DEF Chains
<1> HIDE DEF f, m
<1>3. f \o u \in Seq(STRING) /\ Len(f \o u) = Len(f) + m /\ (f \o u)[Len(f) + m] = u[m]
  BY <1>1, <1>2 DEF m
<1>4. f \o u # << >>
  BY <1>1, <1>2, <1>3
<1> QED BY <1>3, <1>4 DEF Last, Chains, m, f

(* The types of the aliases of a schema are types.                         *)
LEMMA AliasIsType ==
  ASSUME NEW s, IsAst(s), NEW name, IsA("alias", name, s)
  PROVE  /\ name \in Names(s)
         /\ IsType(ItemOf(name, s).ty) /\ ItemOf(name, s).ty \in Chains
         /\ \E i \in DOMAIN s.items : ItemOf(name, s) = s.items[i]
<1>1. name \in Names(s) /\ ItemOf(name, s).kind = "alias"
  BY DEF IsA
<1>2. PICK i \in DOMAIN s.items : ItemOf(name, s) = s.items[i]
  BY <1>1, ItemOfIs
<1>3. IsItem(s.items[i])
  BY DEF IsAst, Range
<1>4. IsType(ItemOf(name, s).ty)
  BY <1>1, <1>2, <1>3 DEF IsItem
<1> QED BY <1>1, <1>2, <1>4 DEF IsType, Chains

(* A step of the expansion leads from a state to a state.                  *)
LEMMA AliasStepType ==
  ASSUME NEW s, IsAst(s)
  PROVE  AliasStep(s) \in [States(s) -> States(s)]
<1> SUFFICES ASSUME NEW state \in States(s) PROVE AliasReplaced(state, s) \in States(s)
  BY DEF AliasStep
<1> DEFINE name == Last(state.ty)
           item == ItemOf(name, s)
           W == Words(s)
           more == Constraint(item.exact)
<1>1. CASE ~IsA("alias", name, s) \/ name \in state.aliases
  BY <1>1 DEF AliasReplaced
<1>2. CASE IsA("alias", name, s) /\ name \notin state.aliases
  <2>1. name \in Names(s) /\ item.ty \in Chains
    BY <1>2, AliasIsType
  <2>2. more \in Seq(W)
    <3>1. "exact_len" \in W /\ ToString(item.exact[1]) \in W
      BY <2>1 DEF Words
    <3> DEFINE x == ToString(item.exact[1])
    <3> HIDE DEF W, x
    <3>2. <<"exact_len", x>> \in Seq(W) /\ << >> \in Seq(W)
      BY <3>1 DEF x
    <3> QED BY <3>2 DEF x, Constraint
  <2>3. state.ty \in Chains /\ state.exact \in Seq(W) /\ state.aliases \in SUBSET Names(s)
    BY DEF States
  <2>4. Front(state.ty) \o item.ty \in Chains
    BY <2>1, <2>3, ChainOf
  <2>5. more \o state.exact \in Seq(W)
    <3> HIDE DEF W, more
    <3> QED BY <2>2, <2>3, ConcatProperties
  <2>6. AliasReplaced(state, s) =
          [ty |-> Front(state.ty) \o item.ty, exact |-> more \o state.exact,
           aliases |-> state.aliases \cup {name}]
    BY <1>2, Zenon DEF AliasReplaced
  <2>7. state.aliases \cup {name} \in SUBSET Names(s)
    BY <2>1, <2>3
  <2> HIDE DEF more, item, name
  <2> QED BY <2>4, <2>5, <2>6, <2>7 DEF States
<1> QED BY <1>1, <1>2

(* The states an expansion goes through.                                   *)
Expands(f, ty, s) == Iterates(f, States(s), Start(ty), AliasStep(s))

(* The first of them, and how one follows from another.                    *)
LEMMA ExpandsFacts ==
  ASSUME NEW s, NEW ty, NEW f, Expands(f, ty, s)
  PROVE  /\ f \in [Nat -> States(s)]
         /\ f[0] = Start(ty)
         /\ \A n \in Nat : f[n + 1] = AliasReplaced(f[n], s)
BY DEF Expands, Iterates, AliasStep

(* The expansion of a type is in the last of them.                         *)
LEMMA ExpandedIs ==
  ASSUME NEW s, IsAst(s), NEW ty \in Chains
  PROVE  \E f : /\ Expands(f, ty, s)
                /\ Expanded(ty, s) = f[Len(s.items)].ty \o f[Len(s.items)].exact
<1> DEFINE Eq(after) == after = [n \in Nat |-> IF n = 0 THEN Start(ty)
                                               ELSE AliasReplaced(after[n - 1], s)]
           after0 == CHOOSE after : Eq(after)
<1>1. Start(ty) \in States(s)
  BY EmptySeq DEF Start, States
<1>2. PICK f : Expands(f, ty, s)
  <2>1. AliasStep(s) \in [States(s) -> States(s)]
    BY AliasStepType
  <2> QED BY <1>1, <2>1, IterationExists DEF Expands
<1>3. Eq(f)
  <2>1. \A n \in Nat : f[n] = IF n = 0 THEN Start(ty) ELSE AliasReplaced(f[n - 1], s)
    <3> SUFFICES ASSUME NEW n \in Nat, n # 0 PROVE f[n] = AliasReplaced(f[n - 1], s)
      BY <1>2, ExpandsFacts
    <3> DEFINE k == n - 1
    <3>1. k \in Nat /\ k + 1 = n
      OBVIOUS
    <3> HIDE DEF k
    <3>2. f[k + 1] = AliasReplaced(f[k], s)
      BY <1>2, <3>1, ExpandsFacts
    <3> QED BY <3>1, <3>2 DEF k
  <2>2. f \in [Nat -> States(s)]
    BY <1>2, ExpandsFacts
  <2> QED BY <2>1, <2>2
<1>4. Eq(after0)
  <2> HIDE DEF Eq
  <2> QED BY <1>3, Zenon
<1>5. Expanded(ty, s) = after0[Len(s.items)].ty \o after0[Len(s.items)].exact
  BY Zenon DEF Expanded, Start
<1> HIDE DEF after0
<1>6. \A n \in Nat : after0[n] = f[n]
  <2> DEFINE T == {n \in Nat : after0[n] = f[n]}
  <2>0. \A n \in Nat : after0[n] = IF n = 0 THEN Start(ty) ELSE AliasReplaced(after0[n - 1], s)
    BY <1>4
  <2>1. 0 \in T
    BY <1>2, <2>0, ExpandsFacts
  <2>2. \A n \in T : n + 1 \in T
    <3> SUFFICES ASSUME NEW n \in T PROVE after0[n + 1] = f[n + 1]
      OBVIOUS
    <3> DEFINE k == n + 1
    <3>1. n \in Nat /\ k \in Nat /\ k # 0 /\ k - 1 = n /\ after0[n] = f[n]
      OBVIOUS
    <3> HIDE DEF k, T
    <3>2. after0[k] = AliasReplaced(after0[k - 1], s)
      BY <2>0, <3>1
    <3>3. f[n + 1] = AliasReplaced(f[n], s)
      BY <1>2, <3>1, ExpandsFacts
    <3> QED BY <3>1, <3>2, <3>3 DEF k
  <2>3. T \in SUBSET Nat
    OBVIOUS
  <2>4. T = Nat
    <3> HIDE DEF T
    <3> QED BY <2>1, <2>2, <2>3, NatInductionOnSets
  <2> QED BY <2>4
<1>7. Len(s.items) \in Nat
  BY DEF IsAst
<1> QED BY <1>2, <1>5, <1>6, <1>7

-----------------------------------------------------------------------------
(* A state no alias is replaced in.                                        *)
Settled(state, s) ==
  ~IsA("alias", Last(state.ty), s) \/ Last(state.ty) \in state.aliases

(* Such a state stays as it is.                                            *)
LEMMA SettledStays ==
  ASSUME NEW s, NEW state, Settled(state, s)
  PROVE  AliasReplaced(state, s) = state
BY DEF Settled, AliasReplaced

(* There are no more names than items.                                     *)
LEMMA NamesBound ==
  ASSUME NEW s, IsAst(s)
  PROVE  /\ Len(s.items) \in Nat
         /\ IsFiniteSet(Names(s)) /\ Cardinality(Names(s)) <= Len(s.items)
<1> DEFINE n == Len(s.items)
           f == [i \in 1 .. n |-> s.items[i].name]
<1>1. n \in Nat /\ DOMAIN s.items = 1 .. n
  BY DEF IsAst
<1>2. f \in Surjection(1 .. n, Names(s))
  BY <1>1 DEF Surjection, Names
<1>3. IsFiniteSet(1 .. n) /\ Cardinality(1 .. n) = n
  <2>1. n \in Int /\ 1 \in Int
    BY <1>1
  <2> HIDE DEF n
  <2>2. IsFiniteSet(1 .. n) /\ Cardinality(1 .. n) = IF 1 > n THEN 0 ELSE n - 1 + 1
    BY <2>1, FS_Interval
  <2> QED BY <1>1, <2>2
<1> HIDE DEF f, n
<1>4. IsFiniteSet(Names(s)) /\ Cardinality(Names(s)) <= n
  BY <1>2, <1>3, FS_Surjection
<1> QED BY <1>1, <1>4 DEF n

(* Each step that replaces an alias uses it up, so that after as many steps*)
(* as there are items there is none left to replace.                       *)
LEMMA ExpansionSettles ==
  ASSUME NEW s, IsAst(s), NEW ty, NEW f, Expands(f, ty, s)
  PROVE  Settled(f[Len(s.items)], s)
<1> DEFINE T == {n \in Nat : Settled(f[n], s) \/ Cardinality(f[n].aliases) = n}
           m == Len(s.items)
<1>1. /\ m \in Nat /\ IsFiniteSet(Names(s)) /\ Cardinality(Names(s)) <= m
  BY NamesBound
<1>2. \A n \in Nat : f[n].aliases \in SUBSET Names(s) /\ f[n] \in States(s)
  <2>1. \A n \in Nat : f[n] \in States(s)
    BY ExpandsFacts
  <2> QED BY <2>1 DEF States
<1>3. 0 \in T
  <2>1. f[0] = Start(ty)
    BY ExpandsFacts
  <2>2. f[0].aliases = {}
    BY <2>1 DEF Start
  <2> QED BY <2>2, FS_EmptySet
<1>4. \A n \in T : n + 1 \in T
  <2> SUFFICES ASSUME NEW n \in T PROVE n + 1 \in T
    OBVIOUS
  <2>1. n \in Nat /\ n + 1 \in Nat /\ f[n + 1] = AliasReplaced(f[n], s)
    BY ExpandsFacts
  <2>2. CASE Settled(f[n], s)
    BY <2>1, <2>2, SettledStays
  <2>3. CASE ~Settled(f[n], s)
    <3> DEFINE name == Last(f[n].ty)
               A == f[n].aliases
    <3>1. IsA("alias", name, s) /\ name \notin A /\ Cardinality(A) = n
      BY <2>3 DEF Settled
    <3>2. f[n + 1].aliases = A \cup {name}
      <4> DEFINE state == f[n]
      <4>1. IsA("alias", Last(state.ty), s) /\ Last(state.ty) \notin state.aliases
        BY <3>1
      <4> HIDE DEF state
      <4>2. AliasReplaced(state, s).aliases = state.aliases \cup {Last(state.ty)}
        BY <4>1 DEF AliasReplaced
      <4> QED BY <2>1, <4>2 DEF state
    <3>3. IsFiniteSet(A)
      BY <1>1, <1>2, <2>1, FS_Subset
    <3> HIDE DEF A, name
    <3>4. Cardinality(A \cup {name}) = n + 1
      BY <3>1, <3>3, FS_AddElement
    <3> QED BY <2>1, <3>2, <3>4
  <2> QED BY <2>2, <2>3
<1>5. m \in T
  <2>1. T \in SUBSET Nat
    OBVIOUS
  <2>2. T = Nat
    <3> HIDE DEF T
    <3> QED BY <1>3, <1>4, <2>1, NatInductionOnSets
  <2> QED BY <1>1, <2>2
<1>6. CASE Cardinality(f[m].aliases) = m
  <2> DEFINE A == f[m].aliases
  <2>1. A \in SUBSET Names(s)
    BY <1>1, <1>2
  <2>2. A = Names(s)
    <3>1. Cardinality(A) = m
      BY <1>6
    <3> HIDE DEF A, m
    <3>2. Cardinality(A) <= Cardinality(Names(s)) /\ (Cardinality(Names(s)) = Cardinality(A) => Names(s) = A)
      BY <1>1, <2>1, FS_Subset
    <3>3. Cardinality(Names(s)) \in Nat
      BY <1>1, FS_CardinalityType
    <3> QED BY <1>1, <3>1, <3>2, <3>3
  <2> QED BY <2>2 DEF Settled, IsA
<1> QED BY <1>5, <1>6

(* From there on nothing changes.                                          *)
LEMMA SettledForGood ==
  ASSUME NEW s, NEW ty, NEW f, Expands(f, ty, s),
         NEW m \in Nat, Settled(f[m], s), NEW n \in Nat, m <= n
  PROVE  f[n] = f[m]
<1> DEFINE T == {d \in Nat : f[m + d] = f[m]}
<1>1. 0 \in T
  OBVIOUS
<1>2. \A d \in T : d + 1 \in T
  <2> SUFFICES ASSUME NEW d \in T PROVE f[m + (d + 1)] = f[m]
    OBVIOUS
  <2> DEFINE k == m + d
  <2>1. k \in Nat /\ m + (d + 1) = k + 1 /\ f[k] = f[m]
    OBVIOUS
  <2> HIDE DEF k, T
  <2>2. f[k + 1] = AliasReplaced(f[k], s)
    BY <2>1, ExpandsFacts
  <2>3. AliasReplaced(f[m], s) = f[m]
    BY SettledStays
  <2> QED BY <2>1, <2>2, <2>3
<1>3. T \in SUBSET Nat
  OBVIOUS
<1>4. n - m \in T
  <2>1. n - m \in Nat
    OBVIOUS
  <2> HIDE DEF T
  <2>2. T = Nat
    BY <1>1, <1>2, <1>3, NatInductionOnSets
  <2> QED BY <2>1, <2>2
<1>5. m + (n - m) = n
  OBVIOUS
<1> QED BY <1>4, <1>5

-----------------------------------------------------------------------------
(* Two schemas that have the same aliases among the names of a set, which  *)
(* no alias leads out of.                                                  *)
AgreeOn(G, s, t) ==
  \A x \in G :
    /\ IsA("alias", x, s) <=> IsA("alias", x, t)
    /\ IsA("alias", x, s) =>
         /\ ItemOf(x, s).ty = ItemOf(x, t).ty
         /\ ItemOf(x, s).exact = ItemOf(x, t).exact
         /\ Last(ItemOf(x, s).ty) \in G

(* A type that ends in that set is replaced alike in both, and ends in the *)
(* set again.                                                              *)
LEMMA SameStep ==
  ASSUME NEW s, IsAst(s), NEW t, NEW G, AgreeOn(G, s, t),
         NEW state \in States(s), Last(state.ty) \in G
  PROVE  /\ AliasReplaced(state, t) = AliasReplaced(state, s)
         /\ Last(AliasReplaced(state, s).ty) \in G
         /\ Settled(state, s) <=> Settled(state, t)
<1> DEFINE x == Last(state.ty)
<1>1. /\ IsA("alias", x, s) <=> IsA("alias", x, t)
      /\ IsA("alias", x, s) =>
           /\ ItemOf(x, s).ty = ItemOf(x, t).ty
           /\ ItemOf(x, s).exact = ItemOf(x, t).exact
           /\ Last(ItemOf(x, s).ty) \in G
  BY Zenon DEF AgreeOn
<1>2. AliasReplaced(state, t) = AliasReplaced(state, s)
  BY <1>1 DEF AliasReplaced
<1>3. Last(AliasReplaced(state, s).ty) \in G
  <2>1. CASE ~IsA("alias", x, s) \/ x \in state.aliases
    BY <2>1 DEF AliasReplaced
  <2>2. CASE IsA("alias", x, s) /\ x \notin state.aliases
    <3> DEFINE u == ItemOf(x, s).ty
    <3>1. u \in Chains /\ state.ty \in Chains
      BY <2>2, AliasIsType DEF States
    <3>2. AliasReplaced(state, s).ty = Front(state.ty) \o u
      BY <2>2 DEF AliasReplaced
    <3> HIDE DEF u
    <3>3. Last(Front(state.ty) \o u) = Last(u)
      BY <3>1, ChainOf
    <3> QED BY <1>1, <2>2, <3>2, <3>3 DEF u
  <2> QED BY <2>1, <2>2
<1> QED BY <1>1, <1>2, <1>3 DEF Settled

(* A type that ends in that set is expanded to the same in both.           *)
LEMMA SameExpansion ==
  ASSUME NEW s, IsAst(s), NEW t, IsAst(t), NEW G, AgreeOn(G, s, t),
         NEW ty \in Chains, Last(ty) \in G
  PROVE  Expanded(ty, s) = Expanded(ty, t)
<1> DEFINE a == Len(s.items)
           b == Len(t.items)
<1>1. PICK f : Expands(f, ty, s) /\ Expanded(ty, s) = f[a].ty \o f[a].exact
  BY ExpandedIs
<1>2. PICK h : Expands(h, ty, t) /\ Expanded(ty, t) = h[b].ty \o h[b].exact
  BY ExpandedIs
<1>3. a \in Nat /\ b \in Nat
  BY NamesBound
<1>4. Settled(f[a], s) /\ Settled(h[b], t)
  BY <1>1, <1>2, ExpansionSettles
<1> HIDE DEF a, b
<1> DEFINE T == {n \in Nat : f[n] = h[n] /\ Last(f[n].ty) \in G}
<1>5. T = Nat
  <2>1. 0 \in T
    <3>1. f[0] = Start(ty) /\ h[0] = Start(ty)
      BY <1>1, <1>2, ExpandsFacts
    <3>2. f[0].ty = ty
      BY <3>1 DEF Start
    <3> QED BY <3>1, <3>2
  <2>2. \A n \in T : n + 1 \in T
    <3> SUFFICES ASSUME NEW n \in T PROVE n + 1 \in T
      OBVIOUS
    <3>1. n \in Nat /\ n + 1 \in Nat /\ f[n] = h[n] /\ Last(f[n].ty) \in G
      OBVIOUS
    <3>2. f[n] \in States(s) /\ f[n + 1] = AliasReplaced(f[n], s) /\ h[n + 1] = AliasReplaced(h[n], t)
      BY <1>1, <1>2, <3>1, ExpandsFacts
    <3>3. /\ AliasReplaced(f[n], t) = AliasReplaced(f[n], s)
          /\ Last(AliasReplaced(f[n], s).ty) \in G
      BY <3>1, <3>2, SameStep
    <3> QED BY <3>1, <3>2, <3>3
  <2>3. T \in SUBSET Nat
    OBVIOUS
  <2> HIDE DEF T
  <2> QED BY <2>1, <2>2, <2>3, NatInductionOnSets
<1>6. \A n \in Nat : f[n] = h[n] /\ Last(f[n].ty) \in G
  BY <1>5
<1>7. f[a] = h[b]
  <2>1. CASE a <= b
    <3>1. f[b] = f[a]
      BY <1>1, <1>3, <1>4, <2>1, SettledForGood
    <3> QED BY <1>3, <1>6, <3>1
  <2>2. CASE b <= a
    <3>1. h[a] = h[b]
      BY <1>2, <1>3, <1>4, <2>2, SettledForGood
    <3> QED BY <1>3, <1>6, <3>1
  <2> QED BY <1>3, <2>1, <2>2
<1> QED BY <1>1, <1>2, <1>7

-----------------------------------------------------------------------------
(* The names two schemas mean the same by: those of items of both, and the *)
(* primitive ones where neither has such an item.                          *)
Common(s, t) ==
  (Names(s) \cap Names(t)) \cup ((Primitives \cup FixedBytes) \ (Names(s) \cup Names(t)))

SamePrimitives(s, t) == \A name \in Primitives : name \in Names(s) <=> name \in Names(t)

(* A type that is valid in both ends in such a name.                       *)
LEMMA LastIsCommon ==
  ASSUME NEW s, IsAst(s), NEW t, IsAst(t), SamePrimitives(s, t),
         NEW ty, IsType(ty), ValidType(ty, s), ValidType(ty, t)
  PROVE  Last(ty) \in Common(s, t)
<1> DEFINE x == Last(ty)
<1>1. x \notin Wrappers /\ Len(ty) \in DOMAIN ty /\ x = ty[Len(ty)]
  BY DEF IsType, Last
<1>2. /\ x \in Wrappers \cup Primitives \cup Names(s) \cup FixedBytes
      /\ x \in Wrappers \cup Primitives \cup Names(t) \cup FixedBytes
  BY <1>1 DEF ValidType
<1>3. Names(s) \cap FixedBytes = {} /\ Names(t) \cap FixedBytes = {}
  <2>1. ASSUME NEW u, IsAst(u) PROVE Names(u) \cap FixedBytes = {}
    <3> SUFFICES ASSUME NEW i \in DOMAIN u.items PROVE u.items[i].name \notin FixedBytes
      BY DEF Names
    <3>1. IsItem(u.items[i])
      BY <2>1 DEF IsAst, Range
    <3> QED BY <3>1 DEF IsItem
  <2> QED BY <2>1
<1> HIDE DEF x
<1>4. x \in Common(s, t)
  BY <1>1, <1>2, <1>3 DEF Common, SamePrimitives
<1> QED BY <1>4 DEF x

(* What the signatures of fields tell apart.                               *)
LEMMA SignaturesTell ==
  ASSUME NEW s, NEW t, NEW before, NEW after,
         FieldSignatures(before, s) = FieldSignatures(after, t)
  PROVE  /\ DOMAIN before = DOMAIN after
         /\ \A i \in DOMAIN before :
              /\ before[i].name = after[i].name
              /\ before[i].guard = after[i].guard
              /\ before[i].ty = after[i].ty
              /\ before[i].exact = after[i].exact
<1>1. DOMAIN before = DOMAIN after
  <2>1. DOMAIN FieldSignatures(before, s) = DOMAIN before
    BY DEF FieldSignatures
  <2>2. DOMAIN FieldSignatures(after, t) = DOMAIN after
    BY DEF FieldSignatures
  <2> QED BY <2>1, <2>2
<1>2. ASSUME NEW i \in DOMAIN before
      PROVE  FieldSignature(before[i], s) = FieldSignature(after[i], t)
  <2>1. FieldSignatures(before, s)[i] = FieldSignature(before[i], s)
    BY DEF FieldSignatures
  <2>2. FieldSignatures(after, t)[i] = FieldSignature(after[i], t)
    BY <1>1 DEF FieldSignatures
  <2> QED BY <2>1, <2>2
<1>3. ASSUME NEW i \in DOMAIN before
      PROVE  /\ before[i].name = after[i].name
             /\ before[i].guard = after[i].guard
             /\ before[i].ty = after[i].ty
             /\ before[i].exact = after[i].exact
  BY <1>2 DEF FieldSignature, TypeSignature
<1> QED BY <1>1, <1>3

(* Fields that the audit takes for the same have one canonical form.       *)
LEMMA SameCanonical ==
  ASSUME NEW s, IsAst(s), NEW t, IsAst(t), SamePrimitives(s, t),
         AgreeOn(Common(s, t), s, t),
         NEW before, AreFields(before), ValidFields(before, s),
         NEW after, ValidFields(after, t),
         FieldSignatures(before, s) = FieldSignatures(after, t),
         NEW path
  PROVE  Canonical(path, before, s) = Canonical(path, after, t)
<1>1. /\ DOMAIN before = DOMAIN after
      /\ \A i \in DOMAIN before :
           /\ before[i].name = after[i].name
           /\ before[i].guard = after[i].guard
           /\ before[i].ty = after[i].ty
           /\ before[i].exact = after[i].exact
  BY SignaturesTell
<1>2. ASSUME NEW i \in DOMAIN before
      PROVE  FieldCanonical(before[i], s) = FieldCanonical(after[i], t)
  <2> DEFINE ty == before[i].ty
  <2>1. IsType(ty)
    BY DEF AreFields, Range
  <2>2. ValidType(ty, s) /\ ValidType(ty, t)
    BY <1>1 DEF ValidFields, ValidField
  <2>3. ty \in Chains
    BY <2>1 DEF IsType, Chains
  <2> HIDE DEF ty
  <2>4. Last(ty) \in Common(s, t)
    BY <2>1, <2>2, LastIsCommon
  <2>5. Expanded(ty, s) = Expanded(ty, t)
    BY <2>3, <2>4, SameExpansion
  <2> QED BY <1>1, <2>5 DEF FieldCanonical, ty
<1> QED BY <1>1, <1>2 DEF Canonical

-----------------------------------------------------------------------------
(* The parts of the two schemas the audit looks at, and what it has found. *)
Sound ==
  /\ IsAst(old) /\ IsAst(new)
  /\ \A i \in DOMAIN old.items : ValidItem(old.items[i], old)
  /\ \A i \in DOMAIN new.items : ValidItem(new.items[i], new)

(* They are sound because the parser validates what it returns.            *)
LEMMA BothAreSound ==
  ASSUME migration \in Migrations
  PROVE  Sound
<1>1. migration[1] \in DOMAIN Catalogue /\ migration[2] \in DOMAIN Catalogue
  BY MigrationsAssumption
<1>2. IsAst(old) /\ Valid(old) /\ IsAst(new) /\ Valid(new)
  BY <1>1, CatalogueAssumption DEF old, new
<1> QED BY <1>2 DEF Sound, Valid

AllPass == \A k \in DOMAIN old.items : Passes(old.items[k])

(* The item that both schemas have by a name.                              *)
LEMMA ItemsOfBoth ==
  ASSUME Sound, AllPass, NEW name \in Names(old) \cap Names(new)
  PROVE  /\ ItemKept(ItemOf(name, old), ItemOf(name, new))
         /\ IsItem(ItemOf(name, old)) /\ ValidItem(ItemOf(name, old), old)
         /\ IsItem(ItemOf(name, new)) /\ ValidItem(ItemOf(name, new), new)
         /\ ItemOf(name, old).name = name /\ ItemOf(name, new).name = name
         /\ ItemOf(name, old).kind = ItemOf(name, new).kind
<1>1. PICK i \in DOMAIN old.items : ItemOf(name, old) = old.items[i]
  BY ItemOfIs
<1>2. PICK j \in DOMAIN new.items : ItemOf(name, new) = new.items[j]
  BY ItemOfIs
<1>3. ItemOf(name, old).name = name /\ ItemOf(name, new).name = name
  BY ItemOfIs
<1>4. Passes(old.items[i])
  BY DEF AllPass
<1>5. ItemKept(ItemOf(name, old), ItemOf(name, new))
  BY <1>1, <1>3, <1>4 DEF Passes
<1>6. IsItem(old.items[i]) /\ ValidItem(old.items[i], old)
  BY DEF Sound, IsAst, Range
<1>7. IsItem(new.items[j]) /\ ValidItem(new.items[j], new)
  BY DEF Sound, IsAst, Range
<1> QED BY <1>1, <1>2, <1>3, <1>5, <1>6, <1>7 DEF ItemKept

(* The audit compares the type of an alias, so that both have the same.    *)
LEMMA SameAliases ==
  ASSUME Sound, AllPass, SamePrimitives(old, new)
  PROVE  AgreeOn(Common(old, new), old, new)
<1> SUFFICES ASSUME NEW x \in Common(old, new)
             PROVE  /\ IsA("alias", x, old) <=> IsA("alias", x, new)
                    /\ IsA("alias", x, old) =>
                         /\ ItemOf(x, old).ty = ItemOf(x, new).ty
                         /\ ItemOf(x, old).exact = ItemOf(x, new).exact
                         /\ Last(ItemOf(x, old).ty) \in Common(old, new)
  BY DEF AgreeOn
<1>1. CASE x \notin Names(old) \cap Names(new)
  BY <1>1 DEF Common, IsA
<1>2. CASE x \in Names(old) \cap Names(new)
  <2> DEFINE a == ItemOf(x, old)
             b == ItemOf(x, new)
  <2>1. /\ ItemKept(a, b) /\ a.kind = b.kind
        /\ IsItem(a) /\ ValidItem(a, old) /\ ValidItem(b, new)
    BY <1>2, ItemsOfBoth
  <2>2. IsA("alias", x, old) <=> IsA("alias", x, new)
    BY <1>2, <2>1 DEF IsA
  <2>3. ASSUME a.kind = "alias"
        PROVE  a.ty = b.ty /\ a.exact = b.exact /\ Last(a.ty) \in Common(old, new)
    <3> HIDE DEF a, b
    <3>1. a.ty = b.ty /\ a.exact = b.exact
      BY <2>1, <2>3 DEF ItemKept
    <3>2. IsType(a.ty)
      BY <2>1, <2>3 DEF IsItem
    <3>3. ValidType(a.ty, old) /\ ValidType(b.ty, new)
      BY <2>1, <2>3 DEF ValidItem, ValidAlias
    <3>4. IsAst(old) /\ IsAst(new)
      BY DEF Sound
    <3> QED BY <3>1, <3>2, <3>3, <3>4, LastIsCommon
  <2> QED BY <2>2, <2>3 DEF IsA
<1> QED BY <1>1, <1>2

(* A struct that the audit passes keeps its constructor ID.                *)
LEMMA StructKeepsCid ==
  ASSUME Sound, SamePrimitives(old, new), AgreeOn(Common(old, new), old, new),
         NEW a, IsItem(a), ValidItem(a, old), NEW b, ValidItem(b, new),
         ItemKept(a, b), a.kind = "struct", a.name = b.name
  PROVE  Cids(a, old) \subseteq Cids(b, new)
<1>1. b.kind = "struct" /\ FieldSignatures(a.fields, old) = FieldSignatures(b.fields, new)
  BY DEF ItemKept
<1>2. AreFields(a.fields)
  BY DEF IsItem
<1>3. ValidStruct(a, old) /\ ValidStruct(b, new)
  BY <1>1 DEF ValidItem
<1>4. ConstructorCid(a, old) = ConstructorCid(b, new)
  <2>1. ValidFields(a.fields, old) /\ ValidFields(b.fields, new)
    BY <1>3 DEF ValidStruct
  <2>2. IsAst(old) /\ IsAst(new)
    BY DEF Sound
  <2>3. Canonical(<<a.name>>, a.fields, old) = Canonical(<<a.name>>, b.fields, new)
    BY <1>1, <1>2, <2>1, <2>2, SameCanonical
  <2> QED BY <2>3 DEF ConstructorCid
<1>5. /\ StructCid(a, old) = ConstructorCid(a, old)
      /\ StructCid(b, new) = ConstructorCid(b, new)
  BY <1>3 DEF ValidStruct, StructCid
<1> QED BY <1>1, <1>4, <1>5 DEF Cids

(* And so does an enum, for each of the variants it had.                   *)
LEMMA EnumKeepsCids ==
  ASSUME Sound, SamePrimitives(old, new), AgreeOn(Common(old, new), old, new),
         NEW a, IsItem(a), ValidItem(a, old), NEW b, ValidItem(b, new),
         ItemKept(a, b), a.kind = "enum", a.name = b.name
  PROVE  Cids(a, old) \subseteq Cids(b, new)
<1>1. b.kind = "enum" /\ EnumKept(a, b)
  BY DEF ItemKept
<1>2. ValidEnum(a, old) /\ ValidEnum(b, new)
  BY <1>1 DEF ValidItem
<1>3. CASE ~HasFields(a)
  BY <1>3 DEF Cids
<1>4. CASE HasFields(a)
  <2>1. ASSUME NEW v \in Range(a.variants)
        PROVE  \E w \in Range(b.variants) :
                 /\ w.name = v.name
                 /\ v.fields # << >> => w.fields # << >>
                 /\ CidOfVariant(a, v, old) = CidOfVariant(b, w, new)
    <3>1. PICK w \in Range(b.variants) :
            w.name = v.name /\ VariantSignature(w, new) = VariantSignature(v, old)
      BY <1>1 DEF EnumKept
    <3>2. w.cid = v.cid /\ FieldSignatures(v.fields, old) = FieldSignatures(w.fields, new)
      BY <3>1 DEF VariantSignature
    <3>3. AreFields(v.fields)
      BY DEF IsItem
    <3>4. ValidFields(v.fields, old) /\ ValidFields(w.fields, new)
      BY <1>2 DEF ValidEnum
    <3>5. VariantCid(a, v, old) = VariantCid(b, w, new)
      <4>1. IsAst(old) /\ IsAst(new)
        BY DEF Sound
      <4>2. Canonical(<<a.name, v.name>>, v.fields, old) = Canonical(<<a.name, v.name>>, w.fields, new)
        BY <3>2, <3>3, <3>4, <4>1, SameCanonical
      <4> QED BY <3>1, <4>2 DEF VariantCid
    <3>6. v.fields # << >> => w.fields # << >>
      <4>1. DOMAIN v.fields = DOMAIN w.fields
        BY <3>2, SignaturesTell
      <4>2. v.fields \in Seq(Range(v.fields))
        BY <3>3 DEF AreFields
      <4> QED BY <4>1, <4>2
    <3> QED BY <3>1, <3>2, <3>5, <3>6 DEF CidOfVariant
  <2>2. HasFields(b)
    <3>1. PICK i \in DOMAIN a.variants : a.variants[i].fields # << >>
      BY <1>4 DEF HasFields
    <3>2. PICK w \in Range(b.variants) : w.fields # << >>
      BY <2>1, <3>1 DEF Range
    <3> QED BY <3>2 DEF HasFields, Range
  <2>3. Cids(a, old) = {<<v.name, CidOfVariant(a, v, old)>> : v \in Range(a.variants)}
    BY <1>4 DEF Cids
  <2>4. Cids(b, new) = {<<v.name, CidOfVariant(b, v, new)>> : v \in Range(b.variants)}
    BY <1>1, <2>2 DEF Cids
  <2> QED BY <2>1, <2>3, <2>4
<1> QED BY <1>3, <1>4

-----------------------------------------------------------------------------
(* The items before the one the audit is at have passed.                   *)
AuditInv ==
  /\ AuditTypeOK
  /\ \A k \in 1 .. audited : Passes(old.items[k])
  /\ verdict = "accepted" => audited = Len(old.items)

(* The audit goes through the items in order and accepts after the last.   *)
THEOREM AuditInvariance == AuditSpec => []AuditInv
<1>1. AuditInit => AuditInv
  <2> SUFFICES ASSUME AuditInit PROVE AuditInv
    OBVIOUS
  <2>1. Len(old.items) \in Nat
    BY BothAreSound DEF AuditInit, Sound, IsAst
  <2> QED BY <2>1 DEF AuditInit, AuditInv, AuditTypeOK
<1>2. AuditInv /\ [AuditNext]_auditVars => AuditInv'
  <2> SUFFICES ASSUME AuditInv, [AuditNext]_auditVars PROVE AuditInv'
    OBVIOUS
  <2>1. Len(old.items) \in Nat
    BY BothAreSound DEF AuditInv, AuditTypeOK, Sound, IsAst
  <2>2. CASE AuditItem
    <3>1. UNCHANGED <<migration, verdict>> /\ audited' = audited + 1 /\ verdict = "running"
      BY <2>2 DEF AuditItem
    <3>2. old' = old /\ new' = new
      BY <3>1 DEF old, new
    <3>3. audited \in Nat /\ audited + 1 \in 0 .. Len(old.items)
      BY <2>1, <2>2 DEF AuditItem, AuditInv, AuditTypeOK
    <3>4. AuditTypeOK'
      BY <3>1, <3>2, <3>3 DEF AuditInv, AuditTypeOK
    <3>5. ASSUME NEW k \in 1 .. audited'
          PROVE  Passes(old.items[k])'
      <4>1. k \in 1 .. audited \/ k = audited + 1
        BY <3>1, <3>3
      <4>2. Passes(old.items[k])
        BY <2>2, <4>1 DEF AuditItem, AuditInv
      <4> QED BY <3>2, <4>2 DEF Passes, ItemKept, EnumKept
    <3> QED BY <3>1, <3>4, <3>5 DEF AuditInv
  <2>3. CASE RejectItem \/ Accept \/ DeployUnaudited \/ UNCHANGED auditVars
    <3>1. UNCHANGED <<migration, audited>>
      BY <2>3 DEF RejectItem, Accept, DeployUnaudited, auditVars
    <3>2. old' = old /\ new' = new
      BY <3>1 DEF old, new
    <3>3. AuditTypeOK' /\ (verdict' = "accepted" => audited' = Len(old'.items))
      BY <2>3, <3>1, <3>2 DEF AuditInv, AuditTypeOK, RejectItem, Accept, DeployUnaudited, auditVars
    <3>4. ASSUME NEW k \in 1 .. audited'
          PROVE  Passes(old.items[k])'
      <4>1. Passes(old.items[k])
        BY <3>1 DEF AuditInv
      <4> QED BY <3>2, <4>1 DEF Passes, ItemKept, EnumKept
    <3> QED BY <3>3, <3>4 DEF AuditInv
  <2> QED BY <2>2, <2>3 DEF AuditNext
<1> QED BY <1>1, <1>2, PTL DEF AuditSpec

(* The audit never goes past the last item of the old schema.              *)
THEOREM AuditTypeCorrect == AuditSpec => []AuditTypeOK
<1>1. AuditInv => AuditTypeOK
  BY DEF AuditInv
<1> QED BY <1>1, AuditInvariance, PTL

(* After an accepting audit every constructor of an item that is still     *)
(* there has the ID it had, whatever the two schemas are.                  *)
THEOREM KeptCids == AuditSpec => []AcceptedKeepsCids
<1>1. AuditInv => AcceptedKeepsCids
  <2> SUFFICES ASSUME AuditInv, ~Shadows, verdict = "accepted",
                      NEW name \in Names(old) \cap Names(new)
               PROVE  Cids(ItemOf(name, old), old) \subseteq Cids(ItemOf(name, new), new)
    BY DEF AcceptedKeepsCids, AuditKeepsCids
  <2> DEFINE a == ItemOf(name, old)
             b == ItemOf(name, new)
  <2>1. Sound
    BY BothAreSound DEF AuditInv, AuditTypeOK
  <2>2. AllPass
    <3>1. DOMAIN old.items = 1 .. Len(old.items)
      BY <2>1 DEF Sound, IsAst
    <3> QED BY <3>1 DEF AllPass, AuditInv
  <2>3. SamePrimitives(old, new)
    BY DEF Shadows, SamePrimitives
  <2>4. AgreeOn(Common(old, new), old, new)
    BY <2>1, <2>2, <2>3, SameAliases
  <2>5. /\ ItemKept(a, b) /\ IsItem(a) /\ ValidItem(a, old) /\ ValidItem(b, new)
        /\ a.name = b.name
    BY <2>1, <2>2, ItemsOfBoth
  <2> HIDE DEF a, b
  <2>6. CASE a.kind = "struct"
    BY <2>1, <2>3, <2>4, <2>5, <2>6, StructKeepsCid DEF a, b
  <2>7. CASE a.kind = "enum"
    BY <2>1, <2>3, <2>4, <2>5, <2>7, EnumKeepsCids DEF a, b
  <2>8. CASE a.kind \notin {"struct", "enum"}
    <3>1. Cids(a, old) = {}
      BY <2>8 DEF Cids
    <3> QED BY <3>1 DEF a, b
  <2> QED BY <2>6, <2>7, <2>8
<1> QED BY <1>1, AuditInvariance, PTL
=============================================================================
