----------------------------- MODULE Recursion -----------------------------
(***************************************************************************)
(* Recursion and induction over data, for the proofs of the components.    *)
(*                                                                         *)
(* A recursive function of TLA+ is the CHOOSE of a function that solves its*)
(* equation, so that nothing is known of it until a solution is shown to   *)
(* exist.  That, and induction, follow from the one fact that the natural  *)
(* numbers are well founded, stated of sets and functions and never of an  *)
(* operator:                                                               *)
(*   - NatInductionOnSets and TreeInduction, of a set that is closed under *)
(*     a step;                                                             *)
(*   - RecursiveFunctionExists, of an equation whose right side looks only *)
(*     at what is below its argument;                                      *)
(*   - what FlattenSeq of SequencesExt, the concatenation of a sequence of *)
(*     sequences, does to << >>, <<e>>, Append, \o and Head.               *)
(***************************************************************************)
EXTENDS Integers, Sequences, SequencesExt, FiniteSetTheorems, SequenceTheorems, TLAPS

(* A nonempty set of natural numbers has a least element.                  *)
LEMMA NatMinimum ==
  ASSUME NEW T \in SUBSET Nat, T # {}
  PROVE  \E n \in T : \A m \in T : n <= m
<1> DEFINE R == OpToRel(<, Nat)
<1>1. R = {p \in Nat \X Nat : p[1] < p[2]}
  BY SMT DEF OpToRel
<1>2. IsWellFoundedOn(R, Nat)
  BY NatLessThanWellFounded, SMT DEF OpToRel
<1>3. T \subseteq Nat
  OBVIOUS
<1> HIDE DEF R
<1>4. PICK n \in T : \A m \in T : ~(<<m, n>> \in R)
  <2>1. \E n \in T : \A m \in T : ~(<<m, n>> \in R)
    BY <1>2, <1>3, WFMin
  <2> QED BY <2>1
<1>5. \A m \in T : ~(m < n)
  BY <1>1, <1>4
<1> QED BY <1>4, <1>5

(* Induction over the natural numbers.                                     *)
LEMMA NatInductionOnSets ==
  ASSUME NEW S \in SUBSET Nat, 0 \in S, \A n \in S : n + 1 \in S
  PROVE  S = Nat
<1>1. SUFFICES ASSUME S # Nat PROVE FALSE
  OBVIOUS
<1> DEFINE T == Nat \ S
<1>2. PICK n \in T : \A m \in T : n <= m
  BY <1>1, NatMinimum
<1>3. n # 0 /\ n - 1 \in Nat
  BY <1>2
<1>4. n - 1 \in S
  BY <1>2, <1>3
<1>5. n - 1 + 1 \in S
  BY <1>4
<1> QED BY <1>5, <1>2

(* Below[x] is what x is made of: going down always comes to an end.       *)
WellFounded(D, Below) ==
  \A S \in SUBSET D : S # {} => \E x \in S : Below[x] \cap S = {}

(* The right side of an equation at x looks only at what is below x.       *)
LocalTo(D, V, Below, Step) ==
  \A x \in D, g \in [D -> V], h \in [D -> V] :
    (\A y \in Below[x] : g[y] = h[y]) => Step[x][g] = Step[x][h]

(* Step[x][f] is the right side of a recursive equation f[x] = ... over D. *)
IsRecursion(D, V, Below, Step) ==
  /\ V # {}
  /\ Below \in [D -> SUBSET D]
  /\ WellFounded(D, Below)
  /\ Step \in [D -> [[D -> V] -> V]]
  /\ LocalTo(D, V, Below, Step)

(* f solves the equation.                                                  *)
Solves(f, D, V, Step) == f \in [D -> V] /\ \A x \in D : f[x] = Step[x][f]

(* A recursive equation over what is well founded has a solution.          *)
LEMMA RecursiveFunctionExists ==
  ASSUME NEW D, NEW V, NEW Below, NEW Step, IsRecursion(D, V, Below, Step)
  PROVE  \E f : Solves(f, D, V, Step)
<1>0. /\ V # {}
      /\ Below \in [D -> SUBSET D]
      /\ WellFounded(D, Below)
      /\ Step \in [D -> [[D -> V] -> V]]
      /\ LocalTo(D, V, Below, Step)
  BY DEF IsRecursion
<1> USE <1>0
<1> DEFINE Closed(A) == \A x \in A : Below[x] \subseteq A
           Attempt(A, g) == Closed(A) /\ \A x \in A : g[x] = Step[x][g]
<1>1. ASSUME NEW A \in SUBSET D, NEW B \in SUBSET D,
             NEW g \in [D -> V], NEW h \in [D -> V], Attempt(A, g), Attempt(B, h)
      PROVE  \A x \in A \cap B : g[x] = h[x]
  <2> DEFINE S == {x \in A \cap B : g[x] # h[x]}
  <2>1. SUFFICES ASSUME S # {} PROVE FALSE
    OBVIOUS
  <2>2. S \in SUBSET D
    OBVIOUS
  <2>3. PICK x \in S : Below[x] \cap S = {}
    <3> HIDE DEF S
    <3> QED BY <2>1, <2>2, Zenon DEF WellFounded
  <2>4. Below[x] \subseteq A \cap B
    BY <1>1
  <2>5. \A y \in Below[x] : g[y] = h[y]
    BY <2>3, <2>4
  <2>6. x \in D /\ x \in A /\ x \in B /\ g[x] # h[x]
    OBVIOUS
  <2>7. Step[x][g] = Step[x][h]
    BY <2>5, <2>6, Zenon DEF LocalTo
  <2>8. g[x] = Step[x][g] /\ h[x] = Step[x][h]
    BY <1>1, <2>6, Zenon
  <2> QED BY <2>6, <2>7, <2>8, Zenon
<1> DEFINE Reached(x) == \E A \in SUBSET D, g \in [D -> V] : x \in A /\ Attempt(A, g)
           U == {x \in D : Reached(x)}
           Value(x) == CHOOSE v \in V : \E A \in SUBSET D, g \in [D -> V] :
                                          x \in A /\ Attempt(A, g) /\ g[x] = v
           f == [x \in D |-> IF x \in U THEN Value(x) ELSE CHOOSE v \in V : TRUE]
<1> HIDE DEF Attempt
<1>2. ASSUME NEW x \in U PROVE Value(x) \in V /\
         \E A \in SUBSET D, g \in [D -> V] : x \in A /\ Attempt(A, g) /\ g[x] = Value(x)
  <2>1. PICK A \in SUBSET D, g \in [D -> V] : x \in A /\ Attempt(A, g)
    OBVIOUS
  <2>2. g[x] \in V
    BY <2>1
  <2> QED BY <2>1, <2>2
<1>3. f \in [D -> V]
  <2>1. (CHOOSE v \in V : TRUE) \in V
    OBVIOUS
  <2> HIDE DEF Value, U
  <2> QED BY <1>2, <2>1
<1>4. ASSUME NEW A \in SUBSET D, NEW g \in [D -> V], Attempt(A, g)
      PROVE  \A x \in A : x \in U /\ f[x] = g[x]
  <2> SUFFICES ASSUME NEW x \in A PROVE x \in U /\ f[x] = g[x]
    OBVIOUS
  <2>1. x \in U
    BY <1>4
  <2>2. PICK B \in SUBSET D, h \in [D -> V] : x \in B /\ Attempt(B, h) /\ h[x] = Value(x)
    BY <1>2, <2>1, Zenon
  <2>3. g[x] = h[x]
    BY <1>1, <1>4, <2>2
  <2>4. f[x] = Value(x)
    BY <2>1
  <2> QED BY <2>1, <2>2, <2>3, <2>4, Zenon
<1>5. Attempt(U, f)
  <2>1. ASSUME NEW x \in U PROVE Below[x] \subseteq U /\ f[x] = Step[x][f]
    <3>1. PICK A \in SUBSET D, g \in [D -> V] : x \in A /\ Attempt(A, g)
      OBVIOUS
    <3>2. \A y \in A : y \in U /\ f[y] = g[y]
      <4> HIDE DEF f, U
      <4> QED BY <1>4, <3>1
    <3>3. Below[x] \subseteq A /\ g[x] = Step[x][g]
      BY <3>1 DEF Attempt
    <3>4. \A y \in Below[x] : f[y] = g[y]
      BY <3>2, <3>3
    <3> HIDE DEF f
    <3>5. Step[x][f] = Step[x][g]
      BY <3>4, <1>3, x \in D, Zenon DEF LocalTo
    <3> QED BY <3>1, <3>2, <3>3, <3>5
  <2> HIDE DEF U, f
  <2> QED BY <2>1 DEF Attempt
<1>6. U = D
  <2> DEFINE S == D \ U
  <2>1. SUFFICES ASSUME S # {} PROVE FALSE
    OBVIOUS
  <2>2. PICK x \in S : Below[x] \cap S = {}
    <3>1. S \in SUBSET D
      OBVIOUS
    <3> HIDE DEF S
    <3> QED BY <2>1, <3>1, Zenon DEF WellFounded
  <2>3. Below[x] \subseteq U /\ x \in D /\ x \notin U
    BY <2>2
  <2> DEFINE A == U \cup {x}
             g == [f EXCEPT ![x] = Step[x][f]]
  <2>4. U \in SUBSET D
    OBVIOUS
  <2> HIDE DEF U, f
  <2>5. Step[x][f] \in V
    BY <1>3, <2>3
  <2>6. g \in [D -> V]
    BY <1>3, <2>5
  <2>7. \A y \in U : g[y] = f[y]
    BY <1>3, <2>3, <2>4
  <2>8. g[x] = Step[x][f]
    BY <1>3, <2>3
  <2> HIDE DEF g
  <2>9. \A y \in A : Below[y] \subseteq U
    BY <1>5, <2>3 DEF Attempt
  <2>10. \A y \in A : Step[y][g] = Step[y][f]
    <3> SUFFICES ASSUME NEW y \in A PROVE Step[y][g] = Step[y][f]
      OBVIOUS
    <3>1. \A z \in Below[y] : g[z] = f[z]
      BY <2>7, <2>9
    <3>2. y \in D
      BY <2>3, <2>4
    <3> QED BY <3>1, <3>2, <1>3, <2>6, Zenon DEF LocalTo
  <2>11. Attempt(A, g)
    BY <2>7, <2>8, <2>9, <2>10, <1>5 DEF Attempt
  <2>12. A \in SUBSET D /\ x \in A
    BY <2>3, <2>4
  <2>13. x \in U
    BY <2>3, <2>6, <2>11, <2>12 DEF U
  <2> QED BY <2>3, <2>13
<1> HIDE DEF f, U
<1>7. \A x \in D : f[x] = Step[x][f]
  BY <1>5, <1>6 DEF Attempt
<1>8. Solves(f, D, V, Step)
  BY <1>3, <1>7 DEF Solves
<1> QED BY <1>8

(* Induction over what is well founded: over the parts of a value, say.    *)
LEMMA TreeInduction ==
  ASSUME NEW D, NEW Below, WellFounded(D, Below),
         NEW T \in SUBSET D, \A x \in D : Below[x] \subseteq T => x \in T,
         \A x \in D : Below[x] \subseteq D
  PROVE  T = D
<1> DEFINE S == D \ T
<1>1. SUFFICES ASSUME S # {} PROVE FALSE
  OBVIOUS
<1>2. S \in SUBSET D
  OBVIOUS
<1>3. PICK x \in S : Below[x] \cap S = {}
  <2> HIDE DEF S
  <2> QED BY <1>1, <1>2, Zenon DEF WellFounded
<1>4. x \in D /\ x \notin T /\ Below[x] \subseteq T
  BY <1>3
<1> QED BY <1>4

(* Numbers made of smaller numbers are well founded.                       *)
LEMMA NatWellFounded ==
  ASSUME NEW D \in SUBSET Nat, NEW Below \in [D -> SUBSET D],
         \A n \in D : \A m \in Below[n] : m < n
  PROVE  WellFounded(D, Below)
<1> SUFFICES ASSUME NEW T \in SUBSET D, T # {}
             PROVE  \E n \in T : Below[n] \cap T = {}
  BY DEF WellFounded
<1>1. PICK n \in T : \A m \in T : n <= m
  BY NatMinimum
<1>2. \A m \in Below[n] : m \notin T
  BY <1>1
<1> QED BY <1>1, <1>2

(* f solves a recursion that counts from 0 to n.                           *)
Counts(f, n, V, base, Step) ==
  /\ f \in [0 .. n -> V]
  /\ f[0] = base
  /\ \A i \in 1 .. n : f[i] = Step[i][f[i - 1]]

(* Such a recursion has a solution.                                        *)
LEMMA CountedRecursion ==
  ASSUME NEW n \in Nat, NEW V, NEW base \in V, NEW Step \in [1 .. n -> [V -> V]]
  PROVE  \E f : Counts(f, n, V, base, Step)
<1> DEFINE D == 0 .. n
           Below == [i \in D |-> 0 .. i - 1]
           Rule(i, g) == IF i = 0 THEN base ELSE Step[i][g[i - 1]]
           Rules == [i \in D |-> [g \in [D -> V] |-> Rule(i, g)]]
<1>1. Below \in [D -> SUBSET D] /\ D \in SUBSET Nat /\ V # {}
  OBVIOUS
<1>2. WellFounded(D, Below)
  <2>1. \A i \in D : \A m \in Below[i] : m < i
    OBVIOUS
  <2> HIDE DEF D, Below
  <2> QED BY <1>1, <2>1, NatWellFounded
<1>3. \A i \in D, g \in [D -> V] : Rule(i, g) \in V
  <2> SUFFICES ASSUME NEW i \in D, NEW g \in [D -> V] PROVE Rule(i, g) \in V
    OBVIOUS
  <2>1. CASE i = 0
    BY <2>1
  <2>2. CASE i # 0
    <3>1. i \in 1 .. n /\ i - 1 \in D
      BY <2>2
    <3> QED BY <2>2, <3>1
  <2> QED BY <2>1, <2>2
<1>4. Rules \in [D -> [[D -> V] -> V]]
  <2> HIDE DEF D, Rule
  <2> QED BY <1>3
<1>5. LocalTo(D, V, Below, Rules)
  <2> SUFFICES ASSUME NEW i \in D, NEW g \in [D -> V], NEW h \in [D -> V],
                      \A y \in Below[i] : g[y] = h[y]
               PROVE  Rules[i][g] = Rules[i][h]
    BY DEF LocalTo
  <2>1. i # 0 => g[i - 1] = h[i - 1]
    OBVIOUS
  <2> HIDE DEF D
  <2> QED BY <2>1
<1>6. \E f \in [D -> V] : \A i \in D : f[i] = Rules[i][f]
  <2> HIDE DEF D, Below, Rules
  <2>1. IsRecursion(D, V, Below, Rules)
    BY <1>1, <1>2, <1>4, <1>5 DEF IsRecursion
  <2>2. PICK f : Solves(f, D, V, Rules)
    BY <2>1, RecursiveFunctionExists
  <2> QED BY <2>2 DEF Solves
<1>7. PICK f \in [D -> V] : \A i \in D : f[i] = Rules[i][f]
  BY <1>6
<1>8. \A i \in D : f[i] = Rule(i, f)
  <2> HIDE DEF D, Rule
  <2> QED BY <1>7
<1>9. 0 \in D /\ \A i \in 1 .. n : i \in D /\ i # 0
  OBVIOUS
<1>10. f[0] = base /\ \A i \in 1 .. n : f[i] = Step[i][f[i - 1]]
  <2> HIDE DEF D
  <2> QED BY <1>8, <1>9
<1> QED BY <1>7, <1>10 DEF Counts

-----------------------------------------------------------------------------
(* The equation of FlattenSeq has a solution, which is its value.          *)
LEMMA FlattenDef ==
  ASSUME NEW S, NEW s \in Seq(Seq(S)), Len(s) > 0
  PROVE  \E F \in [1 .. Len(s) -> Seq(S)] :
           /\ F[1] = s[1]
           /\ \A i \in 2 .. Len(s) : F[i] = F[i - 1] \o s[i]
           /\ FlattenSeq(s) = F[Len(s)]
<1> DEFINE n == Len(s)
           D == 1 .. n
           V == Seq(S)
           Below == [i \in D |-> 1 .. i - 1]
           Step == [i \in D |-> [g \in [D -> V] |->
                      IF i = 1 THEN s[i] ELSE g[i - 1] \o s[i]]]
           Eq(F) == F = [i \in D |-> IF i = 1 THEN s[i] ELSE F[i - 1] \o s[i]]
           F0 == CHOOSE F : Eq(F)
<1>1. n \in Nat /\ n > 0 /\ \A i \in D : s[i] \in V
  OBVIOUS
<1>2. \E F \in [D -> V] : Eq(F)
  <2>1. Below \in [D -> SUBSET D]
    OBVIOUS
  <2>2. WellFounded(D, Below)
    <3>1. D \in SUBSET Nat /\ \A i \in D : \A m \in Below[i] : m < i
      OBVIOUS
    <3> HIDE DEF D, Below
    <3> QED BY <2>1, <3>1, NatWellFounded
  <2>3. \A i \in D, g \in [D -> V] : (IF i = 1 THEN s[i] ELSE g[i - 1] \o s[i]) \in V
    <3> SUFFICES ASSUME NEW i \in D, NEW g \in [D -> V]
                 PROVE  (IF i = 1 THEN s[i] ELSE g[i - 1] \o s[i]) \in V
      OBVIOUS
    <3>1. CASE i = 1
      BY <3>1, <1>1
    <3>2. CASE i # 1
      <4>1. i - 1 \in D
        BY <3>2
      <4>2. g[i - 1] \in V /\ s[i] \in V
        BY <4>1, <1>1
      <4> QED BY <3>2, <4>2, ConcatProperties
    <3> QED BY <3>1, <3>2
  <2>4. Step \in [D -> [[D -> V] -> V]]
    <3> HIDE DEF D, V
    <3> QED BY <2>3
  <2>5. LocalTo(D, V, Below, Step)
    <3> SUFFICES ASSUME NEW i \in D, NEW g \in [D -> V], NEW h \in [D -> V],
                        \A y \in Below[i] : g[y] = h[y]
                 PROVE  Step[i][g] = Step[i][h]
      BY DEF LocalTo
    <3>1. i # 1 => g[i - 1] = h[i - 1]
      OBVIOUS
    <3> HIDE DEF V, D
    <3> QED BY <3>1
  <2>6. V # {}
    BY EmptySeq
  <2>7. \E F \in [D -> V] : \A i \in D : F[i] = Step[i][F]
    <3> HIDE DEF n, D, V, Below, Step
    <3>1. IsRecursion(D, V, Below, Step)
      BY <2>1, <2>2, <2>4, <2>5, <2>6 DEF IsRecursion
    <3>2. PICK F : Solves(F, D, V, Step)
      BY <3>1, RecursiveFunctionExists
    <3> QED BY <3>2 DEF Solves
  <2>8. PICK F \in [D -> V] : \A i \in D : F[i] = Step[i][F]
    BY <2>7
  <2> HIDE DEF D, V
  <2>9. \A i \in D : F[i] = IF i = 1 THEN s[i] ELSE F[i - 1] \o s[i]
    BY <2>8
  <2>10. Eq(F)
    BY <2>9
  <2> QED BY <2>10
<1>3. Eq(F0)
  <2> HIDE DEF Eq
  <2> QED BY <1>2, Zenon
<1>4. FlattenSeq(s) = F0[n]
  <2>1. ~(Len(s) = 0)
    BY <1>1
  <2> QED BY <2>1, Zenon DEF FlattenSeq
<1> HIDE DEF F0
<1>5. \A i \in D : F0[i] = IF i = 1 THEN s[i] ELSE F0[i - 1] \o s[i]
  <2> HIDE DEF D
  <2> QED BY <1>3
<1>6. \A i \in D : F0[i] \in V
  <2> DEFINE T == {i \in Nat : i + 1 \in D => F0[i + 1] \in V}
  <2>1. 0 \in T
    BY <1>1, <1>5
  <2>2. \A i \in T : i + 1 \in T
    <3> SUFFICES ASSUME NEW i \in T, i + 1 + 1 \in D PROVE F0[i + 1 + 1] \in V
      OBVIOUS
    <3>1. i + 1 \in D /\ i + 1 + 1 # 1 /\ i + 1 + 1 - 1 = i + 1
      OBVIOUS
    <3>2. F0[i + 1] \in V /\ s[i + 1 + 1] \in V
      BY <3>1, <1>1
    <3>3. F0[i + 1 + 1] = F0[i + 1] \o s[i + 1 + 1]
      <4> DEFINE j == i + 1 + 1
      <4>1. j \in D /\ j # 1 /\ j - 1 = i + 1
        BY <3>1
      <4> HIDE DEF D, j
      <4>2. F0[j] = F0[j - 1] \o s[j]
        BY <4>1, <1>5
      <4> QED BY <4>1, <4>2 DEF j
    <3> QED BY <3>2, <3>3, ConcatProperties
  <2>3. T = Nat
    <3> HIDE DEF D, V
    <3>1. T \in SUBSET Nat
      OBVIOUS
    <3> HIDE DEF T
    <3> QED BY <2>1, <2>2, <3>1, NatInductionOnSets
  <2> SUFFICES ASSUME NEW i \in D PROVE F0[i] \in V
    OBVIOUS
  <2>4. i - 1 \in Nat /\ i - 1 + 1 = i
    OBVIOUS
  <2>5. i - 1 \in T
    <3> HIDE DEF T
    <3> QED BY <2>3, <2>4
  <2> HIDE DEF D
  <2> QED BY <2>4, <2>5
<1>7. F0 \in [D -> V]
  <2> HIDE DEF D, V
  <2> QED BY <1>3, <1>6
<1>8. F0[1] = s[1] /\ \A i \in 2 .. n : F0[i] = F0[i - 1] \o s[i]
  <2>1. 1 \in D /\ \A i \in 2 .. n : i \in D /\ i # 1
    BY <1>1
  <2> HIDE DEF D
  <2> QED BY <2>1, <1>5
<1> QED BY <1>4, <1>7, <1>8

(* Whatever solves the equation of FlattenSeq is its value.                *)
LEMMA FlattenUnique ==
  ASSUME NEW S, NEW s \in Seq(Seq(S)), Len(s) > 0,
         NEW G, G[1] = s[1], \A i \in 2 .. Len(s) : G[i] = G[i - 1] \o s[i]
  PROVE  FlattenSeq(s) = G[Len(s)]
<1> DEFINE n == Len(s)
<1>1. PICK F \in [1 .. n -> Seq(S)] :
        /\ F[1] = s[1]
        /\ \A i \in 2 .. n : F[i] = F[i - 1] \o s[i]
        /\ FlattenSeq(s) = F[n]
  BY FlattenDef
<1>2. n \in Nat /\ n > 0
  OBVIOUS
<1> HIDE DEF n
<1> DEFINE T == {i \in Nat : i + 1 <= n => F[i + 1] = G[i + 1]}
<1>3. 0 \in T
  BY <1>1
<1>4. \A i \in T : i + 1 \in T
  <2> SUFFICES ASSUME NEW i \in T, i + 1 + 1 <= n PROVE F[i + 1 + 1] = G[i + 1 + 1]
    OBVIOUS
  <2> DEFINE j == i + 1 + 1
  <2>1. j \in 2 .. n /\ j - 1 = i + 1 /\ F[i + 1] = G[i + 1]
    BY <1>2
  <2> HIDE DEF j
  <2>2. F[j] = F[j - 1] \o s[j] /\ G[j] = G[j - 1] \o s[j]
    BY <1>1, <2>1 DEF n
  <2> QED BY <2>1, <2>2 DEF j
<1>5. T \in SUBSET Nat
  OBVIOUS
<1>6. T = Nat
  <2> HIDE DEF T
  <2> QED BY <1>3, <1>4, <1>5, NatInductionOnSets
<1>7. n - 1 \in T
  <2> HIDE DEF T
  <2> QED BY <1>2, <1>6
<1>8. F[n] = G[n]
  <2>1. n - 1 + 1 = n
    BY <1>2
  <2> QED BY <1>2, <1>7, <2>1
<1> QED BY <1>1, <1>8 DEF n

(* Nothing flattens to nothing.                                            *)
LEMMA FlattenEmpty ==
  FlattenSeq(<< >>) = << >>
<1>1. Len(<< >>) = 0
  OBVIOUS
<1> QED BY <1>1, Zenon DEF FlattenSeq

(* A sequence of sequences over S flattens to a sequence over S.           *)
LEMMA FlattenType ==
  ASSUME NEW S, NEW s \in Seq(Seq(S))
  PROVE  FlattenSeq(s) \in Seq(S)
<1>1. CASE Len(s) = 0
  <2>1. s = << >>
    BY <1>1
  <2>2. FlattenSeq(s) = << >>
    BY <2>1, FlattenEmpty
  <2> QED BY <2>2, EmptySeq
<1>2. CASE Len(s) > 0
  <2>1. PICK F \in [1 .. Len(s) -> Seq(S)] : FlattenSeq(s) = F[Len(s)]
    BY <1>2, FlattenDef
  <2>2. Len(s) \in 1 .. Len(s)
    BY <1>2
  <2> QED BY <2>1, <2>2
<1>3. Len(s) \in Nat
  OBVIOUS
<1> QED BY <1>1, <1>2, <1>3

(* One sequence flattens to itself.                                        *)
LEMMA FlattenSingle ==
  ASSUME NEW S, NEW e \in Seq(S)
  PROVE  FlattenSeq(<<e>>) = e
<1> DEFINE G == <<e>>
<1>1. <<e>> \in Seq(Seq(S)) /\ Len(<<e>>) = 1 /\ G[1] = e
  OBVIOUS
<1>2. \A i \in 2 .. Len(<<e>>) : G[i] = G[i - 1] \o <<e>>[i]
  BY <1>1
<1> HIDE DEF G
<1> DEFINE s == <<e>>
<1>3. s \in Seq(Seq(S)) /\ Len(s) > 0 /\ G[1] = s[1] /\ \A i \in 2 .. Len(s) : G[i] = G[i - 1] \o s[i]
  BY <1>1, <1>2
<1>4. Len(s) = 1
  BY <1>1
<1> HIDE DEF s
<1>5. FlattenSeq(s) = G[Len(s)]
  BY <1>3, FlattenUnique
<1>6. FlattenSeq(s) = e
  BY <1>1, <1>4, <1>5
<1> QED BY <1>6 DEF s

(* What is appended last comes last.                                       *)
LEMMA FlattenAppend ==
  ASSUME NEW S, NEW s \in Seq(Seq(S)), NEW e \in Seq(S)
  PROVE  FlattenSeq(Append(s, e)) = FlattenSeq(s) \o e
<1> DEFINE n == Len(s)
           t == Append(s, e)
<1>1. /\ t \in Seq(Seq(S)) /\ n \in Nat /\ Len(t) = n + 1
      /\ \A i \in 1 .. n : t[i] = s[i]
      /\ t[n + 1] = e
  BY AppendProperties
<1>2. CASE n = 0
  <2>1. s = << >>
    BY <1>2
  <2>2. t = <<e>>
    BY <2>1
  <2>3. FlattenSeq(t) = e /\ FlattenSeq(s) = << >>
    BY <2>1, <2>2, FlattenSingle, FlattenEmpty
  <2>4. << >> \o e = e
    BY ConcatEmptySeq
  <2> QED BY <2>3, <2>4
<1>3. CASE n > 0
  <2>1. PICK F \in [1 .. n -> Seq(S)] :
          /\ F[1] = s[1]
          /\ \A i \in 2 .. n : F[i] = F[i - 1] \o s[i]
          /\ FlattenSeq(s) = F[n]
    BY <1>3, FlattenDef
  <2> HIDE DEF n, t
  <2> DEFINE G == [i \in 1 .. n + 1 |-> IF i <= n THEN F[i] ELSE F[n] \o e]
  <2>2. G[1] = t[1] /\ G[n + 1] = F[n] \o e
    BY <1>1, <1>3, <2>1
  <2>3. \A i \in 2 .. n + 1 : G[i] = G[i - 1] \o t[i]
    <3> SUFFICES ASSUME NEW i \in 2 .. n + 1 PROVE G[i] = G[i - 1] \o t[i]
      OBVIOUS
    <3>1. CASE i <= n
      <4>1. i \in 2 .. n /\ i - 1 \in 1 .. n /\ i \in 1 .. n
        BY <1>1, <3>1
      <4>2. G[i] = F[i] /\ G[i - 1] = F[i - 1] /\ t[i] = s[i]
        BY <1>1, <4>1
      <4> HIDE DEF G
      <4> QED BY <2>1, <4>1, <4>2
    <3>2. CASE ~(i <= n)
      <4>1. i = n + 1 /\ i - 1 = n /\ i - 1 \in 1 .. n + 1
        BY <1>1, <1>3, <3>2
      <4>2. G[i - 1] = F[n]
        BY <1>1, <4>1
      <4> HIDE DEF G
      <4> QED BY <1>1, <2>2, <4>1, <4>2
    <3> QED BY <3>1, <3>2
  <2> HIDE DEF G
  <2>4. Len(t) > 0 /\ \A i \in 2 .. Len(t) : G[i] = G[i - 1] \o t[i]
    <3>1. Len(t) = n + 1 /\ n + 1 > 0
      BY <1>1
    <3> QED BY <2>3, <3>1, Zenon
  <2>5. FlattenSeq(t) = G[Len(t)]
    BY <1>1, <2>2, <2>4, FlattenUnique
  <2> QED BY <1>1, <2>1, <2>2, <2>5 DEF t
<1> QED BY <1>1, <1>2, <1>3

(* Concatenation is associative, as a predicate that a proof can instantiate. *)
ConcatAssoc(S) == \A s, t, u \in Seq(S) : (s \o t) \o u = s \o (t \o u)

(* It holds of every set.                                                  *)
LEMMA ConcatIsAssoc ==
  ASSUME NEW S
  PROVE  ConcatAssoc(S)
<1> SUFFICES ASSUME NEW s \in Seq(S), NEW t \in Seq(S), NEW u \in Seq(S)
             PROVE  (s \o t) \o u = s \o (t \o u)
  BY DEF ConcatAssoc
<1> QED OBVIOUS

(* What is appended to the second sequence is appended to both.            *)
LEMMA ConcatAppend ==
  ASSUME NEW S, NEW s \in Seq(S), NEW t \in Seq(S), NEW e \in S
  PROVE  s \o Append(t, e) = Append(s \o t, e)
OBVIOUS

(* The induction hypothesis of FlattenConcat, of second sequences of length n. *)
FlattensTo(S, s, n) ==
  \A u \in Seq(Seq(S)) : Len(u) = n => FlattenSeq(s \o u) = FlattenSeq(s) \o FlattenSeq(u)

(* FlattenSeq distributes over concatenation.                              *)
LEMMA FlattenConcat ==
  ASSUME NEW S, NEW s \in Seq(Seq(S)), NEW t \in Seq(Seq(S))
  PROVE  FlattenSeq(s \o t) = FlattenSeq(s) \o FlattenSeq(t)
<1> DEFINE T == {n \in Nat : FlattensTo(S, s, n)}
<1>0. FlattenSeq(s) \in Seq(S)
  BY FlattenType
<1>1. FlattensTo(S, s, 0)
  <2> SUFFICES ASSUME NEW u \in Seq(Seq(S)), Len(u) = 0
               PROVE  FlattenSeq(s \o u) = FlattenSeq(s) \o FlattenSeq(u)
    BY DEF FlattensTo
  <2>1. u = << >>
    OBVIOUS
  <2>2. s \o u = s /\ FlattenSeq(u) = << >>
    BY <2>1, ConcatEmptySeq, FlattenEmpty
  <2>3. FlattenSeq(s) \o << >> = FlattenSeq(s)
    BY <1>0, ConcatEmptySeq
  <2> QED BY <2>2, <2>3
<1>2. ASSUME NEW n \in Nat, FlattensTo(S, s, n) PROVE FlattensTo(S, s, n + 1)
  <2> SUFFICES ASSUME NEW u \in Seq(Seq(S)), Len(u) = n + 1
               PROVE  FlattenSeq(s \o u) = FlattenSeq(s) \o FlattenSeq(u)
    BY DEF FlattensTo
  <2>1. PICK v \in Seq(Seq(S)), e \in Seq(S) : u = Append(v, e)
    <3>1. u # << >>
      OBVIOUS
    <3> QED BY <3>1, SequenceEmptyOrAppend
  <2>2. Len(v) = n
    <3>1. Len(u) = Len(v) + 1 /\ Len(v) \in Nat
      BY <2>1, AppendProperties
    <3> QED BY <3>1
  <2>3. FlattenSeq(s \o v) = FlattenSeq(s) \o FlattenSeq(v)
    BY <1>2, <2>2, Zenon DEF FlattensTo
  <2>4. s \o u = Append(s \o v, e)
    BY <2>1, ConcatAppend
  <2>5. FlattenSeq(s \o u) = FlattenSeq(s \o v) \o e
    <3>1. s \o v \in Seq(Seq(S))
      BY ConcatProperties
    <3> QED BY <2>4, <3>1, FlattenAppend
  <2>6. FlattenSeq(u) = FlattenSeq(v) \o e
    BY <2>1, FlattenAppend
  <2>7. FlattenSeq(v) \in Seq(S)
    BY FlattenType
  <2>8. (FlattenSeq(s) \o FlattenSeq(v)) \o e = FlattenSeq(s) \o (FlattenSeq(v) \o e)
    <3>1. ConcatAssoc(S)
      BY ConcatIsAssoc
    <3> QED BY <1>0, <2>7, <3>1, Zenon DEF ConcatAssoc
  <2> QED BY <2>3, <2>5, <2>6, <2>8
<1>3. T \in SUBSET Nat /\ 0 \in T /\ \A n \in T : n + 1 \in T
  BY <1>1, <1>2
<1>4. T = Nat
  <2> HIDE DEF T
  <2> QED BY <1>3, NatInductionOnSets
<1>5. Len(t) \in T
  <2>1. Len(t) \in Nat
    OBVIOUS
  <2> HIDE DEF T
  <2> QED BY <1>4, <2>1
<1>6. FlattensTo(S, s, Len(t))
  BY <1>5
<1> QED BY <1>6, Zenon DEF FlattensTo

(* FlattenSeq, taken from the front.                                       *)
LEMMA FlattenCons ==
  ASSUME NEW S, NEW s \in Seq(Seq(S)), s # << >>
  PROVE  FlattenSeq(s) = Head(s) \o FlattenSeq(Tail(s))
<1>1. Head(s) \in Seq(S) /\ Tail(s) \in Seq(Seq(S)) /\ <<Head(s)>> \in Seq(Seq(S))
  OBVIOUS
<1>2. s = <<Head(s)>> \o Tail(s)
  OBVIOUS
<1>3. FlattenSeq(s) = FlattenSeq(<<Head(s)>>) \o FlattenSeq(Tail(s))
  BY <1>1, <1>2, FlattenConcat
<1> QED BY <1>1, <1>3, FlattenSingle

(* The length of what is flattened is the running total of the lengths.    *)
LEMMA FlattenLength ==
  ASSUME NEW S, NEW s \in Seq(Seq(S)), NEW p \in Nat,
         NEW L \in [0 .. Len(s) -> Nat], L[0] = p,
         \A i \in 1 .. Len(s) : L[i] = L[i - 1] + Len(s[i])
  PROVE  L[Len(s)] = p + Len(FlattenSeq(s))
<1> DEFINE n == Len(s)
<1>1. n \in Nat
  OBVIOUS
<1>2. CASE n = 0
  <2>1. s = << >>
    BY <1>2
  <2>2. FlattenSeq(s) = << >> /\ Len(<< >>) = 0
    BY <2>1, FlattenEmpty
  <2> HIDE DEF n
  <2>3. Len(FlattenSeq(s)) = 0 /\ L[n] = p
    BY <1>2, <2>2
  <2> QED BY <2>3 DEF n
<1>3. CASE n > 0
  <2>1. PICK F \in [1 .. n -> Seq(S)] :
          /\ F[1] = s[1]
          /\ \A i \in 2 .. n : F[i] = F[i - 1] \o s[i]
          /\ FlattenSeq(s) = F[n]
    BY <1>3, FlattenDef
  <2> DEFINE T == {i \in Nat : i + 1 <= n => L[i + 1] = p + Len(F[i + 1])}
  <2>2. 0 \in T
    <3>1. 1 \in 1 .. n /\ L[1] = L[0] + Len(s[1])
      BY <1>1, <1>3
    <3> QED BY <2>1, <3>1
  <2>3. \A i \in T : i + 1 \in T
    <3> SUFFICES ASSUME NEW i \in T, i + 1 + 1 <= n
                 PROVE  L[i + 1 + 1] = p + Len(F[i + 1 + 1])
      OBVIOUS
    <3> DEFINE j == i + 1 + 1
    <3>1. j \in 2 .. n /\ j \in 1 .. n /\ j - 1 = i + 1 /\ j - 1 \in 1 .. n
      BY <1>1
    <3>2. L[i + 1] = p + Len(F[i + 1])
      BY <3>1
    <3> HIDE DEF j
    <3>3. F[j] = F[j - 1] \o s[j] /\ L[j] = L[j - 1] + Len(s[j])
      BY <2>1, <3>1
    <3>4. F[j - 1] \in Seq(S) /\ s[j] \in Seq(S)
      <4> HIDE DEF n, T
      <4>1. \A k \in 1 .. n : F[k] \in Seq(S)
        BY <2>1
      <4>2. \A k \in 1 .. n : s[k] \in Seq(S)
        BY DEF n
      <4> QED BY <3>1, <4>1, <4>2
    <3>5. Len(F[j]) = Len(F[j - 1]) + Len(s[j])
      BY <3>3, <3>4, ConcatProperties
    <3>6. L[j - 1] = p + Len(F[j - 1])
      BY <3>1, <3>2
    <3>7. Len(F[j - 1]) \in Nat /\ Len(s[j]) \in Nat
      <4> DEFINE a == F[j - 1]
                 b == s[j]
      <4>1. a \in Seq(S) /\ b \in Seq(S)
        BY <3>4
      <4> HIDE DEF a, b
      <4> QED BY <4>1, LenProperties DEF a, b
    <3>8. L[j] = p + Len(F[j])
      <4> DEFINE x == Len(F[j - 1])
                 y == Len(s[j])
      <4>1. L[j] = L[j - 1] + y /\ L[j - 1] = p + x /\ Len(F[j]) = x + y
        BY <3>3, <3>5, <3>6
      <4>2. x \in Nat /\ y \in Nat
        BY <3>7
      <4> HIDE DEF x, y
      <4> QED BY <4>1, <4>2
    <3> QED BY <3>8 DEF j
  <2>4. T \in SUBSET Nat
    OBVIOUS
  <2>5. T = Nat
    <3> HIDE DEF T
    <3> QED BY <2>2, <2>3, <2>4, NatInductionOnSets
  <2>6. n - 1 \in T
    <3> HIDE DEF T
    <3> QED BY <1>1, <1>3, <2>5
  <2>7. L[n] = p + Len(F[n])
    <3>1. n - 1 + 1 = n
      BY <1>1
    <3> QED BY <1>1, <2>6, <3>1
  <2> QED BY <2>1, <2>7
<1> QED BY <1>1, <1>2, <1>3

(* n sequences of length k.                                                *)
LEMMA FlattenUniform ==
  ASSUME NEW S, NEW s \in Seq(Seq(S)), NEW k \in Nat, \A i \in 1 .. Len(s) : Len(s[i]) = k
  PROVE  Len(FlattenSeq(s)) = Len(s) * k
<1> DEFINE n == Len(s)
           L == [i \in 0 .. n |-> i * k]
<1>1. n \in Nat
  OBVIOUS
<1> HIDE DEF n
<1>2. L \in [0 .. n -> Nat] /\ L[0] = 0 /\ L[n] = n * k
  <2>1. \A i \in 0 .. n : i * k \in Nat
    BY <1>1
  <2> QED BY <1>1, <2>1
<1>3. \A i \in 1 .. n : L[i] = L[i - 1] + k
  <2> SUFFICES ASSUME NEW i \in 1 .. n PROVE L[i] = L[i - 1] + k
    OBVIOUS
  <2>1. L[i] = i * k /\ L[i - 1] = (i - 1) * k
    BY <1>1
  <2>2. i * k = (i - 1) * k + k
    BY <1>1
  <2> QED BY <2>1, <2>2
<1> HIDE DEF L
<1>4. L[n] = 0 + Len(FlattenSeq(s))
  <2>1. \A i \in 1 .. n : L[i] = L[i - 1] + Len(s[i])
    BY <1>3 DEF n
  <2> QED BY <1>2, <2>1, FlattenLength DEF n
<1>5. Len(FlattenSeq(s)) \in Nat
  BY FlattenType
<1> QED BY <1>2, <1>4, <1>5 DEF n

(* Halving: what one step up does to the quotient and the remainder.       *)
LEMMA Halves ==
  ASSUME NEW i \in Nat, i > 0
  PROVE  /\ i % 2 = 1 => i \div 2 = (i - 1) \div 2 /\ (i - 1) % 2 = 0
         /\ i % 2 # 1 => i \div 2 = (i - 1) \div 2 + 1 /\ (i - 1) % 2 = 1
         /\ (i - 1) \div 2 \in Nat
<1>1. ASSUME i % 2 = 1
      PROVE  i \div 2 = (i - 1) \div 2 /\ (i - 1) % 2 = 0
  BY <1>1
<1>2. ASSUME i % 2 # 1
      PROVE  i \div 2 = (i - 1) \div 2 + 1 /\ (i - 1) % 2 = 1
  BY <1>2
<1>3. (i - 1) \div 2 \in Nat
  OBVIOUS
<1> QED BY <1>1, <1>2, <1>3

(* m pairs of sequences, of lengths a and b.                               *)
LEMMA FlattenPaired ==
  ASSUME NEW S, NEW s \in Seq(Seq(S)), NEW a \in Nat, NEW b \in Nat, NEW m \in Nat,
         Len(s) = 2 * m,
         \A i \in 1 .. Len(s) : Len(s[i]) = IF i % 2 = 1 THEN a ELSE b
  PROVE  Len(FlattenSeq(s)) = m * (a + b)
<1> DEFINE n == Len(s)
           L == [i \in 0 .. n |-> (i \div 2) * (a + b) + (IF i % 2 = 1 THEN a ELSE 0)]
<1>1. n \in Nat /\ n = 2 * m
  OBVIOUS
<1> HIDE DEF n
<1>2. L \in [0 .. n -> Nat] /\ L[0] = 0 /\ L[n] = m * (a + b)
  <2>1. \A i \in 0 .. n : (i \div 2) * (a + b) \in Nat
    <3> SUFFICES ASSUME NEW i \in 0 .. n PROVE (i \div 2) * (a + b) \in Nat
      OBVIOUS
    <3> DEFINE q == i \div 2
    <3>1. q \in Nat /\ a + b \in Nat
      BY <1>1
    <3> HIDE DEF q
    <3>2. q * (a + b) \in Nat
      BY <3>1
    <3> QED BY <3>2 DEF q
  <2>2. L \in [0 .. n -> Nat]
    BY <2>1
  <2>3. n \in 0 .. n /\ n \div 2 = m /\ n % 2 = 0 /\ 0 \div 2 = 0 /\ 0 % 2 = 0
    BY <1>1
  <2>4. L[n] = m * (a + b) + 0 /\ L[0] = 0 * (a + b) + 0
    BY <1>1, <2>3
  <2>5. m * (a + b) \in Nat /\ 0 * (a + b) = 0
    OBVIOUS
  <2> QED BY <2>2, <2>4, <2>5
<1>3. \A i \in 1 .. n : L[i] = L[i - 1] + (IF i % 2 = 1 THEN a ELSE b)
  <2> SUFFICES ASSUME NEW i \in 1 .. n
               PROVE  L[i] = L[i - 1] + (IF i % 2 = 1 THEN a ELSE b)
    OBVIOUS
  <2> DEFINE q == (i - 1) \div 2
             c == a + b
  <2>0. i \in 0 .. n /\ i - 1 \in 0 .. n /\ i \in Nat /\ i > 0 /\ c \in Nat
    BY <1>1
  <2>q. q \in Nat
    BY <2>0, Halves
  <2>1. CASE i % 2 = 1
    <3>1. i \div 2 = q /\ (i - 1) % 2 = 0
      BY <2>0, <2>1, Halves
    <3> HIDE DEF q, c
    <3>2. L[i] = q * c + a /\ L[i - 1] = q * c + 0
      BY <2>0, <2>1, <3>1 DEF q, c
    <3>3. q * c \in Nat
      BY <2>0, <2>q
    <3> QED BY <2>1, <3>2, <3>3
  <2>2. CASE i % 2 # 1
    <3>1. i \div 2 = q + 1 /\ (i - 1) % 2 = 1 /\ i % 2 # 1
      BY <2>0, <2>2, Halves
    <3>2. L[i] = (q + 1) * c + 0 /\ L[i - 1] = q * c + a
      BY <2>0, <2>2, <3>1
    <3> HIDE DEF q
    <3>3. (q + 1) * c = q * c + c /\ q * c \in Nat
      BY <2>0, <2>q
    <3>4. L[i] = (q * c + a) + b
      <4> DEFINE p == q * c
      <4>1. L[i] = (q + 1) * c /\ (q + 1) * c = p + c /\ p \in Nat
        BY <3>2, <3>3
      <4> HIDE DEF p
      <4>2. L[i] = (p + a) + b
        BY <4>1
      <4> QED BY <4>2 DEF p
    <3> QED BY <2>2, <3>2, <3>4
  <2> QED BY <2>1, <2>2
<1> HIDE DEF L
<1>4. L[n] = 0 + Len(FlattenSeq(s))
  <2>1. \A i \in 1 .. n : L[i] = L[i - 1] + Len(s[i])
    BY <1>3 DEF n
  <2> QED BY <1>2, <2>1, FlattenLength DEF n
<1>5. Len(FlattenSeq(s)) \in Nat
  BY FlattenType
<1> QED BY <1>2, <1>4, <1>5
=============================================================================
