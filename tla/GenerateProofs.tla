--------------------------- MODULE GenerateProofs ---------------------------
(***************************************************************************)
(* What runs of the command line keep, for every schema file and command:  *)
(* the artifacts, and the comments of the schema in the public schema.     *)
(***************************************************************************)
EXTENDS Generate, Recursion

-----------------------------------------------------------------------------
(* The parser                                                              *)

(* Its place in the file, which is the start while it looks for a version. *)
PlaceInv == at \in Nat /\ (mode = "version" => at = 1)

LEMMA OptIsSmall ==
  ASSUME NEW i, NEW shape
  PROVE  Opt(i, shape) \in {0, 1}
BY DEF Opt

LEMMA PartsAreAhead ==
  ASSUME at \in Nat
  PROVE  /\ First \in Nat /\ First >= at
         /\ FieldName \in Nat /\ FieldName >= at
         /\ AfterField \in Nat /\ AfterField > at
         /\ VariantName \in Nat /\ VariantName >= at
         /\ FunctionName \in Nat /\ FunctionName >= at
<1>1. First \in Nat /\ First >= at
  BY OptIsSmall DEF First
<1>2. Deprecation \in Nat /\ Deprecation >= at
  BY OptIsSmall DEF Deprecation
<1>3. FieldName \in Nat /\ FieldName >= at
  BY <1>2, OptIsSmall DEF FieldName
<1>4. AfterField \in Nat /\ AfterField > at
  BY <1>3, OptIsSmall DEF AfterField
<1>5. VariantName \in Nat /\ VariantName >= at
  BY OptIsSmall DEF VariantName
<1>6. FunctionName \in Nat /\ FunctionName >= at
  BY OptIsSmall DEF FunctionName
<1> QED  BY <1>1, <1>3, <1>4, <1>5, <1>6

(* Every step of the parser moves on, or is one of the two that end an     *)
(* alias or a variant without a sign of their own, or ends the parsing.    *)
LEMMA StepAdvances ==
  ASSUME PlaceInv, ParserStep
  PROVE  /\ PlaceInv'
         /\ mode' \notin {"parsed", "parse error"} =>
              \/ at' > at
              \/ at' = at /\ mode \in {"alias end", "variant end"}
                   /\ mode' \in {"items", "variants"}
<1> DEFINE Moves == at' \in Nat /\ at' > at
<1>0. at \in Nat
  BY DEF PlaceInv
<1>1. CASE ParseVersion
  <2>1. at = 1 /\ at' = 2
    BY <1>1 DEF ParseVersion, PlaceInv
  <2>2. Moves
    BY <2>1
  <2>3. mode' = "items"
    BY <1>1 DEF ParseVersion
  <2> QED  BY <2>2, <2>3 DEF PlaceInv
<1>2. CASE ParseEnd
  BY <1>2, <1>0 DEF ParseEnd, PlaceInv
<1>3. CASE ParseAlias
  <2>1. PICK n \in {0, 1} : at' = First + 4 + n
    BY <1>3, OptIsSmall DEF ParseAlias
  <2>2. Moves
    BY <1>0, <2>1, PartsAreAhead
  <2>3. mode' = "alias end"
    BY <1>3 DEF ParseAlias
  <2> QED  BY <2>2, <2>3 DEF PlaceInv
<1>4. CASE EndAlias
  <2>1. PICK n \in {0, 1} : at' = at + n
    BY <1>4, OptIsSmall DEF EndAlias, Complete
  <2>2. at' \in Nat /\ (at' > at \/ at' = at)
    BY <1>0, <2>1
  <2>3. mode = "alias end" /\ mode' = "items"
    BY <1>4 DEF EndAlias, Complete
  <2> QED  BY <2>2, <2>3 DEF PlaceInv
<1>5. CASE OpenFlags \/ OpenStruct \/ OpenEnum
  <2>1. at' = First + 3 \/ at' = First + 4
    BY <1>5 DEF OpenFlags, OpenStruct, OpenEnum, Open
  <2>2. Moves
    BY <1>0, <2>1, PartsAreAhead
  <2>3. mode' \in {"bits", "fields", "variants"}
    BY <1>5 DEF OpenFlags, OpenStruct, OpenEnum, Open
  <2> QED  BY <2>2, <2>3 DEF PlaceInv
<1>6. CASE OpenFunctions
  <2>1. at' = at + 2
    BY <1>6 DEF OpenFunctions
  <2>2. Moves
    BY <1>0, <2>1
  <2>3. mode' = "functions"
    BY <1>6 DEF OpenFunctions
  <2> QED  BY <2>2, <2>3 DEF PlaceInv
<1>7. CASE ParseField
  <2>1. PICK n \in {0, 1} : at' = AfterField + n
    BY <1>7, OptIsSmall DEF ParseField
  <2>2. Moves
    BY <1>0, <2>1, PartsAreAhead
  <2>3. mode' = "fields"
    BY <1>7 DEF ParseField, AtField
  <2> QED  BY <2>2, <2>3 DEF PlaceInv
<1>8. CASE ParseVariant
  <2>1. PICK n \in {0, 1} : at' = VariantName + 1 + n
    BY <1>8, OptIsSmall DEF ParseVariant
  <2>2. Moves
    BY <1>0, <2>1, PartsAreAhead
  <2>3. mode' \in {"fields", "variant end"}
    BY <1>8 DEF ParseVariant
  <2> QED  BY <2>2, <2>3 DEF PlaceInv
<1>9. CASE EndVariant
  <2>1. PICK m \in {0, 2}, n \in {0, 1} : at' = at + m + n
    BY <1>9, OptIsSmall DEF EndVariant
  <2>2. at' \in Nat /\ (at' > at \/ at' = at)
    BY <1>0, <2>1
  <2>3. mode = "variant end" /\ mode' = "variants"
    BY <1>9 DEF EndVariant, AtVariantEnd
  <2> QED  BY <2>2, <2>3 DEF PlaceInv
<1>10. CASE ParseBit
  <2>1. PICK n \in {0, 1} : at' = at + 3 + n
    BY <1>10, OptIsSmall DEF ParseBit
  <2>2. Moves
    BY <1>0, <2>1
  <2>3. mode' = "bits"
    BY <1>10 DEF ParseBit, AtBit
  <2> QED  BY <2>2, <2>3 DEF PlaceInv
<1>11. CASE ParseFunction
  <2>1. PICK n \in {0, 1} : at' = FunctionName + 5 + n
    BY <1>11, OptIsSmall DEF ParseFunction
  <2>2. Moves
    BY <1>0, <2>1, PartsAreAhead
  <2>3. mode' = "functions"
    BY <1>11 DEF ParseFunction, AtFunction
  <2> QED  BY <2>2, <2>3 DEF PlaceInv
<1>12. CASE CloseItem
  <2>1. at' = at + 1
    BY <1>12 DEF CloseItem, Complete
  <2>2. Moves
    BY <1>0, <2>1
  <2>3. mode' = "items"
    BY <1>12 DEF CloseItem, Complete
  <2> QED  BY <2>2, <2>3 DEF PlaceInv
<1>13. CASE CloseVariant
  <2>1. at' = at + 1
    BY <1>13 DEF CloseVariant
  <2>2. Moves
    BY <1>0, <2>1
  <2>3. mode' = "variant end"
    BY <1>13 DEF CloseVariant
  <2> QED  BY <2>2, <2>3 DEF PlaceInv
<1>14. CASE CloseFunctions
  BY <1>14, <1>0 DEF CloseFunctions, PlaceInv
<1>15. CASE ParseError
  BY <1>15, <1>0 DEF ParseError, PlaceInv
<1> QED
  BY <1>1, <1>2, <1>3, <1>4, <1>5, <1>6, <1>7, <1>8, <1>9, <1>10, <1>11, <1>12, <1>13,
     <1>14, <1>15 DEF ParserStep

LEMMA PlaceInvKept ==
  ASSUME PlaceInv, [Next]_vars
  PROVE  PlaceInv'
<1>1. CASE Parse
  BY <1>1, StepAdvances DEF Parse
<1>2. CASE Run
  BY <1>2 DEF Run, BeginParse, PlaceInv
<1>3. CASE UNCHANGED parser
  BY <1>3 DEF parser, PlaceInv
<1>4. [Next]_vars => Parse \/ Run \/ UNCHANGED parser
  BY DEF Next, vars, Edit, RefuseSchema, Panic, Check, RefuseTargets, BeginWriting, Write,
         Succeed, WriteFails, Killed, Interrupted
<1> QED  BY <1>1, <1>2, <1>3, <1>4

(* No input holds the parser in a loop (parser.rs:44-75, 137-156, 203-270).*)
THEOREM ParserAlwaysAdvances == Spec => ParserAdvances
<1>1. Init => PlaceInv
  BY DEF Init, PlaceInv
<1>2. PlaceInv /\ [Next]_vars => PlaceInv'
  BY PlaceInvKept
<1>3. ASSUME PlaceInv, [Next]_vars, status = "compiling", Parsing,
             mode' \notin {"parsed", "parse error"}
      PROVE  \/ at' > at
             \/ at' = at /\ mode \in {"alias end", "variant end"}
                  /\ mode' \in {"items", "variants"}
             \/ UNCHANGED vars
  <2>1. CASE Parse
    BY <1>3, <2>1, StepAdvances DEF Parse
  <2>2. CASE UNCHANGED vars
    BY <2>2
  <2>3. status \notin Ended \cup {"idle"} /\ status # "writing"
    BY <1>3 DEF Ended
  <2>4. ~Edit /\ ~Run
    BY <2>3 DEF Edit, Run, AtRest
  <2>5. ~Write /\ ~Succeed /\ ~WriteFails /\ ~Killed
    BY <2>3 DEF Write, Succeed, WriteFails, Killed, Interrupted
  <2>6. mode # "parsed" /\ mode # "parse error"
    BY <1>3 DEF Parsing
  <2>7. ~RefuseSchema /\ ~Panic /\ ~Check /\ ~RefuseTargets /\ ~BeginWriting
    BY <2>6 DEF RefuseSchema, Panic, Check, RefuseTargets, BeginWriting, Compiled
  <2> QED  BY <1>3, <2>1, <2>2, <2>4, <2>5, <2>7 DEF Next
<1> QED  BY <1>1, <1>2, <1>3, PTL DEF Spec, ParserAdvances

-----------------------------------------------------------------------------
(* What is written                                                         *)

FileKinds ==
  {"rs", "public.typ", "python bridge", "py", "golang bridge", "go", "h",
   "typescript bridge", "ts"}

Files == {files \in Seq(FileKinds) : files # << >>}

LEMMA FewAreASequence ==
  ASSUME NEW S, NEW x \in S, NEW y \in S, NEW z \in S
  PROVE  /\ <<x>> \in Seq(S) /\ <<x, y>> \in Seq(S) /\ <<x, y, z>> \in Seq(S)
         /\ <<x>> # << >> /\ <<x, y>> # << >> /\ <<x, y, z>> # << >>
OBVIOUS

LEMMA FewFiles ==
  ASSUME NEW x \in FileKinds, NEW y \in FileKinds, NEW z \in FileKinds
  PROVE  <<x>> \in Files /\ <<x, y>> \in Files /\ <<x, y, z>> \in Files
BY FewAreASequence DEF Files

LEMMA KindsAreFiles ==
  ASSUME NEW target \in Targets
  PROVE  Kinds(target) \in Files
<1>1. /\ <<"python bridge", "py">> \in Files
      /\ <<"golang bridge", "go", "h">> \in Files
      /\ <<"typescript bridge", "ts">> \in Files
  BY FewFiles DEF FileKinds
<1> QED  BY <1>1 DEF Kinds, Targets

(* Every group of a command has a file in it.                              *)
LEMMA GroupsAreFiles ==
  ASSUME NEW c, c.targets \in Seq(Targets)
  PROVE  Groups(c) \in Seq(Files)
<1> DEFINE Rust == IF c.mode = "public" THEN << >> ELSE <<<<"rs">>>>
           Typ == IF c.mode = "backend" THEN << >> ELSE <<<<"public.typ">>>>
           Bridges == IF c.mode = "public" THEN << >>
                      ELSE [i \in DOMAIN c.targets |-> Kinds(c.targets[i])]
<1>1. <<"rs">> \in Files /\ <<"public.typ">> \in Files
  BY FewFiles DEF FileKinds
<1>2. Rust \in Seq(Files) /\ Typ \in Seq(Files)
  BY <1>1
<1>3. Bridges \in Seq(Files)
  <2>1. DOMAIN c.targets = 1 .. Len(c.targets) /\ Len(c.targets) \in Nat
    OBVIOUS
  <2>2. \A i \in 1 .. Len(c.targets) : Kinds(c.targets[i]) \in Files
    BY KindsAreFiles
  <2>3. [i \in 1 .. Len(c.targets) |-> Kinds(c.targets[i])] \in Seq(Files)
    BY <2>1, <2>2, IsASeq
  <2> QED  BY <2>1, <2>3
<1>4. Groups(c) = (Rust \o Typ) \o Bridges
  BY DEF Groups
<1> HIDE DEF Rust, Typ, Bridges
<1> QED  BY <1>2, <1>3, <1>4, ConcatProperties
CommandInv == command.targets \in Seq(Targets)

PlaceType ==
  /\ place \in [group : Nat, file : Nat]
  /\ place.group \in 1 .. Len(Groups(command)) + 1
  /\ AnyLeft => place.file \in 1 .. Len(Groups(command)[place.group])

(* The places that the run has passed, and a file as this run writes it:   *)
(* whole, and from the schema it compiled.                                 *)
Passed(i, k) == i < place.group \/ (i = place.group /\ k < place.file)

Fresh(file) ==
  file \in DOMAIN disk /\ disk[file] = Artifact(file, schema, command.preserve)

Place(i, k) == <<Groups(command)[i][k], schema.version>>

WrittenInv ==
  status = "writing" =>
    \A i \in DOMAIN Groups(command) : \A k \in DOMAIN Groups(command)[i] :
      Passed(i, k) => Fresh(Place(i, k))

SuccessInv ==
  status = "ok" /\ command.verb = "generate" =>
    \A file \in Artifacts(command, schema.version) : Fresh(file)

CountsInv == runs \in 0 .. MaxRuns /\ faults \in 0 .. MaxFaults

StatusInv == status \in Ended \cup {"idle", "compiling", "writing"}

(* Neither "the run succeeded" nor the type of the place is inductive: the *)
(* invariant follows the writes of a run.                                  *)
IInv ==
  /\ CommandInv
  /\ PlaceType
  /\ CountsInv
  /\ StatusInv
  /\ Source \in DOMAIN disk
  /\ WrittenInv
  /\ SuccessInv

LEMMA GroupsType ==
  ASSUME CommandInv
  PROVE  /\ Groups(command) \in Seq(Files)
         /\ Len(Groups(command)) \in Nat
         /\ \A i \in 1 .. Len(Groups(command)) :
              /\ DOMAIN Groups(command)[i] = 1 .. Len(Groups(command)[i])
              /\ Len(Groups(command)[i]) \in Nat \ {0}
<1>1. Groups(command) \in Seq(Files)
  BY GroupsAreFiles DEF CommandInv
<1> HIDE DEF CommandInv
<1>2. ASSUME NEW i \in 1 .. Len(Groups(command))
      PROVE  /\ DOMAIN Groups(command)[i] = 1 .. Len(Groups(command)[i])
             /\ Len(Groups(command)[i]) \in Nat \ {0}
  <2>1. Groups(command)[i] \in Seq(FileKinds) /\ Groups(command)[i] # << >>
    BY <1>1 DEF Files
  <2> QED  BY <2>1, EmptySeq
<1> QED  BY <1>1, <1>2

LEMMA AfterPlaceType ==
  ASSUME CommandInv, PlaceType, AnyLeft
  PROVE  /\ AfterPlace \in [group : Nat, file : Nat]
         /\ AfterPlace.group \in 1 .. Len(Groups(command)) + 1
         /\ AfterPlace.group <= Len(Groups(command)) =>
              AfterPlace.file \in 1 .. Len(Groups(command)[AfterPlace.group])
         /\ \A i \in DOMAIN Groups(command) : \A k \in DOMAIN Groups(command)[i] :
              i < AfterPlace.group \/ (i = AfterPlace.group /\ k < AfterPlace.file)
                => Passed(i, k) \/ (i = place.group /\ k = place.file)
<1> DEFINE L == Len(Groups(command))
           n == Len(Groups(command)[place.group])
<1>1. /\ L \in Nat /\ DOMAIN Groups(command) = 1 .. L
      /\ \A i \in 1 .. L :
           /\ DOMAIN Groups(command)[i] = 1 .. Len(Groups(command)[i])
           /\ Len(Groups(command)[i]) \in Nat \ {0}
  BY GroupsType
<1>2. place.group \in 1 .. L /\ place.file \in 1 .. n /\ n \in Nat
  BY <1>1 DEF PlaceType, AnyLeft
<1>3. CASE place.file < n
  <2>1. AfterPlace = [place EXCEPT !.file = place.file + 1]
    BY <1>3 DEF AfterPlace
  <2>2. /\ AfterPlace \in [group : Nat, file : Nat]
        /\ AfterPlace.group = place.group /\ AfterPlace.file = place.file + 1
    BY <2>1, <1>2 DEF PlaceType
  <2> HIDE DEF L, n
  <2> QED  BY <1>1, <1>2, <1>3, <2>2 DEF Passed, n, L
<1>4. CASE ~(place.file < n)
  <2>1. AfterPlace = [group |-> place.group + 1, file |-> 1]
    BY <1>4 DEF AfterPlace, StartOf
  <2>2. /\ AfterPlace \in [group : Nat, file : Nat]
        /\ AfterPlace.group = place.group + 1 /\ AfterPlace.file = 1
    BY <2>1, <1>2 DEF PlaceType
  <2> QED  BY <1>1, <1>2, <1>4, <2>2 DEF Passed
<1> QED  BY <1>3, <1>4
LEMMA StartType ==
  ASSUME NEW c, c.targets \in Seq(Targets)
  PROVE  /\ StartOf(1) \in [group : Nat, file : Nat]
         /\ StartOf(1).group = 1 /\ StartOf(1).file = 1
         /\ 1 \in 1 .. Len(Groups(c)) + 1
         /\ 1 <= Len(Groups(c)) => 1 \in 1 .. Len(Groups(c)[1])
<1>1. Groups(c) \in Seq(Files)
  BY GroupsAreFiles
<1>2. Len(Groups(c)) \in Nat
  BY <1>1
<1>3. ASSUME 1 <= Len(Groups(c))
      PROVE  1 \in 1 .. Len(Groups(c)[1])
  <2>1. Groups(c)[1] \in Files
    BY <1>1, <1>2, <1>3
  <2>2. Groups(c)[1] \in Seq(FileKinds) /\ Groups(c)[1] # << >>
    BY <2>1 DEF Files
  <2>3. Len(Groups(c)[1]) \in Nat \ {0}
    BY <2>2, EmptySeq
  <2> QED  BY <2>3
<1>4. 1 \in 1 .. Len(Groups(c)) + 1
  BY <1>2
<1>5. /\ StartOf(1) \in [group : Nat, file : Nat]
      /\ StartOf(1).group = 1 /\ StartOf(1).file = 1
  BY DEF StartOf
<1> QED  BY <1>3, <1>4, <1>5

LEMMA InitInv ==
  ASSUME Init
  PROVE  IInv
<1>1. CommandInv
  BY EmptySeq DEF Init, CommandInv
<1>2. place = StartOf(1)
  BY DEF Init
<1>3. PlaceType
  BY <1>1, <1>2, StartType DEF PlaceType, CommandInv, AnyLeft
<1>4. CountsInv
  <2>1. runs = 0 /\ faults = 0
    BY DEF Init
  <2> QED  BY <2>1, BoundsAssumption DEF CountsInv
<1>5. status = "idle"
  BY DEF Init
<1>6. StatusInv /\ WrittenInv /\ SuccessInv
  BY <1>5 DEF StatusInv, WrittenInv, SuccessInv
<1>7. Source \in DOMAIN disk
  BY DEF Init
<1> QED  BY <1>1, <1>3, <1>4, <1>6, <1>7 DEF IInv

(* A file that is put, and a file that was fresh already.                  *)
LEMMA PutIsFresh ==
  ASSUME NEW file, disk' = Put(file, Artifact(file, schema, command.preserve)),
         schema' = schema, command' = command
  PROVE  /\ Fresh(file)'
         /\ \A other : Fresh(other) => Fresh(other)'
         /\ DOMAIN disk \subseteq DOMAIN disk'
BY DEF Put, Artifact, Fresh

LEMMA IInvKept ==
  ASSUME IInv, [Next]_vars
  PROVE  IInv'
<1> USE DEF IInv
<1>1. CASE Edit
  <2>1. UNCHANGED <<runs, faults, command, place>> /\ status' = "idle"
    BY <1>1 DEF Edit
  <2>2. Source \in DOMAIN disk'
    BY <1>1 DEF Edit
  <2>3. CommandInv' /\ PlaceType' /\ CountsInv'
    BY <2>1 DEF CommandInv, PlaceType, AnyLeft, CountsInv
  <2>4. StatusInv' /\ WrittenInv' /\ SuccessInv'
    BY <2>1 DEF StatusInv, WrittenInv, SuccessInv
  <2> QED  BY <2>2, <2>3, <2>4
<1>2. CASE Run
  <2>1. /\ disk' = disk /\ faults' = faults /\ place' = StartOf(1)
        /\ status' = "compiling"
    BY <1>2 DEF Run
  <2>2. CommandInv'
    BY <1>2, CommandsAssumption DEF Run, CommandInv
  <2>3. PlaceType'
    BY <2>1, <2>2, StartType DEF PlaceType, CommandInv, AnyLeft
  <2>4. runs' = runs + 1 /\ runs < MaxRuns
    BY <1>2 DEF Run
  <2>5. CountsInv'
    BY <2>1, <2>4, BoundsAssumption DEF CountsInv
  <2>6. StatusInv' /\ WrittenInv' /\ SuccessInv'
    BY <2>1 DEF StatusInv, WrittenInv, SuccessInv
  <2> QED  BY <2>1, <2>2, <2>3, <2>5, <2>6
<1>3. ASSUME UNCHANGED <<disk, runs, faults, command, place>>,
             \/ status' \in {"compiling", "compile error", "panic", "usage"}
             \/ status' = "ok" /\ command.verb = "check"
             \/ status' = status /\ schema' = schema
      PROVE  IInv'
  <2>1. CommandInv' /\ PlaceType' /\ CountsInv' /\ Source \in DOMAIN disk'
    BY <1>3 DEF CommandInv, PlaceType, AnyLeft, CountsInv
  <2>2. CASE status' \in {"compiling", "compile error", "panic", "usage"}
    <3>1. StatusInv' /\ WrittenInv' /\ SuccessInv'
      BY <2>2 DEF StatusInv, Ended, WrittenInv, SuccessInv
    <3> QED  BY <2>1, <3>1
  <2>3. CASE status' = "ok" /\ command.verb = "check"
    <3>1. StatusInv' /\ WrittenInv' /\ SuccessInv'
      BY <1>3, <2>3 DEF StatusInv, Ended, WrittenInv, SuccessInv
    <3> QED  BY <2>1, <3>1
  <2>4. CASE status' = status /\ schema' = schema
    <3>1. StatusInv' /\ WrittenInv' /\ SuccessInv'
      BY <1>3, <2>4
         DEF StatusInv, WrittenInv, SuccessInv, Passed, Fresh, Place
    <3> QED  BY <2>1, <3>1
  <2> QED  BY <1>3, <2>2, <2>3, <2>4
<1>4. CASE Parse
  BY <1>3, <1>4 DEF Parse, cli
<1>5. CASE RefuseSchema \/ Panic \/ RefuseTargets
  BY <1>3, <1>5 DEF RefuseSchema, Panic, RefuseTargets
<1>6. CASE Check
  BY <1>3, <1>6 DEF Check
<1>7. CASE BeginWriting
  <2>1. /\ UNCHANGED <<disk, runs, faults, command>> /\ place' = StartOf(1)
        /\ status' = "writing"
    BY <1>7 DEF BeginWriting
  <2>2. CommandInv' /\ CountsInv' /\ Source \in DOMAIN disk'
    BY <2>1 DEF CommandInv, CountsInv
  <2>3. PlaceType'
    BY <2>1, <2>2, StartType DEF PlaceType, CommandInv, AnyLeft
  <2>4. StatusInv' /\ SuccessInv'
    BY <2>1 DEF StatusInv, SuccessInv
  <2>5. ASSUME NEW i \in DOMAIN Groups(command), NEW k \in DOMAIN Groups(command)[i]
        PROVE  ~Passed(i, k)'
    <3>1. i \in Nat \ {0} /\ k \in Nat \ {0}
      BY <2>5, GroupsType
    <3>2. place'.group = 1 /\ place'.file = 1
      BY <2>1, StartType DEF CommandInv
    <3> QED  BY <3>1, <3>2 DEF Passed
  <2>6. WrittenInv'
    BY <2>1, <2>5 DEF WrittenInv
  <2> QED  BY <2>2, <2>3, <2>4, <2>6
<1>8. CASE Write
  <2>1. /\ AnyLeft /\ UNCHANGED <<runs, faults, command, schema, status>>
        /\ status = "writing" /\ place' = AfterPlace
        /\ disk' = Put(Current, Artifact(Current, schema, command.preserve))
    BY <1>8 DEF Write
  <2>2. CommandInv' /\ CountsInv' /\ StatusInv' /\ SuccessInv'
    BY <2>1 DEF CommandInv, CountsInv, StatusInv, SuccessInv
  <2>3. PlaceType'
    BY <2>1, AfterPlaceType DEF PlaceType, AnyLeft
  <2>4. PICK file : file = Current
    OBVIOUS
  <2>5. /\ Fresh(file)'
        /\ \A other : Fresh(other) => Fresh(other)'
        /\ DOMAIN disk \subseteq DOMAIN disk'
    BY <2>1, <2>4, PutIsFresh
  <2>6. ASSUME NEW i \in DOMAIN Groups(command), NEW k \in DOMAIN Groups(command)[i],
               Passed(i, k)'
        PROVE  Fresh(Place(i, k))'
    <3>1. PICK other : other = Place(i, k)
      OBVIOUS
    <3>2. Place(i, k)' = other
      BY <2>1, <3>1 DEF Place
    <3>3. Passed(i, k) \/ (i = place.group /\ k = place.file)
      BY <2>1, <2>6, AfterPlaceType DEF Passed
    <3>4. CASE Passed(i, k)
      <4>1. Fresh(other)
        BY <2>1, <3>1, <3>4 DEF WrittenInv
      <4> QED  BY <2>5, <3>2, <4>1 DEF Fresh
    <3>5. CASE i = place.group /\ k = place.file
      <4>1. other = file
        BY <2>4, <3>1, <3>5 DEF Place, Current
      <4> QED  BY <2>5, <3>2, <4>1 DEF Fresh
    <3> QED  BY <3>3, <3>4, <3>5
  <2>7. WrittenInv'
    BY <2>1, <2>6 DEF WrittenInv
  <2> QED  BY <2>2, <2>3, <2>5, <2>7
<1>9. CASE Succeed
  <2>1. /\ ~AnyLeft /\ status = "writing" /\ status' = "ok"
        /\ UNCHANGED <<disk, runs, faults, command, schema, place>>
    BY <1>9 DEF Succeed
  <2>2. CommandInv' /\ PlaceType' /\ CountsInv' /\ Source \in DOMAIN disk'
    BY <2>1 DEF CommandInv, PlaceType, AnyLeft, CountsInv
  <2>3. StatusInv' /\ WrittenInv'
    BY <2>1 DEF StatusInv, Ended, WrittenInv
  <2>4. ASSUME NEW i \in DOMAIN Groups(command)
        PROVE  i < place.group
    <3>1. /\ i \in 1 .. Len(Groups(command)) /\ Len(Groups(command)) \in Nat
          /\ place.group \in Nat /\ ~(place.group <= Len(Groups(command)))
      BY <2>1, GroupsType DEF PlaceType, AnyLeft
    <3> QED  BY <3>1
  <2>5. \A i \in DOMAIN Groups(command) : \A k \in DOMAIN Groups(command)[i] :
          Fresh(Place(i, k))
    BY <2>1, <2>4 DEF WrittenInv, Passed
  <2>6. ASSUME NEW file \in Artifacts(command, schema.version)
        PROVE  Fresh(file)
    <3>1. PICK i \in DOMAIN Groups(command) :
            \E kind \in Range(Groups(command)[i]) : file = <<kind, schema.version>>
      BY DEF Artifacts
    <3>2. PICK k \in DOMAIN Groups(command)[i] : file = Place(i, k)
      BY <3>1 DEF Range, Place
    <3> QED  BY <2>5, <3>2
  <2>7. SuccessInv'
    BY <2>1, <2>6 DEF SuccessInv, Fresh
  <2> QED  BY <2>2, <2>3, <2>7
<1>10. CASE WriteFails \/ Killed
  <2>1. /\ UNCHANGED <<runs, command, schema, place>>
        /\ status' \in {"io error", "killed"}
    BY <1>10 DEF WriteFails, Killed, Interrupted
  <2>2. faults' = faults + 1 /\ faults < MaxFaults /\ runs' = runs
    BY <1>10 DEF WriteFails, Killed, Interrupted
  <2>3. CountsInv'
    BY <2>2, BoundsAssumption DEF CountsInv
  <2>4. CommandInv' /\ PlaceType'
    BY <2>1 DEF CommandInv, PlaceType, AnyLeft
  <2>5. StatusInv' /\ WrittenInv' /\ SuccessInv'
    BY <2>1 DEF StatusInv, Ended, WrittenInv, SuccessInv
  <2>6. Source \in DOMAIN disk'
    BY <1>10 DEF WriteFails, Killed, Interrupted, Put
  <2> QED  BY <2>3, <2>4, <2>5, <2>6
<1>11. CASE UNCHANGED vars
  BY <1>3, <1>11 DEF vars, cli
<1> QED
  BY <1>1, <1>2, <1>4, <1>5, <1>6, <1>7, <1>8, <1>9, <1>10, <1>11 DEF Next

(* Every state of the command line is of its type (main.rs:210-289).       *)
THEOREM CommandLineTypes == Spec => []TypeOK
<1>1. IInv => TypeOK
  BY DEF IInv, PlaceType, CountsInv, StatusInv, TypeOK
<1> QED  BY <1>1, InitInv, IInvKept, PTL DEF Spec

(* Whatever schemas, commands, failed writes and kills came before it, a   *)
(* run that reports success has left all its artifacts whole and from one  *)
(* schema (main.rs:230-289).                                               *)
THEOREM SuccessfulRunIsWhole == Spec => []SuccessIsWhole
<1>1. ASSUME NEW file, Fresh(file)
      PROVE  file \in DOMAIN disk /\ disk[file].whole /\ disk[file].from = schema
  BY <1>1 DEF Fresh, Artifact
<1>2. IInv => SuccessIsWhole
  BY <1>1 DEF IInv, SuccessInv, SuccessIsWhole
<1> QED  BY <1>2, InitInv, IInvKept, PTL DEF Spec
-----------------------------------------------------------------------------
(***************************************************************************)
(* Every comment of a schema is in the public schema made of it, once and  *)
(* in its order, for every schema file and every sequence of commands.     *)
(*                                                                         *)
(* The argument has three parts.  What is printed (PublicIsFile) has the   *)
(* comments it is given, in front of the first token of each item and of   *)
(* what comes after them.  What is parsed (StepKeepsText) has for its items*)
(* the comments up to the token that ended the last of them.  And the file *)
(* on the disk is what was printed of what was parsed (TextKept).          *)
(***************************************************************************)


(* Over no set in particular: the elements of a schema have no type.       *)
IsSeq(s) == s \in Seq(Range(s))

(* A sequence is one over the set of its elements.                         *)
LEMMA OwnRange ==
  ASSUME NEW S, NEW s \in Seq(S)
  PROVE  IsSeq(s)
BY DEF IsSeq, Range

(* A function on the numbers up to n is a sequence of length n.            *)
LEMMA FunctionIsSeq ==
  ASSUME NEW n \in Nat, NEW f, f = [i \in 1 .. n |-> f[i]]
  PROVE  IsSeq(f) /\ Len(f) = n /\ DOMAIN f = 1 .. n
<1>1. DOMAIN f = 1 .. n
  OBVIOUS
<1>2. f \in [1 .. n -> Range(f)]
  BY <1>1 DEF Range
<1> QED BY <1>1, <1>2 DEF IsSeq

(* Sequences of one length with the same elements are the same.            *)
LEMMA SameSeq ==
  ASSUME NEW S, NEW f \in Seq(S), NEW g \in Seq(S), Len(f) = Len(g),
         \A i \in 1 .. Len(f) : f[i] = g[i]
  PROVE  f = g
OBVIOUS

(* The domain of a sequence is the numbers up to its length.               *)
LEMMA SeqFacts ==
  ASSUME NEW s, IsSeq(s)
  PROVE  DOMAIN s = 1 .. Len(s) /\ Len(s) \in Nat
BY DEF IsSeq

(* Sequences of tokens without comments.                                   *)
AllPlain(U) == \A t \in U : t = Token(t.shape, t.value)

IsPlain(s) == IsSeq(s) /\ AllPlain(Range(s))

(* Whatever is made of tokens without comments has none.                   *)
LEMMA PlainBy ==
  ASSUME NEW U, AllPlain(U), NEW s \in Seq(U)
  PROVE  IsPlain(s)
<1>1. IsSeq(s)
  BY OwnRange
<1>2. Range(s) \subseteq U
  BY DEF Range
<1> QED BY <1>1, <1>2 DEF IsPlain, AllPlain

(* Tokens as the generator makes them have no comments in front.           *)
LEMMA PlainTokens ==
  ASSUME NEW a, NEW b, NEW c, NEW d, NEW e, NEW f, NEW g, NEW h, NEW k, NEW l
  PROVE  /\ IsPlain(<<Token(a, b)>>)
         /\ IsPlain(<<Token(a, b), Token(c, d), Token(e, f)>>)
         /\ IsPlain(<<Token(a, b), Token(c, d), Token(e, f), Token(g, h)>>)
         /\ IsPlain(<<Token(a, b), Token(c, d), Token(e, f), Token(g, h), Token(k, l)>>)
<1> DEFINE U == {Token(a, b), Token(c, d), Token(e, f), Token(g, h), Token(k, l)}
<1>1. AllPlain(U)
  <2>1. ASSUME NEW x, NEW y PROVE Token(x, y) = Token(Token(x, y).shape, Token(x, y).value)
    BY DEF Token
  <2> QED BY <2>1 DEF AllPlain
<1>2. /\ Token(a, b) \in U /\ Token(c, d) \in U /\ Token(e, f) \in U /\ Token(g, h) \in U
      /\ Token(k, l) \in U
  OBVIOUS
<1> HIDE DEF U
<1>3. /\ <<Token(a, b)>> \in Seq(U)
      /\ <<Token(a, b), Token(c, d), Token(e, f)>> \in Seq(U)
      /\ <<Token(a, b), Token(c, d), Token(e, f), Token(g, h)>> \in Seq(U)
      /\ <<Token(a, b), Token(c, d), Token(e, f), Token(g, h), Token(k, l)>> \in Seq(U)
  BY <1>2
<1> QED BY <1>1, <1>3, PlainBy

(* Nothing is printed without comments.                                    *)
LEMMA PlainNone ==
  IsPlain(<< >>)
<1>1. << >> \in Seq({}) /\ AllPlain({})
  BY DEF AllPlain
<1> QED BY <1>1, PlainBy

(* What is printed in two parts has no comments if the parts have none.    *)
LEMMA PlainConcat ==
  ASSUME NEW a, IsPlain(a), NEW b, IsPlain(b)
  PROVE  IsPlain(a \o b)
<1> DEFINE U == Range(a) \cup Range(b)
<1>1. AllPlain(U)
  BY DEF IsPlain, AllPlain
<1>2. a \in Seq(U) /\ b \in Seq(U)
  BY DEF IsPlain, IsSeq, Range
<1> HIDE DEF U
<1>3. a \o b \in Seq(U)
  BY <1>2
<1> QED BY <1>1, <1>3, PlainBy

(* Another token at the end brings no comments, and then there is a token. *)
LEMMA PlainAppend ==
  ASSUME NEW a, IsPlain(a), NEW shape, NEW value
  PROVE  IsPlain(Append(a, Token(shape, value))) /\ Append(a, Token(shape, value)) # << >>
<1>1. IsPlain(<<Token(shape, value)>>)
  BY PlainTokens
<1>2. Append(a, Token(shape, value)) = a \o <<Token(shape, value)>>
  BY AppendIsConcat DEF IsPlain, IsSeq
<1>3. IsPlain(a \o <<Token(shape, value)>>)
  BY <1>1, PlainConcat
<1>4. Append(a, Token(shape, value)) # << >>
  <2> DEFINE e == Token(shape, value)
             U == Range(a) \cup {e}
  <2>1. a \in Seq(U) /\ e \in U
    BY DEF IsPlain, IsSeq
  <2> HIDE DEF e, U
  <2>2. Append(a, e) # << >>
    BY <2>1, AppendProperties
  <2> QED BY <2>2 DEF e
<1> QED BY <1>2, <1>3, <1>4

(* An attribute has no comments, whether it is printed or not.             *)
LEMMA PlainOption ==
  ASSUME NEW shape, NEW option
  PROVE  IsPlain(OptAttr(shape, option))
BY PlainNone, PlainTokens DEF OptAttr

(* What is printed in many parts has no comments if the parts have none.   *)
LEMMA PlainFlatten ==
  ASSUME NEW ss, IsSeq(ss), \A i \in DOMAIN ss : IsPlain(ss[i])
  PROVE  IsPlain(FlattenSeq(ss))
<1> DEFINE U == UNION {Range(ss[i]) : i \in DOMAIN ss}
<1>1. AllPlain(U)
  BY DEF IsPlain, AllPlain
<1>2. ASSUME NEW i \in DOMAIN ss PROVE ss[i] \in Seq(U)
  <2>1. ss[i] \in Seq(Range(ss[i]))
    BY DEF IsPlain, IsSeq
  <2>2. Range(ss[i]) \subseteq U
    OBVIOUS
  <2> HIDE DEF U
  <2> QED BY <2>1, <2>2
<1> HIDE DEF U
<1>3. ss \in Seq(Seq(U))
  <2>1. DOMAIN ss = 1 .. Len(ss) /\ Len(ss) \in Nat /\ ss = [i \in 1 .. Len(ss) |-> ss[i]]
    BY DEF IsSeq
  <2> QED BY <1>2, <2>1
<1>4. FlattenSeq(ss) \in Seq(U)
  BY <1>3, FlattenType
<1> QED BY <1>1, <1>4, PlainBy

(* Nor have the separators between the parts.                              *)
LEMMA PlainSeparated ==
  ASSUME NEW parts, IsSeq(parts), \A i \in DOMAIN parts : IsPlain(parts[i]), NEW separator
  PROVE  IsPlain(Separated(parts, separator))
<1> DEFINE ss == [i \in DOMAIN parts |->
                    IF i = Len(parts) THEN parts[i] ELSE Append(parts[i], Sign(separator))]
<1>1. DOMAIN parts = 1 .. Len(parts) /\ Len(parts) \in Nat
  BY SeqFacts
<1>2. \A i \in DOMAIN parts : IsPlain(ss[i])
  BY PlainAppend DEF Sign
<1>3. ss = [i \in 1 .. Len(parts) |-> ss[i]]
  BY <1>1
<1>4. Separated(parts, separator) = FlattenSeq(ss)
  BY DEF Separated
<1> HIDE DEF ss
<1>5. IsSeq(ss) /\ DOMAIN ss = DOMAIN parts
  BY <1>1, <1>3, FunctionIsSeq
<1> QED BY <1>2, <1>4, <1>5, PlainFlatten

-----------------------------------------------------------------------------
Printed(s) == IsPlain(s) /\ s # << >>

(* What begins with something that is printed is not empty.                *)
LEMMA PrintedThen ==
  ASSUME NEW a, Printed(a), NEW b, IsPlain(b)
  PROVE  Printed(a \o b)
<1>1. IsPlain(a \o b)
  BY PlainConcat DEF Printed
<1> DEFINE U == Range(a) \cup Range(b)
<1>2. a \in Seq(U) /\ b \in Seq(U) /\ a # << >>
  BY DEF Printed, IsPlain, IsSeq
<1> HIDE DEF U
<1>3. a \o b # << >>
  BY <1>2, ConcatEqualIffEmpty
<1> QED BY <1>1, <1>3 DEF Printed

(* A few tokens are something.                                             *)
LEMMA PrintedTokens ==
  ASSUME NEW a, NEW b, NEW c, NEW d, NEW e, NEW f, NEW g, NEW h, NEW k, NEW l
  PROVE  /\ Printed(<<Token(a, b)>>)
         /\ Printed(<<Token(a, b), Token(c, d), Token(e, f)>>)
         /\ Printed(<<Token(a, b), Token(c, d), Token(e, f), Token(g, h)>>)
         /\ Printed(<<Token(a, b), Token(c, d), Token(e, f), Token(g, h), Token(k, l)>>)
BY PlainTokens DEF Printed

(* A head, parts between separators and a closing brace are something      *)
(* without comments.                                                       *)
LEMMA PrintedBraces ==
  ASSUME NEW a, Printed(a), NEW parts, IsSeq(parts), \A i \in DOMAIN parts : IsPlain(parts[i]),
         NEW separator
  PROVE  Printed(a \o Separated(parts, separator) \o <<Sign("}")>>)
<1>1. IsPlain(Separated(parts, separator))
  BY PlainSeparated
<1>2. Printed(a \o Separated(parts, separator))
  BY <1>1, PrintedThen
<1>3. IsPlain(<<Sign("}")>>)
  BY PlainTokens DEF Sign
<1> QED BY <1>2, <1>3, PrintedThen

(* A field is printed without comments, in a struct and in a variant.      *)
LEMMA PrintedField ==
  ASSUME NEW field
  PROVE  IsPlain(PublicField(field)) /\ IsPlain(PublicVariantField(field))
<1> DEFINE a == OptAttr("deprecated", field.deprecated)
           b == OptAttr("guard", field.guard)
           c == <<Name(field.name), Sign(":"), Token("ty", field.ty)>>
           d == OptAttr("exact_len", field.exact)
<1>1. IsPlain(a) /\ IsPlain(b) /\ IsPlain(d)
  BY PlainOption
<1>2. IsPlain(c)
  BY PlainTokens DEF Name, Sign
<1>3. PublicField(field) = ((a \o b) \o c) \o d /\ PublicVariantField(field) = c \o d
  BY DEF PublicField, PublicVariantField
<1> HIDE DEF a, b, c, d
<1> QED BY <1>1, <1>2, <1>3, PlainConcat

(* What the parser makes of an item, as far as printing it goes.           *)
VariantShape(variant) ==
  "fields" \in DOMAIN variant /\ "value" \in DOMAIN variant /\ IsSeq(variant.fields)

ItemShape(it) ==
  /\ "kind" \in DOMAIN it /\ it.kind \in {"alias", "flags", "struct", "enum"}
  /\ it.kind = "flags" => "bits" \in DOMAIN it /\ IsSeq(it.bits)
  /\ it.kind = "struct" => "fields" \in DOMAIN it /\ IsSeq(it.fields)
  /\ it.kind = "enum" =>
       /\ "variants" \in DOMAIN it /\ IsSeq(it.variants)
       /\ \A i \in DOMAIN it.variants : VariantShape(it.variants[i])

(* So is a variant.                                                        *)
LEMMA PrintedVariant ==
  ASSUME NEW enum, NEW variant, VariantShape(variant), NEW s
  PROVE  IsPlain(PublicVariant(enum, variant, s))
<1> DEFINE a == <<Token("cid", CidOfVariant(enum, variant, s)), Name(variant.name), Sign("{")>>
           parts == [i \in DOMAIN variant.fields |-> PublicVariantField(variant.fields[i])]
<1>1. CASE HasFields(enum)
  <2>1. PublicVariant(enum, variant, s) = a \o Separated(parts, ",") \o <<Sign("}")>>
    BY <1>1 DEF PublicVariant
  <2>2. Printed(a)
    BY PrintedTokens DEF Name, Sign
  <2>3. DOMAIN variant.fields = 1 .. Len(variant.fields) /\ Len(variant.fields) \in Nat
    BY SeqFacts DEF VariantShape
  <2>4. \A i \in DOMAIN variant.fields : IsPlain(parts[i])
    BY PrintedField
  <2>5. parts = [i \in 1 .. Len(variant.fields) |-> parts[i]]
    BY <2>3
  <2> HIDE DEF a, parts
  <2>6. IsSeq(parts) /\ DOMAIN parts = DOMAIN variant.fields
    BY <2>3, <2>5, FunctionIsSeq
  <2> QED BY <2>1, <2>2, <2>4, <2>6, PrintedBraces DEF Printed
<1>2. CASE ~HasFields(enum)
  BY <1>2, PlainTokens DEF PublicVariant, Name, Sign
<1> QED BY <1>1, <1>2

(* An item is printed as tokens without comments, of which there is one.   *)
LEMMA PrintedItem ==
  ASSUME NEW it, ItemShape(it), NEW s
  PROVE  Printed(PublicItem(it, s))
<1>1. CASE it.kind = "alias"
  <2> DEFINE a == <<Sign("type"), Name(it.name), Sign("="), Token("ty", it.ty)>>
             b == OptAttr("exact_len", it.exact)
  <2>1. Printed(a) /\ IsPlain(b) /\ IsPlain(<<Sign(";")>>)
    BY PrintedTokens, PlainTokens, PlainOption DEF Name, Sign
  <2>2. PublicItem(it, s) = (a \o b) \o <<Sign(";")>>
    BY <1>1 DEF PublicItem, PublicAlias
  <2> HIDE DEF a, b
  <2>3. Printed(a \o b)
    BY <2>1, PrintedThen
  <2> QED BY <2>1, <2>2, <2>3, PrintedThen
<1>2. CASE it.kind = "flags"
  <2> DEFINE a == <<Token("flags", it.underlying), Sign("enum"), Name(it.name), Sign("{")>>
             parts == [i \in DOMAIN it.bits |->
                         <<Name(it.bits[i].name), Sign("="), Token("number", it.bits[i].value)>>]
  <2>1. PublicItem(it, s) = a \o Separated(parts, ",") \o <<Sign("}")>>
    BY <1>2 DEF PublicItem, PublicFlags
  <2>2. Printed(a)
    BY PrintedTokens DEF Name, Sign
  <2>3. DOMAIN it.bits = 1 .. Len(it.bits) /\ Len(it.bits) \in Nat
    BY <1>2, SeqFacts DEF ItemShape
  <2>4. \A i \in DOMAIN it.bits : IsPlain(parts[i])
    BY PlainTokens DEF Name, Sign
  <2>5. parts = [i \in 1 .. Len(it.bits) |-> parts[i]]
    BY <2>3
  <2> HIDE DEF a, parts
  <2>6. IsSeq(parts) /\ DOMAIN parts = DOMAIN it.bits
    BY <2>3, <2>5, FunctionIsSeq
  <2> QED BY <2>1, <2>2, <2>4, <2>6, PrintedBraces
<1>3. CASE it.kind = "struct"
  <2> DEFINE a == <<Token("cid", StructCid(it, s)), Sign("struct"), Name(it.name), Sign("{")>>
             parts == [i \in DOMAIN it.fields |-> PublicField(it.fields[i])]
  <2>1. PublicItem(it, s) = a \o Separated(parts, ",") \o <<Sign("}")>>
    BY <1>3 DEF PublicItem, PublicStruct
  <2>2. Printed(a)
    BY PrintedTokens DEF Name, Sign
  <2>3. DOMAIN it.fields = 1 .. Len(it.fields) /\ Len(it.fields) \in Nat
    BY <1>3, SeqFacts DEF ItemShape
  <2>4. \A i \in DOMAIN it.fields : IsPlain(parts[i])
    BY PrintedField
  <2>5. parts = [i \in 1 .. Len(it.fields) |-> parts[i]]
    BY <2>3
  <2> HIDE DEF a, parts
  <2>6. IsSeq(parts) /\ DOMAIN parts = DOMAIN it.fields
    BY <2>3, <2>5, FunctionIsSeq
  <2> QED BY <2>1, <2>2, <2>4, <2>6, PrintedBraces
<1>4. CASE it.kind = "enum"
  <2> DEFINE a == <<Sign("enum"), Name(it.name), Sign("{")>>
             parts == [i \in DOMAIN it.variants |-> PublicVariant(it, it.variants[i], s)]
  <2>1. PublicItem(it, s) = a \o Separated(parts, ",") \o <<Sign("}")>>
    BY <1>4 DEF PublicItem, PublicEnum
  <2>2. Printed(a)
    BY PrintedTokens DEF Name, Sign
  <2>3. DOMAIN it.variants = 1 .. Len(it.variants) /\ Len(it.variants) \in Nat
    BY <1>4, SeqFacts DEF ItemShape
  <2>4. \A i \in DOMAIN it.variants : IsPlain(parts[i])
    BY <1>4, PrintedVariant DEF ItemShape
  <2>5. parts = [i \in 1 .. Len(it.variants) |-> parts[i]]
    BY <2>3
  <2> HIDE DEF a, parts
  <2>6. IsSeq(parts) /\ DOMAIN parts = DOMAIN it.variants
    BY <2>3, <2>5, FunctionIsSeq
  <2> QED BY <2>1, <2>2, <2>4, <2>6, PrintedBraces
<1> QED BY <1>1, <1>2, <1>3, <1>4 DEF ItemShape

(* So are the functions, if there are any.                                 *)
LEMMA PrintedFunctions ==
  ASSUME NEW functions, IsSeq(functions)
  PROVE  IsPlain(PublicFunctions(functions))
<1>1. CASE functions = << >>
  BY <1>1, PlainNone DEF PublicFunctions
<1>2. CASE functions # << >>
  <2> DEFINE a == Signs(<<"functions", "{">>)
             parts == [i \in DOMAIN functions |-> PublicFunction(functions[i])]
  <2>1. PublicFunctions(functions) = a \o Separated(parts, ";") \o <<Sign("}")>>
    BY <1>2 DEF PublicFunctions
  <2>2. Printed(a)
    <3> DEFINE shapes == <<"functions", "{">>
               U == {Sign("functions"), Sign("{")}
    <3>1. DOMAIN shapes = 1 .. 2 /\ shapes[1] = "functions" /\ shapes[2] = "{"
      OBVIOUS
    <3>2. a = [i \in 1 .. 2 |-> Sign(shapes[i])]
      BY <3>1 DEF Signs
    <3>3. \A i \in 1 .. 2 : Sign(shapes[i]) \in U
      <4>1. Sign(shapes[1]) \in U /\ Sign(shapes[2]) \in U
        BY <3>1
      <4> HIDE DEF U, shapes
      <4> QED BY <4>1
    <3>4. AllPlain(U)
      <4>1. ASSUME NEW x PROVE Sign(x) = Token(Sign(x).shape, Sign(x).value)
        BY DEF Sign, Token
      <4> QED BY <4>1 DEF AllPlain
    <3> HIDE DEF a, U, shapes
    <3>5. a \in Seq(U) /\ Len(a) = 2
      BY <3>2, <3>3
    <3> QED BY <3>4, <3>5, PlainBy DEF Printed
  <2>3. DOMAIN functions = 1 .. Len(functions) /\ Len(functions) \in Nat
    BY SeqFacts
  <2>4. ASSUME NEW i \in DOMAIN functions PROVE IsPlain(parts[i])
    <3> DEFINE f == functions[i]
               b == OptAttr("deprecated", f.deprecated)
               c == <<Name(f.name), Sign(":"), Name(f.request), Sign("->"), Name(f.result)>>
    <3>1. IsPlain(b) /\ IsPlain(c)
      BY PlainTokens, PlainOption DEF Name, Sign
    <3>2. parts[i] = b \o c
      BY DEF PublicFunction
    <3> HIDE DEF b, c
    <3> QED BY <3>1, <3>2, PlainConcat
  <2>5. parts = [i \in 1 .. Len(functions) |-> parts[i]]
    BY <2>3
  <2> HIDE DEF a, parts
  <2>6. IsSeq(parts) /\ DOMAIN parts = DOMAIN functions
    BY <2>3, <2>5, FunctionIsSeq
  <2> QED BY <2>1, <2>2, <2>4, <2>6, PrintedBraces DEF Printed
<1> QED BY <1>1, <1>2

-----------------------------------------------------------------------------
(* Sequences of tokens with comments in front of them.                     *)
AllCommented(U) == \A t \in U : t.before \in Seq(STRING)

IsText(s) == IsSeq(s) /\ AllCommented(Range(s))

Befores(s) == [i \in DOMAIN s |-> s[i].before]

(* Whatever is made of tokens with comments is a text.                     *)
LEMMA TextBy ==
  ASSUME NEW U, AllCommented(U), NEW s \in Seq(U)
  PROVE  IsText(s)
<1>1. IsSeq(s)
  BY OwnRange
<1>2. Range(s) \subseteq U
  BY DEF Range
<1> QED BY <1>1, <1>2 DEF IsText, AllCommented

(* The comments of a text are those of its tokens, one after the other.    *)
LEMMA BeforesType ==
  ASSUME NEW s, IsText(s)
  PROVE  /\ Befores(s) \in Seq(Seq(STRING)) /\ Len(Befores(s)) = Len(s)
         /\ DOMAIN Befores(s) = 1 .. Len(s) /\ Len(s) \in Nat
         /\ CommentsOf(s) = FlattenSeq(Befores(s)) /\ CommentsOf(s) \in Seq(STRING)
<1>1. DOMAIN s = 1 .. Len(s) /\ Len(s) \in Nat
  BY SeqFacts DEF IsText
<1>2. \A i \in 1 .. Len(s) : s[i].before \in Seq(STRING)
  BY <1>1 DEF IsText, AllCommented, Range
<1>3. Befores(s) = [i \in 1 .. Len(s) |-> s[i].before]
  BY <1>1 DEF Befores
<1>4. Befores(s) \in Seq(Seq(STRING)) /\ Len(Befores(s)) = Len(s)
  BY <1>1, <1>2, <1>3
<1>5. CommentsOf(s) = FlattenSeq(Befores(s))
  BY DEF CommentsOf, Befores
<1> QED BY <1>1, <1>3, <1>4, <1>5, FlattenType

(* The comments of a text in two parts are those of the parts.             *)
LEMMA CommentsConcat ==
  ASSUME NEW a, IsText(a), NEW b, IsText(b)
  PROVE  IsText(a \o b) /\ CommentsOf(a \o b) = CommentsOf(a) \o CommentsOf(b)
<1> DEFINE U == Range(a) \cup Range(b)
           m == Len(a)
           n == Len(b)
<1>1. AllCommented(U)
  BY DEF IsText, AllCommented
<1>2. a \in Seq(U) /\ b \in Seq(U)
  BY DEF IsText, IsSeq, Range
<1>3. /\ m \in Nat /\ n \in Nat /\ Befores(a) \in Seq(Seq(STRING)) /\ Len(Befores(a)) = m
      /\ Befores(b) \in Seq(Seq(STRING)) /\ Len(Befores(b)) = n
      /\ DOMAIN Befores(a) = 1 .. m /\ DOMAIN Befores(b) = 1 .. n
      /\ CommentsOf(a) = FlattenSeq(Befores(a)) /\ CommentsOf(b) = FlattenSeq(Befores(b))
  BY BeforesType
<1>4. /\ a \o b \in Seq(U) /\ Len(a \o b) = m + n
      /\ \A i \in 1 .. m + n : (a \o b)[i] = IF i <= m THEN a[i] ELSE b[i - m]
  <2> HIDE DEF U
  <2> QED BY <1>2, ConcatProperties
<1>5. IsText(a \o b)
  <2> HIDE DEF U
  <2> QED BY <1>1, <1>4, TextBy
<1>6. /\ DOMAIN Befores(a \o b) = 1 .. m + n /\ Befores(a \o b) \in Seq(Seq(STRING))
      /\ Len(Befores(a \o b)) = m + n
      /\ CommentsOf(a \o b) = FlattenSeq(Befores(a \o b))
  BY <1>4, <1>5, BeforesType
<1> DEFINE V == Seq(STRING)
<1>7. /\ Befores(a) \o Befores(b) \in Seq(V) /\ Len(Befores(a) \o Befores(b)) = m + n
      /\ \A i \in 1 .. m + n : (Befores(a) \o Befores(b))[i] =
           IF i <= m THEN Befores(a)[i] ELSE Befores(b)[i - m]
  <2> HIDE DEF V, m, n
  <2>1. Befores(a) \in Seq(V) /\ Befores(b) \in Seq(V)
    BY <1>3 DEF V
  <2>2. /\ Befores(a) \o Befores(b) \in Seq(V)
        /\ Len(Befores(a) \o Befores(b)) = Len(Befores(a)) + Len(Befores(b))
        /\ \A i \in 1 .. Len(Befores(a)) + Len(Befores(b)) : (Befores(a) \o Befores(b))[i] =
             IF i <= Len(Befores(a)) THEN Befores(a)[i] ELSE Befores(b)[i - Len(Befores(a))]
    BY <2>1, ConcatProperties
  <2> QED BY <1>3, <2>2
<1>8. ASSUME NEW i \in 1 .. m + n
      PROVE  Befores(a \o b)[i] = (Befores(a) \o Befores(b))[i]
  <2>1. Befores(a \o b)[i] = (a \o b)[i].before
    BY <1>6 DEF Befores
  <2> HIDE DEF m, n, U, V
  <2>2. CASE i <= m
    <3>1. i \in DOMAIN Befores(a)
      BY <1>3, <2>2
    <3>2. Befores(a)[i] = a[i].before
      BY <3>1 DEF Befores
    <3> QED BY <1>4, <1>7, <2>1, <2>2, <3>2
  <2>3. CASE ~(i <= m)
    <3>1. i - m \in DOMAIN Befores(b)
      BY <1>3, <2>3
    <3>2. Befores(b)[i - m] = b[i - m].before
      BY <3>1 DEF Befores
    <3> QED BY <1>4, <1>7, <2>1, <2>3, <3>2
  <2> QED BY <2>2, <2>3
<1>9. Befores(a \o b) = Befores(a) \o Befores(b)
  <2> HIDE DEF m, n, U
  <2> HIDE DEF V
  <2>1. Befores(a \o b) \in Seq(V)
    BY <1>6 DEF V
  <2> QED BY <1>6, <1>7, <1>8, <2>1, SameSeq
<1>10. FlattenSeq(Befores(a) \o Befores(b)) = FlattenSeq(Befores(a)) \o FlattenSeq(Befores(b))
  BY <1>3, FlattenConcat
<1> QED BY <1>3, <1>5, <1>6, <1>9, <1>10

(* What is printed without comments is a text that has none.               *)
LEMMA PlainHasNone ==
  ASSUME NEW s, IsPlain(s)
  PROVE  IsText(s) /\ CommentsOf(s) = << >>
<1>1. \A t \in Range(s) : t.before = << >>
  BY DEF IsPlain, AllPlain, Token
<1>2. IsText(s)
  <2>1. << >> \in Seq(STRING)
    OBVIOUS
  <2> QED BY <1>1, <2>1 DEF IsPlain, IsText, AllCommented
<1>3. /\ Befores(s) \in Seq(Seq(STRING)) /\ Len(Befores(s)) = Len(s) /\ Len(s) \in Nat
      /\ DOMAIN Befores(s) = 1 .. Len(s) /\ CommentsOf(s) = FlattenSeq(Befores(s))
      /\ CommentsOf(s) \in Seq(STRING)
  BY <1>2, BeforesType
<1>4. \A i \in 1 .. Len(Befores(s)) : Len(Befores(s)[i]) = 0
  <2>1. ASSUME NEW i \in 1 .. Len(Befores(s)) PROVE Befores(s)[i] = << >>
    <3>1. i \in DOMAIN s
      BY <1>2, <1>3, SeqFacts DEF IsText
    <3> QED BY <1>1, <3>1 DEF Befores, Range
  <2> QED BY <2>1
<1>5. Len(FlattenSeq(Befores(s))) = Len(Befores(s)) * 0
  BY <1>3, <1>4, FlattenUniform
<1>6. Len(CommentsOf(s)) = 0
  BY <1>3, <1>5
<1> QED BY <1>2, <1>3, <1>6

(* Comments that are printed are those in front of the first token.        *)
LEMMA CommentedFacts ==
  ASSUME NEW s, Printed(s), NEW comments \in Seq(STRING)
  PROVE  /\ IsText(Commented(comments, s))
         /\ CommentsOf(Commented(comments, s)) = comments
         /\ Commented(comments, s) # << >>
         /\ Last(Commented(comments, s)).shape = Last(s).shape
<1> DEFINE n == Len(s)
           c == Commented(comments, s)
           t == Tail(s)
           h == [s[1] EXCEPT !.before = comments]
<1>1. /\ IsSeq(s) /\ s # << >> /\ DOMAIN s = 1 .. n /\ n \in Nat /\ n > 0
  <2>1. s \in Seq(Range(s)) /\ s # << >>
    BY DEF Printed, IsPlain, IsSeq
  <2> QED BY <2>1 DEF IsSeq
<1>2. \A i \in 1 .. n : s[i] = Token(s[i].shape, s[i].value)
  BY <1>1 DEF Printed, IsPlain, AllPlain, Range
<1>3. s[1].before = << >> /\ h.before = comments \o << >> /\ h.shape = s[1].shape
  <2>1. s[1] = [shape |-> s[1].shape, value |-> s[1].value, before |-> << >>]
    BY <1>1, <1>2 DEF Token
  <2> QED BY <2>1
<1>4. h.before = comments
  BY <1>3
<1>5. c = [i \in 1 .. n |-> IF i = 1 THEN h ELSE s[i]]
  BY <1>1, <1>3 DEF Commented
<1>6. t \in Seq(Range(s)) /\ Len(t) = n - 1 /\ \A i \in 1 .. n - 1 : t[i] = s[i + 1]
  <2>1. s \in Seq(Range(s))
    BY <1>1 DEF IsSeq
  <2> QED BY <1>1, <2>1, HeadTailProperties
<1>7. IsPlain(t)
  <2>1. AllPlain(Range(s))
    BY DEF Printed, IsPlain
  <2> QED BY <1>6, <2>1, PlainBy
<1> HIDE DEF h, t
<1>8. c = <<h>> \o t
  <2> DEFINE U == Range(s) \cup {h}
             hs == <<h>>
  <2>1. hs \in Seq(U) /\ t \in Seq(U) /\ Len(hs) = 1 /\ hs[1] = h
    BY <1>6
  <2>2. c \in Seq(U) /\ Len(c) = n
    <3>1. \A i \in 1 .. n : s[i] \in U /\ h \in U
      BY <1>1 DEF Range
    <3> HIDE DEF U, c
    <3> QED BY <1>1, <1>5, <3>1
  <2> HIDE DEF U, hs, c
  <2>3. /\ Len(hs \o t) = n /\ hs \o t \in Seq(U)
        /\ \A i \in 1 .. n : (hs \o t)[i] = IF i <= 1 THEN hs[i] ELSE t[i - 1]
    <3>1. /\ hs \o t \in Seq(U)
          /\ Len(hs \o t) = Len(hs) + Len(t)
          /\ \A i \in 1 .. Len(hs) + Len(t) : (hs \o t)[i] =
               IF i <= Len(hs) THEN hs[i] ELSE t[i - Len(hs)]
      BY <2>1, ConcatProperties
    <3> HIDE DEF n
    <3>2. Len(hs) + Len(t) = n
      BY <1>1, <1>6, <2>1
    <3> QED BY <2>1, <3>1, <3>2
  <2>4. \A i \in 1 .. n : (hs \o t)[i] = IF i = 1 THEN h ELSE s[i]
    BY <1>1, <1>6, <2>1, <2>3
  <2>5. \A i \in 1 .. n : c[i] = (hs \o t)[i]
    BY <1>5, <2>4
  <2>6. c = hs \o t
    BY <2>2, <2>3, <2>5, SameSeq
  <2> QED BY <2>6 DEF hs
<1>9. IsText(<<h>>) /\ CommentsOf(<<h>>) = comments
  <2>1. AllCommented({h}) /\ <<h>> \in Seq({h})
    BY <1>4 DEF AllCommented
  <2>2. IsText(<<h>>)
    BY <2>1, TextBy
  <2>3. Befores(<<h>>) = <<comments>>
    <3>1. DOMAIN <<h>> = 1 .. 1 /\ <<h>>[1] = h
      OBVIOUS
    <3> QED BY <1>4, <3>1 DEF Befores
  <2>4. FlattenSeq(<<comments>>) = comments
    BY FlattenSingle
  <2> QED BY <2>2, <2>3, <2>4, BeforesType
<1>10. IsText(t) /\ CommentsOf(t) = << >>
  BY <1>7, PlainHasNone
<1>11. IsText(c) /\ CommentsOf(c) = comments
  <2>1. IsText(<<h>> \o t) /\ CommentsOf(<<h>> \o t) = comments \o << >>
    BY <1>9, <1>10, CommentsConcat
  <2>2. comments \o << >> = comments
    BY ConcatEmptySeq
  <2> QED BY <1>8, <2>1, <2>2
<1>12. Last(c).shape = Last(s).shape
  <2>1. Len(c) = n /\ c[n] = IF n = 1 THEN h ELSE s[n]
    <3> HIDE DEF c, n
    <3> QED BY <1>1, <1>5
  <2>2. Last(c) = c[n] /\ Last(s) = s[n]
    BY <2>1 DEF Last
  <2> QED BY <1>3, <2>1, <2>2 DEF h
<1>13. c # << >>
  <2> HIDE DEF c
  <2>1. Len(c) = n
    BY <1>1, <1>5
  <2> QED BY <1>1, <2>1
<1> QED BY <1>11, <1>12, <1>13

(* A text that is made of texts has their comments, in their order.        *)
CommentsOfEach(ss) == [i \in DOMAIN ss |-> CommentsOf(ss[i])]

Flattened(ss) ==
  IsText(FlattenSeq(ss)) /\ CommentsOf(FlattenSeq(ss)) = FlattenSeq(CommentsOfEach(ss))

FlattenedOfLen(U, n) == \A ss \in Seq(Seq(U)) : Len(ss) = n => Flattened(ss)

(* The comments of each of several texts.                                  *)
LEMMA EachType ==
  ASSUME NEW U, AllCommented(U), NEW ss \in Seq(Seq(U))
  PROVE  /\ CommentsOfEach(ss) \in Seq(Seq(STRING)) /\ Len(CommentsOfEach(ss)) = Len(ss)
         /\ \A i \in 1 .. Len(ss) : CommentsOfEach(ss)[i] = CommentsOf(ss[i])
<1>1. DOMAIN ss = 1 .. Len(ss) /\ Len(ss) \in Nat
  OBVIOUS
<1>2. \A i \in 1 .. Len(ss) : CommentsOf(ss[i]) \in Seq(STRING)
  <2> SUFFICES ASSUME NEW i \in 1 .. Len(ss) PROVE CommentsOf(ss[i]) \in Seq(STRING)
    OBVIOUS
  <2>1. ss[i] \in Seq(U)
    OBVIOUS
  <2>2. IsText(ss[i])
    BY <2>1, TextBy
  <2> QED BY <2>2, BeforesType
<1>3. CommentsOfEach(ss) = [i \in 1 .. Len(ss) |-> CommentsOf(ss[i])]
  BY <1>1 DEF CommentsOfEach
<1> QED BY <1>1, <1>2, <1>3

(* The comments of a text in many parts are those of the parts, by         *)
(* induction over their number.                                            *)
LEMMA TextFlatten ==
  ASSUME NEW U, AllCommented(U), NEW ss \in Seq(Seq(U))
  PROVE  Flattened(ss)
<1> DEFINE T == {n \in Nat : FlattenedOfLen(U, n)}
           V == Seq(U)
<1>1. 0 \in T
  <2> SUFFICES ASSUME NEW w \in Seq(V), Len(w) = 0 PROVE Flattened(w)
    BY DEF FlattenedOfLen
  <2>1. w = << >>
    OBVIOUS
  <2>2. IsText(<< >>) /\ CommentsOf(<< >>) = << >>
    BY PlainNone, PlainHasNone
  <2>3. CommentsOfEach(<< >>) = << >>
    <3>1. << >> \in Seq(Seq(U))
      OBVIOUS
    <3>2. CommentsOfEach(<< >>) \in Seq(Seq(STRING)) /\ Len(CommentsOfEach(<< >>)) = 0
      BY <3>1, EachType
    <3> QED BY <3>2
  <2> QED BY <2>1, <2>2, <2>3, FlattenEmpty DEF Flattened
<1>2. \A n \in T : n + 1 \in T
  <2> SUFFICES ASSUME NEW n \in T PROVE FlattenedOfLen(U, n + 1)
    OBVIOUS
  <2> SUFFICES ASSUME NEW w \in Seq(V), Len(w) = n + 1 PROVE Flattened(w)
    BY DEF FlattenedOfLen
  <2>0. n \in Nat /\ FlattenedOfLen(U, n)
    OBVIOUS
  <2> HIDE DEF T
  <2>1. w # << >>
    BY <2>0
  <2>2. PICK f \in Seq(V), e \in V : w = Append(f, e)
    <3> HIDE DEF V
    <3> QED BY <2>1, SequenceEmptyOrAppend
  <2>3. Len(f) = n /\ w[n + 1] = e /\ \A i \in 1 .. n : w[i] = f[i]
    <3> HIDE DEF V
    <3>1. Len(w) = Len(f) + 1 /\ Len(f) \in Nat /\ w[Len(f) + 1] = e
          /\ \A i \in 1 .. Len(f) : w[i] = f[i]
      BY <2>2, AppendProperties
    <3> QED BY <2>0, <3>1
  <2>4. Flattened(f)
    BY <2>0, <2>3 DEF FlattenedOfLen
  <2>5. FlattenSeq(w) = FlattenSeq(f) \o e
    BY <2>2, FlattenAppend
  <2>6. IsText(e)
    BY TextBy
  <2>7. /\ IsText(FlattenSeq(f) \o e)
        /\ CommentsOf(FlattenSeq(f) \o e) = CommentsOf(FlattenSeq(f)) \o CommentsOf(e)
    BY <2>4, <2>6, CommentsConcat DEF Flattened
  <2> DEFINE W == Seq(STRING)
             c == CommentsOf(e)
             cf == CommentsOfEach(f)
             cw == CommentsOfEach(w)
  <2>8. /\ cf \in Seq(W) /\ Len(cf) = n /\ \A i \in 1 .. n : cf[i] = CommentsOf(f[i])
        /\ cw \in Seq(W) /\ Len(cw) = n + 1 /\ \A i \in 1 .. n + 1 : cw[i] = CommentsOf(w[i])
        /\ c \in W
    BY <2>3, <2>6, EachType, BeforesType
  <2>9. cw = Append(cf, c)
    <3>0. n + 1 \in 1 .. n + 1
      BY <2>0
    <3>1. cw[n + 1] = c
      <4> DEFINE k == n + 1
      <4>1. k \in 1 .. n + 1 /\ w[k] = e
        BY <2>3, <3>0
      <4> HIDE DEF k, cw
      <4>2. cw[k] = CommentsOf(w[k])
        BY <2>8, <4>1
      <4> QED BY <4>1, <4>2 DEF k
    <3>2. \A i \in 1 .. n : cw[i] = cf[i]
      BY <2>0, <2>3, <2>8
    <3> HIDE DEF W, c, cf, cw
    <3>3. /\ Append(cf, c) \in Seq(W) /\ Len(Append(cf, c)) = n + 1
          /\ \A i \in 1 .. n : Append(cf, c)[i] = cf[i]
          /\ Append(cf, c)[n + 1] = c
      BY <2>0, <2>8, AppendProperties
    <3>4. \A i \in 1 .. Len(cw) : cw[i] = Append(cf, c)[i]
      BY <2>0, <2>8, <3>1, <3>2, <3>3
    <3> QED BY <2>8, <3>3, <3>4, SameSeq
  <2>10. FlattenSeq(cw) = FlattenSeq(cf) \o c
    <3> HIDE DEF c, cf, cw
    <3> QED BY <2>8, <2>9, FlattenAppend
  <2> QED BY <2>4, <2>5, <2>7, <2>10 DEF Flattened
<1>3. T \in SUBSET Nat
  OBVIOUS
<1>4. Len(ss) \in T
  <2>1. Len(ss) \in Nat
    OBVIOUS
  <2> HIDE DEF T
  <2> QED BY <1>1, <1>2, <1>3, <2>1, NatInductionOnSets
<1>5. FlattenedOfLen(U, Len(ss))
  BY <1>4
<1> QED BY <1>5 DEF FlattenedOfLen

-----------------------------------------------------------------------------
(* A schema as the parser returns it, as far as printing it goes: for each *)
(* item there are its comments, which are the first of all the comments.   *)
SchemaShape(s) ==
  /\ IsSeq(s.items) /\ \A i \in DOMAIN s.items : ItemShape(s.items[i])
  /\ s.item_comments \in Seq(Seq(STRING)) /\ Len(s.item_comments) = Len(s.items)
  /\ IsSeq(s.functions)
  /\ s.comments \in Seq(STRING)

ItemsFirst(s) == \E rest \in Seq(STRING) : s.comments = FlattenSeq(s.item_comments) \o rest

(* The public schema of such a schema is a file, and has its comments when *)
(* they are preserved.                                                     *)
LEMMA PublicIsFile ==
  ASSUME NEW s, SchemaShape(s), NEW preserve \in BOOLEAN
  PROVE  /\ IsFile(Public(s, preserve))
         /\ preserve /\ ItemsFirst(s) => CommentsOf(Public(s, preserve)) = s.comments
<1> DEFINE n == Len(s.items)
           Said(i) == IF preserve THEN s.item_comments[i] ELSE << >>
           rest == IF preserve THEN Remaining(s) ELSE << >>
           a == <<Token("version", s.version)>>
           parts == [i \in DOMAIN s.items |-> Commented(Said(i), PublicItem(s.items[i], s))]
           b == FlattenSeq(parts)
           last == Append(PublicFunctions(s.functions), Sign("eof"))
           c == Commented(rest, last)
<1>1. Public(s, preserve) = (a \o b) \o c
  BY DEF Public
<1>2. IsText(a) /\ CommentsOf(a) = << >>
  BY PlainTokens, PlainHasNone
<1>3. /\ DOMAIN s.items = 1 .. n /\ n \in Nat
      /\ \A i \in 1 .. n : ItemShape(s.items[i]) /\ Said(i) \in Seq(STRING)
  <2>1. DOMAIN s.items = 1 .. n /\ n \in Nat
    BY SeqFacts DEF SchemaShape
  <2>2. \A i \in 1 .. n : s.item_comments[i] \in Seq(STRING)
    BY <2>1 DEF SchemaShape
  <2>3. \A i \in 1 .. n : Said(i) \in Seq(STRING)
    <3>1. << >> \in Seq(STRING)
      OBVIOUS
    <3> QED BY <2>2, <3>1
  <2>4. \A i \in 1 .. n : ItemShape(s.items[i])
    BY <2>1 DEF SchemaShape
  <2> QED BY <2>1, <2>3, <2>4
<1>4. /\ FlattenSeq(s.item_comments) \in Seq(STRING) /\ rest \in Seq(STRING)
      /\ Remaining(s) = SubSeq(s.comments, Len(FlattenSeq(s.item_comments)) + 1, Len(s.comments))
  <2>1. FlattenSeq(s.item_comments) \in Seq(STRING)
    BY FlattenType DEF SchemaShape
  <2>2. Remaining(s) = SubSeq(s.comments, Len(FlattenSeq(s.item_comments)) + 1, Len(s.comments))
    BY DEF Remaining
  <2> DEFINE m == Len(FlattenSeq(s.item_comments)) + 1
             q == s.comments
  <2>3. m \in Nat \ {0} /\ q \in Seq(STRING)
    BY <2>1 DEF SchemaShape
  <2> HIDE DEF m, q
  <2>4. SubSeq(q, m, Len(q)) \in Seq(STRING)
    <3>1. \A i \in m .. Len(q) : q[i] \in STRING
      BY <2>3
    <3>2. m \in Int /\ Len(q) \in Int
      BY <2>3
    <3> QED BY <3>1, <3>2, SubSeqProperties
  <2>5. Remaining(s) \in Seq(STRING)
    BY <2>2, <2>4 DEF m, q
  <2>6. rest \in Seq(STRING)
    <3>1. << >> \in Seq(STRING)
      OBVIOUS
    <3> QED BY <2>5, <3>1
  <2> HIDE DEF rest
  <2> QED BY <2>1, <2>2, <2>6
<1>5. \A i \in 1 .. n : IsText(parts[i]) /\ CommentsOf(parts[i]) = Said(i)
  BY <1>3, PrintedItem, CommentedFacts
<1> DEFINE U == UNION {Range(parts[i]) : i \in 1 .. n}
<1>6. AllCommented(U) /\ parts \in Seq(Seq(U)) /\ Len(parts) = n
  <2>1. AllCommented(U)
    BY <1>5 DEF IsText, AllCommented
  <2>2. ASSUME NEW i \in 1 .. n PROVE parts[i] \in Seq(U)
    <3>1. parts[i] \in Seq(Range(parts[i]))
      BY <1>5 DEF IsText, IsSeq
    <3>2. Range(parts[i]) \subseteq U
      OBVIOUS
    <3> HIDE DEF U, parts
    <3> QED BY <3>1, <3>2
  <2>3. parts = [i \in 1 .. n |-> parts[i]]
    BY <1>3
  <2> HIDE DEF U, parts, n
  <2> QED BY <1>3, <2>1, <2>2, <2>3
<1>7. IsText(b) /\ CommentsOf(b) = FlattenSeq(CommentsOfEach(parts))
  <2> HIDE DEF U, parts
  <2> QED BY <1>6, TextFlatten DEF Flattened
<1>8. Printed(last) /\ Last(last).shape = "eof"
  <2> DEFINE f == PublicFunctions(s.functions)
  <2>1. IsPlain(f)
    BY PrintedFunctions DEF SchemaShape
  <2> HIDE DEF f
  <2>2. Printed(Append(f, Sign("eof")))
    BY <2>1, PlainAppend DEF Printed, Sign
  <2> DEFINE e == Sign("eof")
             W == Range(f) \cup {e}
  <2>3. f \in Seq(W) /\ e \in W /\ e.shape = "eof"
    BY <2>1 DEF IsPlain, IsSeq, Sign, Token
  <2> HIDE DEF e, W
  <2>4. Len(Append(f, e)) = Len(f) + 1 /\ Append(f, e)[Len(f) + 1] = e
    BY <2>3, AppendProperties
  <2>5. Last(Append(f, e)) = e
    BY <2>4 DEF Last
  <2> QED BY <2>2, <2>3, <2>5 DEF e, f
<1>9. IsText(c) /\ CommentsOf(c) = rest /\ c # << >> /\ Last(c).shape = "eof"
  <2> HIDE DEF last, rest
  <2> QED BY <1>4, <1>8, CommentedFacts
<1> HIDE DEF a, b, c, parts, rest, last
<1>10. IsText(a \o b) /\ CommentsOf(a \o b) = << >> \o CommentsOf(b)
  BY <1>2, <1>7, CommentsConcat
<1>11. /\ IsText((a \o b) \o c)
       /\ CommentsOf((a \o b) \o c) = (<< >> \o CommentsOf(b)) \o rest
  BY <1>9, <1>10, CommentsConcat
<1>12. IsFile(Public(s, preserve))
  <2> DEFINE ab == a \o b
             X == Range(ab) \cup Range(c)
  <2>1. ab \in Seq(X) /\ c \in Seq(X) /\ c # << >>
    BY <1>9, <1>10 DEF IsText, IsSeq
  <2> HIDE DEF ab, X
  <2>2. /\ Len(ab) \in Nat /\ Len(c) \in Nat /\ Len(c) > 0 /\ Len(ab \o c) = Len(ab) + Len(c)
        /\ (ab \o c)[Len(ab) + Len(c)] = c[Len(c)]
    BY <2>1
  <2>3. ab \o c # << >> /\ Last(ab \o c) = Last(c)
    BY <2>1, <2>2 DEF Last
  <2> QED BY <1>1, <1>9, <1>11, <2>3 DEF IsFile, IsText, IsSeq, AllCommented, ab
<1>13. ASSUME preserve, ItemsFirst(s)
       PROVE  CommentsOf(Public(s, preserve)) = s.comments
  <2> DEFINE ic == s.item_comments
             F == FlattenSeq(ic)
  <2>1. CommentsOfEach(parts) = ic
    <3> DEFINE V == Seq(STRING)
    <3>1. /\ CommentsOfEach(parts) \in Seq(V) /\ Len(CommentsOfEach(parts)) = n
          /\ \A i \in 1 .. n : CommentsOfEach(parts)[i] = CommentsOf(parts[i])
      BY <1>6, EachType
    <3>2. ic \in Seq(V) /\ Len(ic) = n
      BY DEF SchemaShape
    <3>3. \A i \in 1 .. n : CommentsOf(parts[i]) = ic[i]
      BY <1>5, <1>13
    <3> HIDE DEF V, ic, n
    <3> QED BY <3>1, <3>2, <3>3, SameSeq
  <2>2. PICK r \in Seq(STRING) : s.comments = F \o r
    BY <1>13 DEF ItemsFirst
  <2>3. F \in Seq(STRING) /\ rest = SubSeq(F \o r, Len(F) + 1, Len(F \o r))
    BY <1>4, <1>13, <2>2 DEF rest
  <2> HIDE DEF F
  <2>4. rest = r
    <3>1. Len(F \o r) = Len(F) + Len(r) /\ Len(F) \in Nat /\ Len(r) \in Nat
      BY <2>3
    <3>2. SubSeq(F \o r, Len(F) + 1, Len(F) + Len(r)) = r
      BY <2>3, <3>1
    <3> QED BY <2>3, <3>1, <3>2
  <2>5. CommentsOf(b) = F
    BY <1>7, <2>1 DEF F
  <2>6. << >> \o F = F
    BY <2>3, ConcatEmptySeq
  <2> QED BY <1>1, <1>11, <2>2, <2>4, <2>5, <2>6
<1> QED BY <1>12, <1>13

-----------------------------------------------------------------------------
(* The parser: where it is, and what it has made of the tokens so far.     *)
SchemaKeys == {"version", "items", "comments", "item_comments", "functions"}

ParsedInv == DOMAIN parsed = SchemaKeys /\ SchemaShape(parsed)

ItemInv ==
  /\ mode = "alias end" => item.kind = "alias"
  /\ mode = "bits" => item.kind = "flags"
  /\ mode = "fields" => item.kind \in {"struct", "enum"}
  /\ mode \in {"variants", "variant end"} => item.kind = "enum"
  /\ mode \in {"alias end", "bits", "fields", "variants", "variant end"} => ItemShape(item)
  /\ mode \in {"fields", "variant end"} /\ item.kind = "enum" => Len(item.variants) > 0

Within == at \in 1 .. Len(tokens) /\ (mode = "version" => at = 1)

Live == mode # "version" /\ mode # "parse error"

(* The comments of the items are those in front of the tokens up to the    *)
(* last one that ended an item, but for the version.                       *)
AssignedInv ==
  /\ assigned \in 0 .. at
  /\ Live => assigned >= 1
  /\ FlattenSeq(parsed.item_comments) = CommentsOf(SubSeq(tokens, 2, assigned))

ParserText ==
  /\ IsFile(tokens)
  /\ Within
  /\ ParsedInv
  /\ ItemInv
  /\ AssignedInv
  /\ mode = "parsed" => parsed.comments = CommentsOf(tokens)

(* A file is a text that ends with the end of the file.                    *)
LEMMA FileFacts ==
  ASSUME NEW file, IsFile(file)
  PROVE  /\ IsText(file) /\ IsSeq(file) /\ DOMAIN file = 1 .. Len(file)
         /\ Len(file) \in Nat /\ Len(file) > 0 /\ file[Len(file)].shape = "eof"
<1>1. file \in Seq(Range(file)) /\ file # << >>
  BY DEF IsFile
<1>2. DOMAIN file = 1 .. Len(file) /\ Len(file) \in Nat /\ Len(file) > 0
  BY <1>1
<1>3. file[Len(file)].shape = "eof"
  BY DEF IsFile, Last
<1> QED BY <1>1, <1>2, <1>3 DEF IsFile, IsText, IsSeq, AllCommented

(* A token that is not the last has another after it.                      *)
LEMMA Ahead ==
  ASSUME IsFile(tokens), NEW i \in Nat \ {0}, NEW last \in Nat, i <= last,
         last <= Len(tokens), tokens[last].shape # "eof"
  PROVE  last + 1 \in i .. Len(tokens)
<1>1. Len(tokens) \in Nat /\ tokens[Len(tokens)].shape = "eof"
  BY FileFacts
<1>2. last # Len(tokens)
  BY <1>1
<1> QED BY <1>1, <1>2

(* Where the parser sees tokens of some shapes, of which the last is not   *)
(* the end of the file, there is a token after them.                       *)
LEMMA LooksAhead ==
  ASSUME IsFile(tokens), NEW i \in Nat \ {0}
  PROVE  /\ \A a : a # "eof" /\ Looks(i, <<a>>) => i + 1 \in i .. Len(tokens)
         /\ \A a, b : b # "eof" /\ Looks(i, <<a, b>>) => i + 2 \in i .. Len(tokens)
         /\ \A a, b, c : c # "eof" /\ Looks(i, <<a, b, c>>) => i + 3 \in i .. Len(tokens)
         /\ \A a, b, c, d : d # "eof" /\ Looks(i, <<a, b, c, d>>) => i + 4 \in i .. Len(tokens)
         /\ \A a, b, c, d, e :
              e # "eof" /\ Looks(i, <<a, b, c, d, e>>) => i + 5 \in i .. Len(tokens)
<1>1. ASSUME NEW a, a # "eof", Looks(i, <<a>>)
      PROVE  i + 1 \in i .. Len(tokens)
  <2> DEFINE last == i + 1 - 1
  <2>1. Len(<<a>>) = 1 /\ 1 \in DOMAIN <<a>> /\ <<a>>[1] = a
    OBVIOUS
  <2>2. last <= Len(tokens) /\ tokens[last].shape = a
    BY <1>1, <2>1 DEF Looks
  <2>3. last \in Nat /\ i <= last /\ last + 1 = i + 1
    OBVIOUS
  <2> HIDE DEF last
  <2>4. last + 1 \in i .. Len(tokens)
    BY <1>1, <2>2, <2>3, Ahead
  <2> QED BY <2>3, <2>4
<1>2. ASSUME NEW a, NEW b, b # "eof", Looks(i, <<a, b>>)
      PROVE  i + 2 \in i .. Len(tokens)
  <2> DEFINE last == i + 2 - 1
  <2>1. Len(<<a, b>>) = 2 /\ 2 \in DOMAIN <<a, b>> /\ <<a, b>>[2] = b
    OBVIOUS
  <2>2. last <= Len(tokens) /\ tokens[last].shape = b
    BY <1>2, <2>1 DEF Looks
  <2>3. last \in Nat /\ i <= last /\ last + 1 = i + 2
    OBVIOUS
  <2> HIDE DEF last
  <2>4. last + 1 \in i .. Len(tokens)
    BY <1>2, <2>2, <2>3, Ahead
  <2> QED BY <2>3, <2>4
<1>3. ASSUME NEW a, NEW b, NEW c, c # "eof", Looks(i, <<a, b, c>>)
      PROVE  i + 3 \in i .. Len(tokens)
  <2> DEFINE last == i + 3 - 1
  <2>1. Len(<<a, b, c>>) = 3 /\ 3 \in DOMAIN <<a, b, c>> /\ <<a, b, c>>[3] = c
    OBVIOUS
  <2>2. last <= Len(tokens) /\ tokens[last].shape = c
    BY <1>3, <2>1 DEF Looks
  <2>3. last \in Nat /\ i <= last /\ last + 1 = i + 3
    OBVIOUS
  <2> HIDE DEF last
  <2>4. last + 1 \in i .. Len(tokens)
    BY <1>3, <2>2, <2>3, Ahead
  <2> QED BY <2>3, <2>4
<1>4. ASSUME NEW a, NEW b, NEW c, NEW d, d # "eof", Looks(i, <<a, b, c, d>>)
      PROVE  i + 4 \in i .. Len(tokens)
  <2> DEFINE last == i + 4 - 1
  <2>1. Len(<<a, b, c, d>>) = 4 /\ 4 \in DOMAIN <<a, b, c, d>> /\ <<a, b, c, d>>[4] = d
    OBVIOUS
  <2>2. last <= Len(tokens) /\ tokens[last].shape = d
    BY <1>4, <2>1 DEF Looks
  <2>3. last \in Nat /\ i <= last /\ last + 1 = i + 4
    OBVIOUS
  <2> HIDE DEF last
  <2>4. last + 1 \in i .. Len(tokens)
    BY <1>4, <2>2, <2>3, Ahead
  <2> QED BY <2>3, <2>4
<1>5. ASSUME NEW a, NEW b, NEW c, NEW d, NEW e, e # "eof", Looks(i, <<a, b, c, d, e>>)
      PROVE  i + 5 \in i .. Len(tokens)
  <2> DEFINE last == i + 5 - 1
  <2>1. Len(<<a, b, c, d, e>>) = 5 /\ 5 \in DOMAIN <<a, b, c, d, e>> /\ <<a, b, c, d, e>>[5] = e
    OBVIOUS
  <2>2. last <= Len(tokens) /\ tokens[last].shape = e
    BY <1>5, <2>1 DEF Looks
  <2>3. last \in Nat /\ i <= last /\ last + 1 = i + 5
    OBVIOUS
  <2> HIDE DEF last
  <2>4. last + 1 \in i .. Len(tokens)
    BY <1>5, <2>2, <2>3, Ahead
  <2> QED BY <2>3, <2>4
<1> QED BY <1>1, <1>2, <1>3, <1>4, <1>5

(* So it is with an optional token.                                        *)
LEMMA OptAhead ==
  ASSUME IsFile(tokens), NEW i \in 1 .. Len(tokens), NEW shape, shape # "eof"
  PROVE  i + Opt(i, shape) \in i .. Len(tokens)
<1>0. Len(tokens) \in Nat /\ i \in Nat \ {0}
  BY FileFacts
<1>1. CASE Looks(i, <<shape>>)
  BY <1>0, <1>1, LooksAhead DEF Opt
<1>2. CASE ~Looks(i, <<shape>>)
  BY <1>0, <1>2 DEF Opt
<1> QED BY <1>1, <1>2

(* The parser is never beyond the last token, and never goes back.         *)
LEMMA StepStays ==
  ASSUME IsFile(tokens), Within, ParserStep
  PROVE  at' \in at .. Len(tokens) /\ at \in 1 .. Len(tokens) /\ Len(tokens) \in Nat
<1> DEFINE n == Len(tokens)
<1>0. n \in Nat /\ at \in 1 .. n
  BY FileFacts DEF Within
<1> HIDE DEF n
<1>a. ASSUME NEW i \in 1 .. n, NEW shape, shape # "eof"
      PROVE  i + Opt(i, shape) \in i .. n
  BY <1>a, OptAhead DEF n
<1>b. ASSUME NEW i \in 1 .. n
      PROVE  /\ \A a : a # "eof" /\ Looks(i, <<a>>) => i + 1 \in i .. n
             /\ \A a, b : b # "eof" /\ Looks(i, <<a, b>>) => i + 2 \in i .. n
             /\ \A a, b, c : c # "eof" /\ Looks(i, <<a, b, c>>) => i + 3 \in i .. n
             /\ \A a, b, c, d : d # "eof" /\ Looks(i, <<a, b, c, d>>) => i + 4 \in i .. n
             /\ \A a, b, c, d, e : e # "eof" /\ Looks(i, <<a, b, c, d, e>>) => i + 5 \in i .. n
  <2>1. i \in Nat \ {0}
    BY <1>0
  <2> QED BY <2>1, LooksAhead DEF n
<1>c. SUFFICES at' \in at .. n
  BY <1>0 DEF n
<1>1. First \in at .. n
  BY <1>0, <1>a DEF First
<1>2. CASE ParseVersion
  <2>1. Looks(1, <<"version">>) /\ at' = 2 /\ at = 1
    BY <1>2 DEF ParseVersion, Within
  <2>2. 1 + 1 \in 1 .. n
    BY <1>0, <1>b, <2>1
  <2> QED BY <1>0, <2>1, <2>2
<1>3. CASE ParseEnd \/ CloseFunctions \/ ParseError
  <2>1. at' = at
    BY <1>3 DEF ParseEnd, CloseFunctions, ParseError
  <2> QED BY <1>0, <2>1
<1>4. CASE ParseAlias
  <2>1. Looks(First, <<"type", "name", "=", "ty">>) /\ at' = First + 4 + Opt(First + 4, "exact_len")
    BY <1>4 DEF ParseAlias, AtAlias
  <2>2. First \in 1 .. n /\ First >= at
    BY <1>0, <1>1
  <2>3. First + 4 \in First .. n
    BY <1>b, <2>1, <2>2
  <2> DEFINE i == First + 4
  <2>4. i \in 1 .. n /\ i >= at
    BY <1>0, <2>2, <2>3
  <2> HIDE DEF i
  <2>5. i + Opt(i, "exact_len") \in i .. n
    BY <1>a, <2>4
  <2>6. at' \in i .. n
    BY <2>1, <2>5 DEF i
  <2> QED BY <1>0, <2>4, <2>6
<1>5. CASE EndAlias
  <2>1. at' = at + Opt(at, ";")
    BY <1>5 DEF EndAlias, Complete
  <2>2. at + Opt(at, ";") \in at .. n
    BY <1>0, <1>a
  <2> QED BY <1>0, <2>1, <2>2
<1>6. CASE OpenFlags
  <2>1. Looks(First, <<"flags", "enum", "name", "{">>) /\ at' = First + 4
    BY <1>6 DEF OpenFlags, AtFlags, Open
  <2>2. First \in 1 .. n /\ First >= at
    BY <1>0, <1>1
  <2>3. First + 4 \in First .. n
    BY <1>b, <2>1, <2>2
  <2>4. at' \in First .. n
    BY <2>1, <2>3
  <2> QED BY <1>0, <2>2, <2>4
<1>7. CASE OpenStruct
  <2>1. Looks(First, <<"struct", "name", "{">>) /\ at' = First + 3
    BY <1>7 DEF OpenStruct, AtStruct, Open
  <2>2. First \in 1 .. n /\ First >= at
    BY <1>0, <1>1
  <2>3. First + 3 \in First .. n
    BY <1>b, <2>1, <2>2
  <2>4. at' \in First .. n
    BY <2>1, <2>3
  <2> QED BY <1>0, <2>2, <2>4
<1>8. CASE OpenEnum
  <2>1. Looks(First, <<"enum", "name", "{">>) /\ at' = First + 3
    BY <1>8 DEF OpenEnum, AtEnum, Open
  <2>2. First \in 1 .. n /\ First >= at
    BY <1>0, <1>1
  <2>3. First + 3 \in First .. n
    BY <1>b, <2>1, <2>2
  <2>4. at' \in First .. n
    BY <2>1, <2>3
  <2> QED BY <1>0, <2>2, <2>4
<1>9. CASE OpenFunctions
  <2>1. Looks(at, <<"functions", "{">>) /\ at' = at + 2
    BY <1>9 DEF OpenFunctions, AtFunctions
  <2>2. at \in 1 .. n /\ at >= at
    BY <1>0
  <2>3. at + 2 \in at .. n
    BY <1>b, <2>1, <2>2
  <2> QED BY <1>0, <2>1, <2>2, <2>3
<1>10. CASE ParseField
  <2>1. Looks(FieldName, <<"name", ":", "ty">>) /\ at' = AfterField + Opt(AfterField, ",")
    BY <1>10 DEF ParseField, AtField
  <2>2. Deprecation \in 1 .. n /\ Deprecation >= at
    <3>1. Deprecation \in at .. n
      BY <1>0, <1>a DEF Deprecation
    <3> QED BY <1>0, <3>1
  <2>3. FieldName \in 1 .. n /\ FieldName >= at
    <3>1. FieldName \in Deprecation .. n
      BY <1>a, <2>2 DEF FieldName
    <3> QED BY <1>0, <2>2, <3>1
  <2>4. FieldName + 3 \in FieldName .. n
    BY <1>b, <2>1, <2>3
  <2> DEFINE i == FieldName + 3
  <2>5. i \in 1 .. n /\ i >= at
    BY <1>0, <2>3, <2>4
  <2>6. AfterField = i + Opt(i, "exact_len")
    BY DEF AfterField
  <2> HIDE DEF i
  <2>7. AfterField \in 1 .. n /\ AfterField >= at
    <3>1. AfterField \in i .. n
      BY <1>a, <2>5, <2>6
    <3> QED BY <1>0, <2>5, <3>1
  <2>8. AfterField + Opt(AfterField, ",") \in AfterField .. n
    BY <1>a, <2>7
  <2>9. at' \in AfterField .. n
    BY <2>1, <2>8
  <2> QED BY <1>0, <2>7, <2>9
<1>11. CASE ParseVariant
  <2>1. Looks(VariantName, <<"name">>) /\ at' = VariantName + 1 + Opt(VariantName + 1, "{")
    BY <1>11 DEF ParseVariant, AtVariant
  <2>2. VariantName \in 1 .. n /\ VariantName >= at
    BY <1>0, <1>a DEF VariantName
  <2>3. VariantName + 1 \in VariantName .. n
    BY <1>b, <2>1, <2>2
  <2> DEFINE i == VariantName + 1
  <2>4. i \in 1 .. n /\ i >= at
    BY <1>0, <2>2, <2>3
  <2> HIDE DEF i
  <2>5. i + Opt(i, "{") \in i .. n
    BY <1>a, <2>4
  <2>6. at' \in i .. n
    BY <2>1, <2>5 DEF i
  <2> QED BY <1>0, <2>4, <2>6
<1>12. CASE EndVariant
  <2> DEFINE number == IF Looks(at, <<"=">>) THEN 2 ELSE 0
             i == at + number
  <2>1. at' = i + Opt(i, ",")
    BY <1>12 DEF EndVariant
  <2>2. i \in at .. n
    <3>1. CASE Looks(at, <<"=">>)
      <4>1. Looks(at + 1, <<"number">>)
        BY <1>12, <3>1 DEF EndVariant, AtVariantEnd
      <4>3. at + 1 \in at .. n
        BY <1>0, <1>b, <3>1
      <4> DEFINE j == at + 1
      <4>5. j \in 1 .. n
        BY <1>0, <4>3
      <4> HIDE DEF j
      <4>6. j + 1 \in j .. n
        BY <1>b, <4>1, <4>5 DEF j
      <4> QED BY <1>0, <3>1, <4>6 DEF j
    <3>2. CASE ~Looks(at, <<"=">>)
      BY <1>0, <3>2
    <3> QED BY <3>1, <3>2
  <2> HIDE DEF i
  <2>3. i \in 1 .. n /\ i >= at
    BY <1>0, <2>2
  <2>4. at' \in i .. n
    BY <1>a, <2>1, <2>3
  <2> QED BY <1>0, <2>3, <2>4
<1>13. CASE ParseBit
  <2>1. Looks(at, <<"name", "=", "number">>) /\ at' = at + 3 + Opt(at + 3, ",")
    BY <1>13 DEF ParseBit, AtBit
  <2>2. at \in 1 .. n /\ at >= at
    BY <1>0
  <2>3. at + 3 \in at .. n
    BY <1>b, <2>1, <2>2
  <2> DEFINE i == at + 3
  <2>4. i \in 1 .. n /\ i >= at
    BY <1>0, <2>2, <2>3
  <2> HIDE DEF i
  <2>5. i + Opt(i, ",") \in i .. n
    BY <1>a, <2>4
  <2>6. at' \in i .. n
    BY <2>1, <2>5 DEF i
  <2> QED BY <1>0, <2>4, <2>6
<1>14. CASE ParseFunction
  <2>1. /\ Looks(FunctionName, <<"name", ":", "name", "->", "name">>)
        /\ at' = FunctionName + 5 + Opt(FunctionName + 5, ";")
    BY <1>14 DEF ParseFunction, AtFunction
  <2>2. FunctionName \in 1 .. n /\ FunctionName >= at
    BY <1>0, <1>a DEF FunctionName
  <2>3. FunctionName + 5 \in FunctionName .. n
    BY <1>b, <2>1, <2>2
  <2> DEFINE i == FunctionName + 5
  <2>4. i \in 1 .. n /\ i >= at
    BY <1>0, <2>2, <2>3
  <2> HIDE DEF i
  <2>5. i + Opt(i, ";") \in i .. n
    BY <1>a, <2>4
  <2>6. at' \in i .. n
    BY <2>1, <2>5 DEF i
  <2> QED BY <1>0, <2>4, <2>6
<1>15. CASE CloseItem \/ CloseVariant
  <2>1. Looks(at, <<"}">>) /\ at' = at + 1
    BY <1>15 DEF CloseItem, CloseVariant, Complete
  <2>2. at + 1 \in at .. n
    BY <1>0, <1>b, <2>1
  <2> QED BY <1>0, <2>1, <2>2
<1> QED
  BY <1>2, <1>3, <1>4, <1>5, <1>6, <1>7, <1>8, <1>9, <1>10, <1>11, <1>12, <1>13, <1>14, <1>15
     DEF ParserStep

(* What Append makes of a sequence over no set in particular.              *)
LEMMA AppendFacts ==
  ASSUME NEW s, IsSeq(s), NEW e
  PROVE  /\ IsSeq(Append(s, e)) /\ Len(Append(s, e)) = Len(s) + 1 /\ Len(s) \in Nat
         /\ DOMAIN Append(s, e) = 1 .. Len(s) + 1 /\ DOMAIN s = 1 .. Len(s)
         /\ Append(s, e)[Len(s) + 1] = e /\ \A i \in 1 .. Len(s) : Append(s, e)[i] = s[i]
<1> DEFINE U == Range(s) \cup {e}
<1>1. s \in Seq(U) /\ e \in U
  BY DEF IsSeq
<1> HIDE DEF U
<1>2. /\ Append(s, e) \in Seq(U) /\ Len(Append(s, e)) = Len(s) + 1
      /\ Append(s, e)[Len(s) + 1] = e /\ \A i \in 1 .. Len(s) : Append(s, e)[i] = s[i]
  BY <1>1, AppendProperties
<1>3. DOMAIN Append(s, e) = 1 .. Len(Append(s, e)) /\ DOMAIN s = 1 .. Len(s) /\ Len(s) \in Nat
  BY <1>1, <1>2
<1> QED BY <1>2, <1>3, OwnRange

(* The last of a sequence is replaced.                                     *)
LEMMA LastReplaced ==
  ASSUME NEW s, IsSeq(s), Len(s) > 0, NEW e
  PROVE  /\ IsSeq([s EXCEPT ![Len(s)] = e]) /\ Len([s EXCEPT ![Len(s)] = e]) = Len(s)
         /\ DOMAIN [s EXCEPT ![Len(s)] = e] = 1 .. Len(s) /\ DOMAIN s = 1 .. Len(s)
         /\ \A i \in 1 .. Len(s) : [s EXCEPT ![Len(s)] = e][i] = IF i = Len(s) THEN e ELSE s[i]
<1> DEFINE n == Len(s)
           t == [s EXCEPT ![n] = e]
<1>1. DOMAIN s = 1 .. n /\ n \in Nat
  BY SeqFacts
<1>2. t = [i \in 1 .. n |-> t[i]] /\ \A i \in 1 .. n : t[i] = IF i = n THEN e ELSE s[i]
  BY <1>1
<1> HIDE DEF t, n
<1>3. IsSeq(t) /\ Len(t) = n /\ DOMAIN t = 1 .. n
  BY <1>1, <1>2, FunctionIsSeq
<1> QED BY <1>1, <1>2, <1>3 DEF t, n

(* What the parser adds to an item leaves it an item of its kind.          *)
LEMMA BitAdded ==
  ASSUME NEW it, ItemShape(it), it.kind = "flags", NEW bit
  PROVE  ItemShape([it EXCEPT !.bits = Append(@, bit)])
         /\ [it EXCEPT !.bits = Append(@, bit)].kind = "flags"
<1> DEFINE new == [it EXCEPT !.bits = Append(@, bit)]
<1>1. "kind" \in DOMAIN it /\ "bits" \in DOMAIN it /\ IsSeq(it.bits)
  BY DEF ItemShape
<1>2. DOMAIN new = DOMAIN it /\ new.kind = "flags" /\ new.bits = Append(it.bits, bit)
  BY <1>1
<1>3. IsSeq(Append(it.bits, bit))
  BY <1>1, AppendFacts
<1> HIDE DEF new
<1>4. ItemShape(new)
  BY <1>1, <1>2, <1>3 DEF ItemShape
<1> QED BY <1>2, <1>4 DEF new

(* A field of a struct.                                                    *)
LEMMA FieldAdded ==
  ASSUME NEW it, ItemShape(it), it.kind = "struct", NEW field
  PROVE  ItemShape([it EXCEPT !.fields = Append(@, field)])
         /\ [it EXCEPT !.fields = Append(@, field)].kind = "struct"
<1> DEFINE new == [it EXCEPT !.fields = Append(@, field)]
<1>1. "kind" \in DOMAIN it /\ "fields" \in DOMAIN it /\ IsSeq(it.fields)
  BY DEF ItemShape
<1>2. DOMAIN new = DOMAIN it /\ new.kind = "struct" /\ new.fields = Append(it.fields, field)
  BY <1>1
<1>3. IsSeq(Append(it.fields, field))
  BY <1>1, AppendFacts
<1> HIDE DEF new
<1>4. ItemShape(new)
  BY <1>1, <1>2, <1>3 DEF ItemShape
<1> QED BY <1>2, <1>4 DEF new

(* Other variants of an enum.                                              *)
LEMMA VariantsChanged ==
  ASSUME NEW it, ItemShape(it), it.kind = "enum", NEW variants, IsSeq(variants),
         \A i \in DOMAIN variants : VariantShape(variants[i])
  PROVE  /\ ItemShape([it EXCEPT !.variants = variants])
         /\ [it EXCEPT !.variants = variants].kind = "enum"
         /\ [it EXCEPT !.variants = variants].variants = variants
<1> DEFINE new == [it EXCEPT !.variants = variants]
<1>1. "kind" \in DOMAIN it /\ "variants" \in DOMAIN it
  BY DEF ItemShape
<1>2. DOMAIN new = DOMAIN it /\ new.kind = "enum" /\ new.variants = variants
  BY <1>1
<1> HIDE DEF new
<1>3. ItemShape(new)
  BY <1>1, <1>2 DEF ItemShape
<1> QED BY <1>2, <1>3 DEF new

(* A variant at the end of those of an enum.                               *)
LEMMA VariantAdded ==
  ASSUME NEW it, ItemShape(it), it.kind = "enum", NEW variant, VariantShape(variant)
  PROVE  /\ ItemShape([it EXCEPT !.variants = Append(@, variant)])
         /\ [it EXCEPT !.variants = Append(@, variant)].kind = "enum"
         /\ Len([it EXCEPT !.variants = Append(@, variant)].variants) > 0
<1> DEFINE vs == Append(it.variants, variant)
           n == Len(it.variants)
<1>1. IsSeq(it.variants) /\ \A i \in DOMAIN it.variants : VariantShape(it.variants[i])
  BY DEF ItemShape
<1>2. /\ IsSeq(vs) /\ Len(vs) = n + 1 /\ n \in Nat /\ DOMAIN vs = 1 .. n + 1
      /\ DOMAIN it.variants = 1 .. n
      /\ vs[n + 1] = variant /\ \A i \in 1 .. n : vs[i] = it.variants[i]
  BY <1>1, AppendFacts
<1> HIDE DEF vs, n
<1>3. \A i \in DOMAIN vs : VariantShape(vs[i])
  <2> SUFFICES ASSUME NEW i \in 1 .. n + 1 PROVE VariantShape(vs[i])
    BY <1>2
  <2>1. CASE i = n + 1
    BY <1>2, <2>1
  <2>2. CASE i \in 1 .. n
    BY <1>1, <1>2, <2>2
  <2> QED BY <1>2, <2>1, <2>2
<1>4. /\ ItemShape([it EXCEPT !.variants = vs]) /\ [it EXCEPT !.variants = vs].kind = "enum"
      /\ [it EXCEPT !.variants = vs].variants = vs
  BY <1>2, <1>3, VariantsChanged
<1>5. Len(vs) > 0
  BY <1>2
<1> QED BY <1>4, <1>5 DEF vs

(* Another variant in the place of the last.                               *)
LEMMA LastVariantChanged ==
  ASSUME NEW it, ItemShape(it), it.kind = "enum", Len(it.variants) > 0,
         NEW variant, VariantShape(variant)
  PROVE  /\ ItemShape([it EXCEPT !.variants[Len(it.variants)] = variant])
         /\ [it EXCEPT !.variants[Len(it.variants)] = variant].kind = "enum"
         /\ Len([it EXCEPT !.variants[Len(it.variants)] = variant].variants) > 0
<1> DEFINE n == Len(it.variants)
           vs == [it.variants EXCEPT ![n] = variant]
<1>1. IsSeq(it.variants) /\ \A i \in DOMAIN it.variants : VariantShape(it.variants[i])
  BY DEF ItemShape
<1>2. /\ IsSeq(vs) /\ Len(vs) = n /\ DOMAIN vs = 1 .. n /\ DOMAIN it.variants = 1 .. n
      /\ \A i \in 1 .. n : vs[i] = IF i = n THEN variant ELSE it.variants[i]
  BY <1>1, LastReplaced
<1>3. [it EXCEPT !.variants[Len(it.variants)] = variant] = [it EXCEPT !.variants = vs]
  OBVIOUS
<1> HIDE DEF vs
<1>4. \A i \in DOMAIN vs : VariantShape(vs[i])
  BY <1>1, <1>2
<1>5. /\ ItemShape([it EXCEPT !.variants = vs]) /\ [it EXCEPT !.variants = vs].kind = "enum"
      /\ [it EXCEPT !.variants = vs].variants = vs
  BY <1>2, <1>4, VariantsChanged
<1> QED BY <1>2, <1>3, <1>5

(* A field, and the number, of the last variant.                           *)
LEMMA LastVariantExtended ==
  ASSUME NEW it, ItemShape(it), it.kind = "enum", Len(it.variants) > 0, NEW field, NEW value
  PROVE  /\ ItemShape([it EXCEPT !.variants[Len(it.variants)].fields = Append(@, field)])
         /\ [it EXCEPT !.variants[Len(it.variants)].fields = Append(@, field)].kind = "enum"
         /\ Len([it EXCEPT !.variants[Len(it.variants)].fields = Append(@, field)].variants) > 0
         /\ ItemShape([it EXCEPT !.variants[Len(it.variants)].value = value])
         /\ [it EXCEPT !.variants[Len(it.variants)].value = value].kind = "enum"
         /\ Len([it EXCEPT !.variants[Len(it.variants)].value = value].variants) > 0
<1> DEFINE n == Len(it.variants)
           v == it.variants[n]
           a == [v EXCEPT !.fields = Append(@, field)]
           b == [v EXCEPT !.value = value]
<1>1. VariantShape(v)
  <2>1. IsSeq(it.variants) /\ \A i \in DOMAIN it.variants : VariantShape(it.variants[i])
    BY DEF ItemShape
  <2>2. n \in DOMAIN it.variants
    BY <2>1, SeqFacts
  <2> QED BY <2>1, <2>2
<1>2. VariantShape(a) /\ VariantShape(b)
  <2> HIDE DEF v
  <2>1. "fields" \in DOMAIN v /\ "value" \in DOMAIN v /\ IsSeq(v.fields)
    BY <1>1 DEF VariantShape
  <2>2. DOMAIN a = DOMAIN v /\ DOMAIN b = DOMAIN v /\ a.fields = Append(v.fields, field)
        /\ b.fields = v.fields
    BY <2>1
  <2> HIDE DEF a, b
  <2>3. IsSeq(Append(v.fields, field))
    BY <2>1, AppendFacts
  <2> QED BY <2>1, <2>2, <2>3 DEF VariantShape
<1>3. /\ [it EXCEPT !.variants[n].fields = Append(@, field)] = [it EXCEPT !.variants[n] = a]
      /\ [it EXCEPT !.variants[n].value = value] = [it EXCEPT !.variants[n] = b]
  OBVIOUS
<1> HIDE DEF a, b
<1> QED BY <1>2, <1>3, LastVariantChanged

(* A step that ends an item: its comments are those since the last one.    *)
LEMMA CompleteKeeps ==
  ASSUME ParserText, ItemShape(item), Live, NEW next \in at .. Len(tokens),
         Complete(item, next, at), tokens' = tokens
  PROVE  ParserText'
<1> DEFINE C == CommentsOf(SubSeq(tokens, assigned + 1, at))
           n == Len(tokens)
<1>1. /\ parsed' = [parsed EXCEPT !.items = Append(@, item), !.item_comments = Append(@, C)]
      /\ assigned' = at /\ at' = next /\ mode' = "items"
  BY DEF Complete
<1>2. /\ IsFile(tokens) /\ at \in 1 .. n /\ assigned \in 1 .. at /\ ParsedInv
      /\ FlattenSeq(parsed.item_comments) = CommentsOf(SubSeq(tokens, 2, assigned))
  <2>1. assigned \in 0 .. at /\ assigned >= 1
    BY DEF ParserText, AssignedInv
  <2> QED BY <2>1 DEF ParserText, Within, AssignedInv
<1>3. n \in Nat /\ IsText(tokens) /\ tokens \in Seq(Range(tokens))
  BY <1>2, FileFacts DEF IsSeq
<1>4. /\ DOMAIN parsed' = SchemaKeys
      /\ parsed'.items = Append(parsed.items, item)
      /\ parsed'.item_comments = Append(parsed.item_comments, C)
      /\ parsed'.functions = parsed.functions /\ parsed'.comments = parsed.comments
  <2>1. DOMAIN parsed = SchemaKeys
    BY <1>2 DEF ParsedInv
  <2> HIDE DEF C
  <2> QED BY <1>1, <2>1 DEF SchemaKeys
<1>5. ASSUME NEW i \in 1 .. n + 1, NEW k \in Int
      PROVE  k <= n => IsText(SubSeq(tokens, i, k))
  <2> SUFFICES ASSUME k <= n PROVE IsText(SubSeq(tokens, i, k))
    OBVIOUS
  <2>1. \A j \in i .. k : tokens[j] \in Range(tokens)
    BY <1>3 DEF n
  <2>2. i \in Int
    BY <1>3
  <2>3. SubSeq(tokens, i, k) \in Seq(Range(tokens))
    BY <2>1, <2>2, SubSeqProperties
  <2> QED BY <1>3, <2>3, TextBy DEF IsText
<1>6. /\ IsText(SubSeq(tokens, 2, assigned)) /\ IsText(SubSeq(tokens, assigned + 1, at))
      /\ SubSeq(tokens, 2, assigned) \o SubSeq(tokens, assigned + 1, at) = SubSeq(tokens, 2, at)
  <2>1. /\ 2 \in 1 .. n + 1 /\ assigned \in 2 - 1 .. n /\ at \in assigned .. n
        /\ assigned \in Int /\ at \in Int /\ assigned + 1 \in 1 .. n + 1
        /\ assigned <= n /\ at <= n
    BY <1>2, <1>3
  <2> QED BY <1>3, <1>5, <2>1, ConcatAdjacentSubSeq
<1>7. /\ C \in Seq(STRING)
      /\ CommentsOf(SubSeq(tokens, 2, at)) = CommentsOf(SubSeq(tokens, 2, assigned)) \o C
  BY <1>6, BeforesType, CommentsConcat
<1>8. SchemaShape(parsed)
  BY <1>2 DEF ParsedInv
<1>9. FlattenSeq(parsed'.item_comments) = CommentsOf(SubSeq(tokens, 2, at))
  <2>1. parsed.item_comments \in Seq(Seq(STRING))
    BY <1>8 DEF SchemaShape
  <2> HIDE DEF C
  <2>2. FlattenSeq(Append(parsed.item_comments, C)) = FlattenSeq(parsed.item_comments) \o C
    BY <1>7, <2>1, FlattenAppend
  <2> QED BY <1>2, <1>4, <1>7, <2>2
<1>10. SchemaShape(parsed')
  <2> DEFINE its == parsed.items
             ics == parsed.item_comments
             m == Len(its)
             W == Seq(STRING)
  <2>1. /\ IsSeq(its) /\ ics \in Seq(W) /\ Len(ics) = m /\ C \in W
        /\ \A i \in DOMAIN its : ItemShape(its[i])
    BY <1>7, <1>8 DEF SchemaShape
  <2>2. /\ IsSeq(Append(its, item)) /\ Len(Append(its, item)) = m + 1 /\ m \in Nat
        /\ DOMAIN Append(its, item) = 1 .. m + 1 /\ DOMAIN its = 1 .. m
        /\ Append(its, item)[m + 1] = item /\ \A i \in 1 .. m : Append(its, item)[i] = its[i]
    BY <2>1, AppendFacts
  <2> HIDE DEF its, ics, m, W, C
  <2>3. \A i \in DOMAIN Append(its, item) : ItemShape(Append(its, item)[i])
    <3> SUFFICES ASSUME NEW i \in 1 .. m + 1 PROVE ItemShape(Append(its, item)[i])
      BY <2>2
    <3>1. CASE i = m + 1
      BY <2>2, <3>1
    <3>2. CASE i \in 1 .. m
      BY <2>1, <2>2, <3>2
    <3> QED BY <2>2, <3>1, <3>2
  <2>4. Append(ics, C) \in Seq(W) /\ Len(Append(ics, C)) = m + 1
    BY <2>1, AppendProperties
  <2>5. /\ IsSeq(parsed'.items) /\ Len(parsed'.items) = m + 1
        /\ \A i \in DOMAIN parsed'.items : ItemShape(parsed'.items[i])
    BY <1>4, <2>2, <2>3 DEF its
  <2>6. parsed'.item_comments \in Seq(Seq(STRING)) /\ Len(parsed'.item_comments) = m + 1
    BY <1>4, <2>4 DEF ics, W
  <2>7. IsSeq(parsed'.functions) /\ parsed'.comments \in Seq(STRING)
    BY <1>4, <1>8 DEF SchemaShape
  <2> QED BY <2>5, <2>6, <2>7 DEF SchemaShape
<1>11. ParsedInv'
  BY <1>4, <1>10 DEF ParsedInv, SchemaShape, ItemShape, VariantShape
<1>12. Within' /\ ItemInv'
  <2>1. next \in 1 .. n
    BY <1>2, <1>3
  <2> QED BY <1>1, <2>1 DEF Within, ItemInv, n
<1>13. AssignedInv'
  <2>1. at \in 0 .. next /\ at >= 1
    BY <1>2, <1>3
  <2> QED BY <1>1, <1>9, <2>1 DEF AssignedInv
<1> QED BY <1>1, <1>2, <1>11, <1>12, <1>13 DEF ParserText

(* A step that does not touch the schema keeps what is said of it.         *)
LEMMA OtherKeeps ==
  ASSUME ParserText, ItemInv', at' \in at .. Len(tokens), Live,
         mode' # "version", mode' # "parsed", tokens' = tokens, assigned' = assigned,
         parsed' = parsed
  PROVE  ParserText'
<1>1. Len(tokens) \in Nat /\ at \in 1 .. Len(tokens)
  BY FileFacts DEF ParserText, Within
<1>2. Within'
  <2>1. at' \in 1 .. Len(tokens)
    BY <1>1
  <2> QED BY <2>1 DEF Within
<1>3. AssignedInv'
  <2>1. assigned \in 0 .. at /\ assigned >= 1
    BY DEF ParserText, AssignedInv
  <2>2. assigned' \in 0 .. at' /\ assigned' >= 1
    BY <1>1, <2>1
  <2>3. FlattenSeq(parsed'.item_comments) = CommentsOf(SubSeq(tokens', 2, assigned'))
    BY DEF ParserText, AssignedInv
  <2> QED BY <2>2, <2>3 DEF AssignedInv
<1>4. ParsedInv'
  BY DEF ParserText, ParsedInv
<1> QED BY <1>2, <1>3, <1>4 DEF ParserText

(* Every step of the parser keeps what is said of it.                      *)
LEMMA StepKeepsText ==
  ASSUME ParserText, ParserStep
  PROVE  ParserText'
<1> DEFINE n == Len(tokens)
<1>0. /\ IsFile(tokens) /\ Within /\ ParsedInv /\ ItemInv /\ AssignedInv
      /\ SchemaShape(parsed) /\ DOMAIN parsed = SchemaKeys
  BY DEF ParserText, ParsedInv
<1>1. at' \in at .. n /\ at \in 1 .. n /\ n \in Nat
  BY <1>0, StepStays
<1>l. ASSUME mode \in {"items", "alias end", "fields", "variants", "variant end", "bits",
                       "functions"}
      PROVE  Live
  BY <1>l DEF Live
<1>2. CASE ParseVersion
  <2>1. /\ mode = "version" /\ mode' = "items" /\ assigned' = 1 /\ at' = 2 /\ tokens' = tokens
        /\ parsed' = [parsed EXCEPT !.version = tokens[1].value]
    BY <1>2 DEF ParseVersion
  <2>2. at = 1 /\ assigned \in {0, 1}
    <3>1. at = 1 /\ assigned \in 0 .. at
      BY <1>0, <2>1 DEF Within, AssignedInv
    <3> QED BY <3>1
  <2>3. /\ DOMAIN parsed' = SchemaKeys /\ parsed'.items = parsed.items
        /\ parsed'.item_comments = parsed.item_comments
        /\ parsed'.functions = parsed.functions /\ parsed'.comments = parsed.comments
    BY <1>0, <2>1 DEF SchemaKeys
  <2>4. ParsedInv'
    BY <1>0, <2>3 DEF ParsedInv, SchemaShape, ItemShape, VariantShape
  <2>5. SubSeq(tokens, 2, assigned) = << >> /\ SubSeq(tokens, 2, 1) = << >>
    <3>1. 2 \in Int /\ assigned \in Int /\ assigned < 2 /\ 1 \in Int /\ 1 < 2
      BY <2>2
    <3> QED BY <3>1, SubSeqEmpty
  <2>6. AssignedInv'
    <3>1. FlattenSeq(parsed'.item_comments) = CommentsOf(SubSeq(tokens, 2, 1))
      BY <1>0, <2>3, <2>5 DEF AssignedInv
    <3>2. 1 \in 0 .. 2 /\ 1 >= 1
      OBVIOUS
    <3> QED BY <2>1, <3>1, <3>2 DEF AssignedInv
  <2>7. Within' /\ ItemInv'
    BY <1>1, <2>1 DEF Within, ItemInv
  <2> QED BY <1>0, <2>1, <2>4, <2>6, <2>7 DEF ParserText
<1>3. CASE ParseEnd \/ CloseFunctions
  <2>1. /\ mode \in {"items", "functions"} /\ mode' = "parsed"
        /\ UNCHANGED <<tokens, at, item, assigned>>
        /\ parsed' = [parsed EXCEPT !.comments = CommentsOf(tokens)]
    BY <1>3 DEF ParseEnd, CloseFunctions, AtLastBrace
  <2>2. /\ DOMAIN parsed' = SchemaKeys /\ parsed'.items = parsed.items
        /\ parsed'.item_comments = parsed.item_comments
        /\ parsed'.functions = parsed.functions /\ parsed'.comments = CommentsOf(tokens)
    BY <1>0, <2>1 DEF SchemaKeys
  <2>3. CommentsOf(tokens) \in Seq(STRING)
    BY <1>0, FileFacts, BeforesType
  <2>4. ParsedInv'
    BY <1>0, <2>2, <2>3 DEF ParsedInv, SchemaShape, ItemShape, VariantShape
  <2>5. Live /\ Live'
    BY <2>1 DEF Live
  <2>6. AssignedInv'
    BY <1>0, <2>1, <2>2, <2>5 DEF AssignedInv
  <2>7. Within' /\ ItemInv'
    BY <1>1, <2>1 DEF Within, ItemInv
  <2> QED BY <1>0, <2>1, <2>2, <2>4, <2>6, <2>7 DEF ParserText
<1>4. CASE EndAlias
  <2>1. mode = "alias end" /\ Complete(item, at + Opt(at, ";"), at) /\ tokens' = tokens
    BY <1>4 DEF EndAlias
  <2>2. at + Opt(at, ";") \in at .. n
    BY <1>0, <1>1, OptAhead
  <2>3. ItemShape(item)
    BY <1>0, <2>1 DEF ItemInv
  <2> QED BY <1>l, <2>1, <2>2, <2>3, CompleteKeeps
<1>5. CASE CloseItem
  <2>1. /\ mode \in {"variants", "bits", "fields"} /\ Complete(item, at + 1, at)
        /\ tokens' = tokens
    BY <1>5 DEF CloseItem
  <2>2. at + 1 \in at .. n
    BY <1>1, <2>1 DEF Complete
  <2>3. ItemShape(item)
    BY <1>0, <2>1 DEF ItemInv
  <2> QED BY <1>l, <2>1, <2>2, <2>3, CompleteKeeps
<1>6. CASE ParseFunction
  <2>1. /\ mode = "functions" /\ UNCHANGED <<tokens, mode, item, assigned>>
        /\ \E f : parsed' = [parsed EXCEPT !.functions = Append(@, f)]
    BY <1>6 DEF ParseFunction, AtFunction
  <2>2. PICK f : parsed' = [parsed EXCEPT !.functions = Append(@, f)]
    BY <2>1
  <2>3. /\ DOMAIN parsed' = SchemaKeys /\ parsed'.items = parsed.items
        /\ parsed'.item_comments = parsed.item_comments
        /\ parsed'.functions = Append(parsed.functions, f) /\ parsed'.comments = parsed.comments
    BY <1>0, <2>2 DEF SchemaKeys
  <2>4. IsSeq(Append(parsed.functions, f))
    BY <1>0, AppendFacts DEF SchemaShape
  <2>5. ParsedInv'
    BY <1>0, <2>3, <2>4 DEF ParsedInv, SchemaShape, ItemShape, VariantShape
  <2>6. Within' /\ ItemInv'
    BY <1>1, <2>1 DEF Within, ItemInv
  <2>7. AssignedInv'
    <3>1. assigned \in 0 .. at /\ assigned >= 1
      BY <1>0, <1>l, <2>1 DEF AssignedInv
    <3>2. assigned' \in 0 .. at' /\ assigned' >= 1
      BY <1>1, <2>1, <3>1
    <3>3. FlattenSeq(parsed'.item_comments) = CommentsOf(SubSeq(tokens', 2, assigned'))
      BY <1>0, <2>1, <2>3 DEF AssignedInv
    <3> QED BY <3>2, <3>3 DEF AssignedInv
  <2> QED BY <1>0, <2>1, <2>5, <2>6, <2>7 DEF ParserText
<1>7. CASE ParseError
  <2>1. mode' = "parse error" /\ UNCHANGED <<tokens, at, parsed, item, assigned>>
    BY <1>7 DEF ParseError
  <2>2. Within' /\ ItemInv'
    BY <1>1, <2>1 DEF Within, ItemInv
  <2>3. AssignedInv'
    BY <1>0, <2>1 DEF AssignedInv, Live
  <2>4. ParsedInv'
    BY <1>0, <2>1 DEF ParsedInv
  <2> QED BY <1>0, <2>1, <2>2, <2>3, <2>4 DEF ParserText
<1>8. ASSUME UNCHANGED <<tokens, parsed, assigned>>, Live, mode' # "version",
             mode' # "parsed", ItemInv'
      PROVE  ParserText'
  BY <1>1, <1>8, OtherKeeps
<1>9. CASE OpenFunctions
  <2>1. mode' = "functions" /\ mode = "items" /\ UNCHANGED <<tokens, parsed, assigned>>
    BY <1>9 DEF OpenFunctions, AtFunctions
  <2>2. ItemInv'
    BY <2>1 DEF ItemInv
  <2> QED BY <1>l, <1>8, <2>1, <2>2
<1>10. CASE ParseAlias
  <2>1. /\ mode' = "alias end" /\ mode = "items" /\ UNCHANGED <<tokens, parsed, assigned>>
        /\ "kind" \in DOMAIN item' /\ item'.kind = "alias"
    BY <1>10 DEF ParseAlias, AtAlias
  <2>2. ItemInv'
    BY <2>1 DEF ItemInv, ItemShape
  <2> QED BY <1>l, <1>8, <2>1, <2>2
<1>11. IsSeq(<< >>) /\ \A i \in DOMAIN << >> : VariantShape(<< >>[i])
  <2>1. << >> \in Seq({}) /\ DOMAIN << >> = {}
    OBVIOUS
  <2> QED BY <2>1, OwnRange
<1>12. CASE OpenFlags
  <2>1. /\ mode' = "bits" /\ mode = "items" /\ UNCHANGED <<tokens, parsed, assigned>>
        /\ "kind" \in DOMAIN item' /\ item'.kind = "flags"
        /\ "bits" \in DOMAIN item' /\ item'.bits = << >>
    BY <1>12 DEF OpenFlags, AtFlags, Open
  <2>2. ItemInv'
    BY <1>11, <2>1 DEF ItemInv, ItemShape
  <2> QED BY <1>l, <1>8, <2>1, <2>2
<1>13. CASE OpenStruct
  <2>1. /\ mode' = "fields" /\ mode = "items" /\ UNCHANGED <<tokens, parsed, assigned>>
        /\ "kind" \in DOMAIN item' /\ item'.kind = "struct"
        /\ "fields" \in DOMAIN item' /\ item'.fields = << >>
    BY <1>13 DEF OpenStruct, AtStruct, Open
  <2>2. ItemInv'
    BY <1>11, <2>1 DEF ItemInv, ItemShape
  <2> QED BY <1>l, <1>8, <2>1, <2>2
<1>14. CASE OpenEnum
  <2>1. /\ mode' = "variants" /\ mode = "items" /\ UNCHANGED <<tokens, parsed, assigned>>
        /\ "kind" \in DOMAIN item' /\ item'.kind = "enum"
        /\ "variants" \in DOMAIN item' /\ item'.variants = << >>
    BY <1>14 DEF OpenEnum, AtEnum, Open
  <2>2. ItemInv'
    BY <1>11, <2>1 DEF ItemInv, ItemShape
  <2> QED BY <1>l, <1>8, <2>1, <2>2
<1>15. CASE ParseField
  <2>1. mode' = "fields" /\ mode = "fields" /\ UNCHANGED <<tokens, parsed, assigned>>
    BY <1>15 DEF ParseField, AtField
  <2>2. /\ ItemShape(item) /\ item.kind \in {"struct", "enum"}
        /\ item.kind = "enum" => Len(item.variants) > 0
    BY <1>0, <2>1 DEF ItemInv
  <2>3. CASE item.kind = "struct"
    <3>1. item' = [item EXCEPT !.fields = Append(@, FieldRead)]
      BY <1>15, <2>3 DEF ParseField
    <3>2. ItemShape(item') /\ item'.kind = "struct"
      BY <2>2, <2>3, <3>1, FieldAdded
    <3> QED BY <2>1, <3>2, <1>l, <1>8 DEF ItemInv, ItemShape, VariantShape
  <2>4. CASE item.kind = "enum"
    <3>1. item' = [item EXCEPT !.variants[Len(item.variants)].fields = Append(@, FieldRead)]
      BY <1>15, <2>4 DEF ParseField
    <3>2. ItemShape(item') /\ item'.kind = "enum" /\ Len(item'.variants) > 0
      BY <2>2, <2>4, <3>1, LastVariantExtended
    <3> QED BY <2>1, <3>2, <1>l, <1>8 DEF ItemInv, ItemShape, VariantShape
  <2> QED BY <2>2, <2>3, <2>4
<1>16. CASE ParseVariant
  <2>1. /\ mode' \in {"fields", "variant end"} /\ mode = "variants"
        /\ UNCHANGED <<tokens, parsed, assigned>>
    BY <1>16 DEF ParseVariant, AtVariant
  <2> DEFINE v == [name |-> tokens[VariantName].value, cid |-> OptValue(at, "cid"),
                   fields |-> << >>, value |-> None]
  <2>2. item' = [item EXCEPT !.variants = Append(@, v)]
    BY <1>16 DEF ParseVariant
  <2>3. VariantShape(v)
    BY <1>11 DEF VariantShape
  <2>4. ItemShape(item) /\ item.kind = "enum"
    BY <1>0, <2>1 DEF ItemInv
  <2> HIDE DEF v
  <2>5. ItemShape(item') /\ item'.kind = "enum" /\ Len(item'.variants) > 0
    BY <2>2, <2>3, <2>4, VariantAdded
  <2> QED BY <2>1, <2>5, <1>l, <1>8 DEF ItemInv, ItemShape, VariantShape
<1>17. CASE CloseVariant
  <2>1. /\ mode = "fields" /\ mode' = "variant end" /\ item.kind = "enum" /\ item' = item
        /\ UNCHANGED <<tokens, parsed, assigned>>
    BY <1>17 DEF CloseVariant
  <2>2. ItemInv'
    BY <1>0, <2>1 DEF ItemInv, ItemShape, VariantShape
  <2> QED BY <1>l, <1>8, <2>1, <2>2
<1>18. CASE EndVariant
  <2>1. /\ mode = "variant end" /\ mode' = "variants" /\ UNCHANGED <<tokens, parsed, assigned>>
    BY <1>18 DEF EndVariant, AtVariantEnd
  <2>4. PICK x : item' = [item EXCEPT !.variants[Len(item.variants)].value = x]
    BY <1>18 DEF EndVariant
  <2>2. ItemShape(item) /\ item.kind = "enum" /\ Len(item.variants) > 0
    BY <1>0, <2>1 DEF ItemInv
  <2>3. ItemShape(item') /\ item'.kind = "enum"
    BY <2>2, <2>4, LastVariantExtended
  <2> QED BY <2>1, <2>3, <1>l, <1>8 DEF ItemInv, ItemShape, VariantShape
<1>19. CASE ParseBit
  <2>1. /\ mode = "bits" /\ mode' = "bits" /\ UNCHANGED <<tokens, parsed, assigned>>
        /\ \E x : item' = [item EXCEPT !.bits = Append(@, x)]
    BY <1>19 DEF ParseBit, AtBit
  <2>2. ItemShape(item) /\ item.kind = "flags"
    BY <1>0, <2>1 DEF ItemInv
  <2>3. ItemShape(item') /\ item'.kind = "flags"
    BY <2>1, <2>2, BitAdded
  <2> QED BY <2>1, <2>3, <1>l, <1>8 DEF ItemInv, ItemShape, VariantShape
<1> QED
  BY <1>2, <1>3, <1>4, <1>5, <1>6, <1>7, <1>9, <1>10, <1>12, <1>13, <1>14, <1>15, <1>16, <1>17,
     <1>18, <1>19 DEF ParserStep

-----------------------------------------------------------------------------
(* The command line: the schemas on the disk are files, and a run that has *)
(* compiled one goes on with what the parser made of it.                   *)
FilesInv ==
  \A f \in DOMAIN disk : f[1] \in {"typ", "public.typ"} => IsFile(disk[f].tokens)

Working == status \in {"compiling", "writing", "ok"}
Compiling == status \in {"writing", "ok"}

TextInv ==
  /\ command.preserve \in BOOLEAN
  /\ FilesInv
  /\ Working => ParserText
  /\ Compiling => schema = parsed /\ mode = "parsed"

(* The source is a file, and nothing else is there at the start.           *)
LEMMA TextInit ==
  ASSUME Init
  PROVE  TextInv
<1>1. command.preserve = FALSE /\ status = "idle"
  BY DEF Init
<1>2. FilesInv
  <2>1. PICK file \in Sources : disk = [f \in {Source} |-> Written(file)]
    BY DEF Init
  <2>2. disk[Source].tokens = file /\ DOMAIN disk = {Source}
    BY <2>1 DEF Written
  <2>3. IsFile(file)
    BY SourcesAssumption
  <2> QED BY <2>2, <2>3 DEF FilesInv
<1> QED BY <1>1, <1>2 DEF TextInv, Working, Compiling

(* The parser begins with a file and an empty schema.                      *)
LEMMA BeginText ==
  ASSUME NEW file, IsFile(file), BeginParse(file)
  PROVE  ParserText'
<1>1. /\ tokens' = file /\ at' = 1 /\ mode' = "version" /\ parsed' = EmptySchema
      /\ assigned' = 0
  BY DEF BeginParse
<1>2. Len(file) \in Nat /\ Len(file) > 0 /\ IsSeq(file)
  BY FileFacts
<1>3. Within'
  <2>1. 1 \in 1 .. Len(file)
    BY <1>2
  <2> QED BY <1>1, <2>1 DEF Within
<1>4. ItemInv'
  BY <1>1 DEF ItemInv
<1>5. /\ DOMAIN EmptySchema = SchemaKeys /\ EmptySchema.items = << >>
      /\ EmptySchema.item_comments = << >> /\ EmptySchema.functions = << >>
      /\ EmptySchema.comments = << >>
  BY DEF EmptySchema, SchemaKeys
<1>6. SchemaShape(EmptySchema)
  <2>1. /\ << >> \in Seq({}) /\ DOMAIN << >> = {}
        /\ << >> \in Seq(Seq(STRING)) /\ << >> \in Seq(STRING)
    OBVIOUS
  <2>2. IsSeq(<< >>)
    BY <2>1, OwnRange
  <2> QED BY <1>5, <2>1, <2>2 DEF SchemaShape
<1>7. ParsedInv'
  BY <1>1, <1>5, <1>6 DEF ParsedInv, SchemaShape, ItemShape, VariantShape
<1>8. AssignedInv'
  <2>1. ~Live'
    BY <1>1 DEF Live
  <2>2. SubSeq(file, 2, 0) = << >>
    <3>1. 2 \in Int /\ 0 \in Int /\ 0 < 2
      OBVIOUS
    <3> QED BY <3>1, SubSeqEmpty
  <2>3. CommentsOf(<< >>) = << >> /\ FlattenSeq(<< >>) = << >>
    BY PlainNone, PlainHasNone, FlattenEmpty
  <2>4. FlattenSeq(parsed'.item_comments) = CommentsOf(SubSeq(tokens', 2, assigned'))
    BY <1>1, <1>5, <2>2, <2>3
  <2>5. assigned' \in 0 .. at'
    BY <1>1
  <2> QED BY <2>1, <2>4, <2>5 DEF AssignedInv
<1> QED BY <1>1, <1>3, <1>4, <1>7, <1>8 DEF ParserText

(* A step of the command line outside the parser keeps what is said of the *)
(* parser.                                                                 *)
LEMMA TextUnchanged ==
  ASSUME ParserText, UNCHANGED parser
  PROVE  ParserText'
<1>1. UNCHANGED <<tokens, at, mode, parsed, item, assigned>>
  BY DEF parser
<1>2. Within' /\ ItemInv' /\ ParsedInv' /\ AssignedInv'
  BY <1>1 DEF ParserText, Within, ItemInv, ParsedInv, AssignedInv, Live
<1> QED BY <1>1, <1>2 DEF ParserText

(* What is written in the place of a public schema is a file, also when    *)
(* the write is cut off.                                                   *)
LEMMA ArtifactIsFile ==
  ASSUME SchemaShape(schema), command.preserve \in BOOLEAN, NEW file, file[1] = "public.typ"
  PROVE  LET artifact == Artifact(file, schema, command.preserve)
         IN /\ IsFile(artifact.tokens)
            /\ \A n \in CutsOf(artifact) : IsFile(Cut(artifact, n).tokens)
<1> DEFINE t == Public(schema, command.preserve)
           artifact == Artifact(file, schema, command.preserve)
<1>1. artifact = [tokens |-> t, from |-> schema, whole |-> TRUE]
  BY DEF Artifact
<1>2. IsFile(t)
  BY PublicIsFile
<1> HIDE DEF t, artifact
<1>3. artifact.tokens = t
  BY <1>1
<1>4. ASSUME NEW n \in CutsOf(artifact) PROVE IsFile(Cut(artifact, n).tokens)
  <2> DEFINE e == Sign("eof")
             U == Range(t) \cup {e}
             c == SubSeq(t, 1, n)
  <2>1. Cut(artifact, n).tokens = Append(c, e)
    BY <1>1 DEF Cut
  <2>2. t \in Seq(Range(t)) /\ Len(t) \in Nat /\ DOMAIN t = 1 .. Len(t) /\ Len(t) > 0
    BY <1>2, FileFacts DEF IsSeq
  <2>3. n \in 0 .. Len(t) - 1
    <3>1. n \in {0} \cup (1 .. Len(artifact.tokens) - 1)
      BY Zenon DEF CutsOf
    <3> QED BY <1>3, <2>2, <3>1
  <2>4. c \in Seq(U)
    <3>1. \A i \in 1 .. n : t[i] \in U
      BY <2>2, <2>3 DEF Range
    <3>2. 1 \in Int /\ n \in Int
      BY <2>3
    <3> HIDE DEF U
    <3> QED BY <3>1, <3>2, SubSeqProperties
  <2>5. AllCommented(U) /\ e.shape = "eof"
    <3>1. e.before = << >> /\ e.shape = "eof"
      BY DEF Sign, Token
    <3>2. << >> \in Seq(STRING)
      OBVIOUS
    <3>3. AllCommented(Range(t))
      BY <1>2 DEF IsFile, AllCommented
    <3> HIDE DEF e
    <3> QED BY <3>1, <3>2, <3>3 DEF AllCommented
  <2>6. e \in U
    OBVIOUS
  <2> HIDE DEF e, U, c
  <2>7. /\ Append(c, e) \in Seq(U) /\ Append(c, e) # << >>
        /\ Len(Append(c, e)) = Len(c) + 1 /\ Append(c, e)[Len(c) + 1] = e
    BY <2>4, <2>6, AppendProperties
  <2>8. IsText(Append(c, e))
    BY <2>5, <2>7, TextBy
  <2> QED BY <2>1, <2>5, <2>7, <2>8 DEF IsFile, IsText, IsSeq, AllCommented, Last
<1> QED BY <1>2, <1>3, <1>4 DEF artifact

(* The file that is written next is an artifact, never the source.         *)
LEMMA CurrentIsArtifact ==
  ASSUME IInv, AnyLeft
  PROVE  Current[1] \in FileKinds
<1>1. /\ Groups(command) \in Seq(Files) /\ place.group \in 1 .. Len(Groups(command))
      /\ place.file \in 1 .. Len(Groups(command)[place.group])
  <2>1. CommandInv /\ PlaceType
    BY DEF IInv
  <2> QED BY <2>1, GroupsType DEF PlaceType, AnyLeft
<1>2. Groups(command)[place.group] \in Seq(FileKinds)
  BY <1>1 DEF Files
<1>3. Groups(command)[place.group][place.file] \in FileKinds
  BY <1>1, <1>2
<1> QED BY <1>3 DEF Current

(* A file that is put in its place leaves the schemas on the disk files.   *)
LEMMA PutKeepsFiles ==
  ASSUME FilesInv, NEW file, NEW content, disk' = Put(file, content),
         file[1] # "typ", file[1] = "public.typ" => IsFile(content.tokens)
  PROVE  FilesInv'
<1>1. DOMAIN disk' = DOMAIN disk \cup {file}
  BY DEF Put
<1>2. \A f \in DOMAIN disk' : disk'[f] = IF f = file THEN content ELSE disk[f]
  BY DEF Put
<1> QED BY <1>1, <1>2 DEF FilesInv

(* Every step of the command line keeps the invariant.                     *)
LEMMA TextKept ==
  ASSUME IInv, TextInv, [Next]_vars
  PROVE  TextInv'
<1> USE DEF TextInv
<1>a. FileKinds \cap {"typ"} = {}
  BY DEF FileKinds
<1>b. ASSUME UNCHANGED <<disk, command>>
      PROVE  FilesInv' /\ command'.preserve \in BOOLEAN
  BY <1>b DEF FilesInv
<1>c. ASSUME status = "compiling" \/ status = "writing" PROVE ParserText
  BY <1>c DEF Working
<1>d. ASSUME UNCHANGED <<tokens, at, mode, parsed, item, assigned>> PROVE UNCHANGED parser
  BY <1>d DEF parser
<1>1. CASE Edit
  <2>1. /\ status' = "idle" /\ UNCHANGED command
        /\ \E file \in Edits : disk' = [disk EXCEPT ![Source] = Written(file)]
    BY <1>1 DEF Edit
  <2>2. PICK file \in Edits : disk' = [disk EXCEPT ![Source] = Written(file)]
    BY <2>1
  <2>3. IsFile(file) /\ Written(file).tokens = file
    BY SourcesAssumption DEF Written
  <2>4. FilesInv'
    <3>1. DOMAIN disk' = DOMAIN disk
      BY <2>2
    <3>2. \A f \in DOMAIN disk : disk'[f] = IF f = Source THEN Written(file) ELSE disk[f]
      BY <2>2
    <3> QED BY <2>3, <3>1, <3>2 DEF FilesInv
  <2>5. ~Working' /\ ~Compiling'
    BY <2>1 DEF Working, Compiling
  <2> QED BY <2>1, <2>4, <2>5
<1>2. CASE Run
  <2>1. /\ status' = "compiling" /\ UNCHANGED <<disk, schema>>
        /\ \E c \in Commands, input \in {f \in DOMAIN disk : f[1] \in {"typ", "public.typ"}} :
             command'.preserve = c.preserve /\ BeginParse(disk[input].tokens)
    BY <1>2 DEF Run
  <2>2. PICK c \in Commands, input \in {f \in DOMAIN disk : f[1] \in {"typ", "public.typ"}} :
          command'.preserve = c.preserve /\ BeginParse(disk[input].tokens)
    BY <2>1
  <2>3. command'.preserve \in BOOLEAN
    BY <2>2, CommandsAssumption
  <2>4. IsFile(disk[input].tokens)
    BY <2>2 DEF FilesInv
  <2>5. ParserText'
    BY <2>2, <2>4, BeginText
  <2>6. FilesInv' /\ ~Compiling'
    BY <2>1 DEF FilesInv, Compiling
  <2> QED BY <2>3, <2>5, <2>6
<1>3. CASE Parse
  <2>1. status = "compiling" /\ ParserStep /\ UNCHANGED <<disk, command, status, schema>>
    BY <1>3 DEF Parse, cli
  <2>2. ParserText'
    BY <1>c, <2>1, StepKeepsText
  <2>3. ~Compiling'
    BY <2>1 DEF Compiling
  <2> QED BY <1>b, <2>1, <2>2, <2>3
<1>4. CASE RefuseSchema \/ Panic \/ RefuseTargets
  <2>1. /\ status' \in {"compile error", "panic", "usage"}
        /\ UNCHANGED <<disk, command>>
    BY <1>4 DEF RefuseSchema, Panic, RefuseTargets
  <2>2. ~Working' /\ ~Compiling'
    BY <2>1 DEF Working, Compiling
  <2> QED BY <1>b, <2>1, <2>2
<1>5. CASE Check \/ BeginWriting
  <2>1. /\ status = "compiling" /\ mode = "parsed" /\ schema' = parsed
        /\ UNCHANGED <<parser, disk, command>>
    BY <1>5 DEF Check, BeginWriting, Compiled
  <2>2. ParserText'
    BY <1>c, <2>1, TextUnchanged
  <2>3. schema' = parsed' /\ mode' = "parsed"
    BY <2>1 DEF parser
  <2> QED BY <1>b, <2>1, <2>2, <2>3
<1>6. CASE Succeed
  <2>1. /\ status = "writing" /\ UNCHANGED <<parser, disk, command, schema>>
    BY <1>6 DEF Succeed
  <2>2. ParserText'
    BY <1>c, <2>1, TextUnchanged
  <2>3. schema' = parsed' /\ mode' = "parsed"
    BY <2>1 DEF parser, Compiling
  <2> QED BY <1>b, <2>1, <2>2, <2>3
<1>7. ASSUME status = "writing", AnyLeft
      PROVE  /\ SchemaShape(schema)
             /\ Current[1] # "typ"
             /\ Current[1] = "public.typ" =>
                  /\ IsFile(Artifact(Current, schema, command.preserve).tokens)
                  /\ \A n \in CutsOf(Artifact(Current, schema, command.preserve)) :
                       IsFile(Cut(Artifact(Current, schema, command.preserve), n).tokens)
  <2>1. SchemaShape(schema)
    <3>1. ParserText /\ schema = parsed
      BY <1>7, <1>c DEF Compiling
    <3> QED BY <3>1 DEF ParserText, ParsedInv
  <2>2. Current[1] # "typ"
    BY <1>7, <1>a, CurrentIsArtifact
  <2> QED BY <2>1, <2>2, ArtifactIsFile
<1>8. CASE Write
  <2>1. /\ status = "writing" /\ AnyLeft /\ UNCHANGED <<parser, command, schema, status>>
        /\ disk' = Put(Current, Artifact(Current, schema, command.preserve))
    BY <1>8 DEF Write
  <2>2. FilesInv'
    BY <1>7, <2>1, PutKeepsFiles
  <2>3. ParserText'
    BY <1>c, <2>1, TextUnchanged
  <2>4. schema' = parsed' /\ mode' = "parsed"
    BY <2>1 DEF parser, Compiling
  <2> QED BY <2>1, <2>2, <2>3, <2>4
<1>9. CASE WriteFails \/ Killed
  <2>1. /\ status = "writing" /\ AnyLeft /\ UNCHANGED command
        /\ status' \in {"io error", "killed"}
        /\ \/ UNCHANGED disk
           \/ \E n \in CutsOf(Artifact(Current, schema, command.preserve)) :
                disk' = Put(Current, Cut(Artifact(Current, schema, command.preserve), n))
    BY <1>9 DEF WriteFails, Killed, Interrupted
  <2>2. FilesInv'
    <3>1. CASE UNCHANGED disk
      BY <3>1 DEF FilesInv
    <3>2. ASSUME NEW n \in CutsOf(Artifact(Current, schema, command.preserve)),
                 disk' = Put(Current, Cut(Artifact(Current, schema, command.preserve), n))
          PROVE  FilesInv'
      BY <1>7, <2>1, <3>2, PutKeepsFiles
    <3> QED BY <2>1, <3>1, <3>2
  <2>3. ~Working' /\ ~Compiling'
    BY <2>1 DEF Working, Compiling
  <2> QED BY <2>1, <2>2, <2>3
<1>10. CASE UNCHANGED vars
  <2>1. UNCHANGED <<parser, disk, command, schema, status>>
    BY <1>10 DEF vars, cli
  <2>2. Working => ParserText'
    BY <2>1, TextUnchanged
  <2>3. (Working' <=> Working) /\ (Compiling' <=> Compiling) /\ UNCHANGED <<parsed, mode>>
    BY <2>1 DEF Working, Compiling, parser
  <2> QED BY <1>b, <2>1, <2>2, <2>3
<1> QED
  BY <1>1, <1>2, <1>3, <1>4, <1>5, <1>6, <1>8, <1>9, <1>10 DEF Next

(* A command that is not for the backend alone has a public schema.        *)
LEMMA PublicIsArtifact ==
  ASSUME NEW c, c.targets \in Seq(Targets), c.mode # "backend", NEW version
  PROVE  PublicFile(version) \in Artifacts(c, version)
<1> DEFINE Rust == IF c.mode = "public" THEN << >> ELSE <<<<"rs">>>>
           Typ == <<<<"public.typ">>>>
           Bridges == IF c.mode = "public" THEN << >>
                      ELSE [i \in DOMAIN c.targets |-> Kinds(c.targets[i])]
           G == Groups(c)
           k == Len(Rust) + 1
<1>1. <<"rs">> \in Files /\ <<"public.typ">> \in Files
  BY FewFiles DEF FileKinds
<1>2. Rust \in Seq(Files) /\ Typ \in Seq(Files) /\ Len(Typ) = 1 /\ Typ[1] = <<"public.typ">>
  BY <1>1
<1>3. Bridges \in Seq(Files)
  <2>1. DOMAIN c.targets = 1 .. Len(c.targets) /\ Len(c.targets) \in Nat
    OBVIOUS
  <2>2. \A i \in 1 .. Len(c.targets) : Kinds(c.targets[i]) \in Files
    BY KindsAreFiles
  <2>3. [i \in 1 .. Len(c.targets) |-> Kinds(c.targets[i])] \in Seq(Files)
    BY <2>1, <2>2, IsASeq
  <2> QED  BY <2>1, <2>3
<1>4. G = (Rust \o Typ) \o Bridges
  BY DEF Groups
<1> HIDE DEF Rust, Typ, Bridges, G
<1>5. /\ Rust \o Typ \in Seq(Files) /\ Len(Rust \o Typ) = k /\ k \in Nat
      /\ (Rust \o Typ)[k] = <<"public.typ">>
  <2> DEFINE r == Len(Rust)
  <2>1. /\ Rust \o Typ \in Seq(Files) /\ Len(Rust \o Typ) = r + Len(Typ)
        /\ \A i \in 1 .. r + Len(Typ) : (Rust \o Typ)[i] = IF i <= r THEN Rust[i] ELSE Typ[i - r]
    BY <1>2, ConcatProperties
  <2>2. r \in Nat
    BY <1>2
  <2> HIDE DEF r
  <2>3. r + 1 \in 1 .. r + Len(Typ) /\ ~(r + 1 <= r) /\ (r + 1) - r = 1 /\ r + 1 \in Nat
    BY <1>2, <2>2
  <2>4. (Rust \o Typ)[r + 1] = <<"public.typ">>
    BY <1>2, <2>1, <2>3
  <2> QED BY <1>2, <2>1, <2>3, <2>4 DEF r
<1> DEFINE RT == Rust \o Typ
<1>6. k \in DOMAIN G /\ G[k] = <<"public.typ">>
  <2>1. k >= 1
    BY <1>2
  <2> HIDE DEF RT, k
  <2>2. G = RT \o Bridges /\ RT \in Seq(Files) /\ Len(RT) = k /\ RT[k] = <<"public.typ">>
    BY <1>4, <1>5 DEF RT
  <2>3. /\ Len(RT \o Bridges) = k + Len(Bridges) /\ (RT \o Bridges)[k] = RT[k]
        /\ k \in DOMAIN (RT \o Bridges)
    <3>1. /\ RT \o Bridges \in Seq(Files) /\ Len(RT \o Bridges) = Len(RT) + Len(Bridges)
          /\ \A i \in 1 .. Len(RT) + Len(Bridges) :
               (RT \o Bridges)[i] = IF i <= Len(RT) THEN RT[i] ELSE Bridges[i - Len(RT)]
      BY <1>3, <2>2, ConcatProperties
    <3>2. Len(RT) \in Nat /\ Len(Bridges) \in Nat
      BY <1>3, <2>2
    <3>3. k \in 1 .. Len(RT) + Len(Bridges) /\ k <= Len(RT)
      BY <2>1, <2>2, <3>2
    <3>4. DOMAIN (RT \o Bridges) = 1 .. Len(RT \o Bridges)
      BY <3>1
    <3> QED BY <2>2, <3>1, <3>3, <3>4
  <2> QED BY <2>2, <2>3
<1>7. "public.typ" \in Range(G[k])
  <2>1. 1 \in DOMAIN <<"public.typ">> /\ <<"public.typ">>[1] = "public.typ"
    OBVIOUS
  <2> QED BY <1>6, <2>1 DEF Range
<1> QED BY <1>6, <1>7 DEF Artifacts, PublicFile, G

(* The comments of the items are the first of the file, if there is none   *)
(* in front of the version.                                                *)
LEMMA ItemsAreFirst ==
  ASSUME ParserText, mode = "parsed", tokens[1].before = << >>
  PROVE  ItemsFirst(parsed)
<1> DEFINE n == Len(tokens)
<1>1. /\ IsFile(tokens) /\ at \in 1 .. n /\ assigned \in 1 .. at
      /\ FlattenSeq(parsed.item_comments) = CommentsOf(SubSeq(tokens, 2, assigned))
      /\ parsed.comments = CommentsOf(tokens)
  <2>1. Live
    BY DEF Live
  <2>2. assigned \in 0 .. at /\ assigned >= 1
    BY <2>1 DEF ParserText, AssignedInv
  <2> QED BY <2>2 DEF ParserText, Within, AssignedInv
<1>2. n \in Nat /\ n > 0 /\ IsText(tokens) /\ tokens \in Seq(Range(tokens))
  BY <1>1, FileFacts DEF IsSeq
<1>3. assigned \in 1 .. n /\ assigned \in Int /\ n \in Int
  BY <1>1, <1>2
<1>4. ASSUME NEW i \in 1 .. n + 1, NEW k \in 0 .. n
      PROVE  IsText(SubSeq(tokens, i, k))
  <2>1. \A j \in i .. k : tokens[j] \in Range(tokens)
    BY <1>2
  <2>2. i \in Int /\ k \in Int
    BY <1>2
  <2>3. SubSeq(tokens, i, k) \in Seq(Range(tokens))
    BY <2>1, <2>2, SubSeqProperties
  <2> QED BY <1>2, <2>3, TextBy DEF IsText
<1> DEFINE a == SubSeq(tokens, 1, 1)
           b == SubSeq(tokens, 2, assigned)
           c == SubSeq(tokens, assigned + 1, n)
<1>5. IsText(a) /\ IsText(b) /\ IsText(c)
  <2>1. /\ 1 \in 1 .. n + 1 /\ 1 \in 0 .. n /\ 2 \in 1 .. n + 1 /\ assigned \in 0 .. n
        /\ assigned + 1 \in 1 .. n + 1 /\ n \in 0 .. n
    BY <1>2, <1>3
  <2> QED BY <1>4, <2>1
<1>6. a \o (b \o c) = tokens
  <2>1. /\ 2 \in 1 .. n + 1 /\ assigned \in 2 - 1 .. n /\ n \in assigned .. n
        /\ 1 \in 1 .. n + 1 /\ 1 \in 1 - 1 .. n /\ n \in 1 .. n
    BY <1>2, <1>3
  <2>2. b \o c = SubSeq(tokens, 2, n)
    BY <1>2, <2>1, ConcatAdjacentSubSeq
  <2>3. SubSeq(tokens, 1, 1) \o SubSeq(tokens, 1 + 1, n) = SubSeq(tokens, 1, n)
    BY <1>2, <2>1, ConcatAdjacentSubSeq
  <2>4. SubSeq(tokens, 1, n) = tokens
    BY <1>2, SubSeqFull
  <2>5. 1 + 1 = 2
    OBVIOUS
  <2>6. SubSeq(tokens, 1, 1) \o SubSeq(tokens, 2, n) = tokens
    BY Zenon, <2>3, <2>4, <2>5
  <2> QED BY Zenon, <2>2, <2>6
<1>7. CommentsOf(a) = << >>
  <2>1. Len(a) = 1 /\ a[1] = tokens[1]
    <3>1. \A j \in 1 .. 1 : tokens[j] \in Range(tokens)
      BY <1>2
    <3>2. /\ Len(SubSeq(tokens, 1, 1)) = IF 1 <= 1 THEN 1 - 1 + 1 ELSE 0
          /\ \A i \in 1 .. 1 - 1 + 1 : SubSeq(tokens, 1, 1)[i] = tokens[1 + i - 1]
      BY <3>1, SubSeqProperties
    <3> QED BY <3>2
  <2> HIDE DEF a
  <2>2. DOMAIN a = 1 .. 1
    BY <1>5, <2>1, SeqFacts DEF IsText
  <2>3. Befores(a) = << << >> >>
    BY <2>1, <2>2 DEF Befores
  <2>4. CommentsOf(a) = FlattenSeq(<< << >> >>)
    BY <1>5, <2>3, BeforesType
  <2>5. << >> \in Seq(STRING)
    OBVIOUS
  <2> QED BY <2>4, <2>5, FlattenSingle
<1> HIDE DEF a, b, c
<1>8. /\ IsText(b \o c) /\ CommentsOf(b \o c) = CommentsOf(b) \o CommentsOf(c)
  BY <1>5, CommentsConcat
<1>9. CommentsOf(tokens) = << >> \o CommentsOf(b \o c)
  BY <1>5, <1>6, <1>7, <1>8, CommentsConcat
<1>10. CommentsOf(b \o c) \in Seq(STRING) /\ CommentsOf(c) \in Seq(STRING)
  BY <1>5, <1>8, BeforesType
<1>11. << >> \o CommentsOf(b \o c) = CommentsOf(b \o c)
  BY <1>10, ConcatEmptySeq
<1>12. parsed.comments = FlattenSeq(parsed.item_comments) \o CommentsOf(c)
  BY <1>1, <1>8, <1>9, <1>11 DEF b
<1> QED BY <1>10, <1>12 DEF ItemsFirst

(* With --preserve-comments a run that reports success has written a       *)
(* public schema with every comment of the input, once and in its order    *)
(* (codegen.rs:286-294; parser.rs:53-63, 385-412).                          *)
THEOREM CommentsCorrect == Spec => []CommentsAreCopied
<1>1. ASSUME IInv, TextInv PROVE CommentsAreCopied
  <2> SUFFICES ASSUME status = "ok", command.verb = "generate", command.preserve,
                      command.mode # "backend", tokens[1].before = << >>
               PROVE  CommentsOf(disk[PublicFile(schema.version)].tokens) = schema.comments
    BY DEF CommentsAreCopied
  <2> DEFINE file == PublicFile(schema.version)
  <2>1. ParserText /\ schema = parsed /\ mode = "parsed" /\ command.preserve = TRUE
    BY <1>1 DEF TextInv, Working, Compiling
  <2>2. ItemsFirst(schema)
    BY <2>1, ItemsAreFirst
  <2>3. SchemaShape(schema)
    BY <2>1 DEF ParserText, ParsedInv
  <2>4. Fresh(file)
    <3>1. SuccessInv /\ CommandInv
      BY <1>1 DEF IInv
    <3>2. file \in Artifacts(command, schema.version)
      BY <3>1, PublicIsArtifact DEF CommandInv
    <3> QED BY <3>1, <3>2 DEF SuccessInv
  <2>5. disk[file].tokens = Public(schema, command.preserve)
    <3>1. file[1] = "public.typ"
      BY DEF PublicFile
    <3> HIDE DEF file
    <3> QED BY <2>4, <3>1 DEF Fresh, Artifact
  <2>6. CommentsOf(Public(schema, command.preserve)) = schema.comments
    BY <2>1, <2>2, <2>3, PublicIsFile
  <2> QED BY <2>5, <2>6
<1>2. Init => IInv /\ TextInv
  BY InitInv, TextInit
<1>3. IInv /\ TextInv /\ [Next]_vars => IInv' /\ TextInv'
  BY IInvKept, TextKept
<1> QED BY <1>1, <1>2, <1>3, PTL DEF Spec
=============================================================================
