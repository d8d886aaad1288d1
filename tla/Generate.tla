------------------------------ MODULE Generate ------------------------------
(***************************************************************************)
(* The command line (main.rs, artifacts.rs): runs of `check` and           *)
(* `generate` over one output directory that also holds the schemas.       *)
(* A run reads its input, compiles it and writes the artifacts one after   *)
(* the other; a write may fail and the process may be killed between or in *)
(* the midst of the writes.  The user edits the schema and runs again,     *)
(* also on the public schema that an earlier run wrote.                    *)
(***************************************************************************)
EXTENDS SchemaParser

CONSTANTS
  Sources,     \* the schema files a user may write
  Edits,       \* those they may turn one into between two runs
  Commands,    \* [verb, mode, targets, preserve] of a command line
  MaxRuns,     \* bound: runs of the command
  MaxFaults    \* bound: failed writes and kills

Targets == {"python", "golang", "typescript"}

ASSUME CommandsAssumption ==
  \A c \in Commands :
    /\ c.verb \in {"check", "generate"}
    /\ c.mode \in {"all", "backend", "public"}
    /\ c.targets \in Seq(Targets)
    /\ c.preserve \in BOOLEAN

ASSUME SourcesAssumption == \A file \in Sources \cup Edits : IsFile(file)

ASSUME BoundsAssumption == MaxRuns \in Nat /\ MaxFaults \in Nat

VARIABLES
  disk,        \* file -> what it holds
  runs, faults,
  command,     \* the command line of the present run, and its input
  schema,      \* what it compiled
  place,       \* the file to be written next: its group, and its place there
  status       \* "idle", "compiling", "writing", or how the run ended

cli == <<disk, runs, faults, command, schema, place, status>>
vars == <<parser, cli>>

Source == <<"typ", 0>>
PublicFile(version) == <<"public.typ", version>>

(* What a file holds: its tokens if it is a schema, the schema it was made *)
(* from if it was made by the compiler, and whether it is all there.       *)
Written(by_user) == [tokens |-> by_user, from |-> EmptySchema, whole |-> TRUE]
Artifact(file, from, preserve) ==
  [tokens |-> IF file[1] = "public.typ" THEN Public(from, preserve) ELSE << >>,
   from |-> from, whole |-> TRUE]

(* A file that was cut off after n tokens.  Bound: only at its start and   *)
(* after a brace, where what is left may be read as a smaller schema.      *)
CutsOf(artifact) ==
  {0} \cup {n \in 1 .. Len(artifact.tokens) - 1 : artifact.tokens[n].shape = "}"}

Cut(artifact, n) ==
  [artifact EXCEPT !.tokens = Append(SubSeq(@, 1, n), Sign("eof")), !.whole = FALSE]

Kinds(target) ==
  CASE target = "python" -> <<"python bridge", "py">>
    [] target = "golang" -> <<"golang bridge", "go", "h">>
    [] target = "typescript" -> <<"typescript bridge", "ts">>

(* What a command writes, in its order: a group for each target.           *)
Groups(c) ==
  (IF c.mode = "public" THEN << >> ELSE <<<<"rs">>>>)
    \o (IF c.mode = "backend" THEN << >> ELSE <<<<"public.typ">>>>)
    \o (IF c.mode = "public" THEN << >>
        ELSE [i \in DOMAIN c.targets |-> Kinds(c.targets[i])])

Artifacts(c, version) ==
  UNION {{<<kind, version>> : kind \in Range(Groups(c)[i])} : i \in DOMAIN Groups(c)}

StartOf(group) == [group |-> group, file |-> 1]
AnyLeft == place.group <= Len(Groups(command))
Current == <<Groups(command)[place.group][place.file], schema.version>>

Ended == {"ok", "usage", "compile error", "panic", "io error", "killed"}

TypeOK ==
  /\ Source \in DOMAIN disk
  /\ status \in Ended \cup {"idle", "compiling", "writing"}
  /\ place.group \in 1 .. Len(Groups(command)) + 1
  /\ AnyLeft => place.file \in 1 .. Len(Groups(command)[place.group])
  /\ runs \in 0 .. MaxRuns /\ faults \in 0 .. MaxFaults

Init ==
  /\ \E file \in Sources : disk = [f \in {Source} |-> Written(file)]
  /\ runs = 0 /\ faults = 0
  /\ command = [verb |-> "check", mode |-> "all", targets |-> << >>, preserve |-> FALSE,
                input |-> Source]
  /\ schema = EmptySchema
  /\ place = StartOf(1)
  /\ status = "idle"
  /\ tokens = << >> /\ at = 1 /\ mode = "parsed" /\ parsed = EmptySchema
  /\ item = NoItem /\ assigned = 0

(***************************************************************************)
(* A run                                                                   *)
(***************************************************************************)

AtRest == status \in Ended \cup {"idle"}

Edit ==
  /\ AtRest /\ runs \in 1 .. MaxRuns - 1
  /\ \E file \in Edits :
       /\ disk[Source] # Written(file)
       /\ disk' = [disk EXCEPT ![Source] = Written(file)]
  /\ status' = "idle"
  /\ UNCHANGED <<parser, runs, faults, command, schema, place>>

(* The input is read once, before anything is written.                     *)
Run ==
  /\ AtRest /\ runs < MaxRuns
  /\ \E c \in Commands, input \in {f \in DOMAIN disk : f[1] \in {"typ", "public.typ"}} :
       /\ command' = [verb |-> c.verb, mode |-> c.mode, targets |-> c.targets,
                      preserve |-> c.preserve, input |-> input]
       /\ BeginParse(disk[input].tokens)
  /\ runs' = runs + 1
  /\ place' = StartOf(1)
  /\ status' = "compiling"
  /\ UNCHANGED <<disk, faults, schema>>

Parse ==
  /\ status = "compiling"
  /\ ParserStep
  /\ UNCHANGED cli

RefuseSchema ==
  /\ status = "compiling"
  /\ mode = "parse error" \/ (mode = "parsed" /\ ~Valid(parsed))
  /\ status' = "compile error"
  /\ UNCHANGED <<parser, disk, runs, faults, command, schema, place>>

(* What the generators cannot do although validation lets it pass: flags   *)
(* over u128 are unreachable!(), and aliases of one another have no length.*)
Panics ==
  \/ \E i \in DOMAIN parsed.items :
       parsed.items[i].kind = "flags" /\ parsed.items[i].underlying = "u128"
  \/ \E circle \in SUBSET Names(parsed) \ {{}} : \A name \in circle :
       /\ IsA("alias", name, parsed)
       /\ Len(ItemOf(name, parsed).ty) = 1
       /\ ItemOf(name, parsed).ty[1] \in circle

Panic ==
  /\ status = "compiling" /\ mode = "parsed" /\ Valid(parsed) /\ Panics
  /\ status' = "panic"
  /\ UNCHANGED <<parser, disk, runs, faults, command, schema, place>>

Compiled == status = "compiling" /\ mode = "parsed" /\ Valid(parsed) /\ ~Panics

Check ==
  /\ Compiled /\ command.verb = "check"
  /\ schema' = parsed
  /\ status' = "ok"
  /\ UNCHANGED <<parser, disk, runs, faults, command, place>>

(* Targets with a public-only generation are refused only after compiling. *)
RefuseTargets ==
  /\ Compiled /\ command.verb = "generate"
  /\ command.mode = "public" /\ command.targets # << >>
  /\ status' = "usage"
  /\ UNCHANGED <<parser, disk, runs, faults, command, schema, place>>

(* Mutant: the Rust file is written while the rest is still compiled.      *)
MBeginWriting ==
  /\ Compiled /\ command.verb = "generate"
  /\ schema' = parsed
  /\ place' = StartOf(2)
  /\ status' = "writing"
  /\ UNCHANGED <<parser, disk, runs, faults, command>>

BeginWriting ==
  /\ Compiled /\ command.verb = "generate"
  /\ ~(command.mode = "public" /\ command.targets # << >>)
  /\ schema' = parsed
  /\ place' = StartOf(1)
  /\ status' = "writing"
  /\ UNCHANGED <<parser, disk, runs, faults, command>>

(* The file is there now, in the place of an older one.                    *)
Put(file, content) ==
  [f \in DOMAIN disk \cup {file} |-> IF f = file THEN content ELSE disk[f]]

(* Mutant: a group is not left behind when its last file is written.       *)
MAfterPlace == [place EXCEPT !.file = @ + 1]

AfterPlace ==
  IF place.file < Len(Groups(command)[place.group])
  THEN [place EXCEPT !.file = @ + 1]
  ELSE StartOf(place.group + 1)

Write ==
  /\ status = "writing" /\ AnyLeft
  /\ disk' = Put(Current, Artifact(Current, schema, command.preserve))
  /\ place' = AfterPlace
  /\ UNCHANGED <<parser, runs, faults, command, schema, status>>

Succeed ==
  /\ status = "writing" /\ ~AnyLeft
  /\ status' = "ok"
  /\ UNCHANGED <<parser, disk, runs, faults, command, schema, place>>

(* fs::write truncates the file and then fills it: a failure, or the end   *)
(* of the process, leaves the old file, or the new one up to some token.   *)
Interrupted(how) ==
  /\ status = "writing" /\ AnyLeft
  /\ faults < MaxFaults
  /\ faults' = faults + 1
  /\ \/ UNCHANGED disk
     \/ LET artifact == Artifact(Current, schema, command.preserve)
        IN \E n \in CutsOf(artifact) : disk' = Put(Current, Cut(artifact, n))
  /\ status' = how
  /\ UNCHANGED <<parser, runs, command, schema, place>>

WriteFails == Interrupted("io error")
Killed == Interrupted("killed")

Next ==
  \/ Edit \/ Run \/ Parse \/ RefuseSchema \/ Panic \/ Check \/ RefuseTargets
  \/ BeginWriting \/ Write \/ Succeed \/ WriteFails \/ Killed

Spec == Init /\ [][Next]_vars

(***************************************************************************)
(* Properties                                                              *)
(***************************************************************************)

(* A run that reported success has written every artifact of the command,  *)
(* whole, and all from the schema it compiled, whatever earlier runs left  *)
(* in the directory (main.rs:230-289).                                     *)
SuccessIsWhole ==
  status = "ok" /\ command.verb = "generate" =>
    \A file \in Artifacts(command, schema.version) :
      file \in DOMAIN disk /\ disk[file].whole /\ disk[file].from = schema

(* Fields the parser does not take in the order they are printed in, and   *)
(* guards that are not printed though an ID was computed with them.        *)
PrintedWrong(from) ==
  \E i \in DOMAIN from.items :
    \/ /\ from.items[i].kind = "struct"
       /\ \E f \in Range(from.items[i].fields) : f.guard # None /\ f.deprecated # None
    \/ /\ from.items[i].kind = "enum"
       /\ \E v \in Range(from.items[i].variants) :
            \E f \in Range(v.fields) : f.guard # None

(* What peers must agree on: the items, their IDs and the functions.       *)
Bare(field) == <<field.name, field.ty, field.exact>>

ItemContract(it, of) ==
  CASE it.kind = "struct" -> <<it.name, StructCid(it, of), it.fields>>
    [] it.kind = "enum" /\ HasFields(it) ->
         <<it.name,
           [k \in DOMAIN it.variants |->
              <<it.variants[k].name, CidOfVariant(it, it.variants[k], of),
                [j \in DOMAIN it.variants[k].fields |-> Bare(it.variants[k].fields[j])]>>]>>
    [] OTHER -> it

Contract(of) ==
  <<of.version, of.functions, [i \in DOMAIN of.items |-> ItemContract(of.items[i], of)]>>

Uncommented(file) == [i \in DOMAIN file |-> [file[i] EXCEPT !.before = << >>]]

(* A public schema that was written whole is read again as the schema it   *)
(* was made from, with the same constructor IDs, and makes the same public *)
(* schema again (README.en.md:344).  Excepted is what is printed wrong     *)
(* (codegen.rs:195-233, 319-346).                                          *)
PublicKeepsSchema ==
  LET file == disk[command.input]
  IN status = "compiling" /\ mode \in {"parsed", "parse error"}
     /\ command.input # Source /\ file.whole /\ ~PrintedWrong(file.from) =>
       /\ mode = "parsed" /\ Valid(parsed)
       /\ Contract(parsed) = Contract(file.from)
       /\ Public(parsed, FALSE) = Uncommented(file.tokens)

(* With --preserve-comments every comment of the input is in the public    *)
(* schema, once and in its order.  Excepted are files with a comment in    *)
(* front of the version: it belongs to no item, but is taken for one of    *)
(* those after the last (codegen.rs:286-294).                              *)
CommentsAreCopied ==
  status = "ok" /\ command.verb = "generate" /\ command.preserve
  /\ command.mode # "backend" /\ tokens[1].before = << >> =>
    CommentsOf(disk[PublicFile(schema.version)].tokens) = schema.comments

(* No input holds the parser in a loop: every step consumes a token, or    *)
(* ends an alias or a variant whose tokens are consumed and returns to the *)
(* loop around it (parser.rs:44-75, 137-156, 203-270).                     *)
ParserAdvances ==
  [][status = "compiling" /\ Parsing /\ mode' \notin {"parsed", "parse error"} =>
       \/ at' > at
       \/ at' = at /\ mode \in {"alias end", "variant end"}
            /\ mode' \in {"items", "variants"}]_vars
=============================================================================
