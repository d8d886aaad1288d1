---------------------------- MODULE SchemaParser ----------------------------
(***************************************************************************)
(* The recursive descent of parser.rs over the tokens of a schema file:    *)
(* one action per turn of a loop.  Names are words without a boundary      *)
(* check in the code; here a name is never a keyword's prefix.             *)
(***************************************************************************)
EXTENDS PublicSchema

VARIABLES
  tokens,     \* the file
  at,         \* the next token
  mode,       \* the loop the parser is in, or how it ended
  parsed,     \* the schema so far
  item,       \* the item being parsed
  assigned    \* tokens whose comments belong to items already parsed

parser == <<tokens, at, mode, parsed, item, assigned>>

NoItem == [kind |-> "none"]
EmptySchema ==
  [version |-> 0, items |-> << >>, comments |-> << >>, item_comments |-> << >>,
   functions |-> << >>]

Parsing ==
  mode \in {"version", "items", "alias end", "fields", "variants", "variant end", "bits",
            "functions"}

BeginParse(file) ==
  /\ tokens' = file
  /\ at' = 1
  /\ mode' = "version"
  /\ parsed' = EmptySchema
  /\ item' = NoItem
  /\ assigned' = 0

(* The tokens from position i on have these shapes.                        *)
Looks(i, shapes) ==
  /\ i + Len(shapes) - 1 <= Len(tokens)
  /\ \A k \in DOMAIN shapes : tokens[i + k - 1].shape = shapes[k]

(* An optional token: how many there are, and its value.                   *)
Opt(i, shape) == IF Looks(i, <<shape>>) THEN 1 ELSE 0
OptValue(i, shape) == IF Looks(i, <<shape>>) THEN Some(tokens[i].value) ELSE None

(* An item has ended; the comments of the tokens up to there are its own.  *)
Complete(it, next, upto) ==
  /\ parsed' = [parsed EXCEPT
                  !.items = Append(@, it),
                  !.item_comments =
                     Append(@, CommentsOf(SubSeq(tokens, assigned + 1, upto)))]
  /\ assigned' = upto
  /\ item' = NoItem
  /\ at' = next
  /\ mode' = "items"

ParseVersion ==
  /\ mode = "version"
  /\ Looks(1, <<"version">>)
  /\ parsed' = [parsed EXCEPT !.version = tokens[1].value]
  /\ at' = 2
  /\ assigned' = 1
  /\ mode' = "items"
  /\ UNCHANGED <<tokens, item>>

ParseEnd ==
  /\ mode = "items"
  /\ Looks(at, <<"eof">>)
  /\ mode' = "parsed"
  /\ parsed' = [parsed EXCEPT !.comments = CommentsOf(tokens)]
  /\ UNCHANGED <<tokens, at, item, assigned>>

(* An ID in front of a type, of flags or of an enum is read and dropped.   *)
First == at + Opt(at, "cid")

AtAlias == mode = "items" /\ Looks(First, <<"type", "name", "=", "ty">>)
AtFlags == mode = "items" /\ Looks(First, <<"flags", "enum", "name", "{">>)
AtStruct == mode = "items" /\ Looks(First, <<"struct", "name", "{">>)
AtEnum == mode = "items" /\ Looks(First, <<"enum", "name", "{">>)

ParseAlias ==
  /\ AtAlias
  /\ item' = [kind |-> "alias", name |-> tokens[First + 1].value,
              ty |-> tokens[First + 3].value, exact |-> OptValue(First + 4, "exact_len")]
  /\ at' = First + 4 + Opt(First + 4, "exact_len")
  /\ mode' = "alias end"
  /\ UNCHANGED <<tokens, parsed, assigned>>

(* Looking for the semicolon skips the comments before the next token.     *)
EndAlias ==
  /\ mode = "alias end"
  /\ Complete(item, at + Opt(at, ";"), at)
  /\ UNCHANGED tokens

Open(opened, next, loop) ==
  /\ item' = opened
  /\ at' = next
  /\ mode' = loop
  /\ UNCHANGED <<tokens, parsed, assigned>>

OpenFlags ==
  /\ AtFlags
  /\ Open([kind |-> "flags", name |-> tokens[First + 2].value,
           underlying |-> tokens[First].value, bits |-> << >>], First + 4, "bits")

OpenStruct ==
  /\ AtStruct
  /\ Open([kind |-> "struct", name |-> tokens[First + 1].value,
           cid |-> OptValue(at, "cid"), fields |-> << >>], First + 3, "fields")

OpenEnum ==
  /\ AtEnum
  /\ Open([kind |-> "enum", name |-> tokens[First + 1].value, variants |-> << >>],
          First + 3, "variants")

(* The brace that ends an item, wherever items end with one.               *)
CloseItem ==
  /\ \/ mode \in {"variants", "bits"}
     \/ mode = "fields" /\ item.kind = "struct"
  /\ Looks(at, <<"}">>)
  /\ Complete(item, at + 1, at)
  /\ UNCHANGED tokens

(* Where the parts of a field begin: its guard, then its deprecation, then *)
(* its name.                                                               *)
Deprecation == at + Opt(at, "guard")
FieldName == Deprecation + Opt(Deprecation, "deprecated")
AfterField == FieldName + 3 + Opt(FieldName + 3, "exact_len")

AtField ==
  /\ mode = "fields"
  /\ Looks(FieldName, <<"name", ":", "ty">>)
  /\ Looks(AfterField, <<"}">>) \/ Looks(AfterField, <<",">>)

FieldRead ==
  [name |-> tokens[FieldName].value,
   guard |-> OptValue(at, "guard"),
   deprecated |-> OptValue(Deprecation, "deprecated"),
   ty |-> tokens[FieldName + 2].value,
   exact |-> OptValue(FieldName + 3, "exact_len")]

(* A field of a struct, or of the variant that was opened last.            *)
ParseField ==
  /\ AtField
  /\ item' = IF item.kind = "struct"
             THEN [item EXCEPT !.fields = Append(@, FieldRead)]
             ELSE [item EXCEPT !.variants[Len(item.variants)].fields = Append(@, FieldRead)]
  /\ at' = AfterField + Opt(AfterField, ",")
  /\ UNCHANGED <<tokens, mode, parsed, assigned>>

(* A name opens a variant; its fields are a loop of their own.             *)
VariantName == at + Opt(at, "cid")

AtVariant == mode = "variants" /\ Looks(VariantName, <<"name">>)

ParseVariant ==
  /\ AtVariant
  /\ item' = [item EXCEPT !.variants = Append(@,
                [name |-> tokens[VariantName].value, cid |-> OptValue(at, "cid"),
                 fields |-> << >>, value |-> None])]
  /\ at' = VariantName + 1 + Opt(VariantName + 1, "{")
  /\ mode' = IF Looks(VariantName + 1, <<"{">>) THEN "fields" ELSE "variant end"
  /\ UNCHANGED <<tokens, parsed, assigned>>

(* Mutant: the brace that ends the fields is left for the next loop.       *)
MCloseVariant ==
  /\ mode = "fields" /\ item.kind = "enum"
  /\ Looks(at, <<"}">>)
  /\ mode' = "variant end"
  /\ UNCHANGED <<tokens, at, parsed, item, assigned>>

CloseVariant ==
  /\ mode = "fields" /\ item.kind = "enum"
  /\ Looks(at, <<"}">>)
  /\ at' = at + 1
  /\ mode' = "variant end"
  /\ UNCHANGED <<tokens, parsed, item, assigned>>

AtVariantEnd == mode = "variant end" /\ (Looks(at, <<"=">>) => Looks(at + 1, <<"number">>))

EndVariant ==
  /\ AtVariantEnd
  /\ LET number == IF Looks(at, <<"=">>) THEN 2 ELSE 0
     IN /\ item' = [item EXCEPT !.variants[Len(item.variants)].value =
                      IF number = 0 THEN None ELSE Some(tokens[at + 1].value)]
        /\ at' = at + number + Opt(at + number, ",")
  /\ mode' = "variants"
  /\ UNCHANGED <<tokens, parsed, assigned>>

AtBit == mode = "bits" /\ Looks(at, <<"name", "=", "number">>)

ParseBit ==
  /\ AtBit
  /\ item' = [item EXCEPT !.bits =
                Append(@, [name |-> tokens[at].value, value |-> tokens[at + 2].value])]
  /\ at' = at + 3 + Opt(at + 3, ",")
  /\ UNCHANGED <<tokens, mode, parsed, assigned>>

AtFunctions == mode = "items" /\ Looks(at, <<"functions", "{">>)

OpenFunctions ==
  /\ AtFunctions
  /\ at' = at + 2
  /\ mode' = "functions"
  /\ UNCHANGED <<tokens, parsed, item, assigned>>

FunctionName == at + Opt(at, "deprecated")

AtFunction == mode = "functions" /\ Looks(FunctionName, <<"name", ":", "name", "->", "name">>)

ParseFunction ==
  /\ AtFunction
  /\ parsed' = [parsed EXCEPT !.functions = Append(@,
                  [name |-> tokens[FunctionName].value,
                   request |-> tokens[FunctionName + 2].value,
                   result |-> tokens[FunctionName + 4].value,
                   deprecated |-> OptValue(at, "deprecated")])]
  /\ at' = FunctionName + 5 + Opt(FunctionName + 5, ";")
  /\ UNCHANGED <<tokens, mode, item, assigned>>

(* The functions are the last section.                                     *)
AtLastBrace == mode = "functions" /\ Looks(at, <<"}", "eof">>)

CloseFunctions ==
  /\ AtLastBrace
  /\ mode' = "parsed"
  /\ parsed' = [parsed EXCEPT !.comments = CommentsOf(tokens)]
  /\ UNCHANGED <<tokens, at, item, assigned>>

Understood ==
  \/ mode = "version" /\ Looks(1, <<"version">>)
  \/ mode = "items" /\ Looks(at, <<"eof">>)
  \/ AtAlias \/ AtFlags \/ AtStruct \/ AtEnum \/ AtFunctions
  \/ mode = "alias end" \/ AtVariantEnd
  \/ mode \in {"fields", "variants", "bits"} /\ Looks(at, <<"}">>)
  \/ AtField \/ AtVariant \/ AtBit \/ AtFunction \/ AtLastBrace

ParseError ==
  /\ Parsing
  /\ ~Understood
  /\ mode' = "parse error"
  /\ UNCHANGED <<tokens, at, parsed, item, assigned>>

ParserStep ==
  \/ ParseVersion \/ ParseEnd \/ ParseAlias \/ EndAlias
  \/ OpenFlags \/ OpenStruct \/ OpenEnum \/ OpenFunctions
  \/ ParseField \/ ParseVariant \/ EndVariant \/ ParseBit \/ ParseFunction
  \/ CloseItem \/ CloseVariant \/ CloseFunctions \/ ParseError
=============================================================================
