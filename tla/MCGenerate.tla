----------------------------- MODULE MCGenerate -----------------------------
(* Schema files that differ from a plain one in one or two of their parts. *)
EXTENDS Generate

MCNormal(name) == IF name = "A_" THEN "a" ELSE name

Said(comment, file) == [file EXCEPT ![1].before = <<comment>>]
IfSaid(here, there, file) == IF here = there THEN Said(there, file) ELSE file

Version == <<Token("version", 1)>>
FlagsF(underlying) ==
  <<Token("flags", underlying), Sign("enum"), Name("F"), Sign("{"),
    Name("a"), Sign("="), Token("number", 0), Sign(","), Sign("}")>>
TypeA(ty, exact, end) ==
  <<Sign("type"), Name("A"), Sign("="), Token("ty", ty)>> \o exact \o end
Guard == Token("guard", [owner |-> "f", bit |-> "A_"])
GuardAfter == Token("guard", [owner |-> "g", bit |-> "a"])
Deprecated == Token("deprecated", "old")
FieldOf(name, ty) == <<Name(name), Sign(":"), Token("ty", ty)>>
Exact2 == <<Token("exact_len", 2)>>

StructS(attributes) ==
  Signs(<<"struct">>) \o <<Name("S")>> \o Signs(<<"{">>)
    \o FieldOf("f", <<"F">>) \o Signs(<<",">>)
    \o attributes \o FieldOf("x", ByteVec) \o Exact2 \o Signs(<<",">>)
    \o FieldOf("g", <<"F">>) \o Signs(<<"}">>)

EnumE(variants) == Signs(<<"enum">>) \o <<Name("E")>> \o Signs(<<"{">>) \o variants \o Signs(<<"}">>)
UnitX(n) == <<Name("X"), Sign("="), Token("number", n), Sign(",")>>
VariantY(attributes) ==
  <<Name("Y"), Sign("{")>> \o FieldOf("f", <<"F">>) \o Signs(<<",">>)
    \o attributes \o FieldOf("v", <<"Optional", "A">>) \o Signs(<<"}">>)

Functions ==
  Signs(<<"functions", "{">>)
    \o <<Deprecated, Name("a.b"), Sign(":"), Name("S"), Sign("->"), Name("Empty"), Sign(";"),
         Name("a.c"), Sign(":"), Name("E"), Sign("->"), Name("A")>> \o Signs(<<"}">>)

(* The parts of a file and what may stand in their place.                  *)
Alternatives ==
  [flags |-> {"u8", "u128", "bool"},
   alias |-> {"bytes", "itself", "no semicolon"},
   field |-> {"guard", "plain", "guard deprecated", "deprecated guard", "deprecated", "later"},
   enum |-> {"mixed", "unit", "guarded", "no number"},
   end |-> {"functions", "nothing", "functions first"},
   comment |-> {"none", "header", "first", "alias", "struct", "last"}]

Base == [flags |-> "u8", alias |-> "bytes", field |-> "guard", enum |-> "mixed",
         end |-> "functions", comment |-> "none"]

Parts == DOMAIN Base
Changes == UNION {{<<p, c>> : c \in Alternatives[p] \ {Base[p]}} : p \in Parts}
With(file, change) == [file EXCEPT ![change[1]] = change[2]]
Files ==
  {Base} \cup {With(Base, c) : c \in Changes}
    \cup {With(With(Base, c), d) : c \in {x \in Changes : x[1] = "end"},
                                   d \in {x \in Changes : x[1] = "comment"}}

AliasOf(f) ==
  CASE f.alias = "itself" -> TypeA(<<"A">>, << >>, Signs(<<";">>))
    [] f.alias = "no semicolon" -> TypeA(ByteVec, Exact2, << >>)
    [] OTHER -> TypeA(ByteVec, Exact2, Signs(<<";">>))

FieldAttributes(f) ==
  CASE f.field = "plain" -> << >>
    [] f.field = "guard" -> <<Guard>>
    [] f.field = "deprecated" -> <<Deprecated>>
    [] f.field = "guard deprecated" -> <<Guard, Deprecated>>
    [] f.field = "deprecated guard" -> <<Deprecated, Guard>>
    [] f.field = "later" -> <<GuardAfter>>

Variants(f) ==
  CASE f.enum = "mixed" -> UnitX(3) \o VariantY(<<Deprecated>>)
    [] f.enum = "guarded" -> UnitX(3) \o VariantY(<<Guard>>)
    [] f.enum = "unit" -> UnitX(3)
    [] f.enum = "no number" -> <<Name("X"), Sign(",")>>

FileOf(f) ==
  IfSaid(f.comment, "header", Version)
    \o (IF f.end = "functions first" THEN Functions ELSE << >>)
    \o IfSaid(f.comment, "first", FlagsF(f.flags))
    \o IfSaid(f.comment, "alias", AliasOf(f))
    \o IfSaid(f.comment, "struct", StructS(FieldAttributes(f)))
    \o EnumE(Variants(f))
    \o IfSaid(f.comment, "last",
         (IF f.end = "functions" THEN Functions ELSE << >>) \o Signs(<<"eof">>))

MCSources == {FileOf(f) : f \in Files}
MCEdits == {FileOf(With(Base, <<"field", "deprecated">>))}

Line(verb, how, targets, preserve) ==
  [verb |-> verb, mode |-> how, targets |-> targets, preserve |-> preserve]

MCCommands ==
  {Line("check", "all", << >>, FALSE),
   Line("generate", "all", <<"python", "golang">>, TRUE),
   Line("generate", "backend", <<"typescript">>, FALSE),
   Line("generate", "public", << >>, TRUE),
   Line("generate", "public", <<"golang">>, FALSE)}
=============================================================================
