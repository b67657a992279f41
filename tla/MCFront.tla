------------------------------- MODULE MCFront -------------------------------
(* The language's front end on small instances: matches of several values, *)
(* terms printed and read back, the items of a module that become          *)
(* declarations, source resolved once, then cloned and substituted, and    *)
(* terms whose names are substituted, compared and shown.                  *)
EXTENDS PatternMatch, Notation, Declarations, Bindings, TermNames

VARIABLE part

-----------------------------------------------------------------------------
(* Declared types, a constructor of two of them among their names.         *)

MCTypes == [N |-> <<[name |-> "z", fields |-> <<>>], [name |-> "s", fields |-> <<"N">>]>>,
            B |-> <<[name |-> "t", fields |-> <<>>], [name |-> "z", fields |-> <<>>]>>,
            P |-> <<[name |-> "p", fields |-> <<"N", "B">>]>>]
SucOf(pattern) == Con("s", <<pattern>>)
OfN == {Name("x"), Name("_"), Name("z"), Name("t"), SucOf(Name("y")), SucOf(SucOf(Name("x"))), SucOf(Name("z"))}
OfB == {Name("x"), Name("t"), Name("z")}
MCPatterns == [N |-> OfN, B |-> OfB,
               P |-> {Name("x")} \cup {Con("p", <<a, b>>) : a \in {Name("x"), Name("z"), SucOf(Name("x"))}, b \in OfB},
               other |-> {Name("x"), Name("_"), Name("z")}]
MCProblems == {<<"N", "B">>, <<"P">>, <<"other", "B">>}

-----------------------------------------------------------------------------
(* Two notations, one with the powers of the other, and a comparison.      *)

MCOperations ==
  [o \in {"add", "lt", "mul", "pow"} |->
     CASE o = "add" -> [notation |-> "unat", operator |-> "+", view |-> None]
       [] o = "lt" -> [notation |-> "unat", operator |-> "<", view |-> None]
       [] o = "mul" -> [notation |-> "ring", operator |-> "*", view |-> None]
       [] o = "pow" -> [notation |-> "ring", operator |-> "^", view |-> "unat"]]
Lit(x, e) == [dim |-> x, end |-> e]
MCFormulas == {<<<<Lit("i", "0"), Lit("j", "1")>>, <<Lit("j", "0")>>>>}
MCSiblings == {Var("x"), T("Num", <<>>, <<>>)}

-----------------------------------------------------------------------------
(* A theory whose declarations have the names of others, of the module and *)
(* of its import, checked or not.                                          *)

Item(kind, name, constructors, refs, members) ==
  [kind |-> kind, name |-> name, constructors |-> constructors, refs |-> refs, family |-> "", members |-> members, item |-> 0]
Def(name, refs) == Item("def", name, {}, refs, <<>>)
Member(family, d) == [d EXCEPT !.family = family]
Theory(name, parents, members) == Item("theory", name, {}, parents, members)

NameA == <<"a">>
NameB == <<"b">>
NameD == <<"d">>
NameT == <<"T">>
NameF == <<"T", "f">>
NameHom == <<"T", "hom">>
NameIso == <<"T", "iso">>
Plain(n) == <<"", n>>
Own(n) == <<"m", n>>

MCLabels == {NameA, NameB, NameD, NameT, NameF, NameHom, NameIso}
MCItems ==
  {Def(NameA, <<>>), Def(NameA, <<Plain(NameHom)>>), Def(NameB, <<Own(NameA)>>), Def(NameT, <<Plain(NameA)>>),
   Def(NameB, <<Own(NameIso)>>), Def(NameA, <<Own(NameD), <<"l", NameA>>>>),
   Item("inductive", NameA, {NameB}, <<Plain(NameT)>>, <<>>),
   Item("inductive", NameD, {NameB}, <<Own(NameD)>>, <<>>),
   Theory(NameT, <<>>, <<Member("base", Def(NameT, <<Plain(NameA)>>)), Member("base", Def(NameF, <<Plain(NameT)>>)),
                         Member("hom", Def(NameHom, <<Own(NameF)>>)), Member("iso", Def(NameIso, <<Plain(NameHom)>>))>>),
   Theory(NameA, <<Plain(NameT)>>, <<Member("initial", Item("inductive", NameA, {NameB}, <<>>, <<>>)),
                                     Member("initial", Def(NameT, <<Plain(NameA)>>))>>),
   Item("directive", NameA, {}, <<Own(NameHom), <<"l", NameF>>>>, <<>>)}
MCImports == {[n \in {NameA, NameF, NameHom} |-> n # NameA], [n \in {NameB, NameT, NameIso} |-> TRUE]}
MCJoined == {NameD}

-----------------------------------------------------------------------------
(* Binders, patterns and openings around names, and around one another; a  *)
(* model that offers the name of a declaration, or of a receiver.          *)

Occurrence(name) == [kind |-> "name", name |-> name, kids |-> <<>>]
Under(kind, name, body) == [kind |-> kind, name |-> name, kids |-> <<body>>]
On(fn, arg) == [kind |-> "app", name |-> <<>>, kids |-> <<fn, arg>>]
Around1(bodies) ==
  {Under("open", <<>>, b) : b \in bodies} \cup {Under(k, n, b) : k \in {"lam", "clause"}, n \in {NameA, NameT}, b \in bodies}
OneBinder == Around1({Occurrence(NameA), Occurrence(NameF)})
TwoBinders == {s \in Around1(OneBinder) : s.kind # s.kids[1].kind}

OpenedBinder == Under("open", <<>>, Under("lam", NameA, Occurrence(NameA)))
MCGlobals == <<NameA, NameF, NameB>>
MCSourceTerms ==
  TwoBinders \cup Around1({On(Occurrence(f), Occurrence(a)) : f, a \in {NameA, NameF}})
    \cup {On(f, a) : f \in {s \in TwoBinders : s.kind = "lam"}, a \in {s \in OneBinder : s.kids[1] = Occurrence(NameA)}}
MCInserted ==
  {Occurrence(NameA), Occurrence(NameF), Under("clause", NameA, On(Occurrence(NameA), Occurrence(NameB))), Under("lam", NameT, Occurrence(NameF)),
   Under("open", <<>>, Occurrence(NameA)), On(Occurrence(NameD), Occurrence(NameA))}
MCOpenings == {<<>>, [x \in {"a"} |-> 3], [x \in {"T"} |-> 3]}

-----------------------------------------------------------------------------
(* Names of which one is another's stem, a label and a dimension alike, a  *)
(* dimension that has no name, and names given that others have.           *)

NameX == <<"x", 0>>
NameX1 == <<"x", 1>>
NameG == <<"f", 0>>
DimI == <<"i", 0>>
DimUnnamed == <<"d", 7>>
MCTermVariables == {NameX, NameX1, NameG}
MCTermLabels == {NameG, DimI}
MCTermDimensions == {DimI, DimUnnamed}
MCUnnamedDims == {DimUnnamed}
MCReadableNames == <<DimI, <<"j", 0>>, <<"k", 0>>, <<"i", 1>>>>
MCGivenNames == {<<>>, NameX1 :> NameX, NameX :> NameG, NameX1 :> DimI}

-----------------------------------------------------------------------------
FrontInit ==
  /\ MatchInit /\ NotationInit /\ DeclarationInit /\ BindingInit /\ NamesInit
  /\ part \in {"matches", "terms", "items", "bindings", "names"}
  /\ part # "bindings" => syntax = Retained(OpenedBinder, 4)
  /\ part # "terms" => term = Var("x")
  /\ part # "matches" => matched = <<"P">>
  /\ part # "items" => env.plain[NameA].tag = "absent"
FrontNext ==
  /\ UNCHANGED part
  /\ \/ part = "matches" /\ AddClause /\ UNCHANGED <<notationVars, declarationVars, bindingVars, built>>
     \/ part = "terms" /\ Grow /\ UNCHANGED <<matchVars, declarationVars, bindingVars, built>>
     \/ part = "items" /\ DeclarationNext /\ UNCHANGED <<matchVars, notationVars, bindingVars, built>>
     \/ part = "bindings" /\ BindingNext /\ UNCHANGED <<matchVars, notationVars, declarationVars, built>>
     \/ part = "names" /\ NamesNext /\ UNCHANGED <<matchVars, notationVars, declarationVars, bindingVars>>
FrontSpec == FrontInit /\ [][FrontNext]_<<matchVars, notationVars, declarationVars, bindingVars, built, part>>
=============================================================================
