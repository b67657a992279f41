----------------------------- MODULE TermNames -----------------------------
(***************************************************************************)
(* Names in terms: substitution that avoids capture, the key of a term up  *)
(* to its bound names (web/translator/core.mjs), and the names a display   *)
(* shows (web/display-naming.mjs).  A term says what its nameless form     *)
(* says: a bound name is the number of binders between.  What is shown has *)
(* one namespace for variables, dimensions and the labels of definitions,  *)
(* and is read in it.                                                      *)
(*                                                                         *)
(* A behaviour builds a term around a variable or a definition; what is    *)
(* said of terms is asked of every one.  Formulas are single literals, a   *)
(* system has at most one tube, and what is shown is written out already.  *)
(***************************************************************************)
EXTENDS Naturals, Sequences, FiniteSets, SequencesExt

CONSTANTS
  TermVariables, TermLabels, TermDimensions,  \* the names that terms have
  UnnamedDims,    \* the dimensions spelled as decoding spells one without name
  ReadableNames,  \* the names for them, in the order they are tried
  GivenNames,     \* what a caller may know of the source names of variables
  MaxWraps

VARIABLE built    \* the term and the forms around its leaf, none at first

-----------------------------------------------------------------------------
(* A name is a letter and its numbers, a separator between them and 0 for  *)
(* none: x1 is <<"x", 1>> and x1_ is <<"x", 1, 0>>.                        *)

Numbered(name, n) == [name EXCEPT ![Len(name)] = n]
Stem(name) == Numbered(name, 0)
FirstNumbered(name, taken) ==
  Numbered(name, CHOOSE n \in 1 .. Cardinality(taken) + 1 :
                   Numbered(name, n) \notin taken /\ \A k \in 1 .. n - 1 : Numbered(name, k) \in taken)
RECURSIVE FreshName(_, _)
FreshName(name, avoid) == IF name \in avoid THEN FreshName(Append(name, 0), avoid) ELSE name

-----------------------------------------------------------------------------
(* Terms.  The parts under a binder are its scope; a face is outside.      *)

Endpoints == {<<"0">>, <<"1">>}
Form(tag, name, face, parts) == [tag |-> tag, name |-> name, face |-> face, parts |-> parts]
VarOf(x) == Form("Var", x, <<"1">>, <<>>)
DefOf(f) == Form("DefRef", f, <<"1">>, <<>>)
LamOf(x, domain, body) == Form("Lam", x, <<"1">>, <<domain, body>>)
AppOf(fn, arg) == Form("App", <<"1">>, <<"1">>, <<fn, arg>>)
PLamOf(d, body) == Form("PLam", d, <<"1">>, <<body>>)
PAppOf(path, arg) == Form("PApp", arg, <<"1">>, <<path>>)
CompOf(tag, d, family, base, face, tube) == Form(tag, d, face, <<family, base, tube>>)

TermScope(t) == IF t.tag = "Lam" THEN {2} ELSE {}
DimScope(t) ==
  DOMAIN t.parts \cap (CASE t.tag = "PLam" -> {1} [] t.tag = "HComp" -> {3} [] t.tag = "Comp" -> {1, 3} [] OTHER -> {})

RECURSIVE FreeNames(_), FreeDims(_), Subterms(_)
FreeNames(t) ==
  IF t.tag = "Var" THEN {t.name}
  ELSE UNION {FreeNames(t.parts[i]) \ (IF i \in TermScope(t) THEN {t.name} ELSE {}) : i \in DOMAIN t.parts}
FreeDims(t) ==
  ((IF t.tag = "PApp" THEN {t.name, t.face} ELSE {t.face}) \ Endpoints)
    \cup UNION {FreeDims(t.parts[i]) \ (IF i \in DimScope(t) THEN {t.name} ELSE {}) : i \in DOMAIN t.parts}
Subterms(t) == {t} \cup UNION {Subterms(t.parts[i]) : i \in DOMAIN t.parts}

DimNames(t) ==
  ({s.name : s \in {s \in Subterms(t) : s.tag = "PApp" \/ DimScope(s) # {}}} \cup {s.face : s \in Subterms(t)}) \ Endpoints
LabelsOf(t) == {s.name : s \in {s \in Subterms(t) : s.tag = "DefRef"}}
BoundNames(t) == {s.name : s \in {s \in Subterms(t) : TermScope(s) # {}}}

-----------------------------------------------------------------------------
(* Substitution.  A tube on a face that becomes empty is left out.         *)

WithoutEmpty(t, before) ==
  IF t.face = <<"0">> /\ before # <<"0">> THEN [t EXCEPT !.face = <<"1">>, !.parts = SubSeq(@, 1, 2)] ELSE t

RECURSIVE SubstituteDim(_, _, _), SubstituteTerm(_, _, _)
RenameDim(t, d) ==
  [t EXCEPT !.name = d, !.parts = [i \in DOMAIN @ |-> IF i \in DimScope(t) THEN SubstituteDim(@[i], t.name, d) ELSE @[i]]]
SubstituteDim(t, d, r) ==
  IF d \notin FreeDims(t) THEN t
  ELSE LET captures == DimScope(t) # {} /\ t.name # d /\ t.name = r
           apart == IF captures THEN RenameDim(t, FreshName(t.name, FreeDims(t) \cup {t.name, r, d})) ELSE t
           parts == [i \in DOMAIN t.parts |->
                       IF i \in DimScope(t) /\ apart.name = d THEN apart.parts[i] ELSE SubstituteDim(apart.parts[i], d, r)]
       IN  WithoutEmpty([apart EXCEPT !.parts = parts, !.face = IF @ = d THEN r ELSE @,
                                      !.name = IF t.tag = "PApp" /\ @ = d THEN r ELSE @], t.face)

\* A mutant minds the names of terms only.
AnyDim(t, value) == t
ApartDim(t, value) ==
  IF DimScope(t) # {} /\ t.name \in FreeDims(value)
  THEN RenameDim(t, FreshName(t.name, FreeDims(t) \cup FreeDims(value) \cup {t.name})) ELSE t
ApartName(t, x, value) ==
  IF t.tag = "Lam" /\ t.name # x /\ t.name \in FreeNames(value)
  THEN LET y == FreshName(t.name, FreeNames(t) \cup FreeNames(value) \cup {x, t.name})
       IN  [t EXCEPT !.name = y, !.parts[2] = SubstituteTerm(@, t.name, VarOf(y))]
  ELSE t
SubstituteTerm(t, x, value) ==
  IF x \notin FreeNames(t) THEN t
  ELSE IF t.tag = "Var" THEN value
  ELSE LET apart == ApartName(ApartDim(t, value), x, value)
       IN  [apart EXCEPT !.parts = [i \in DOMAIN @ |->
              IF i \in TermScope(t) /\ apart.name = x THEN @[i] ELSE SubstituteTerm(@[i], x, value)]]

(* The key of a term: its binders named in the order they are met.         *)
RECURSIVE Binders(_), Canonical(_, _, _)
BindersBefore(t, i) ==
  FoldLeft(LAMBDA n, part : n + Binders(part), IF TermScope(t) \cup DimScope(t) = {} THEN 0 ELSE 1, SubSeq(t.parts, 1, i - 1))
Binders(t) == BindersBefore(t, Len(t.parts) + 1)
Canonical(t, letter, met) ==
  LET name == <<letter, met>>
      named == IF TermScope(t) # {} THEN [t EXCEPT !.name = name, !.parts[2] = SubstituteTerm(@, t.name, VarOf(name))]
               ELSE IF DimScope(t) # {} THEN RenameDim(t, FreshName(name, FreeDims(t))) ELSE t
  IN  [named EXCEPT !.parts = [i \in DOMAIN @ |-> Canonical(@[i], letter, met + BindersBefore(t, i))]]
AlphaKey(t) == Canonical(t, "bound", 0)

-----------------------------------------------------------------------------
(* The names shown for variables that are free, or for every name of a     *)
(* term too large to be named by scopes: given, or the stem where no other *)
(* has it, or the name; numbered where it would read as one to avoid.      *)

ApartFrom(first, avoid) ==
  LET renumber(shown, x) ==
        [shown EXCEPT ![x] = FirstNumbered(Stem(x), DOMAIN first \cup Range(first) \cup Range(shown) \cup avoid)]
  IN  FoldLeft(renumber, first, SetToSeq({x \in DOMAIN first : first[x] \in avoid}))
FirstShown(names, given, reserved) ==
  LET avoid == reserved \cup {given[x] : x \in names \cap DOMAIN given}
      loose == names \ DOMAIN given
      alone(x) == /\ \A y \in loose \ {x} : Stem(y) # Stem(x)
                  /\ Stem(x) \in names => Stem(x) = x
                  /\ Stem(x) \notin avoid
      apart == ApartFrom([x \in loose |-> IF alone(x) THEN Stem(x) ELSE x], avoid)
  IN  [x \in names |-> IF x \in DOMAIN given THEN given[x] ELSE apart[x]]

\* Each binder shows its stem, numbered apart from the names around it and
\* from those its body shows for others.
RECURSIVE SpellIn(_, _, _)
OthersIn(t, shownAs) == {IF y \in DOMAIN shownAs THEN shownAs[y] ELSE y : y \in FreeNames(t.parts[2]) \ {t.name}}
\* A mutant minds the variables of its body only.
BinderOverBody(t, shownAs, inScope) ==
  LET taken == OthersIn(t, shownAs)
  IN  IF Stem(t.name) \in taken THEN FirstNumbered(Stem(t.name), taken) ELSE Stem(t.name)
BinderName(t, shownAs, inScope) ==
  LET taken == inScope \cup OthersIn(t, shownAs)
  IN  IF Stem(t.name) \in taken THEN FirstNumbered(Stem(t.name), taken) ELSE Stem(t.name)
SpellIn(t, shownAs, inScope) ==
  IF t.tag = "Var" THEN [t EXCEPT !.name = IF @ \in DOMAIN shownAs THEN shownAs[@] ELSE @]
  ELSE IF t.tag = "Lam"
  THEN LET name == BinderName(t, shownAs, inScope)
       IN  LamOf(name, SpellIn(t.parts[1], shownAs, inScope),
                 SpellIn(t.parts[2], (t.name :> name) @@ shownAs, inScope \cup {name}))
  ELSE [t EXCEPT !.parts = [i \in DOMAIN @ |-> SpellIn(@[i], shownAs, inScope)]]
ScopedNames(t, given) ==
  LET reserved == LabelsOf(t) \cup DimNames(t)
      shownAs == FirstShown(FreeNames(t), given, reserved)
  IN  SpellIn(t, shownAs, Range(shownAs) \cup reserved)

RECURSIVE RenameAll(_, _)
RenameAll(t, renames) ==
  [t EXCEPT !.name = IF t.tag \in {"Var", "Lam"} THEN renames[@] ELSE @,
            !.parts = [i \in DOMAIN @ |-> RenameAll(@[i], renames)]]
FreeGiven(t, given) == [x \in DOMAIN given \ BoundNames(t) |-> given[x]]
GlobalNames(t, given) ==
  LET names == {s.name : s \in {s \in Subterms(t) : s.tag \in {"Var", "Lam"}}}
  IN  RenameAll(t, FirstShown(names, FreeGiven(t, given), LabelsOf(t) \cup DimNames(t)))

-----------------------------------------------------------------------------
(* Dimensions without a name get one that nothing shown has; and a         *)
(* definition whose label is shown for a dimension or a variable that      *)
(* keeps its name is marked with its module.                               *)

IsUnnamedDim(d) == \E u \in UnnamedDims : IsPrefix(u, d) /\ \A i \in Len(u) + 1 .. Len(d) : d[i] = 0

RECURSIVE RenameDims(_, _)
RenameDims(t, renaming) ==
  LET of(d) == IF d \in DOMAIN renaming THEN renaming[d] ELSE d
  IN  [t EXCEPT !.name = IF t.tag = "PApp" \/ DimScope(t) # {} THEN of(@) ELSE @, !.face = of(@),
                !.parts = [i \in DOMAIN @ |-> RenameDims(@[i], renaming)]]
ReadableDimensions(t, pinned) ==
  LET used == pinned \cup DimNames(t) \cup {s.name : s \in {s \in Subterms(t) : s.tag \in {"Var", "Lam", "DefRef"}}}
      unnamed == SetToSeq({d \in used : IsUnnamedDim(d)} \ pinned)
      unused == SelectSeq(ReadableNames, LAMBDA name : name \notin used)
  IN  RenameDims(t, [d \in Range(unnamed) |-> unused[CHOOSE i \in DOMAIN unnamed : unnamed[i] = d]])

RECURSIVE Qualify(_, _)
Qualify(t, shown) ==
  [t EXCEPT !.tag = IF @ = "DefRef" /\ t.name \in shown THEN "Qualified" ELSE @,
            !.parts = [i \in DOMAIN @ |-> Qualify(@[i], shown)]]

ForSource(t, given, pinned) ==
  LET named == ReadableDimensions(t, pinned)
  IN  Qualify(named, pinned \cup DimNames(named) \cup Range(given))

-----------------------------------------------------------------------------
(* A behaviour: a leaf, and forms around it.                               *)

Built(t, wraps) == built' = {[term |-> t, wraps |-> wraps]}
NamesInit == built = {}
TermLeaf == built = {} /\ \E x \in TermVariables : Built(VarOf(x), 0)
Wrap ==
  \E b \in built :
    /\ b.wraps < MaxWraps
    /\ \E t \in {b.term} :
         \/ \E x \in TermVariables : Built(LamOf(x, VarOf(x), t), b.wraps + 1)
         \/ \E x \in TermVariables : Built(LamOf(x, t, VarOf(x)), b.wraps + 1)
         \/ \E x \in TermVariables : Built(AppOf(t, VarOf(x)), b.wraps + 1)
         \/ \E f \in TermLabels : Built(AppOf(DefOf(f), t), b.wraps + 1)
         \/ \E d \in TermDimensions : Built(PLamOf(d, t), b.wraps + 1)
         \/ \E d \in TermDimensions : Built(PAppOf(t, d), b.wraps + 1)
         \/ \E d, e \in TermDimensions, x \in TermVariables, tag \in {"Comp", "HComp"} :
              Built(CompOf(tag, d, t, VarOf(x), e, PAppOf(VarOf(x), d)), b.wraps + 1)
NamesNext == TermLeaf \/ Wrap
NamesSpec == NamesInit /\ [][NamesNext]_built

-----------------------------------------------------------------------------
(* What a term says, with namespaces of their own for variables, labels    *)
(* and dimensions, or with one for all.                                    *)

Apart == [variable |-> "variable", label |-> "label", dimension |-> "dimension"]
Together == [variable |-> "shown", label |-> "shown", dimension |-> "shown"]
ReadName(space, name, env, depth) ==
  IF name \in Endpoints THEN name
  ELSE IF <<space, name>> \in DOMAIN env THEN <<"bound", depth - env[<<space, name>>]>> ELSE <<space>> \o name

RECURSIVE Nameless(_, _, _, _)
Nameless(t, spaces, env, depth) ==
  LET under == IF TermScope(t) # {} THEN (<<spaces.variable, t.name>> :> depth) @@ env
               ELSE IF DimScope(t) # {} THEN (<<spaces.dimension, t.name>> :> depth) @@ env ELSE env
      parts == [i \in DOMAIN t.parts |->
                  IF i \in TermScope(t) \cup DimScope(t) THEN Nameless(t.parts[i], spaces, under, depth + 1)
                  ELSE Nameless(t.parts[i], spaces, env, depth)]
      name == CASE t.tag = "Var" -> ReadName(spaces.variable, t.name, env, depth)
                [] t.tag = "DefRef" -> ReadName(spaces.label, t.name, env, depth)
                [] t.tag = "Qualified" -> <<"label">> \o t.name
                [] t.tag = "PApp" -> ReadName(spaces.dimension, t.name, env, depth)
                [] OTHER -> <<"1">>
  IN  Form(IF t.tag \in {"Var", "DefRef", "Qualified"} THEN "Name" ELSE t.tag, name,
           ReadName(spaces.dimension, t.face, env, depth), parts)
Says(t) == Nameless(t, Apart, <<>>, 0)

RECURSIVE ReplacedName(_, _, _), ReplacedDim(_, _, _), SaidPairs(_, _)
ReplacedName(m, x, by) ==
  IF m.tag = "Name" THEN IF m.name = <<"variable">> \o x THEN by ELSE m
  ELSE [m EXCEPT !.parts = [i \in DOMAIN @ |-> ReplacedName(@[i], x, by)]]
ReplacedDim(m, d, r) ==
  LET of(said) == IF said = <<"dimension">> \o d THEN (IF r \in Endpoints THEN r ELSE <<"dimension">> \o r) ELSE said
  IN  WithoutEmpty([m EXCEPT !.name = of(@), !.face = of(@), !.parts = [i \in DOMAIN @ |-> ReplacedDim(@[i], d, r)]], m.face)

\* What is said against what is read of it, none where the forms differ.
SaidPairs(m, n) ==
  {<<<<m.tag>>, <<n.tag>>>>, <<m.name, n.name>>, <<m.face, n.face>>, <<<<"parts", Len(m.parts)>>, <<"parts", Len(n.parts)>>>>}
    \cup UNION {SaidPairs(m.parts[i], n.parts[i]) : i \in DOMAIN m.parts}

-----------------------------------------------------------------------------

InsertedTerms == {VarOf(x) : x \in TermVariables} \cup {PAppOf(VarOf(x), d) : x \in TermVariables, d \in TermDimensions}

\* Substituting in a term is replacing in what it says, for a variable and
\* for a dimension (substitute): no name is captured, wherever a binder is,
\* and no other occurrence changes.  A term and its key say the same, and
\* terms that say the same have one key (alphaKey).
SubstitutionMeans ==
  \A b \in built : LET t == b.term IN
    /\ \A x \in TermVariables, v \in InsertedTerms : Says(SubstituteTerm(t, x, v)) = ReplacedName(Says(t), x, Says(v))
    /\ \A d \in TermDimensions, r \in TermDimensions \cup Endpoints :
         Says(SubstituteDim(t, d, r)) = ReplacedDim(Says(t), d, r)
    /\ Says(AlphaKey(t)) = Says(t) /\ AlphaKey(Canonical(t, "other", 1)) = AlphaKey(t)

\* What is shown of a term, read in one namespace, says what the term says
\* (display-naming.mjs:10): no binder shown captures a name, and two things
\* that the term or its context tells apart do not read alike.  A name is
\* given to a variable of a decoded term only, whose bound dimensions have
\* no names (squareBoundary, cubical-program.mjs).
ShownMeans ==
  \A b \in built : \A given \in GivenNames :
    \A pinned \in {FreeDims(b.term), FreeDims(b.term) \cup TermDimensions} :
      Range(given) \cap (pinned \cup {d \in DimNames(b.term) : ~IsUnnamedDim(d)}) = {} =>
        \A shown \in {ScopedNames(b.term, given), GlobalNames(b.term, given)} :
          LET read == SaidPairs(Says(b.term), Nameless(ForSource(shown, given, pinned), Together, <<>>, 0))
              context == {<<<<"dimension">> \o d, <<"shown">> \o d>> : d \in pinned}
                           \cup {<<<<"variable">> \o x, <<"shown">> \o given[x]>> : x \in FreeNames(b.term) \cap DOMAIN FreeGiven(b.term, given)}
          IN  /\ \A p, q \in read \cup context : p[1] = q[1] <=> p[2] = q[2]
              /\ \A p \in read : p[1] # p[2] => p[1][1] \in {"variable", "label", "dimension"} /\ p[2][1] \in {"shown", "label"}
=============================================================================
