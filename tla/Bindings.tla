------------------------------ MODULE Bindings ------------------------------
(***************************************************************************)
(* Binding-aware source syntax (web/cubist/bindings.mjs,                   *)
(* binding-syntax.mjs, scopes.mjs).  Source is resolved once: a binder     *)
(* gets an identity, and an occurrence says what it stands for.  What a    *)
(* pattern's bare name or an opened model makes of an occurrence is known  *)
(* later, so that it carries the alternatives with it while the syntax is  *)
(* cloned, substituted and opened, and is lowered to a name when a branch  *)
(* of the elaboration has decided.                                         *)
(*                                                                         *)
(* A name is the sequence of its parts.  Source is [kind, name, kids]: a   *)
(* name; a function (lam) or a match's clause that binds it, the latter    *)
(* only if it is no constructor; a body where a model is opened; or an     *)
(* application.  Left out: named notations, and parents' namespaces.       *)
(***************************************************************************)
EXTENDS Naturals, SequencesExt, FiniteSetsExt

CONSTANTS
  Globals,        \* the labels in scope, in their order: the identities 1, 2, ...
  SourceTerms,    \* the source that is resolved
  Inserted,       \* the source of what is substituted for a declaration
  Openings,       \* what a model may offer: functions from parts to identities
  Replaceable,    \* the identities that are substituted or remapped
  MaxOperations

\* What a model offers is given after the last substitution.
ASSUME OfferedLate == \A offered \in Openings : Range(offered) \cap Replaceable = {}

VARIABLES
  allocated,  \* how many identities BindingTable has given out
  syntax,     \* the retained syntax: its tree, and the identities it owns
  meaning,    \* what it means, for the properties
  operations

bindingVars == <<allocated, syntax, meaning, operations>>

-----------------------------------------------------------------------------
(* Resolutions: what an occurrence stands for.                             *)

Res(tag, id, name, enclosing) == [tag |-> tag, id |-> id, name |-> name, enclosing |-> enclosing]
BindingOf(id) == Res("binding", id, <<>>, <<>>)
MissingName(name) == Res("missing", 0, name, <<>>)
MemberOf(value, fields) == IF fields = <<>> THEN value ELSE Res("member", 0, fields, <<value>>)
SlotOf(id, enclosing, fields) == Res("slot", id, fields, <<enclosing>>)
OpeningOf(id, name, enclosing) == Res("opening", id, name, <<enclosing>>)

\* LexicalContext: what was bound last is found first.  A slot or an opening
\* saves what the name stands for without it.
Entry(label, value) == [label |-> label, value |-> value]
Found(value, fields) == [value |-> value, fields |-> fields]
RECURSIVE Qualified(_, _)
Qualified(context, name) ==
  IF context = <<>> THEN Found(MissingName(name), <<>>)
  ELSE LET entry == Last(context)
           outer == Qualified(Front(context), name)
           enclosing == MemberOf(outer.value, outer.fields)
           rest == SubSeq(name, Len(entry.label) + 1, Len(name))
       IN CASE entry.value.tag = "frame" -> Found(OpeningOf(entry.value.id, name, enclosing), <<>>)
            [] entry.label = name -> Found(entry.value, <<>>)
            [] IsPrefix(entry.label, name) /\ entry.value.tag = "slot" -> Found(SlotOf(entry.value.id, enclosing, rest), <<>>)
            [] IsPrefix(entry.label, name) -> Found(entry.value, rest)
            [] OTHER -> outer

\* A slot keeps what its name stood for when the pattern was read.
Deferred(context, label, id) ==
  Append(context, Entry(label, SlotOf(id, Qualified(context, label).value, <<>>)))

Identities == [k \in DOMAIN Globals |-> Entry(Globals[k], BindingOf(k))]

-----------------------------------------------------------------------------
(* Resolved syntax: references, binders by identity, and, once lowered,    *)
(* names that are identities.  A reference that is not decided carries     *)
(* what is substituted for the identities it may come to stand for.        *)

Node(kind, id, kids) == [kind |-> kind, id |-> id, res |-> MissingName(<<>>), subs |-> <<>>, kids |-> kids]
Ref(value) == [Node("ref", 0, <<>>) EXCEPT !.res = value]
Projected(of, fields) == IF fields = <<>> THEN of ELSE [Node("member", 0, <<of>>) EXCEPT !.res = MissingName(fields)]

RECURSIVE ResolveIn(_, _, _)
ResolveIn(source, context, next) ==
  IF source.kind = "name"
  THEN LET found == Qualified(context, source.name)
       IN [tree |-> Projected(Ref(found.value), found.fields), next |-> next]
  ELSE IF source.kind = "app"
  THEN LET f == ResolveIn(source.kids[1], context, next)
           a == ResolveIn(source.kids[2], context, f.next)
       IN [tree |-> Node("app", 0, <<f.tree, a.tree>>), next |-> a.next]
  ELSE LET inner == CASE source.kind = "lam" -> Append(context, Entry(source.name, BindingOf(next)))
                      [] source.kind = "clause" -> Deferred(context, source.name, next)
                      [] source.kind = "open" -> Append(context, Entry(<<>>, Res("frame", next, <<>>, <<>>)))
           body == ResolveIn(source.kids[1], inner, next + 1)
       IN [tree |-> Node(source.kind, next, <<body.tree>>), next |-> body.next]

Owned(first, next) == [k \in 1 .. (next - first) |-> first + k - 1]
Retained(source, next) ==
  LET r == ResolveIn(source, Identities, next) IN [tree |-> r.tree, owned |-> Owned(next, r.next)]

-----------------------------------------------------------------------------
(* Cloning, remapping, views and substitution.                             *)

Through(id, ids) == IF id \in DOMAIN ids THEN ids[id] ELSE id
RECURSIVE MapResolution(_, _), Mapped(_, _)
MapResolution(value, ids) ==
  [value EXCEPT !.id = Through(@, ids), !.enclosing = [k \in DOMAIN @ |-> MapResolution(@[k], ids)]]
Mapped(tree, ids) ==
  [tree EXCEPT !.id = Through(@, ids), !.res = MapResolution(@, ids),
               !.subs = [k \in DOMAIN @ |-> [id |-> Through(@[k].id, ids), tree |-> Mapped(@[k].tree, ids)]],
               !.kids = [k \in DOMAIN @ |-> Mapped(@[k], ids)]]

\* freshen: the k-th owned identity becomes the k-th of those given out next.
Fresh(owned, next) == [id \in Range(owned) |-> next + (CHOOSE k \in DOMAIN owned : owned[k] = id) - 1]
Cloned(s, next) == [tree |-> Mapped(s.tree, Fresh(s.owned, next)), owned |-> Owned(next, next + Len(s.owned))]

\* bindingSyntaxView: a tree owns what it binds.
RECURSIVE BoundIn(_)
BoundIn(tree) ==
  (IF tree.kind \in {"lam", "clause", "open"} THEN <<tree.id>> ELSE <<>>)
    \o FlattenSeq([k \in DOMAIN tree.subs |-> BoundIn(tree.subs[k].tree)])
    \o FlattenSeq([k \in DOMAIN tree.kids |-> BoundIn(tree.kids[k])])
View(tree) == [tree |-> tree, owned |-> BoundIn(tree)]

RECURSIVE Mentioned(_)
Mentioned(value) == {value.id} \cup UNION {Mentioned(value.enclosing[k]) : k \in DOMAIN value.enclosing}

\* What is inserted is a copy each time (a mutant inserts the same one).
CopiedOnce(s, next) == [tree |-> s.tree, next |-> next + Len(s.owned)]
Copied(s, next) == [tree |-> Mapped(s.tree, Fresh(s.owned, next)), next |-> next + Len(s.owned)]

\* Identities an undecided reference may come to stand for (a mutant
\* substitutes only for what is decided).
PendingInNone(value) == {}
PendingIn(value) == Mentioned(value)

RECURSIVE Replaced(_, _, _)
ReplacedAll(trees, values, next) ==
  FoldLeft(LAMBDA done, tree : LET r == Replaced(tree, values, done.next)
                               IN [trees |-> Append(done.trees, r.tree), next |-> r.next],
           [trees |-> <<>>, next |-> next], trees)
Replaced(tree, values, next) ==
  IF tree.kind # "ref"
  THEN LET kids == ReplacedAll(tree.kids, values, next) IN [tree |-> [tree EXCEPT !.kids = kids.trees], next |-> kids.next]
  ELSE IF tree.res.tag = "binding" /\ tree.res.id \in DOMAIN values THEN Copied(values[tree.res.id], next)
  ELSE LET kept == ReplacedAll([k \in DOMAIN tree.subs |-> tree.subs[k].tree], values, next)
           added == SetToSeq((PendingIn(tree.res) \cap DOMAIN values) \ {tree.subs[k].id : k \in DOMAIN tree.subs})
           copies == FoldLeft(LAMBDA done, id : LET c == Copied(values[id], done.next)
                                                IN [subs |-> Append(done.subs, [id |-> id, tree |-> c.tree]), next |-> c.next],
                              [subs |-> <<>>, next |-> kept.next], added)
       IN [tree |-> [tree EXCEPT !.subs = [k \in DOMAIN tree.subs |-> [id |-> tree.subs[k].id, tree |-> kept.trees[k]]] \o copies.subs],
           next |-> copies.next]

\* substituteBindingSyntax
SubstituteIn(s, values, next) ==
  LET r == Replaced(s.tree, values, next) IN [tree |-> r.tree, owned |-> s.owned \o Owned(next, r.next)]

-----------------------------------------------------------------------------
(* Lowering, once the outcomes of slots and openings are known in a        *)
(* branch: "variable", "constructor", or what the opened model offers.     *)

RECURSIVE Decided(_, _)
Decided(value, outcomes) ==
  CASE value.tag = "member" -> MemberOf(Decided(value.enclosing[1], outcomes), value.name)
    [] value.tag = "slot" /\ value.id \in DOMAIN outcomes ->
         IF outcomes[value.id].tag = "variable" THEN MemberOf(BindingOf(value.id), value.name) ELSE Decided(value.enclosing[1], outcomes)
    [] value.tag = "opening" /\ value.id \in DOMAIN outcomes ->
         LET offered == outcomes[value.id].members IN
         IF Head(value.name) \in DOMAIN offered THEN MemberOf(BindingOf(offered[Head(value.name)]), Tail(value.name))
         ELSE Decided(value.enclosing[1], outcomes)
    [] OTHER -> value

RECURSIVE Lowered(_, _)
Lowered(tree, outcomes) ==
  IF tree.kind # "ref" THEN [tree EXCEPT !.kids = [k \in DOMAIN @ |-> Lowered(@[k], outcomes)]]
  ELSE LET value == Decided(tree.res, outcomes)
           replacements == SelectSeq(tree.subs, LAMBDA s : s.id = value.id)
       IN CASE value.tag = "member" -> Lowered(Projected([tree EXCEPT !.res = value.enclosing[1]], value.name), outcomes)
            [] value.tag = "binding" -> IF replacements = <<>> THEN Node("name", value.id, <<>>) ELSE Lowered(replacements[1].tree, outcomes)
            [] OTHER -> tree

-----------------------------------------------------------------------------
(* What source means, whatever is decided: a body without names, with one  *)
(* alternative for each decision.                                          *)

Means(kind, of, kids) == [kind |-> kind, of |-> of, kids |-> kids]
Stuck == Means("stuck", 0, <<>>)
BoundAs(k) == Means("bound", k, <<>>)
Declared(id) == Means("declared", id, <<>>)
Offers == SetToSeq(Openings)
Variable == [tag |-> "variable", members |-> <<>>]
Constructor == [tag |-> "constructor", members |-> <<>>]
Opened(members) == [tag |-> "opened", members |-> members]
With(outcomes, id, outcome) == [i \in DOMAIN outcomes \cup {id} |-> IF i = id THEN outcome ELSE outcomes[i]]

\* How a branch elaborates what it lowered: scope holds the binders entered.
RECURSIVE Elaborated(_, _, _)
Elaborated(tree, outcomes, scope) ==
  LET inner(outcome, s) == LET o == With(outcomes, tree.id, outcome) IN Elaborated(Lowered(tree.kids[1], o), o, s)
      at == {k \in DOMAIN scope : scope[k] = tree.id}
  IN CASE tree.kind = "name" -> IF at # {} THEN BoundAs(Len(scope) - Max(at)) ELSE IF tree.id \in DOMAIN Globals THEN Declared(tree.id) ELSE Stuck
       [] tree.kind = "ref" -> IF tree.res.tag = "missing" THEN Means("missing", tree.res.name, <<>>) ELSE
                               LET value == Decided(tree.res, outcomes) IN
                               IF value.tag = "missing" THEN Means("missing", value.name, <<>>) ELSE Stuck
       [] tree.kind = "member" -> Means("member", tree.res.name, <<Elaborated(tree.kids[1], outcomes, scope)>>)
       [] tree.kind = "app" -> Means("app", 0, [k \in 1 .. 2 |-> Elaborated(tree.kids[k], outcomes, scope)])
       [] tree.kind = "lam" -> Means("lam", 0, <<Elaborated(tree.kids[1], outcomes, Append(scope, tree.id))>>)
       [] tree.id \in DOMAIN outcomes -> Stuck   \* decided twice in a branch
       [] tree.kind = "clause" -> Means("cases", 0, <<inner(Variable, Append(scope, tree.id)), inner(Constructor, scope)>>)
       [] tree.kind = "open" -> Means("opens", 0, [k \in DOMAIN Offers |-> inner(Opened(Offers[k]), scope)])

\* The same, of source read with every decision known: a name stands for what
\* was bound last under it or under a part of it.  Scope has entries [label,
\* id], the id 0 for a binder.
RECURSIVE Reads(_, _, _)
Reads(source, scope, depth) ==
  LET body(s, d) == Reads(source.kids[1], s, d)
      binder == Append(scope, [label |-> source.name, id |-> 0, depth |-> depth + 1])
  IN CASE source.kind = "name" ->
            LET at == {k \in DOMAIN scope : IsPrefix(scope[k].label, source.name)}
                e == scope[Max(at)]
                of == IF e.id = 0 THEN BoundAs(depth - e.depth) ELSE Declared(e.id)
            IN IF at = {} THEN Means("missing", source.name, <<>>)
               ELSE IF e.label = source.name THEN of
               ELSE Means("member", SubSeq(source.name, Len(e.label) + 1, Len(source.name)), <<of>>)
       [] source.kind = "app" -> Means("app", 0, [k \in 1 .. 2 |-> Reads(source.kids[k], scope, depth)])
       [] source.kind = "lam" -> Means("lam", 0, <<body(binder, depth + 1)>>)
       [] source.kind = "clause" -> Means("cases", 0, <<body(binder, depth + 1), body(scope, depth)>>)
       [] source.kind = "open" -> Means("opens", 0, [k \in DOMAIN Offers |->
            body(scope \o SetToSeq({[label |-> <<x>>, id |-> Offers[k][x], depth |-> 0] : x \in DOMAIN Offers[k]}), depth)])
ReadsAs(source) == Reads(source, [k \in DOMAIN Globals |-> [label |-> Globals[k], id |-> k, depth |-> 0]], 0)

\* Another meaning in the place of a declaration, and of the binder that is
\* k binders out; neither has binders of its context.
RECURSIVE Put(_, _, _), PutBound(_, _, _)
Put(m, id, value) ==
  IF m.kind = "declared" THEN IF m.of = id THEN value ELSE m
  ELSE [m EXCEPT !.kids = [k \in DOMAIN @ |-> Put(@[k], id, value)]]
PutBound(m, depth, value) ==
  LET in(k) == IF m.kind = "lam" \/ (m.kind = "cases" /\ k = 1) THEN depth + 1 ELSE depth IN
  IF m.kind = "bound" THEN IF m.of = depth THEN value ELSE m
  ELSE [m EXCEPT !.kids = [k \in DOMAIN @ |-> PutBound(@[k], in(k), value)]]

-----------------------------------------------------------------------------

BindingInit ==
  \E source \in SourceTerms :
    /\ syntax = Retained(source, Len(Globals) + 1)
    /\ allocated = Len(Globals) + Len(syntax.owned)
    /\ meaning = ReadsAs(source) /\ operations = 0

Operate == operations < MaxOperations /\ operations' = operations + 1

\* A declaration is replaced by its value, as helpers and parameters are.
Substitute(id, source) ==
  /\ Operate
  /\ LET value == Retained(source, allocated + 1)
         next == allocated + Len(value.owned) + 1
     IN /\ syntax' = SubstituteIn(syntax, [i \in {id} |-> value], next)
        /\ allocated' = next - 1 + Len(syntax'.owned) - Len(syntax.owned)
  /\ meaning' = Put(meaning, id, ReadsAs(source))

\* An application of a function, whose binder the view of its body opens
\* (HelperExpansion.type).
Contract ==
  /\ Operate
  /\ syntax.tree.kind = "app" /\ syntax.tree.kids[1].kind = "lam"
  /\ LET fn == syntax.tree.kids[1]
         body == View(fn.kids[1])
         result == SubstituteIn(body, [i \in {fn.id} |-> View(syntax.tree.kids[2])], allocated + 1)
     IN /\ syntax' = result
        /\ allocated' = allocated + Len(result.owned) - Len(body.owned)
  /\ meaning' = PutBound(meaning.kids[1].kids[1], 0, meaning.kids[2])

Clone ==
  /\ Operate
  /\ syntax' = Cloned(syntax, allocated + 1) /\ allocated' = allocated + Len(syntax.owned)
  /\ UNCHANGED meaning

\* Parents' fields that a theory shares become one of its own.
Remap(from, to) ==
  /\ Operate /\ from # to
  /\ syntax' = [syntax EXCEPT !.tree = Mapped(@, [i \in {from} |-> to])]
  /\ meaning' = Put(meaning, from, Declared(to))
  /\ UNCHANGED allocated

BindingNext ==
  \/ \E id \in Replaceable, source \in Inserted : Substitute(id, source)
  \/ Contract \/ Clone
  \/ \E from, to \in Replaceable : Remap(from, to)

BindingSpec == BindingInit /\ [][BindingNext]_bindingVars

-----------------------------------------------------------------------------
(* Properties.                                                             *)

\* An identity is bound at one place, and the syntax owns what it binds: a
\* clone renames all of it, and what is decided for a pattern is decided for
\* no other (freshen, SlotOutcomes.decide).
BoundOnce ==
  LET bound == BoundIn(syntax.tree) IN
  /\ IsInjective(bound)
  /\ Range(bound) \subseteq Range(syntax.owned) /\ IsInjective(syntax.owned)
  /\ \A id \in Range(syntax.owned) : Len(Globals) < id /\ id <= allocated

\* Whatever is decided, and however the syntax was cloned, substituted,
\* applied and remapped before, it elaborates to what the source says: no
\* binder captures what is inserted, an inserted name never takes its meaning
\* from where it lands, and what a slot or an opening leaves undecided is
\* still what the source would mean there.
Hygienic ==
  /\ BoundOnce
  /\ Elaborated(Lowered(syntax.tree, <<>>), <<>>, <<>>) = meaning
=============================================================================
