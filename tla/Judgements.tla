----------------------------- MODULE Judgements -----------------------------
(***************************************************************************)
(* The graph of judgements and the entries of contexts                     *)
(* (kernel/src/instructions.c and the instruction families built on it).   *)
(*                                                                         *)
(* A judgement's term and type are abstracted to what occurs free in them  *)
(* (variables, universe variables and dimensions) and the definitions they *)
(* refer to; a context is the set of its entries.  Each instruction is an  *)
(* action: the entries it makes, the side conditions that refuse it, the   *)
(* context of what it concludes.  A refused instruction adds nothing to    *)
(* this; the syntax it may have made before is left out.                   *)
(*                                                                         *)
(* The two invariants the code states of its graph, in the comment at its  *)
(* head, are what the rest of the kernel relies on: the free names of a    *)
(* judgement are entries of its context, and a context is closed under the *)
(* entries its entries depend on.  A definition is a judgement with no     *)
(* context, so it must be closed syntax.                                   *)
(***************************************************************************)
EXTENDS Integers, FiniteSets, Sequences

CONSTANTS
  Symbols,         \* the names of term and universe variables
  Dims,            \* dimension indices, numbered apart from symbols
  DefinitionSymbols,
  OverlapLimit,    \* the tubes of a system that a later one may overlap (64)
  MaxFacts,        \* bounds of the exploration
  MaxEntries,
  MaxDefinitions

ASSUME JudgementsAssumption ==
  /\ Symbols \subseteq Nat /\ Dims \subseteq Nat
  /\ Symbols \cap Dims = {}
  /\ IsFiniteSet(Dims)
  /\ OverlapLimit \in Nat
  /\ MaxFacts \in Nat /\ MaxEntries \in Nat /\ MaxDefinitions \in Nat

VARIABLES
  facts,            \* k->facts[1 ..]
  entries,          \* k->entries[1 ..]
  dimensionEntries, \* k->dimension_entries: an entry by dimension, maybe stale
  definitions,      \* k->definitions[1 ..]
  checkpoint        \* the counts recorded, or NoCheckpoint

vars == <<facts, entries, dimensionEntries, definitions, checkpoint>>

(* A clause: endpoint equations that hold together.  A face is 0 or one    *)
(* clause; the clause of no equation is the face 1.                        *)
Consistent(c) == \A p, q \in c : p[1] = q[1] => p = q
Clauses == {c \in SUBSET (Dims \X {0, 1}) : Consistent(c)}
DimsOf(clause) == {p[1] : p \in clause}
Faces == {{}} \cup {{c} : c \in Clauses}

(* An entry: a variable, a universe variable, a dimension, or the          *)
(* assumption that a clause of endpoint equations holds.  free and uses    *)
(* are of its type; context is what the type depends on, scope that and    *)
(* the entry itself.                                                       *)
NoClause == {}

Entry(kind, name, free, uses, context, id) ==
  [kind |-> kind, name |-> name, clause |-> NoClause, free |-> free, uses |-> uses,
   context |-> context, scope |-> context \cup {id}]
FaceEntry(clause, context, id) ==
  [kind |-> "face", name |-> 0, clause |-> clause, free |-> {}, uses |-> {},
   context |-> context, scope |-> context \cup {id}]

NamesOf(es, C) == {es[e].name : e \in {x \in C : es[x].kind # "face"}}

NoCheckpoint == [open |-> FALSE, facts |-> 0, entries |-> 0, definitions |-> 0]

Init ==
  /\ facts = <<>>
  /\ entries = <<>>
  /\ dimensionEntries = [d \in Dims |-> 0]
  /\ definitions = <<>>
  /\ checkpoint = NoCheckpoint

-----------------------------------------------------------------------------
(* Entries.                                                                *)

(* Mutant: only term entries are searched.                                 *)
TermNamed(es, x) == {e \in DOMAIN es : es[e].kind = "term" /\ es[e].name = x}

(* find_entry: term and universe entries share the symbols.                *)
Named(es, x) == {e \in DOMAIN es : es[e].kind \in {"term", "level"} /\ es[e].name = x}

(* The entry ck_instr_dimension_entry remembers, if it still is one.       *)
Remembered(d) ==
  {e \in DOMAIN entries : e = dimensionEntries[d] /\ entries[e].kind = "dimension" /\ entries[e].name = d}

(* The dimensions among D that have to be given an entry, in order.        *)
Missing(D) == {d \in D : Remembered(d) = {}}
Listings(D) ==
  {order \in [1 .. Cardinality(D) -> D] :
     /\ \A i, j \in DOMAIN order : i < j => order[i] < order[j]
     /\ \A d \in D : \E i \in DOMAIN order : order[i] = d}

WithDimensions(order) ==
  entries \o [i \in DOMAIN order |->
                Entry("dimension", order[i], {}, {}, {}, Len(entries) + i)]

DimensionsMade(order) ==
  dimensionEntries' = [d \in Dims |->
    IF \E i \in DOMAIN order : order[i] = d
    THEN Len(entries) + (CHOOSE i \in DOMAIN order : order[i] = d)
    ELSE dimensionEntries[d]]

DimensionEntries(order, D) ==
  {Len(entries) + i : i \in DOMAIN order} \cup UNION {Remembered(d) : d \in D}

RoomFor(n) == Len(entries) + n <= MaxEntries

(* cc_instr_extend: a premise that is a type, and a new symbol.  The entry *)
(* the symbol already names is returned when its type is the same, and the *)
(* call refused when it is not.                                            *)
Extend ==
  /\ RoomFor(1)
  /\ \E i \in DOMAIN facts, x \in Symbols :
       /\ facts[i].kind = "typing"
       /\ Named(entries, x) = {}
       /\ entries' = Append(entries,
            Entry("term", x, facts[i].free, facts[i].uses, facts[i].context, Len(entries) + 1))
  /\ UNCHANGED <<facts, dimensionEntries, definitions, checkpoint>>

(* cc_instr_level.                                                         *)
Level ==
  /\ RoomFor(1)
  /\ \E x \in Symbols :
       /\ Named(entries, x) = {}
       /\ entries' = Append(entries, Entry("level", x, {}, {}, {}, Len(entries) + 1))
  /\ UNCHANGED <<facts, dimensionEntries, definitions, checkpoint>>

(* cc_instr_dimension.                                                     *)
Dimension ==
  /\ RoomFor(1)
  /\ \E d \in Dims :
       /\ Missing({d}) # {}
       /\ entries' = WithDimensions(<<d>>)
       /\ DimensionsMade(<<d>>)
  /\ UNCHANGED <<facts, definitions, checkpoint>>

-----------------------------------------------------------------------------
(* Judgements.  How one was derived: the rule, the premises, the entry and *)
(* the operand.  An instruction identical to an earlier one that still     *)
(* stands returns that judgement (ck_instr_begin).                         *)

By(rule, premises, entry, operand) ==
  [rule |-> rule, premises |-> premises, entry |-> entry, operand |-> operand]

New(how) ==
  \A i \in DOMAIN facts : facts[i].how.rule = how.rule => facts[i].how # how

Fact(kind, how, free, uses, context) ==
  [kind |-> kind, how |-> how, free |-> free, uses |-> uses, context |-> context,
   tubes |-> <<>>, pending |-> {}, agreed |-> {}]

(* A system of tubes: the tubes' faces, the tubes the last one has still   *)
(* to be shown to agree with, and a record of the pairs that were.         *)
SystemFact(how, free, uses, context, tubes, pending, agreed) ==
  [Fact("system", how, free, uses, context) EXCEPT
     !.tubes = tubes, !.pending = pending, !.agreed = agreed]

Publish(fact) ==
  /\ Len(facts) < MaxFacts
  /\ New(fact.how)
  /\ facts' = Append(facts, fact)

Typings == {i \in DOMAIN facts : facts[i].kind = "typing"}
Systems == {i \in DOMAIN facts : facts[i].kind = "system"}

(* ck_instr_merge: the union, unless two entries of one dimension meet.    *)
Mergeable(es, C) ==
  \A e, f \in C : es[e].kind = "dimension" /\ es[f].kind = "dimension" /\ es[e].name = es[f].name
                    => e = f

(* Mutant: what depends on the discharged entries is not looked at.        *)
DischargeableAlways(es, C, R) ==
  \A e \in C \ R, r \in R :
    ~ (es[e].kind = "dimension" /\ es[r].kind = "dimension" /\ es[e].name = es[r].name)

(* ck_instr_discharge: C without R, unless a remaining entry depends on a  *)
(* removed one, or is another entry of a removed dimension.                *)
Dischargeable(es, C, R) ==
  \A e \in C \ R, r \in R :
    /\ r \notin es[e].context
    /\ ~ (es[e].kind = "dimension" /\ es[r].kind = "dimension" /\ es[e].name = es[r].name)

(* Mutant: the face entries that imply the clause.                         *)
Implying(es, C, clause) == {e \in C : es[e].kind = "face" /\ clause \subseteq es[e].clause}

(* ck_instr_on_face: the face entries a clause implies.  A face depends on *)
(* dimensions only, so discharging them one by one is discharging them at  *)
(* once.                                                                   *)
Implied(es, C, clause) == {e \in C : es[e].kind = "face" /\ es[e].clause \subseteq clause}

OnlyFacts == UNCHANGED <<entries, dimensionEntries, definitions, checkpoint>>

(* Unit, Void, Point and the universe at a constant level.                 *)
Constant ==
  /\ Publish(Fact("typing", By("constant", <<>>, 0, {}), {}, {}, {}))
  /\ OnlyFacts

(* cc_instr_universe: every variable of the level has a universe entry.    *)
Universe ==
  /\ \E X \in SUBSET Symbols \ {{}} :
       LET levels == UNION {Named(entries, x) : x \in X}
       IN  /\ \A x \in X : \E e \in Named(entries, x) : entries[e].kind = "level"
           /\ Publish(Fact("typing", By("universe", <<>>, 0, X), X, {},
                           UNION {entries[e].scope : e \in levels}))
  /\ OnlyFacts

(* cc_instr_variable.                                                      *)
Variable ==
  /\ \E e \in DOMAIN entries :
       /\ entries[e].kind = "term"
       /\ Publish(Fact("typing", By("variable", <<>>, e, {}), entries[e].free \cup {entries[e].name},
                       entries[e].uses, entries[e].scope))
  /\ OnlyFacts

(* The instructions that put two judgements together, under the union of   *)
(* their contexts: application, pairs, sums, eliminators, conversion.      *)
Combine ==
  /\ \E i, j \in Typings :
       LET context == facts[i].context \cup facts[j].context
       IN  /\ Mergeable(entries, context)
           /\ Publish(Fact("typing", By("combine", <<i, j>>, 0, {}), facts[i].free \cup facts[j].free,
                           facts[i].uses \cup facts[j].uses, context))
  /\ OnlyFacts

(* Mutant: the context the bound entry's own type needs is forgotten.      *)
WithoutBound(C, e) == C \ {e}

(* The binders, of a variable, a universe variable or a dimension: the     *)
(* body's context without the entry, with the entry's own.                 *)
Under(C, e) == (C \ {e}) \cup entries[e].context

Bind ==
  /\ \E i \in Typings, e \in DOMAIN entries :
       LET b       == facts[i]
           x       == entries[e]
           context == Under(b.context, e)
       IN  /\ x.kind # "face"
           /\ Dischargeable(entries, b.context, {e})
           /\ Mergeable(entries, context)
           /\ Publish(Fact("typing", By("bind", <<i>>, e, {}), (b.free \ {x.name}) \cup x.free,
                           b.uses \cup x.uses, context))
  /\ OnlyFacts

(* cc_instr_endpoint: a dimension at 0 or 1 no longer occurs.              *)
Endpoint ==
  /\ \E i \in Typings, e \in DOMAIN entries, end \in {0, 1} :
       LET t == facts[i]
       IN  /\ entries[e].kind = "dimension"
           /\ Dischargeable(entries, t.context, {e})
           /\ Publish(Fact("typing", By("endpoint", <<i>>, e, {end}), t.free \ {entries[e].name},
                           t.uses, t.context \ {e}))
  /\ OnlyFacts

(* cc_instr_path_at: a path at a formula over the dimensions D, which are  *)
(* given entries first.                                                    *)
PathAt ==
  /\ \E i \in Typings, D \in SUBSET Dims : \E order \in Listings(Missing(D)) :
       LET es      == WithDimensions(order)
           context == facts[i].context \cup DimensionEntries(order, D)
       IN  /\ RoomFor(Len(order))
           /\ Mergeable(es, context)
           /\ entries' = es
           /\ DimensionsMade(order)
           /\ Publish(Fact("typing", By("path_at", <<i>>, 0, D), facts[i].free \cup D,
                           facts[i].uses, context))
  /\ UNCHANGED <<definitions, checkpoint>>

(* ck_instr_face_entry: the entry of a clause, one for each, made with the *)
(* clause's dimensions.                                                    *)
FaceOf(es, clause) == {e \in DOMAIN es : es[e].kind = "face" /\ es[e].clause = clause}

(* cc_instr_restrict: the judgement at a clause, under its face entry.     *)
RestrictTo(i, clause, es, face) ==
  LET context == facts[i].context \cup es[face].scope
  IN  /\ clause # {}
      /\ Mergeable(es, context)
      /\ entries' = es
      /\ Publish(Fact("typing", By("restrict", <<i>>, 0, clause), facts[i].free \ DimsOf(clause),
                      facts[i].uses, context))

RestrictKnown ==
  /\ \E i \in Typings, clause \in Clauses : \E face \in FaceOf(entries, clause) :
       RestrictTo(i, clause, entries, face)
  /\ UNCHANGED <<dimensionEntries, definitions, checkpoint>>

RestrictNew ==
  /\ \E i \in Typings, clause \in Clauses : \E order \in Listings(Missing(DimsOf(clause))) :
       LET dims == WithDimensions(order)
           face == Len(dims) + 1
       IN  /\ FaceOf(entries, clause) = {}
           /\ RoomFor(Len(order) + 1)
           /\ DimensionsMade(order)
           /\ RestrictTo(i, clause,
                Append(dims, FaceEntry(clause, DimensionEntries(order, DimsOf(clause)), face)), face)
  /\ UNCHANGED <<definitions, checkpoint>>

-----------------------------------------------------------------------------
(* Systems: a composition is built one tube at a time.                     *)

(* cc_instr_system: a composition in dimension e, without tubes yet.  free *)
(* counts the dimension until Compose binds it.                            *)
System ==
  /\ \E i, j \in Typings, e \in DOMAIN entries :
       LET context == facts[i].context \cup facts[j].context
       IN  /\ entries[e].kind = "dimension"
           /\ entries[e].name \notin facts[j].free
           /\ Mergeable(entries, context)
           /\ Publish(SystemFact(By("system", <<i, j>>, e, {}), facts[i].free \cup facts[j].free,
                                 facts[i].uses \cup facts[j].uses, context, <<>>, {}, {}))
  /\ OnlyFacts

(* Mutant: only the tube before is compared with.                          *)
OverlappingLast(tubes, clause) ==
  {k \in {Len(tubes)} \cap DOMAIN tubes : \E c \in tubes[k] : Consistent(c \cup clause)}

(* The earlier tubes whose faces meet the clause; a word has a bit for the *)
(* first OverlapLimit of them, and the instruction is refused when that is *)
(* not enough.                                                             *)
Overlapping(tubes, clause) ==
  {k \in DOMAIN tubes : \E c \in tubes[k] : Consistent(c \cup clause)}

Word(K) == K \cap 1 .. OverlapLimit

(* cc_instr_system_tube on the face 0, where the tube is never used.       *)
SystemTubeNever ==
  /\ \E s \in Systems, i \in Typings :
       LET f       == facts[s]
           context == f.context \cup facts[i].context
       IN  /\ f.pending = {}
           /\ Mergeable(entries, context)
           /\ Publish(SystemFact(By("system_tube", <<s, i>>, f.how.entry, {}),
                                 f.free \cup facts[i].free, f.uses \cup facts[i].uses, context,
                                 Append(f.tubes, {}), {}, f.agreed))
  /\ OnlyFacts

(* ck_instr_on_face: the entries a clause leaves to be assumed.            *)
OnFace(es, C, clause) == C \ Implied(es, C, clause)
LeavesFace(es, C, clause) == Dischargeable(es, C, Implied(es, C, clause))

(* cc_instr_system_tube on a clause: the tube i, already restricted, with  *)
(* an equality j to the base on the face.  There their premises need no    *)
(* entry of a face the clause implies.  The tube has to be shown to agree  *)
(* with every earlier tube whose face meets its own.                       *)
SystemTubeOn(s, i, j, clause, order) ==
  LET es      == WithDimensions(order)
      f       == facts[s]
      context == f.context \cup OnFace(es, facts[i].context, clause)
                   \cup OnFace(es, facts[j].context, clause)
                   \cup DimensionEntries(order, DimsOf(clause))
  IN  /\ f.pending = {}
      /\ entries[f.how.entry].name \notin DimsOf(clause)
      /\ facts[i].free \cap DimsOf(clause) = {}
      /\ Overlapping(f.tubes, clause) \subseteq 1 .. OverlapLimit
      /\ LeavesFace(es, facts[i].context, clause) /\ LeavesFace(es, facts[j].context, clause)
      /\ Mergeable(es, context)
      /\ RoomFor(Len(order))
      /\ entries' = es
      /\ DimensionsMade(order)
      /\ Publish(SystemFact(By("system_tube", <<s, i, j>>, f.how.entry, {clause}),
            f.free \cup facts[i].free \cup DimsOf(clause), f.uses \cup facts[i].uses, context,
            Append(f.tubes, {clause}), Word(Overlapping(f.tubes, clause)), f.agreed))

SystemTube ==
  /\ \E s \in Systems, i, j \in Typings, clause \in Clauses :
       \E order \in Listings(Missing(DimsOf(clause))) : SystemTubeOn(s, i, j, clause, order)
  /\ UNCHANGED <<definitions, checkpoint>>

(* cc_instr_system_overlap: an equality j of the last tube and tube k on   *)
(* the overlap of their faces.                                             *)
SystemOverlapAt(s, j, k) ==
  LET f       == facts[s]
      overlap == UNION (f.tubes[k] \cup f.tubes[Len(f.tubes)])
      context == f.context \cup OnFace(entries, facts[j].context, overlap)
  IN  /\ LeavesFace(entries, facts[j].context, overlap)
      /\ Mergeable(entries, context)
      /\ Publish(SystemFact(By("system_overlap", <<s, j>>, f.how.entry, {k}), f.free, f.uses,
                            context, f.tubes, f.pending \ {k},
                            f.agreed \cup {<<k, Len(f.tubes)>>}))

SystemOverlap ==
  /\ \E s \in Systems, j \in Typings : \E k \in facts[s].pending : SystemOverlapAt(s, j, k)
  /\ OnlyFacts

(* cc_instr_comp: the composition binds its dimension.                     *)
Compose ==
  /\ \E s \in Systems :
       LET f == facts[s]
           e == f.how.entry
       IN  /\ f.pending = {}
           /\ Dischargeable(entries, f.context, {e})
           /\ Publish(Fact("typing", By("compose", <<s>>, e, {}), f.free \ {entries[e].name},
                           f.uses, f.context \ {e}))
  /\ OnlyFacts

(* Mutant: a judgement under dimensions or faces only is taken for closed. *)
DefinableAtDimensions(i) == \A e \in facts[i].context : entries[e].kind \notin {"term", "level"}

(* cc_instr_define: only a closed judgement, under a symbol not registered.*)
Definable(i) == facts[i].context = {}

Define ==
  /\ Len(definitions) < MaxDefinitions
  /\ \E i \in Typings, symbol \in DefinitionSymbols :
       /\ Definable(i)
       /\ \A d \in DOMAIN definitions : definitions[d].symbol # symbol
       /\ Publish(Fact("typing", By("define", <<i>>, 0, {symbol}), {},
                       facts[i].uses \cup {Len(definitions) + 1}, {}))
       /\ definitions' = Append(definitions,
            [symbol |-> symbol, free |-> facts[i].free, uses |-> facts[i].uses])
  /\ UNCHANGED <<entries, dimensionEntries, checkpoint>>

(* cc_instr_lookup.                                                        *)
Lookup ==
  /\ \E d \in DOMAIN definitions :
       Publish(Fact("typing", By("lookup", <<>>, 0, {d}), {}, definitions[d].uses \cup {d}, {}))
  /\ OnlyFacts

-----------------------------------------------------------------------------
(* Checkpoints: both a rollback and a commit drop the judgements and the   *)
(* entries made since; a commit keeps the definitions.  The dimension      *)
(* entries remembered may be among those dropped.                          *)

Checkpoint ==
  /\ checkpoint' = [open |-> TRUE, facts |-> Len(facts), entries |-> Len(entries),
                    definitions |-> Len(definitions)]
  /\ UNCHANGED <<facts, entries, dimensionEntries, definitions>>

TruncateStore ==
  /\ facts' = SubSeq(facts, 1, checkpoint.facts)
  /\ entries' = SubSeq(entries, 1, checkpoint.entries)

Rollback ==
  /\ checkpoint.open
  /\ TruncateStore
  /\ definitions' = SubSeq(definitions, 1, checkpoint.definitions)
  /\ checkpoint' = NoCheckpoint
  /\ UNCHANGED dimensionEntries

Commit ==
  /\ checkpoint.open
  /\ TruncateStore
  /\ checkpoint' = NoCheckpoint
  /\ UNCHANGED <<dimensionEntries, definitions>>

Next ==
  \/ Extend \/ Level \/ Dimension
  \/ Constant \/ Universe \/ Variable \/ Combine \/ Bind
  \/ Endpoint \/ PathAt \/ RestrictKnown \/ RestrictNew
  \/ System \/ SystemTubeNever \/ SystemTube \/ SystemOverlap \/ Compose
  \/ Define \/ Lookup
  \/ Checkpoint \/ Rollback \/ Commit

Spec == Init /\ [][Next]_vars

-----------------------------------------------------------------------------
(* What the graph promises.                                                *)

TypeOK ==
  /\ \A e \in DOMAIN entries :
       /\ entries[e].kind \in {"term", "level", "dimension", "face"}
       /\ entries[e].kind \in {"term", "level"} => entries[e].name \in Symbols
       /\ entries[e].kind = "dimension" => entries[e].name \in Dims
       /\ entries[e].clause \in Clauses
  /\ \A i \in DOMAIN facts :
       /\ facts[i].kind \in {"typing", "system"}
       /\ facts[i].free \subseteq Symbols \cup Dims
       /\ facts[i].context \subseteq DOMAIN entries
  /\ dimensionEntries \in [Dims -> Nat]
  /\ checkpoint.open \in BOOLEAN

(* What is free in a judgement is in its context, by name, through every   *)
(* binder, restriction and discharge, and an entry's type is judged in the *)
(* context the entry depends on.                                           *)
FreeInContext ==
  /\ \A i \in DOMAIN facts : facts[i].free \subseteq NamesOf(entries, facts[i].context)
  /\ \A e \in DOMAIN entries : entries[e].free \subseteq NamesOf(entries, entries[e].context)

(* A context has every entry its entries depend on, all of them live and   *)
(* earlier than what depends on them, however the store was truncated.     *)
ClosedContext(C) == \A e \in C : entries[e].context \subseteq C

ContextsClosed ==
  /\ \A i \in DOMAIN facts :
       facts[i].context \subseteq DOMAIN entries /\ ClosedContext(facts[i].context)
  /\ \A e \in DOMAIN entries :
       /\ entries[e].context \subseteq 1 .. e - 1 /\ ClosedContext(entries[e].context)
       /\ entries[e].scope = entries[e].context \cup {e}

(* A name, a dimension or a clause is one live entry's: two entries of one *)
(* name would be two variables that syntax cannot tell apart.  Entries are *)
(* numbered again after a rollback, under stale caches.                    *)
OneEntryPerName ==
  \A e, f \in DOMAIN entries :
    /\ (entries[e].kind = "face") = (entries[f].kind = "face")
    /\ entries[e].name = entries[f].name
    /\ entries[e].clause = entries[f].clause
    => e = f

(* A definition is closed, and refers to earlier definitions only; what    *)
(* any judgement refers to is registered.                                  *)
DefinitionsClosed ==
  /\ \A d \in DOMAIN definitions :
       definitions[d].free = {} /\ definitions[d].uses \subseteq 1 .. d - 1
  /\ \A i \in DOMAIN facts : facts[i].uses \subseteq DOMAIN definitions
  /\ \A e \in DOMAIN entries : entries[e].uses \subseteq DOMAIN definitions

(* Every two tubes of a system whose faces meet were shown to agree there, *)
(* or still have to be before the system can be extended or composed.      *)
TubesAgree ==
  \A s \in Systems :
    LET f == facts[s]
    IN  \A l \in DOMAIN f.tubes : \A k \in 1 .. l - 1 :
          (\E c \in f.tubes[k], d \in f.tubes[l] : Consistent(c \cup d)) =>
            <<k, l>> \in f.agreed \/ (l = Len(f.tubes) /\ k \in f.pending)

(* Judgements hold where their contexts say: at a value of the dimensions  *)
(* that satisfies every face a judgement's context assumes, the faces its  *)
(* premises assumed hold too, whatever value a dimension bound or fixed by *)
(* the rule takes; a tube and its equalities are only asked for on their   *)
(* faces.  A face discharged too eagerly would carry what was derived on a *)
(* face out of it.                                                         *)
Values == [Dims -> {0, 1}]
Holds(v, clause) == \A p \in clause : v[p[1]] = p[2]
Assumed(v, C) == \A e \in C : entries[e].kind = "face" => Holds(v, entries[e].clause)

BoundBy(how) ==
  {d \in Dims : /\ how.rule \in {"bind", "endpoint", "compose"}
               /\ entries[how.entry].kind = "dimension" /\ entries[how.entry].name = d}

AskedOf(i, p) ==
  LET how == facts[i].how
      f   == facts[i]
  IN  CASE facts[p].kind = "system"      -> {}
        [] how.rule = "system_tube"    -> UNION how.operand
        [] how.rule = "system_overlap" ->
             UNION (UNION {f.tubes[k] : k \in how.operand \cup {Len(f.tubes)}})
        [] OTHER                       -> {}

PremisesHold ==
  \A i \in DOMAIN facts : \A n \in DOMAIN facts[i].how.premises :
    LET p == facts[i].how.premises[n]
    IN  \A e \in {f \in facts[p].context : entries[f].kind = "face"} :
          \A v \in {u \in Values : Assumed(u, facts[i].context)} : \A w \in Values :
            (\A d \in Dims \ BoundBy(facts[i].how) : w[d] = v[d]) /\ Holds(w, AskedOf(i, p)) => Holds(w, entries[e].clause)
=============================================================================
