----------------------------- MODULE Derivation -----------------------------
(***************************************************************************)
(* How the driver derives a term (web/cubical-instruction-driver.mjs): a   *)
(* scope says which entry each variable is, a binder takes an entry of its *)
(* name and type that the scope does not hold, and a derivation is kept    *)
(* for the part of its scope that it reads (narrow), so that one term is   *)
(* derived once under many binders.  A judgement is its term and context.  *)
(*                                                                         *)
(* Terms are taken to be well typed: what can fail here is a name.  The    *)
(* entry found for a name and a type is the first one made at a type alike *)
(* that is not held, as EntryNames keeps them.  Faces are left out, and of *)
(* the dimension binders there is the path lambda, with a family or, where *)
(* that is its body's type, without.                                       *)
(***************************************************************************)
EXTENDS Naturals, Sequences, FiniteSets, FiniteSetsExt, SequencesExt

CONSTANTS
  Assumptions,      \* contexts: sequences of names and their types
  SourceTerms,      \* what is derived
  RepeatedTerms,    \* what is derived where something was derived before
  MaxDerivations

VARIABLES
  session,   \* the kernel's entries, the variants made and what is kept
  derived    \* the derivations asked for: scope, term and judgement

derivationVars == <<session, derived>>

-----------------------------------------------------------------------------
(* Terms: a variable by its symbol, a function over its domain, a path     *)
(* lambda and an application of each.  A name's nth variant x'n is a       *)
(* symbol as well: <<"x">> and <<"x", n>>.                                 *)

NoDim == 99
Node(kind, name, dim, kids) == [kind |-> kind, name |-> name, dim |-> dim, kids |-> kids]
Const(a) == Node("Const", a, NoDim, <<>>)
Var(x) == Node("Var", x, NoDim, <<>>)
Lam(x, domain, body) == Node("Lam", x, NoDim, <<domain, body>>)
App(fn, arg) == Node("App", <<>>, NoDim, <<fn, arg>>)
PLam(i, body) == Node("PLam", <<>>, i, <<body>>)
PLamIn(i, family, body) == Node("PLam", <<>>, i, <<body, family>>)
PApp(path, i) == Node("PApp", <<>>, i, <<path>>)

BindsName(t, i) == t.kind = "Lam" /\ i = 2
UnionOf(f) == UNION {f[i] : i \in DOMAIN f}

RECURSIVE FreeSymbols(_), BoundSymbols(_), FreeIndices(_)
FreeSymbols(t) ==
  IF t.kind = "Var" THEN {t.name}
  ELSE UnionOf([i \in DOMAIN t.kids |-> FreeSymbols(t.kids[i]) \ (IF BindsName(t, i) THEN {t.name} ELSE {})])
BoundSymbols(t) ==
  (IF t.kind = "Lam" THEN {t.name} ELSE {}) \cup UnionOf([i \in DOMAIN t.kids |-> BoundSymbols(t.kids[i])])
FreeIndices(t) ==
  LET inside == UnionOf([i \in DOMAIN t.kids |-> FreeIndices(t.kids[i])])
  IN  IF t.kind = "PLam" THEN inside \ {t.dim} ELSE IF t.kind = "PApp" THEN inside \cup {t.dim} ELSE inside

(* The kernel's renaming of a dimension, which captures nothing.           *)
LeastNotIn(S) == Min((0 .. Cardinality(S)) \ S)
Rebound(t, dim, kids) == [t EXCEPT !.dim = dim, !.kids = kids]
RECURSIVE RenameIndex(_, _, _)
RenameIndex(t, from, to) ==
  IF from \notin FreeIndices(t) THEN t
  ELSE IF t.kind = "PLam" /\ t.dim = to
  THEN LET apart == LeastNotIn(FreeIndices(t) \cup {from, to, t.dim})
       IN  Rebound(t, apart, [i \in DOMAIN t.kids |-> RenameIndex(RenameIndex(t.kids[i], to, apart), from, to)])
  ELSE [t EXCEPT !.dim = IF t.kind = "PApp" /\ @ = from THEN to ELSE @,
                 !.kids = [i \in DOMAIN @ |-> RenameIndex(@[i], from, to)]]

(* What a term says where its free variables are read by "of": a bound     *)
(* variable is the number of binders between.                              *)
RECURSIVE SaysWith(_, _, _, _, _)
SaysWith(t, of, names, dims, depth) ==
  LET under == IF t.kind = "Lam" THEN (t.name :> depth) @@ names ELSE names
      inside == IF t.kind = "PLam" THEN (t.dim :> depth) @@ dims ELSE dims
      bound(table, x, free) == IF x \in DOMAIN table THEN <<"bound", depth - table[x]>> ELSE free
  IN  [kind |-> t.kind,
       what |-> CASE t.kind = "Const" -> <<"const", t.name>>
                  [] t.kind = "Var" -> bound(names, t.name, IF t.name \in DOMAIN of THEN <<"entry", of[t.name]>> ELSE <<"symbol", t.name>>)
                  [] t.kind = "PApp" -> bound(dims, t.dim, <<"index", t.dim>>)
                  [] OTHER -> <<>>,
       kids |-> [i \in DOMAIN t.kids |->
                   SaysWith(t.kids[i], of, IF BindsName(t, i) THEN under ELSE names, inside, depth + 1)]]
NoTable == [x \in {} |-> x]
SaysIn(t, of) == SaysWith(t, of, NoTable, NoTable, 0)
AlphaEqual(t, u) == SaysIn(t, NoTable) = SaysIn(u, NoTable)

-----------------------------------------------------------------------------
(* Judgements and entries: a context is entries, and the dimensions as     *)
(* negative numbers would be; each entry keeps its type's judgement.       *)

Entry(e) == <<"entry", e>>
Index(i) == <<"index", i>>
Judged(term, context) == [ok |-> TRUE, term |-> term, context |-> context]
Refused == [ok |-> FALSE, term |-> Const(<<"refused">>), context |-> {}]

EntriesIn(context) == {p[2] : p \in {p \in context : p[1] = "entry"}}
IndicesIn(context) == {p[2] : p \in {p \in context : p[1] = "index"}}

\* Binding an entry or a dimension, which no other entry may depend on.
Discharged(s, j, assumption, term, more) ==
  IF \E e \in EntriesIn(j.context) : Entry(e) # assumption /\ assumption \in s.entries[e].type.context
  THEN Refused ELSE Judged(term, (j.context \ {assumption}) \cup more)

(* The first entry made for a name at a type alike that is not held, or a  *)
(* new one, spelled as the name where no live entry is and as a variant    *)
(* otherwise (bind; EntryNames).                                           *)
Found(s, name, type, held) ==
  {e \in DOMAIN s.entries : /\ name \in {s.entries[e].name, s.entries[e].symbol}
                            /\ AlphaEqual(s.entries[e].type.term, type.term)
                            /\ e \notin held}
Spelled(s, name) ==
  LET live == {s.entries[e].symbol : e \in DOMAIN s.entries}
      last == IF name \in DOMAIN s.variants THEN s.variants[name] ELSE 0
  IN  IF name \notin live THEN name
      ELSE Append(name, CHOOSE k \in last + 1 .. last + 1 + Len(s.entries) :
                          /\ Append(name, k) \notin live
                          /\ \A l \in last + 1 .. k - 1 : Append(name, l) \in live)
Extended(s, name, type) ==
  LET symbol == Spelled(s, name)
  IN  [s EXCEPT !.entries = Append(@, [name |-> name, symbol |-> symbol, type |-> type]),
                !.variants = IF symbol = name THEN @ ELSE (name :> Last(symbol)) @@ @]
Bound(s, name, type, held) ==
  LET found == Found(s, name, type, held)
  IN  IF found # {} THEN [session |-> s, entry |-> CHOOSE e \in found : \A d \in found : e <= d]
      ELSE [session |-> Extended(s, name, type), entry |-> Len(s.entries) + 1]

-----------------------------------------------------------------------------
(* Scopes: the entries shown, by symbol, those held but not shown, the     *)
(* dimensions live, and those that types of variables left out mention.    *)

ScopeOf(shown, hidden, live, mentioned) == [shown |-> shown, hidden |-> hidden, live |-> live, mentioned |-> mentioned]
EmptyScope(live) == ScopeOf(NoTable, {}, live, {})
Held(scope) == scope.hidden \cup {scope.shown[x] : x \in DOMAIN scope.shown}
\* A mutant forgets what the entry shadows.
WithEntryOnly(scope, x, e) == [scope EXCEPT !.shown = (x :> e) @@ @]
WithEntry(scope, x, e) ==
  [scope EXCEPT !.shown = (x :> e) @@ @, !.hidden = IF x \in DOMAIN scope.shown THEN @ \cup {scope.shown[x]} ELSE @]
WithLive(scope, i) == [scope EXCEPT !.live = @ \cup {i}]
ContextScope(s, context) ==
  ScopeOf([x \in {s.entries[e].symbol : e \in EntriesIn(context)} |->
             CHOOSE e \in EntriesIn(context) : s.entries[e].symbol = x], {}, IndicesIn(context), {})

EntryIndices(s, e) == IndicesIn(s.entries[e].type.context)
MentionedIn(s, scope) == scope.mentioned \cup UnionOf([x \in DOMAIN scope.shown |-> EntryIndices(s, scope.shown[x])])

(* The part of a scope that a derivation of a term reads (narrow).         *)
Kept(s, t, scope) ==
  {x \in DOMAIN scope.shown : x \in FreeSymbols(t) \/ (EntryIndices(s, scope.shown[x]) # {} /\ x \in BoundSymbols(t))}
Mentioned(s, t, scope) ==
  scope.mentioned
    \cup UNION {EntryIndices(s, scope.shown[x]) : x \in {x \in DOMAIN scope.shown : x \notin BoundSymbols(t)}}
\* A mutant finds them by the symbols they are shown by only.
OccupantsBySymbol(s, scope, names) == {e \in Held(scope) : s.entries[e].symbol \in names}
Occupants(s, scope, names) ==
  {e \in Held(scope) : {s.entries[e].name, s.entries[e].symbol} \cap names # {}}
Narrowed(s, t, scope) ==
  LET shown == [x \in Kept(s, t, scope) |-> scope.shown[x]]
      hidden == Occupants(s, scope, BoundSymbols(t)) \ {shown[x] : x \in DOMAIN shown}
  IN  ScopeOf(shown, hidden, scope.live, Mentioned(s, t, scope))

-----------------------------------------------------------------------------
(* The derivation of a term: the judgement, and the session after it.      *)

Answer(s, j) == [session |-> s, judgement |-> j]
Then(answer, rest(_)) == IF answer.judgement.ok THEN rest(answer) ELSE answer
Remembering(key, answer) == [answer EXCEPT !.session.kept = (key :> answer.judgement) @@ @]

RECURSIVE Derive(_, _, _), DeriveNode(_, _, _)
DeriveKept(s, t, scope) ==
  LET remember(answer) == Remembering(<<scope, t>>, answer)
  IN  IF <<scope, t>> \in DOMAIN s.kept THEN Answer(s, s.kept[<<scope, t>>])
      ELSE Then(DeriveNode(s, t, scope), remember)
Derive(s, t, scope) == DeriveKept(s, t, IF s.whole THEN scope ELSE Narrowed(s, t, scope))

DeriveVar(s, t, scope) ==
  IF t.name \notin DOMAIN scope.shown THEN Answer(s, Refused)
  ELSE LET e == scope.shown[t.name]
       IN  Answer(s, Judged(Var(s.entries[e].symbol), s.entries[e].type.context \cup {Entry(e)}))
DeriveBody(t, scope, opened) ==
  LET discharge(body) ==
        LET e == body.session.entries[opened.entry]
        IN  Answer(body.session, Discharged(body.session, body.judgement, Entry(opened.entry),
                                            Lam(e.symbol, e.type.term, body.judgement.term), e.type.context))
  IN  Then(Derive(opened.session, t.kids[2], WithEntry(scope, t.name, opened.entry)), discharge)
DeriveLam(s, t, scope) ==
  LET over(domain) == DeriveBody(t, scope, Bound(domain.session, t.name, domain.judgement, Held(scope)))
  IN  Then(Derive(s, t.kids[1], scope), over)
DeriveApp(s, t, scope) ==
  LET apply(fn) ==
        LET applied(arg) == Answer(arg.session, Judged(App(fn.judgement.term, arg.judgement.term), fn.judgement.context \cup arg.judgement.context))
        IN  Then(Derive(fn.session, t.kids[2], scope), applied)
  IN  Then(Derive(s, t.kids[1], scope), apply)
DerivePLam(s, t, scope) ==
  LET fresh == LeastNotIn(scope.live)
      inside == WithLive(scope, t.dim)
      bind(after, kids, context) ==
        Answer(after, Discharged(after, Judged(t, context), Index(t.dim), [t EXCEPT !.kids = kids], {}))
      over(body) ==
        LET j == body.judgement
            in(family) == bind(family.session, <<j.term, family.judgement.term>>, j.context \cup family.judgement.context)
        IN  IF Len(t.kids) = 1 THEN bind(body.session, <<j.term>>, j.context)
            ELSE Then(Derive(body.session, t.kids[2], inside), in)
  IN  IF t.dim \in scope.live /\ t.dim \in MentionedIn(s, scope)
      THEN Derive(s, Rebound(t, fresh, [i \in DOMAIN t.kids |-> RenameIndex(t.kids[i], t.dim, fresh)]), scope)
      ELSE Then(Derive(s, t.kids[1], inside), over)
DerivePApp(s, t, scope) ==
  LET applied(path) == Answer(path.session, Judged(PApp(path.judgement.term, t.dim), path.judgement.context \cup {Index(t.dim)}))
  IN  Then(Derive(s, t.kids[1], scope), applied)
DeriveNode(s, t, scope) ==
  CASE t.kind = "Var" -> DeriveVar(s, t, scope)
    [] t.kind = "Lam" -> DeriveLam(s, t, scope)
    [] t.kind = "App" -> DeriveApp(s, t, scope)
    [] t.kind = "PLam" -> DerivePLam(s, t, scope)
    [] t.kind = "PApp" -> DerivePApp(s, t, scope)
    [] OTHER -> Answer(s, Judged(t, {}))

(* A context's scope, each assumption's type derived over the ones before  *)
(* (scopeOf, extendScope).                                                 *)
RECURSIVE Assumed(_, _, _)
Assumed(s, scope, assumptions) ==
  IF assumptions = <<>> THEN [session |-> s, scope |-> scope]
  ELSE LET first == Head(assumptions)
           type == Derive(s, first.type, scope)
           opened == Bound(type.session, first.name, type.judgement, Held(scope))
       IN  Assumed(opened.session, WithEntry(scope, first.name, opened.entry), Tail(assumptions))

-----------------------------------------------------------------------------
DerivationInit == session = [entries |-> <<>>, variants |-> NoTable, kept |-> NoTable, whole |-> FALSE] /\ derived = <<>>

\* check and infer: a term in a context.
DeriveTerm ==
  /\ Len(derived) < MaxDerivations
  /\ \E assumptions \in Assumptions, t \in IF derived = <<>> THEN SourceTerms ELSE RepeatedTerms :
       /\ \A k \in DOMAIN derived : derived[k].term \in RepeatedTerms
       /\ FreeSymbols(t) \subseteq {assumptions[i].name : i \in DOMAIN assumptions}
       /\ LET live == FreeIndices(t) \cup UnionOf([i \in DOMAIN assumptions |-> FreeIndices(assumptions[i].type)])
              opened == Assumed(session, EmptyScope(live), assumptions)
              made == Derive(opened.session, t, opened.scope)
          IN  /\ session' = made.session
              /\ derived' = Append(derived, [scope |-> opened.scope, term |-> t, judgement |-> made.judgement])

\* A new driver: the entries stay, and what was kept is gone.
ResetDriver ==
  /\ session.kept # NoTable
  /\ session' = [session EXCEPT !.kept = NoTable]
  /\ UNCHANGED derived

DerivationNext == DeriveTerm \/ ResetDriver
DerivationSpec == DerivationInit /\ [][DerivationNext]_derivationVars

-----------------------------------------------------------------------------
(* No derivation fails for a name, and what it derives says what was       *)
(* written, each variable the entry its scope shows for it: no binder      *)
(* takes an entry or a dimension that is something else around it, however *)
(* much of the scope was left out and whatever was kept from before.       *)
DerivedMeans ==
  \A k \in DOMAIN derived :
    LET d == derived[k]
        of == ContextScope(session, d.judgement.context).shown
    IN  /\ d.judgement.ok
        /\ SaysIn(d.judgement.term, of) = SaysIn(d.term, d.scope.shown)

(* A derivation is the one its whole scope would give, and its term is     *)
(* itself when it is derived again in its own context, as a type that      *)
(* becomes evidence is (evidence), by this driver or a later one.          *)
DerivationStands ==
  \A k \in DOMAIN derived :
    LET j == derived[k].judgement
        whole == Derive([session EXCEPT !.kept = NoTable, !.whole = TRUE], derived[k].term, derived[k].scope)
        again == Derive(session, j.term, ContextScope(session, j.context))
    IN  j.ok => whole.judgement = j /\ again.judgement.ok /\ again.judgement.term = j.term
=============================================================================
