---------------------------- MODULE Declarations ----------------------------
(***************************************************************************)
(* How a module's items become declarations (web/translator/translate.mjs, *)
(* translateModule): names are owned by the first item that declares them, *)
(* theories and models are checked as the declarations they expand to, in  *)
(* groups that are published together or not at all                        *)
(* (web/translator/declarations.mjs), and what a name stands for is kept   *)
(* three times over, by spelling, by identity and by qualified name        *)
(* (qualified-names.mjs).  Elaboration itself is an outcome.               *)
(*                                                                         *)
(* A name is the sequence of its parts: T.f is <<"T", "f">>.  An item is   *)
(* [kind, name, constructors, refs, family, members]: a definition or an   *)
(* inductive type refers to names, spelled plainly (<<"", n>>) or          *)
(* qualified (<<module, n>>); a theory's members are the declarations it   *)
(* expands to, and its refs are its parents; a directive declares nothing. *)
(***************************************************************************)
EXTENDS Filter, SequencesExt, FiniteSetsExt

CONSTANTS
  Module, Library,  \* the module, and one that it imports
  Labels,            \* names, closed under prefixes
  SourceItems,            \* what the source may have
  Imports,          \* what the library may declare: functions to BOOLEAN, whether it checked
  Joined,           \* names whose identity here, joined by __, is one of the library's
  Managed,          \* whether each declaration is a transaction of its own
  MaxItems

VARIABLES
  queue,     \* items and marks still to handle, the next of the source after them
  items,     \* the items read so far
  env,       \* what names stand for
  owner,     \* who owns a name: the number of the item that first declared it
  declared,  \* names with a registered identity
  groups,    \* the publication groups
  active,    \* the open group, with what is restored if it fails, or NoGroup
  results,   \* what is reported
  kernel,    \* the definitions the kernel has, with those each refers to
  rootFailures  \* the declarations that failed on their own, for the properties

declarationVars ==
  <<queue, items, env, owner, declared, groups, active, results, kernel, rootFailures>>

Keys == {Module, Library} \X Labels
NoName == <<>>
NoGroup == [group |-> 0]

\* What a name stands for, and the item that gave it.
Absent == [tag |-> "absent", by |-> NoName, item |-> 0, root |-> NoName]
Refused == [Absent EXCEPT !.tag = "refused"]
Standing(tag, key, item, root) == [tag |-> tag, by |-> key, item |-> item, root |-> root]

NamesIn(d) == {d.name} \union d.constructors
AllNames(ds) == UNION {NamesIn(ds[i]) : i \in DOMAIN ds}

\* What the parser and the expansion of a theory give: among a theory's
\* declarations is its own, and each comes after a base it depends on.
References == {"", Module, Library} \X Labels
Members == [kind : {"def", "inductive"}, name : Labels, constructors : SUBSET Labels,
            refs : Seq(References), family : STRING, members : {<<>>}, item : Nat]
Sources == [kind : {"def", "inductive", "theory", "directive"}, name : Labels, constructors : SUBSET Labels,
            refs : Seq(References), family : STRING, members : Seq(Members), item : Nat]
Dependencies(family) == IF family \in {"base", "initial"} THEN {}
                        ELSE IF family = "iso" THEN {"base", "hom"} ELSE {"base"}
WellOrdered(ds) ==
  \A i \in DOMAIN ds :
    /\ ds[i].family # ""
    /\ \A j \in DOMAIN ds : ds[j].family \in Dependencies(ds[i].family) =>
         \E k \in 1 .. i - 1 : ds[k].family = ds[j].family

ASSUME DeclarationAssumption ==
  /\ Module # Library /\ "" \notin {Module, Library}
  /\ Labels \subseteq Seq(STRING) \ {NoName} /\ \A n \in Labels : Prefixes(n) \ {NoName} \subseteq Labels
  /\ SourceItems \subseteq Sources
  /\ \A d \in SourceItems : d.kind = "theory" =>
       d.constructors = {} /\ d.name \in AllNames(d.members) /\ WellOrdered(d.members)
  /\ \A library \in Imports : DOMAIN library \subseteq Labels /\ library \in [DOMAIN library -> BOOLEAN]
  /\ Managed \in BOOLEAN /\ MaxItems \in Nat

-----------------------------------------------------------------------------
(* The environment.                                                        *)

\* publishDeclaration of the names in DOMAIN values: an identity that is
\* another module's keeps its value.
Published(e, registered, values) ==
  [e EXCEPT !.plain = [n \in Labels |-> IF n \in DOMAIN values THEN values[n] ELSE e.plain[n]],
            !.exact = [k \in Keys |->
               IF k[1] = Module /\ k[2] \in (DOMAIN values \intersect registered) \ Joined
               THEN values[k[2]] ELSE e.exact[k]]]

\* The longest of n's prefixes that has a value.
Longest(n, values, m) ==
  LET there == {p \in Prefixes(n) \ {NoName} : values[<<m, p>>].tag \notin {"absent", "refused"}}
  IN IF there = {} THEN NoName ELSE CHOOSE p \in there : \A q \in there : Len(q) <= Len(p)

\* bindQualifiedNames: each qualified name is bound where it, or else its
\* longest prefix, is available by identity, and to its refusal otherwise.
BindQualified(e, refs) ==
  LET written == {r \in Range(refs) : r[1] # "" /\ e.spelled[r].tag \in {"absent", "refused"}}
      found(r) == Longest(r[2], e.exact, r[1])
      prefixes == {<<r[1], found(r)>> : r \in written}
  IN [e EXCEPT !.spelled = [k \in Keys |->
        IF k \in prefixes THEN e.exact[k]
        ELSE IF k \notin written THEN e.spelled[k]
        ELSE IF found(k) = NoName THEN Refused ELSE Absent]]

\* What a reference reads: the name, or a field of what a prefix stands for.
Resolve(e, ref) ==
  LET values == IF ref[1] = "" THEN [k \in Keys |-> e.plain[k[2]]] ELSE e.spelled
      found == Longest(ref[2], values, IF ref[1] = "" THEN Module ELSE ref[1])
  IN IF found = NoName THEN Absent ELSE values[<<IF ref[1] = "" THEN Module ELSE ref[1], found>>]

\* What the first reference that cannot be used stands for, or that all can.
Blocker(e, refs) ==
  LET i == SelectInSeq(refs, LAMBDA r : Resolve(e, r).tag # "checked")
  IN IF i = 0 THEN Standing("checked", NoName, 0, NoName) ELSE Resolve(e, refs[i])

\* The root that a failure passes on, or that it is.
RootOf(blocker, d) == IF blocker.tag = "untranslated" THEN blocker.root ELSE <<Module, d.name>>
OwnRoots(blocker, d) == IF blocker.tag = "untranslated" THEN {} ELSE {<<Module, d.name>>}

Unavailable(names, item, root) == [n \in names |-> Standing("untranslated", <<Module, n>>, item, root)]

-----------------------------------------------------------------------------
(* Ownership and groups.                                                   *)

\* DeclarationOwnership.reserve: the names still free are claimed even when
\* another is not.
Conflict(ds, o) ==
  \E i \in DOMAIN ds : \E n \in NamesIn(ds[i]) :
    \/ n \in DOMAIN owner /\ owner[n] # o
    \/ \E j \in DOMAIN ds \ {i} : n \in NamesIn(ds[j])
Reserved(ds, o) ==
  [n \in DOMAIN owner \union AllNames(ds) |-> IF n \in DOMAIN owner THEN owner[n] ELSE o]

\* publicationGroups
Families(ds) ==
  Kept([i \in DOMAIN ds |-> ds[i].family],
       {i \in DOMAIN ds : \A j \in 1 .. i - 1 : ds[j].family # ds[i].family})
OfFamily(ds, f) == Kept(ds, {i \in DOMAIN ds : ds[i].family = f})
GroupsOf(ds, o) ==
  LET fs == Families(ds)
      at(f) == Len(groups) + CHOOSE k \in DOMAIN fs : fs[k] = f
  IN [k \in DOMAIN fs |->
       [members |-> OfFamily(ds, fs[k]), item |-> o, state |-> "reserved", root |-> NoName,
        dependencies |-> {at(f) : f \in Dependencies(fs[k]) \intersect Range(fs)}]]
Mark(kind, g, item) == [kind |-> kind, group |-> g, item |-> item]
Block(group, g) == <<Mark("start", g, group.item)>> \o group.members \o <<Mark("end", g, group.item)>>
Marked(gs) == FlattenSeq([k \in DOMAIN gs |-> Block(gs[k], Len(groups) + k)])

-----------------------------------------------------------------------------

Nothing == [n \in Labels |-> Absent]

DeclarationInit ==
  /\ \E library \in Imports :
       LET value(n) == IF n \notin DOMAIN library THEN Absent
                       ELSE Standing(IF library[n] THEN "checked" ELSE "untranslated", <<Library, n>>, 0,
                                  IF library[n] THEN NoName ELSE <<Library, n>>)
       IN /\ env = [plain |-> [n \in Labels |-> value(n)],
                    exact |-> [k \in Keys |-> IF k[1] = Library THEN value(k[2]) ELSE Absent],
                    spelled |-> [k \in Keys |-> Absent]]
          /\ kernel = {[by |-> <<Library, n>>, uses |-> {}] : n \in {n \in DOMAIN library : library[n]}}
          /\ rootFailures = {<<Library, n>> : n \in {n \in DOMAIN library : ~ library[n]}}
  /\ queue = <<>> /\ items = 0 /\ owner = <<>> /\ declared = {} /\ groups = <<>> /\ active = NoGroup
  /\ results = <<>>

\* The source's items are chosen when they are next, and counted then.
NextItem(item) ==
  /\ queue = <<>> /\ items < MaxItems
  /\ items' = items + 1
  /\ LET numbered(d) == [d EXCEPT !.item = items + 1]
     IN queue' = <<[numbered(item) EXCEPT !.members = [i \in DOMAIN item.members |-> numbered(item.members[i])]]>>
  /\ UNCHANGED <<env, owner, declared, groups, active, results, kernel, rootFailures>>

IsNext(kinds) == queue # <<>> /\ queue[1].kind \in kinds

\* A directive reads what it names and reports.
Directive ==
  /\ IsNext({"directive"})
  /\ queue' = Tail(queue)
  /\ env' = BindQualified(env, Head(queue).refs)
  /\ UNCHANGED <<items, owner, declared, groups, active, results, kernel, rootFailures>>

\* rejectDuplicate: what d owns of its names, and an imported T.f of a
\* refused theory T, stand for its refusal.
DuplicateNamesAll(d, ds, owned) == AllNames(ds)
DuplicateNames(d, ds, owned) ==
  {n \in AllNames(ds) : owned[n] = d.item}
    \union IF d.kind # "theory" THEN {}
           ELSE {n \in Labels \ DOMAIN owned : IsStrictPrefix(d.name, n) /\ env.plain[n].tag # "absent"}
Reject(d, ds, e, registered) ==
  LET owned == Reserved(ds, d.item) IN
  /\ owner' = owned
  /\ declared' = registered \union NamesIn(d)
  /\ env' = Published(e, declared', Unavailable(DuplicateNames(d, ds, owned), d.item, <<Module, d.name>>))
  /\ results' = Append(results, [name |-> d.name, ok |-> FALSE, root |-> <<Module, d.name>>])
  /\ rootFailures' = rootFailures \union {<<Module, d.name>>}
  /\ queue' = Tail(queue)
  /\ UNCHANGED <<items, groups, active, kernel>>

RejectDuplicate ==
  /\ IsNext({"def", "inductive", "theory"}) /\ active = NoGroup
  /\ Conflict(<<Head(queue)>>, Head(queue).item)
  /\ Reject(Head(queue), <<Head(queue)>>, BindQualified(env, Head(queue).refs), declared)

\* A theory that does not expand fails as a declaration of its name
\* (failedExpansion).
FailExpansion ==
  /\ IsNext({"theory"}) /\ ~ Conflict(<<Head(queue)>>, Head(queue).item)
  /\ LET d == Head(queue)
         blocker == Blocker(env, d.refs)
     IN /\ owner' = Reserved(<<d>>, d.item)
        /\ declared' = declared \union NamesIn(d)
        /\ env' = Published(env, declared', Unavailable({d.name}, d.item, RootOf(blocker, d)))
        /\ results' = Append(results, [name |-> d.name, ok |-> FALSE, root |-> RootOf(blocker, d)])
        /\ rootFailures' = rootFailures \union OwnRoots(blocker, d)
  /\ queue' = Tail(queue)
  /\ UNCHANGED <<items, groups, active, kernel>>

\* A theory is checked as what it expands to, in its place.
Expand ==
  /\ IsNext({"theory"}) /\ ~ Conflict(<<Head(queue)>>, Head(queue).item)
  /\ LET d == Head(queue)
         gs == GroupsOf(d.members, d.item)
         registered == declared \union AllNames(d.members)
     IN /\ Blocker(env, d.refs).tag = "checked"
        /\ IF Conflict(d.members, d.item) THEN Reject(d, d.members, env, registered)
           ELSE /\ owner' = Reserved(d.members, d.item)
                /\ declared' = registered
                /\ groups' = groups \o gs
                /\ queue' = Marked(gs) \o Tail(queue)
                /\ UNCHANGED <<items, env, active, results, kernel, rootFailures>>

\* A group whose dependency was not published is not checked at all.
Waiting(g) == {h \in groups[g].dependencies : groups[h].state # "checked"}
StartGroup ==
  /\ IsNext({"start"})
  /\ LET g == Head(queue).group IN
     IF Waiting(g) = {}
     THEN /\ active' = [group |-> g, env |-> env, results |-> Len(results), kernel |-> kernel]
          /\ groups' = [groups EXCEPT ![g].state = "checking"]
          /\ queue' = Tail(queue) /\ UNCHANGED env
     ELSE LET root == groups[Min(Waiting(g))].root IN
          /\ groups' = [groups EXCEPT ![g].state = "blocked", ![g].root = root]
          /\ env' = Published(env, declared, Unavailable(AllNames(groups[g].members), groups[g].item, root))
          /\ queue' = SubSeq(queue, Len(groups[g].members) + 3, Len(queue))
          /\ UNCHANGED active
  /\ UNCHANGED <<items, owner, declared, results, kernel, rootFailures>>

EndGroup ==
  /\ IsNext({"end"})
  /\ groups' = [groups EXCEPT ![active.group].state = "checked"]
  /\ active' = NoGroup /\ queue' = Tail(queue)
  /\ UNCHANGED <<items, env, owner, declared, results, kernel, rootFailures>>

-----------------------------------------------------------------------------
(* A definition or an inductive type.                                      *)

\* What remains once a member of the open group failed: nothing of the
\* group, and each of its names stands for the root cause.
Rollback(failed) ==
  LET group == groups[active.group]
      rest == SelectInSeq(queue, LAMBDA q : q.kind = "end")
  IN /\ env' = Published(active.env, declared', Unavailable(AllNames(group.members), group.item, failed.root))
     /\ groups' = [groups EXCEPT ![active.group].state = "failed", ![active.group].root = failed.root]
     /\ results' = Append(SubSeq(results, 1, active.results), [failed EXCEPT !.name = group.members[1].name])
     /\ kernel' = active.kernel
     /\ queue' = SubSeq(queue, rest + 1, Len(queue))
     /\ active' = NoGroup

\* Elaboration and its closing checks refuse, or run out of time once the
\* kernel has the definition, or an observer refuses the checked result.
Outcomes == {"checked", "refused", "overdue", "late"}

\* What its names stand for once the observers have the result.
Available(d) == [n \in NamesIn(d) |-> Standing("checked", <<Module, n>>, d.item, NoName)]
LastValuesChecked(d, outcome, ok, root) ==
  IF ok \/ outcome = "late" THEN Available(d) ELSE Unavailable(NamesIn(d), d.item, root)
LastValues(d, outcome, ok, root) ==
  IF ok THEN Available(d) ELSE Unavailable(NamesIn(d), d.item, root)

CheckDeclaration(outcome) ==
  /\ IsNext({"def", "inductive"})
  /\ active # NoGroup \/ ~ Conflict(<<Head(queue)>>, Head(queue).item)
  /\ LET d == Head(queue)
         e == BindQualified(env, d.refs)
         clashes == NamesIn(d) \intersect Joined # {}
         blocker == IF clashes THEN Absent ELSE Blocker(e, d.refs)
         ok == outcome = "checked" /\ blocker.tag = "checked"
         root == IF ok THEN NoName ELSE RootOf(blocker, d)
         values == LastValues(d, outcome, ok, root)
         defined == {[by |-> <<Module, n>>, uses |-> {Resolve(e, d.refs[i]).by : i \in DOMAIN d.refs}] : n \in NamesIn(d)}
         result == [name |-> d.name, ok |-> ok, root |-> root]
     IN /\ blocker.tag # "checked" => outcome = "refused"
        /\ declared' = declared \union NamesIn(d)
        /\ owner' = IF active = NoGroup THEN Reserved(<<d>>, d.item) ELSE owner
        /\ rootFailures' = IF ok THEN rootFailures ELSE rootFailures \union OwnRoots(blocker, d)
        /\ IF active # NoGroup /\ ~ ok THEN Rollback(result)
           ELSE /\ env' = Published(e, declared', values)
                /\ results' = Append(results, result)
                /\ kernel' = IF ok \/ (outcome \in {"overdue", "late"} /\ ~ Managed) THEN kernel \union defined ELSE kernel
                /\ queue' = Tail(queue)
                /\ UNCHANGED <<groups, active>>
  /\ UNCHANGED items

DeclarationNext ==
  \/ \E item \in SourceItems : NextItem(item)
  \/ Directive \/ RejectDuplicate \/ FailExpansion \/ Expand \/ StartGroup \/ EndGroup
  \/ \E outcome \in Outcomes : CheckDeclaration(outcome)

DeclarationSpec == DeclarationInit /\ [][DeclarationNext]_declarationVars

-----------------------------------------------------------------------------
(* Properties.                                                             *)

ValuesOf(e) == Range(e.plain) \union Range(e.exact) \union Range(e.spelled)
Defined == {k.by : k \in kernel}

\* Whatever a name, an identity or a qualified name stands for as checked is
\* defined in the kernel, with all it refers to, whichever group was rolled
\* back or result refused since; and a published group's names stay
\* available (finishPublication, the refusal of late results).  However many
\* failed declarations lie between, every client of a failed one reports a
\* declaration that failed on its own (failureRoot).
AvailableIsDefined ==
  /\ \A v \in ValuesOf(env) : v.tag = "checked" => v.by \in Defined
  /\ \A k \in kernel : k.uses \subseteq Defined
  /\ \A g \in DOMAIN groups : groups[g].state = "checked" =>
       \A n \in AllNames(groups[g].members) : env.plain[n].tag = "checked"
  /\ \A v \in ValuesOf(env) : v.tag = "untranslated" => v.root \in rootFailures

\* A name that an item owns stands for what that item made of it, never for
\* an import of its spelling nor for a later item of its name, once the item
\* was handled; its identity and its qualified name say the same (reserve,
\* rejectDuplicate, unavailable, bindQualifiedNames).
Handled(item) == (active = NoGroup \/ groups[active.group].item # item) /\ \A i \in DOMAIN queue : queue[i].item # item
OneMeaning ==
  /\ \A n \in DOMAIN owner : Handled(owner[n]) =>
       /\ env.plain[n].item = owner[n] /\ env.plain[n].by = <<Module, n>>
       /\ n \notin Joined => env.exact[<<Module, n>>] = env.plain[n]
  /\ \A k \in Keys : env.spelled[k].tag \notin {"absent", "refused"} => env.spelled[k] = env.exact[k]
=============================================================================
