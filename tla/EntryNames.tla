------------------------------ MODULE EntryNames ------------------------------
(***************************************************************************)
(* The names of a session's context entries (EntryNames,                   *)
(* web/cubical-variables.mjs): which entry a binder of a name and a type   *)
(* is, and how a new entry is spelled.  Entries outlive the drivers that   *)
(* make them and end with a checkpoint, whose commit also moves the        *)
(* handles of the types they were made at.                                 *)
(*                                                                         *)
(* A name is a sequence: <<x>> is a page's name x, and <<x, 2>> its second *)
(* variant x'2, which is a name like any other.  A type is the handle of a *)
(* node <<class, spelling>>; nodes of one class are alpha-equal.  The      *)
(* likeness compared first, which alpha-equal types share, is left out,    *)
(* and so are entries of levels, which have one type.                      *)
(***************************************************************************)
EXTENDS Naturals, Sequences, FiniteSets, SequencesExt, Filter

VARIABLES
  arena,      \* the kernel's nodes
  entries,    \* the kernel's context entries: the symbol each holds
  records,    \* each entry's name, symbol, type and keys
  named,      \* each key's groups of entries, and the type handles it knows
  touched,    \* the keys whose known handles a truncation could move
  variants    \* the last variant number of each name

namesVars == <<records, named, touched, variants>>

Handles == 1 .. Len(arena)
Empty == [x \in {} |-> x]
With(f, x, y) == [z \in DOMAIN f \cup {x} |-> IF z = x THEN y ELSE f[z]]

NamesInit == records = <<>> /\ named = Empty /\ touched = {} /\ variants = Empty

NamedOf(key) == IF key \in DOMAIN named THEN named[key] ELSE [groups |-> <<>>, known |-> Empty]

(* What "known" keeps of a type handle: its group, or 0 and how many       *)
(* groups it was compared with and found unlike.                           *)
Unknown == [group |-> 0, compared |-> 0]
Found(i) == [group |-> i, compared |-> 0]

(* group: the one known by the type's handle, or the first alike of those  *)
(* not compared with yet; 0 for none.                                      *)
Alike(h, k) == arena[h][1] = arena[k][1]
GroupFor(key, type) ==
  LET g == NamedOf(key)
      known == IF type \in DOMAIN g.known THEN g.known[type] ELSE Unknown
      alike == {i \in DOMAIN g.groups : i > known.compared /\ Alike(g.groups[i].type, type)}
  IN IF known.group # 0 THEN known.group
     ELSE IF alike = {} THEN 0 ELSE CHOOSE i \in alike : \A j \in alike : i <= j

(* The key after "group" was asked for a type, and after "record" gave it  *)
(* an entry.                                                               *)
Asked(key, type) ==
  LET i == GroupFor(key, type)
      g == NamedOf(key)
  IN [groups |-> g.groups,
      known |-> With(g.known, type, [group |-> i, compared |-> IF i = 0 THEN Len(g.groups) ELSE 0])]
Given(key, type, entry) ==
  LET i == GroupFor(key, type)
      g == NamedOf(key)
      new == Len(g.groups) + 1
  IN IF i # 0
     THEN [groups |-> [g.groups EXCEPT ![i] = [type |-> @.type, entries |-> Append(@.entries, entry)]],
           known |-> With(g.known, type, Found(i))]
     ELSE [groups |-> Append(g.groups, [type |-> type, entries |-> <<entry>>]),
           known |-> With(g.known, type, Found(new))]

(* find: the first entry of the group that the caller does not exclude.    *)
Find(key, type, excluded) ==
  LET i == GroupFor(key, type)
      es == IF i = 0 THEN <<>> ELSE NamedOf(key).groups[i].entries
      free == {k \in DOMAIN es : es[k] \notin excluded}
  IN IF free = {} THEN 0 ELSE es[Nth(free, 1)]

(* spelling: the name itself where no live entry holds its symbol and the  *)
(* entry is not to be fresh, and otherwise the next variant.               *)
Held(symbol) == \E e \in DOMAIN records : records[e].symbol = symbol
NextVariant(name) ==
  LET last == IF name \in DOMAIN variants THEN variants[name] ELSE 0
      free == {k \in last + 1 .. last + 1 + Len(records) : ~Held(Append(name, k))}
  IN CHOOSE k \in free : \A j \in free : k <= j
Spelling(name, fresh) ==
  IF ~fresh /\ ~Held(name) THEN name ELSE Append(name, NextVariant(name))

(* bind and freshEntry (web/cubical-instruction-driver.mjs) with the       *)
(* instruction and the record of a new entry: a variable of a name and a   *)
(* type, in a scope that holds the entries "excluded".                     *)
Extend(name, type, fresh) ==
  LET spelled == Spelling(name, fresh)
      entry == Len(entries) + 1
      keys == IF fresh THEN {spelled} ELSE {name, spelled}
  IN /\ entries' = Append(entries, spelled)
     /\ records' = Append(records, [name |-> name, symbol |-> spelled, type |-> type, keys |-> keys])
     /\ named' = [k \in DOMAIN named \cup keys |-> IF k \in keys THEN Given(k, type, entry) ELSE named[k]]
     /\ touched' = touched \cup keys
     /\ variants' = IF spelled = name THEN variants ELSE With(variants, name, NextVariant(name))
Bind(name, type, excluded) ==
  IF Find(name, type, excluded) = 0
  THEN Extend(name, type, FALSE)
  ELSE /\ named' = With(named, name, Asked(name, type))
       /\ touched' = touched \cup {name}
       /\ UNCHANGED <<entries, records, variants>>

(* truncate: entries from a count on are gone; each key touched since the  *)
(* last truncation, or that named one of them, knows again only the types  *)
(* its entries were made at.                                               *)
Truncated(key, count) ==
  LET old == named[key].groups
      live(i) == {k \in DOMAIN old[i].entries : old[i].entries[k] <= count}
      cut == [i \in DOMAIN old |-> [type |-> old[i].type, entries |-> Kept(old[i].entries, live(i))]]
      groups == Kept(cut, {i \in DOMAIN old : live(i) # {}})
      of(h) == {i \in DOMAIN groups : \E e \in ToSet(groups[i].entries) : records[e].type = h}
      types == {records[e].type : e \in UNION {ToSet(groups[i].entries) : i \in DOMAIN groups}}
  IN [groups |-> groups, known |-> [h \in types |-> Found(CHOOSE i \in of(h) : TRUE)]]
Truncate(count) ==
  LET again == (touched \cup UNION {records[e].keys : e \in {d \in DOMAIN records : d > count}})
                 \cap DOMAIN named
      gone == {k \in again : Truncated(k, count).groups = <<>>}
  IN /\ records' = SubSeq(records, 1, count)
     /\ named' = [k \in DOMAIN named \ gone |-> IF k \in again THEN Truncated(k, count) ELSE named[k]]
     /\ touched' = {}
     /\ UNCHANGED variants

-----------------------------------------------------------------------------
(* What the names must keep true.                                          *)

(* Each record is its entry's, and no two live entries hold one symbol.    *)
RecordsTrue ==
  /\ Len(records) = Len(entries)
  /\ \A e \in DOMAIN records :
       /\ records[e].symbol = entries[e]
       /\ records[e].type \in Handles
       /\ \A d \in DOMAIN records : records[d].symbol = records[e].symbol => d = e

(* A key's groups hold exactly its entries, one group for each type up to  *)
(* alpha-equality, and a type handle it knows names a type of that group,  *)
(* or one unlike every group it was compared with.                         *)
GroupsTrue ==
  \A key \in DOMAIN named :
    LET g == named[key].groups
        known == named[key].known
    IN /\ \A i, j \in DOMAIN g : i # j => ~Alike(g[i].type, g[j].type)
       /\ \A e \in DOMAIN records :
            (key \in records[e].keys)
              <=> \E i \in DOMAIN g : e \in ToSet(g[i].entries) /\ Alike(g[i].type, records[e].type)
       /\ \A h \in DOMAIN known :
            /\ h \in Handles
            /\ IF known[h].group # 0 THEN known[h].group \in DOMAIN g /\ Alike(g[known[h].group].type, h)
               ELSE \A i \in 1 .. known[h].compared : i \in DOMAIN g => ~Alike(g[i].type, h)
=============================================================================
