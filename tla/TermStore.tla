------------------------------ MODULE TermStore ------------------------------
(***************************************************************************)
(* The kernel's store of syntax, definitions, signatures and judgements,   *)
(* and its one level of transaction: cc_kernel_checkpoint, _rollback and   *)
(* _commit_checkpoint (kernel/src/checkpoint.c) over the arena of          *)
(* SyntaxArena.                                                            *)
(*                                                                         *)
(* Every step is one call of the kernel's interface.  The kernel is        *)
(* single-threaded, so a call is atomic; what interleaves is the order in  *)
(* which a client makes them.  Any error is latched: until it is cleared,  *)
(* every call but the checkpoint calls does nothing.                       *)
(*                                                                         *)
(* Judgements are kept as the pairs of handles they are about.  Which      *)
(* pairs the rules derive, and their contexts, are the subject of module   *)
(* Judgements; here a judgement may be about any live syntax whose         *)
(* references are registered, and every judgement is closed.               *)
(***************************************************************************)
EXTENDS SyntaxArena

CONSTANTS
  Symbols,       \* the symbols clients choose: definitions, sorts, constructors
  Variables,     \* ... and the variables they write
  Allocates,     \* the outcomes of an allocation to explore
  MaxDefinitions,    \* bounds of the exploration
  MaxSignatures,
  MaxConstructors,   \* the most constructors of a signature (256)
  MaxFacts

(* What a node is made of: a symbol, or an index.                          *)
Payload == 0 .. MaxSymbol + MaxDefinitions + MaxSignatures
Keys == [kind : AllKinds, payload : Payload, child : (0 .. MaxHandle) \X (0 .. MaxHandle)]

ASSUME StoreAssumption ==
  /\ Symbols \subseteq 1 .. MaxSymbol /\ Variables \subseteq 1 .. MaxSymbol
  /\ Allocates \subseteq BOOLEAN
  /\ {MaxDefinitions, MaxSignatures, MaxConstructors, MaxFacts} \subseteq Nat
  /\ \A key \in Keys : Hash(key) \in Nat

VARIABLES
  arena,         \* the syntax
  error,         \* k->error and k->error_kind: "none", "other" or "resource"
  definitions,   \* k->definitions[1 ..]
  signatures,    \* k->signatures[1 ..]
  facts,         \* k->facts[1 ..]
  weak,          \* k->weak_cache, and the caches cleared along with it
  checkpoint,    \* the counts recorded by the checkpoint
  relocation     \* the map the last commit left

vars == <<arena, error, definitions, signatures, facts, weak, checkpoint, relocation>>

Handle == 1 .. MaxHandle
Nodes == arena.nodes
Kind(t) == Nodes[t].kind

(* checkpoint_count = 0: nothing to roll back or commit.                   *)
NoCheckpoint == [count |-> 0, definitions |-> 0, signatures |-> <<>>, facts |-> 0]
Open == checkpoint.count # 0

NoRelocation == [base |-> MaxHandle + 1, map |-> <<>>]

(* cc_kernel_relocated: where the last commit moved a handle; 0 when it    *)
(* was discarded.                                                          *)
Relocated(t) ==
  IF t < relocation.base THEN t
  ELSE IF t \in DOMAIN relocation.map THEN relocation.map[t]
  ELSE 0

Init ==
  /\ arena = NewArena
  /\ error = "none"
  /\ definitions = <<>>
  /\ signatures = <<>>
  /\ facts = <<>>
  /\ weak = [t \in Handle |-> 0]
  /\ checkpoint = NoCheckpoint
  /\ relocation = NoRelocation

-----------------------------------------------------------------------------
(* References.  A DEFREF names a definition and a SORT a signature, by its *)
(* index, whether or not one is registered there: raw syntax may name an   *)
(* index that is registered later, or was rolled back.                     *)

References(nodes, t) ==
  LET below[h \in Live(nodes)] ==
        (IF nodes[h].kind \in {"DEFREF", "SORT"} THEN {<<nodes[h].kind, nodes[h].payload>>} ELSE {})
          \cup UNION {below[c] : c \in Children(nodes[h])}
  IN  below[t]

Admitted == {s \in DOMAIN signatures : signatures[s].admitted}

Registered ==
  ({"DEFREF"} \X DOMAIN definitions) \cup ({"SORT"} \X Admitted)

(* Syntax the rules can have judged: Lookup refuses a reference to no      *)
(* definition, and an instance is made of an admitted signature only.      *)
Grounded(t) == References(Nodes, t) \subseteq Registered

Typing(t, type) == [kind |-> "typing", term |-> t, type |-> type, pending |-> 0]
Admission(t, former, n) == [kind |-> "signature", term |-> t, type |-> former, pending |-> n]

Typings == {i \in DOMAIN facts : facts[i].kind = "typing"}

(* A call that neither adds to the store nor to the checkpoint.            *)
Publish(fact) == facts' = Append(facts, fact)
Latch(class) == error' = class
Bounded == Len(facts) < MaxFacts

-----------------------------------------------------------------------------
(* Syntax.                                                                 *)

(* The payloads clients give: symbols, and indices registered or not.      *)
Payloads(kind) ==
  CASE kind = "VAR"    -> Variables
    [] kind = "DEFREF" -> 1 .. MaxDefinitions
    [] kind = "SORT"   -> 1 .. MaxSignatures
    [] OTHER           -> {0}

(* cc_kernel_term: children are any handles a client may hold, discarded   *)
(* ones included.                                                          *)
Term ==
  /\ error = "none"
  /\ \E kind \in Kinds, a, b \in 0 .. MaxHandle, ok \in Allocates :
       \E payload \in Payloads(kind) :
         LET made == Make(arena, Key(kind, payload, a, b), ok)
         IN  /\ arena' = made.arena
             /\ Latch(made.error)
  /\ UNCHANGED <<definitions, signatures, facts, weak, checkpoint, relocation>>

(* ck_fresh_symbol.                                                        *)
FreshSymbol ==
  /\ error = "none"
  /\ IF arena.nextSymbol = MaxSymbol
     THEN Latch("resource") /\ UNCHANGED arena
     ELSE arena' = [arena EXCEPT !.nextSymbol = @ + 1] /\ UNCHANGED error
  /\ UNCHANGED <<definitions, signatures, facts, weak, checkpoint, relocation>>

(* cc_kernel_set_optimizations.                                            *)
SetOptimizations ==
  /\ \E on \in BOOLEAN : arena' = SetSharing(arena, on)
  /\ UNCHANGED <<error, definitions, signatures, facts, weak, checkpoint, relocation>>

(* Any call that fails for a reason abstracted here, and the query         *)
(* wrappers and clients that clear the error afterwards.                   *)
Refuse ==
  /\ error = "none"
  /\ Latch("other")
  /\ UNCHANGED <<arena, definitions, signatures, facts, weak, checkpoint, relocation>>

ClearError ==
  /\ error' = "none"
  /\ UNCHANGED <<arena, definitions, signatures, facts, weak, checkpoint, relocation>>

(* ck_whnf on a reference: unfold definitions until a cached head or a     *)
(* term that is no reference, and cache the result for every term passed.  *)
Unfolds(t) ==
  LET trail[i \in 0 .. Len(definitions)] ==
        IF i = 0 THEN t
        ELSE LET u == trail[i - 1]
             IN  IF Kind(u) = "DEFREF" /\ Nodes[u].payload \in DOMAIN definitions
                 THEN definitions[Nodes[u].payload].value ELSE u
  IN  trail

WeakHead(t) == Unfolds(t)[Len(definitions)]

Whnf ==
  /\ error = "none"
  /\ \E t \in Live(Nodes) :
       LET trail == Unfolds(t)
           stop  == {i \in 0 .. Len(definitions) :
                       weak[trail[i]] # 0 \/ Kind(trail[i]) # "DEFREF"}
           last  == CHOOSE i \in stop : \A j \in stop : i <= j
           head  == IF weak[trail[last]] # 0 THEN weak[trail[last]] ELSE trail[last]
       IN  IF stop = {}
           THEN Latch("other") /\ UNCHANGED weak
           ELSE /\ weak' = [u \in Handle |->
                              IF \E i \in 0 .. last : u = trail[i] THEN head ELSE weak[u]]
                /\ UNCHANGED error
  /\ UNCHANGED <<arena, definitions, signatures, facts, checkpoint, relocation>>

-----------------------------------------------------------------------------
(* Judgements and definitions.                                             *)

(* An instruction that publishes a closed typing of syntax already made.   *)
Judge ==
  /\ error = "none"
  /\ Bounded
  /\ \E t, type \in Live(Nodes) :
       /\ Grounded(t) /\ Grounded(type)
       /\ Typing(t, type) \notin ToSet(facts)
       /\ Publish(Typing(t, type))
  /\ UNCHANGED <<arena, error, definitions, signatures, weak, checkpoint, relocation>>

(* Mutant: the reference is made after the definition was counted.         *)
DefinitionAfterNext == Len(definitions) + 2

(* cc_instr_define: the reference is made before the definition is         *)
(* registered, so a failure to make it registers nothing; a failure to     *)
(* publish the judgement about it leaves the definition registered.        *)
NextDefinition == Len(definitions) + 1

Define ==
  /\ error = "none"
  /\ Bounded /\ Len(definitions) < MaxDefinitions
  /\ \E i \in Typings, symbol \in Symbols, ok, published \in Allocates :
       LET made == Make(arena, Key("DEFREF", NextDefinition, 0, 0), ok)
       IN  /\ \A d \in DOMAIN definitions : definitions[d].symbol # symbol
           /\ arena' = made.arena
           /\ IF made.term = 0
              THEN Latch(made.error) /\ UNCHANGED <<definitions, facts>>
              ELSE /\ definitions' = Append(definitions,
                        [symbol |-> symbol, value |-> facts[i].term, type |-> facts[i].type])
                   /\ IF published
                      THEN Publish(Typing(made.term, facts[i].type)) /\ UNCHANGED error
                      ELSE Latch("resource") /\ UNCHANGED facts
  /\ UNCHANGED <<signatures, weak, checkpoint, relocation>>

(* cc_instr_lookup.                                                        *)
Lookup ==
  /\ error = "none"
  /\ Bounded
  /\ \E t \in Live(Nodes) :
       /\ Kind(t) = "DEFREF"
       /\ IF Nodes[t].payload \in DOMAIN definitions
          THEN LET fact == Typing(t, definitions[Nodes[t].payload].type)
               IN  /\ fact \notin ToSet(facts)
                   /\ Publish(fact)
                   /\ UNCHANGED error
          ELSE Latch("other") /\ UNCHANGED facts
  /\ UNCHANGED <<arena, definitions, signatures, weak, checkpoint, relocation>>

-----------------------------------------------------------------------------
(* Signatures: opened, extended one constructor at a time, and closed.     *)
(* Only the signature's latest judgement continues it.                     *)

Latest(i) ==
  /\ facts[i].kind = "signature"
  /\ LET s == signatures[Nodes[facts[i].term].payload]
     IN  ~ s.admitted /\ facts[i].pending = Len(s.constructors)

(* cc_instr_signature_begin.  The table's entry is taken back when the     *)
(* sort or the judgement cannot be made.                                   *)
SignatureBegin ==
  /\ error = "none"
  /\ Bounded /\ Len(signatures) < MaxSignatures
  /\ \E i \in Typings, sort \in Symbols, squash \in BOOLEAN, ok, published \in Allocates :
       LET symbol == Make(arena, Key("VAR", sort, 0, 0), ok)
           index  == Len(signatures) + 1
           made   == Make(symbol.arena, Key("SORT", index, 0, 0), ok)
       IN  IF symbol.term = 0
           THEN /\ arena' = symbol.arena /\ Latch(symbol.error)
                /\ UNCHANGED <<signatures, facts>>
           ELSE /\ arena' = made.arena
                /\ IF made.term = 0 \/ ~ published
                   THEN /\ Latch(IF made.term = 0 THEN made.error ELSE "resource")
                        /\ UNCHANGED <<signatures, facts>>
                   ELSE /\ signatures' = Append(signatures,
                             [sort |-> sort, former |-> facts[i].term, squash |-> squash,
                              constructors |-> <<>>, admitted |-> FALSE])
                        /\ Publish(Admission(made.term, facts[i].term, 0))
                        /\ UNCHANGED error
  /\ UNCHANGED <<definitions, weak, checkpoint, relocation>>

(* cc_instr_signature_constructor, its type's normal form abstracted.      *)
SignatureConstructor ==
  /\ error = "none"
  /\ Bounded
  /\ \E i \in DOMAIN facts, j \in Typings, symbol \in Symbols, ok, published \in Allocates :
       /\ Latest(i)
       /\ LET index == Nodes[facts[i].term].payload
              s     == signatures[index]
              made  == Make(arena, Key("VAR", symbol, 0, 0), ok)
              new   == [symbol |-> symbol, type |-> facts[j].term]
          IN  /\ symbol # s.sort
              /\ \A c \in DOMAIN s.constructors : s.constructors[c].symbol # symbol
              /\ arena' = made.arena
              /\ IF made.term = 0
                 THEN Latch(made.error) /\ UNCHANGED <<signatures, facts>>
                 ELSE IF Len(s.constructors) >= MaxConstructors \/ ~ published
                 THEN Latch("resource") /\ UNCHANGED <<signatures, facts>>
                 ELSE /\ signatures' = [signatures EXCEPT ![index].constructors = Append(@, new)]
                      /\ Publish(Admission(facts[i].term, facts[i].type, Len(s.constructors) + 1))
                      /\ UNCHANGED error
  /\ UNCHANGED <<definitions, weak, checkpoint, relocation>>

(* cc_instr_signature_close.  A truncated signature gets one constructor   *)
(* more, of a generated type over the sort, under a fresh symbol.          *)
SignatureClose ==
  /\ error = "none"
  /\ \E i \in DOMAIN facts, ok \in Allocates :
       /\ Latest(i)
       /\ LET index == Nodes[facts[i].term].payload
              s     == signatures[index]
              fresh == [arena EXCEPT !.nextSymbol = @ + 1]
              sort  == Make(fresh, Key("VAR", s.sort, 0, 0), ok)
              path  == Make(sort.arena, Key("APP", 0, sort.term, sort.term), ok)
              new   == [symbol |-> arena.nextSymbol, type |-> path.term]
          IN  IF ~ s.squash
              THEN /\ signatures' = [signatures EXCEPT ![index].admitted = TRUE]
                   /\ UNCHANGED <<arena, error>>
              ELSE IF arena.nextSymbol = MaxSymbol
              THEN Latch("resource") /\ UNCHANGED <<arena, signatures>>
              ELSE IF sort.term = 0
              THEN arena' = sort.arena /\ Latch(sort.error) /\ UNCHANGED signatures
              ELSE IF path.term = 0 \/ Len(s.constructors) >= MaxConstructors
              THEN /\ arena' = path.arena
                   /\ Latch(IF path.term = 0 THEN path.error ELSE "resource")
                   /\ UNCHANGED signatures
              ELSE /\ arena' = path.arena
                   /\ signatures' = [signatures EXCEPT ![index].constructors = Append(@, new),
                                                       ![index].admitted = TRUE]
                   /\ UNCHANGED error
  /\ UNCHANGED <<definitions, facts, weak, checkpoint, relocation>>

-----------------------------------------------------------------------------
(* The checkpoint.                                                         *)

(* cc_kernel_checkpoint: one checkpoint is retained, so a second one       *)
(* replaces the first, and the last commit's relocation is forgotten.      *)
Checkpoint ==
  /\ checkpoint' = [count       |-> Len(Nodes) + 1,
                    definitions |-> Len(definitions),
                    signatures  |-> [s \in DOMAIN signatures |->
                                       [constructors |-> Len(signatures[s].constructors),
                                        admitted     |-> signatures[s].admitted]],
                    facts       |-> Len(facts)]
  /\ relocation' = NoRelocation
  /\ UNCHANGED <<arena, error, definitions, signatures, facts, weak>>

(* Mutants: caches cleared from the checkpoint on only, or not at all.     *)
ForgetSinceCheckpoint ==
  weak' = [t \in Handle |-> IF t \in Live(Nodes) /\ t >= checkpoint.count THEN 0 ELSE weak[t]]
ForgetNothing == weak' = weak

(* The caches are cleared up to the count of live nodes.                   *)
Forget == weak' = [t \in Handle |-> IF t \in Live(Nodes) THEN 0 ELSE weak[t]]

(* cc_kernel_rollback: discarded handles stay in the index, as tombstones, *)
(* and the symbols issued since are never issued again.                    *)
Rollback ==
  /\ Open
  /\ Forget
  /\ arena' = [arena EXCEPT !.nodes = SubSeq(@, 1, checkpoint.count - 1)]
  /\ definitions' = SubSeq(definitions, 1, checkpoint.definitions)
  /\ facts' = SubSeq(facts, 1, checkpoint.facts)
  /\ signatures' = [s \in DOMAIN checkpoint.signatures |->
                      [signatures[s] EXCEPT
                         !.constructors = SubSeq(@, 1, checkpoint.signatures[s].constructors),
                         !.admitted = checkpoint.signatures[s].admitted]]
  /\ checkpoint' = NoCheckpoint
  /\ error' = "none"
  /\ UNCHANGED relocation

(* ck_signatures_open: a signature opened or extended since the checkpoint *)
(* and still open; its latest judgement would not survive.                 *)
SignaturesOpen ==
  \E s \in DOMAIN signatures :
    /\ ~ signatures[s].admitted
    /\ \/ s \notin DOMAIN checkpoint.signatures
       \/ Len(signatures[s].constructors) # checkpoint.signatures[s].constructors

DefinitionTerms(D) == UNION {{definitions[d].value, definitions[d].type} : d \in D}
SignatureTerms ==
  UNION {{signatures[s].former} \cup {c.type : c \in ToSet(signatures[s].constructors)} :
           s \in DOMAIN signatures}
ReferenceNodes == {t \in Live(Nodes) : Kind(t) = "DEFREF"}

(* Mutant: what a commit keeps, without the values of definitions.         *)
RootsWithoutValues ==
  {definitions[d].type : d \in checkpoint.definitions + 1 .. Len(definitions)} \cup ReferenceNodes

(* What a commit keeps of the syntax made since the checkpoint: what new   *)
(* definitions, signatures and references are made of, and nothing else.   *)
Roots ==
  DefinitionTerms(checkpoint.definitions + 1 .. Len(definitions)) \cup SignatureTerms
    \cup ReferenceNodes

New == checkpoint.count .. Len(Nodes)

ClosedUnderChildren(K) == \A t \in K : Children(Nodes[t]) \cap New \subseteq K

(* Mutant: the children of what is kept are not kept.                      *)
KeptRoots == New \cap Roots

(* The least set that has the roots and is closed under children.          *)
Survivors == {t \in New : \A K \in SUBSET New :
                       (Roots \cap New \subseteq K /\ ClosedUnderChildren(K)) => t \in K}

(* Compaction keeps the order of what it keeps: the survivors in order.    *)
Listings(K) ==
  {order \in [1 .. Cardinality(K) -> K] :
     /\ \A i, j \in DOMAIN order : i < j => order[i] < order[j]
     /\ \A t \in K : \E i \in DOMAIN order : order[i] = t}

(* Where a handle goes when the survivors are listed by order.             *)
Moved(order, t) ==
  IF t < checkpoint.count THEN t
  ELSE IF \E i \in DOMAIN order : order[i] = t
  THEN checkpoint.count - 1 + (CHOOSE i \in DOMAIN order : order[i] = t)
  ELSE 0

Compacted(order) ==
  [h \in 1 .. checkpoint.count - 1 + Len(order) |->
     IF h < checkpoint.count THEN Nodes[h]
     ELSE LET node == Nodes[order[h - checkpoint.count + 1]]
          IN  [node EXCEPT !.child = <<Moved(order, @[1]), Moved(order, @[2])>>]]

MovedDefinition(order, d) ==
  [d EXCEPT !.value = Moved(order, d.value), !.type = Moved(order, d.type)]
MovedSignature(order, s) ==
  [s EXCEPT !.former = Moved(order, s.former),
            !.constructors = [c \in DOMAIN s.constructors |->
                                [s.constructors[c] EXCEPT !.type = Moved(order, @)]]]

(* Mutant: the survivors are left to the index entries they had.           *)
NotReindexed(nodes) == arena.slots

(* The survivors have new handles: they are indexed again.                 *)
Reindexed(nodes) == InternAll(nodes, arena.slots, checkpoint.count)

(* cc_kernel_commit_checkpoint.  It refuses while an error is recorded,    *)
(* with a signature open, or without memory, and then changes nothing:     *)
(* the checkpoint stays, to be rolled back.                                *)
CommitRefused ==
  /\ Open
  /\ error = "none"
  /\ IF SignaturesOpen THEN Latch("other")
     ELSE FALSE \in Allocates /\ Latch("resource")
  /\ UNCHANGED <<arena, definitions, signatures, facts, weak, checkpoint, relocation>>

Commit ==
  /\ Open
  /\ error = "none"
  /\ ~ SignaturesOpen
  /\ \E order \in Listings(Survivors) :
       LET nodes == Compacted(order)
       IN  /\ arena' = [arena EXCEPT
                          !.nodes = nodes,
                          !.slots = Reindexed(nodes)]
           /\ definitions' = [d \in DOMAIN definitions |-> MovedDefinition(order, definitions[d])]
           /\ signatures' = [s \in DOMAIN signatures |-> MovedSignature(order, signatures[s])]
           /\ relocation' = [base |-> checkpoint.count, map |-> [t \in New |-> Moved(order, t)]]
  /\ Forget
  /\ facts' = SubSeq(facts, 1, checkpoint.facts)
  /\ checkpoint' = NoCheckpoint
  /\ UNCHANGED error

Next ==
  \/ Term \/ FreshSymbol \/ SetOptimizations \/ Refuse \/ ClearError \/ Whnf
  \/ Judge \/ Define \/ Lookup
  \/ SignatureBegin \/ SignatureConstructor \/ SignatureClose
  \/ Checkpoint \/ Rollback \/ CommitRefused \/ Commit

Spec == Init /\ [][Next]_vars

-----------------------------------------------------------------------------
(* What the store promises.                                                *)

NodeType == [kind : AllKinds, payload : Payload, child : (0 .. MaxHandle) \X (0 .. MaxHandle),
             depth : 1 .. MaxDepth]

TypeOK ==
  /\ arena.nodes \in Seq(NodeType) /\ Len(arena.nodes) <= MaxHandle
  /\ arena.sharing \in BOOLEAN
  /\ arena.nextSymbol \in 1 .. MaxSymbol
  /\ error \in {"none", "other", "resource"}
  /\ definitions \in Seq([symbol : Symbols, value : Handle, type : Handle])
  /\ facts \in Seq([kind : {"typing", "signature"}, term : Handle, type : Handle, pending : Nat])
  /\ weak \in [Handle -> 0 .. MaxHandle]
  /\ checkpoint.count \in Nat

(* Handles recorded outside the arena: what judgements, definitions and    *)
(* signatures are about, and the sorts of signatures under construction.   *)
Judged ==
  DefinitionTerms(DOMAIN definitions) \cup SignatureTerms
    \cup {facts[i].term : i \in Typings} \cup {facts[i].type : i \in DOMAIN facts}

Recorded == Judged \cup {facts[i].term : i \in DOMAIN facts}

(* Judged syntax names only what is registered, and a definition only what *)
(* was registered before it: indices are reused after a rollback, so a     *)
(* judgement or definition that outlived one could come to mean another.   *)
ReferencesRegistered ==
  /\ \A t \in Judged :
        \A r \in References(Nodes, t) :
          \/ r[1] = "DEFREF" /\ r[2] \in DOMAIN definitions
          \/ r[1] = "SORT" /\ r[2] \in DOMAIN signatures /\ signatures[r[2]].admitted
  /\ \A i \in DOMAIN facts \ Typings : Nodes[facts[i].term].payload \in DOMAIN signatures
  /\ \A d \in DOMAIN definitions : \A t \in {definitions[d].value, definitions[d].type} :
        \A r \in References(Nodes, t) : r[1] = "DEFREF" => r[2] < d

(* No handle dangles: a node's children are earlier nodes, and whatever a  *)
(* definition, a signature, a judgement or a cache names is live syntax,   *)
(* however often the arena was truncated or compacted under it; and so of  *)
(* the definitions and signatures that syntax names.                       *)
NoDangling ==
  /\ \A h \in Live(Nodes) : \A c \in Children(Nodes[h]) : c < h
  /\ Recorded \subseteq Live(Nodes)
  /\ \A t \in Handle : weak[t] # 0 => t \in Live(Nodes) /\ weak[t] \in Live(Nodes)
  /\ ReferencesRegistered

(* The index finds everything: whenever there is an index, a probe for a   *)
(* node's syntax ends, at a node with that syntax.  This is what makes     *)
(* identical syntax one node while sharing is on; tombstones, slots whose  *)
(* handle a rollback discarded and a later node or a compaction reused,    *)
(* and rebuilding after a failed allocation must not hide a live node.     *)
IndexComplete ==
  arena.slots # NoIndex =>
    /\ \E s \in DOMAIN arena.slots : arena.slots[s] = 0
    /\ \A h \in Live(Nodes) : FindIn(Nodes, arena.slots, KeyOf(Nodes[h])) # 0

(* The symbol the kernel would issue next occurs in no live syntax, even   *)
(* after a rollback or a refused instruction: a fresh variable is fresh.   *)
FreshUnused ==
  \A h \in Live(Nodes) : Kind(h) = "VAR" => Nodes[h].payload < arena.nextSymbol

(* A cached weak head is the one unfolding would find now: caches may name *)
(* later syntax than their key, and definitions that were rolled back.     *)
CacheTruth ==
  \A t \in Live(Nodes) : weak[t] # 0 => weak[t] = WeakHead(t)

-----------------------------------------------------------------------------
(* What a step may do.  Syntax is compared as the tree a handle stands     *)
(* for, since a commit moves handles.                                      *)

Tree(nodes, t) ==
  LET tree[h \in Live(nodes) \cup {0}] ==
        IF h = 0 THEN <<>>
        ELSE <<nodes[h].kind, nodes[h].payload, tree[nodes[h].child[1]], tree[nodes[h].child[2]]>>
  IN  tree[t]

Meaning(nodes, d) == [symbol |-> d.symbol, value |-> Tree(nodes, d.value), type |-> Tree(nodes, d.type)]

(* A definition keeps its index, symbol, value and type for ever, unless   *)
(* it was made since the checkpoint and that is rolled back; and a         *)
(* rollback brings back exactly the environment of the checkpoint.         *)
DefinitionsPermanent ==
  [][/\ \A d \in DOMAIN definitions \cap DOMAIN definitions' :
          Meaning(Nodes', definitions'[d]) = Meaning(Nodes, definitions[d])
     /\ Len(definitions') < Len(definitions) =>
          Open /\ Len(definitions') = checkpoint.definitions]_vars

(* A commit tells its client the truth: a handle it relocates stands for   *)
(* the syntax it stood for, no two handles it keeps become one, references *)
(* and handles from before the checkpoint survive, and every signature is  *)
(* about the syntax it was about.                                          *)
RelocationFaithful ==
  [][Open /\ ~ Open' /\ relocation' # relocation =>
       /\ \A t \in Live(Nodes) :
            /\ Relocated(t)' # 0 => Tree(Nodes', Relocated(t)') = Tree(Nodes, t)
            /\ t < checkpoint.count \/ Kind(t) = "DEFREF" => Relocated(t)' # 0
       /\ \A t, u \in Live(Nodes) : Relocated(t)' = Relocated(u)' => t = u \/ Relocated(t)' = 0
       /\ \A s \in DOMAIN signatures :
            /\ Tree(Nodes', signatures'[s].former) = Tree(Nodes, signatures[s].former)
            /\ \A c \in DOMAIN signatures[s].constructors :
                 Tree(Nodes', signatures'[s].constructors[c].type) =
                   Tree(Nodes, signatures[s].constructors[c].type)]_vars
=============================================================================
