----------------------------- MODULE KernelClient -----------------------------
(***************************************************************************)
(* What JavaScript keeps beside one kernel session: the maps, caches and   *)
(* names of CubicalKernel (web/cubical-kernel.mjs) and of EntryNames       *)
(* (web/cubical-variables.mjs), the declaration transaction that must keep *)
(* them true (web/cubical-transaction.mjs), and the publication that opens *)
(* and ends transactions (web/cubical-publication.mjs).                    *)
(*                                                                         *)
(* The kernel is seen through its bridge: an arena of syntax, and of nodes *)
(* <<"ref", i>> for references to definition i, which a commit             *)
(* compacts and a rollback drops, the tables a rollback cuts, and a        *)
(* generation.  Module TermStore is the kernel's own model.  Every step is *)
(* one call of the client: JavaScript runs it without interruption, but an *)
(* exception out of the instance may end it at any call it makes.          *)
(***************************************************************************)
EXTENDS EntryNames

CONSTANTS
  Names,           \* what declarations and binders are called
  Syntax,          \* pairs <<class, spelling>>: equal classes are alpha-equal
  Manages,         \* the values of the program's manageTransactions option
  StepBudget,      \* the session's budget of steps, stepBudget
  MaxQuerySteps,   \* the most steps a query grows to, MAX_QUERY_STEPS
  MaxGeneration,   \* the greatest handle generation, UINT32_MAX
  MaxDefinitions,  \* bounds of the exploration
  MaxEntries

ASSUME ClientAssumption ==
  /\ StepBudget \in Nat \ {0} /\ MaxQuerySteps \in Nat /\ StepBudget <= MaxQuerySteps
  /\ MaxGeneration \in Nat \ {0}
  /\ Manages \subseteq BOOLEAN
  /\ {MaxDefinitions, MaxEntries} \subseteq Nat

VARIABLES
  table,         \* how many definitions the kernel holds
  point,         \* its open checkpoint, or Closed
  generation,    \* the session's handle generation, kept by the bridge
  budget,        \* the steps the kernel allows one operation
  failed,        \* the instance's { failed }
  definitions,   \* kernel.definitions: the handle each name refers by
  defNames,      \* kernel.definitionNames: the name at each index
  metadata,      \* checker.theories and the other maps whose values change
  nodes,         \* kernel.nodes
  settledNodes,  \* kernel.settledNodes
  settled,       \* kernel.settled
  derived,       \* kernel.derivedHandles, with the term each names; empty when null
  manages,       \* the program's manageTransactions option
  publication,   \* the program's open publication, or NotPublishing
  published,     \* names whose records are published
  reader,        \* a runtime query's handle and its token, or NoReader
  answer         \* what the last operation with a budget said

kernel == <<manages, arena, table, entries, point, generation, failed>>
client == <<definitions, defNames, metadata, nodes, settledNodes, settled, derived>>
clientVars == <<kernel, namesVars, client, budget, publication, published, reader, answer>>

Closed == [nodes |-> 0]
NotPublishing == [transaction |-> "none"]
NoReader == [token |-> 0]
NoAnswer == [need |-> 0]
Restricted(f, S) == [x \in DOMAIN f \cap S |-> f[x]]

ClientInit ==
  /\ arena = <<>> /\ table = 0 /\ entries = <<>> /\ point = Closed
  /\ generation = 1 /\ failed = FALSE /\ budget = StepBudget
  /\ definitions = Empty /\ defNames = Empty /\ metadata = Empty
  /\ nodes = Empty /\ settledNodes = Empty /\ settled = 0
  /\ NamesInit /\ manages \in Manages
  /\ derived = Empty /\ publication = NotPublishing /\ published = {}
  /\ reader = NoReader /\ answer = NoAnswer

(* guardModule: a failed instance answers no call.                         *)
Enters == ~failed

-----------------------------------------------------------------------------
(* Calls that make syntax, definitions and context entries.                *)

(* An instruction derives a term: the kernel shares equal syntax.          *)
Derive(s) ==
  LET known == {h \in Handles : arena[h] = s}
      h == IF known = {} THEN Len(arena) + 1 ELSE CHOOSE k \in known : TRUE
  IN /\ Enters
     /\ h \notin DOMAIN derived
     /\ arena' = IF known = {} THEN Append(arena, s) ELSE arena
     /\ derived' = With(derived, h, s)
     /\ UNCHANGED <<manages, table, entries, point, generation, failed, namesVars, definitions, defNames,
                    metadata, nodes, settledNodes, settled, budget, publication, published,
                    reader, answer>>

(* node: read once, and kept in the cache its handle belongs to.           *)
Node(h) ==
  IF h < settled /\ h \in DOMAIN settledNodes THEN settledNodes[h]
  ELSE IF h >= settled /\ h \in DOMAIN nodes THEN nodes[h]
  ELSE arena[h]
Reads(h, new) ==
  /\ settledNodes' = IF h < settled THEN With(settledNodes, h, new) ELSE settledNodes
  /\ nodes' = IF h < settled THEN nodes ELSE With(nodes, h, new)
ReadNode(h) ==
  /\ Enters
  /\ Reads(h, Node(h))
  /\ UNCHANGED <<kernel, namesVars, definitions, defNames, metadata, settled, derived, budget,
                 publication, published, reader, answer>>

(* A checked definition, and nameDefinition, which reads its reference's   *)
(* index through the node cache.                                           *)
Define(n) ==
  LET h == Len(arena) + 1
      ref == <<"ref", table + 1>>
  IN /\ Enters /\ publication # NotPublishing
     /\ n \notin DOMAIN definitions /\ table < MaxDefinitions
     /\ arena' = Append(arena, ref)
     /\ table' = table + 1
     /\ definitions' = With(definitions, n, h)
     /\ LET read == IF h < settled THEN (IF h \in DOMAIN settledNodes THEN settledNodes[h] ELSE ref)
                    ELSE IF h \in DOMAIN nodes THEN nodes[h] ELSE ref
        IN /\ defNames' = With(defNames, read[2], n)
           /\ Reads(h, read)
     /\ metadata' \in {metadata, With(metadata, n, n)}
                        \cup {With(metadata, m, n) : m \in DOMAIN metadata}
     /\ publication' = [publication EXCEPT !.records = @ \cup {n}]
     /\ UNCHANGED <<manages, entries, point, generation, failed, namesVars, settled, derived, budget,
                    published, reader, answer>>

-----------------------------------------------------------------------------
(* A binder's variable: an entry of the scope's, found or made.             *)
BinderNames == {<<n>> : n \in Names} \cup {entries[e] : e \in DOMAIN entries}
BindVariable(n, type, excluded, fresh) ==
  /\ Enters
  /\ fresh \/ Find(n, type, excluded) = 0 => Len(entries) < MaxEntries
  /\ IF fresh THEN Extend(n, type, TRUE) ELSE Bind(n, type, excluded)
  /\ UNCHANGED <<manages, arena, table, point, generation, failed, client, budget, publication,
                 published, reader, answer>>

-----------------------------------------------------------------------------
(* Transactions and publications.                                          *)

(* The constructor of CubicalDeclarationTransaction: the sizes of the maps *)
(* that only grow, a copy of those whose values change, the checkpoint.    *)
Snapshot == [definitions |-> DOMAIN definitions, defNames |-> DOMAIN defNames,
             metadata |-> metadata, entries |-> Len(entries)]
OpenCheckpoint == [nodes |-> Len(arena), table |-> table, entries |-> Len(entries)]

(* begin, for a generated family, or for a declaration of its own.         *)
Begin(group) ==
  /\ Enters
  /\ publication = NotPublishing
  /\ LET opens == group \/ manages
     IN /\ publication' = [transaction |-> IF opens THEN "open" ELSE "unmanaged", group |-> group,
                           records |-> {}, snapshot |-> IF opens THEN Snapshot ELSE [no |-> 0]]
        /\ point' = IF opens THEN OpenCheckpoint ELSE point
  /\ UNCHANGED <<manages, arena, table, entries, generation, failed, namesVars, client, budget, published,
                 reader, answer>>

NextGeneration == IF generation # 0 /\ generation < MaxGeneration THEN generation + 1 ELSE 0

(* What the kernel's commit does to its own state: new nodes not in "kept" *)
(* go, the others move down, and judgements and entries since are cut.     *)
Moved(kept, h) == IF h <= point.nodes THEN h
                  ELSE point.nodes + Rank(kept, h)
Compacted(kept) ==
  [k \in 1 .. point.nodes + Cardinality(kept) |->
     IF k <= point.nodes THEN arena[k] ELSE arena[Nth(kept, k - point.nodes)]]
IsReference(h) == arena[h][1] = "ref"
Survivors == LET new == {h \in Handles : h > point.nodes}
             IN {S \in SUBSET new : \A h \in new : IsReference(h) => h \in S}

(* The end of finish, after a commit or a rollback.                        *)
ForgetHandlesLate ==
  /\ nodes' = Empty
  /\ settled' = Len(arena') + 2
  /\ derived' = Empty
  /\ UNCHANGED settledNodes
ForgetHandles ==
  /\ nodes' = Empty
  /\ settled' = Len(arena') + 1
  /\ derived' = Empty
  /\ UNCHANGED settledNodes

CommitFinish(kept) ==
  LET added == DOMAIN definitions \ publication.snapshot.definitions
  IN /\ arena' = Compacted(kept)
     /\ entries' = SubSeq(entries, 1, point.entries)
     /\ definitions' = [n \in DOMAIN definitions |->
                          IF n \in added THEN Moved(kept, definitions[n]) ELSE definitions[n]]
     /\ Truncate(publication.snapshot.entries)
     /\ ForgetHandles
     /\ UNCHANGED <<table, defNames, metadata>>

RollbackAdded ==
  /\ arena' = SubSeq(arena, 1, point.nodes)
  /\ table' = point.table
  /\ entries' = SubSeq(entries, 1, point.entries)
  /\ definitions' = Restricted(definitions, publication.snapshot.definitions)
  /\ defNames' = Restricted(defNames, publication.snapshot.defNames)
  /\ metadata' = Restricted(metadata, DOMAIN publication.snapshot.metadata)
  /\ Truncate(publication.snapshot.entries)
  /\ ForgetHandles
RollbackFinish ==
  /\ arena' = SubSeq(arena, 1, point.nodes)
  /\ table' = point.table
  /\ entries' = SubSeq(entries, 1, point.entries)
  /\ definitions' = Restricted(definitions, publication.snapshot.definitions)
  /\ defNames' = Restricted(defNames, publication.snapshot.defNames)
  /\ metadata' = publication.snapshot.metadata
  /\ Truncate(publication.snapshot.entries)
  /\ ForgetHandles

(* finish, accepting: the records are published only once the transaction  *)
(* has finished.                                                           *)
Accept(kept) ==
  /\ Enters
  /\ publication.transaction = "open"
  /\ CommitFinish(kept)
  /\ point' = Closed /\ generation' = NextGeneration
  /\ publication' = NotPublishing
  /\ published' = published \cup publication.records
  /\ UNCHANGED <<manages, failed, budget, reader, answer>>

(* ... and refusing, as abort does.                                        *)
Refuse ==
  /\ Enters
  /\ publication.transaction = "open"
  /\ RollbackFinish
  /\ point' = Closed /\ generation' = NextGeneration
  /\ publication' = NotPublishing
  /\ UNCHANGED <<manages, failed, budget, published, reader, answer>>

(* The kernel refuses the commit: finish throws with the transaction       *)
(* finished, its checkpoint open and every map as it was; the publication  *)
(* has cleared itself.                                                     *)
CommitRefused ==
  /\ Enters
  /\ publication.transaction = "open"
  /\ generation' = NextGeneration
  /\ publication' = NotPublishing
  /\ UNCHANGED <<manages, arena, table, entries, point, failed, namesVars, client, budget, published, reader,
                 answer>>

(* Without transactions a declaration's end only publishes.                *)
EndUnmanaged(accept) ==
  /\ publication.transaction = "unmanaged" /\ (accept => Enters)
  /\ published' = IF accept THEN published \cup publication.records ELSE published
  /\ publication' = NotPublishing
  /\ UNCHANGED <<kernel, namesVars, client, budget, reader, answer>>

(* An exception out of the instance, at any call of a finish or outside    *)
(* one: its own state is unknown, and no call enters it again.             *)
Trap ==
  /\ Enters
  /\ failed' = TRUE
  /\ publication' \in {publication, NotPublishing}
  /\ UNCHANGED <<manages, arena, table, entries, point, generation, namesVars, client, budget, published,
                 reader, answer>>

-----------------------------------------------------------------------------
(* Readers across calls, and budgets.                                      *)

(* A runtime query keeps a handle with the generation it read it in.       *)
Hold(h) ==
  /\ Enters
  /\ reader' = [token |-> generation, handle |-> h, node |-> arena[h]]
  /\ UNCHANGED <<kernel, namesVars, client, budget, publication, published, answer>>
HandlesHeld == generation # 0 /\ generation = reader.token

(* withGrowingBudget: the steps allowed at the last try, as setStepBudget  *)
(* sets them, when "need" steps suffice or the limit was tried.  The       *)
(* deadline may pass at any try: then there is no answer.                  *)
Tries(need) ==
  LET from[b \in Nat] == IF need <= b \/ b >= MaxQuerySteps THEN b
                         ELSE from[IF 2 * b > MaxQuerySteps THEN MaxQuerySteps ELSE 2 * b]
  IN from[StepBudget]
QueryKept(need) ==
  /\ Enters
  /\ answer' \in {[need |-> need, ok |-> need <= Tries(need), limit |-> MaxQuerySteps], NoAnswer}
  /\ budget' = Tries(need)
  /\ UNCHANGED <<kernel, namesVars, client, publication, published, reader>>
Query(need) ==
  /\ Enters
  /\ answer' \in {[need |-> need, ok |-> need <= Tries(need), limit |-> MaxQuerySteps], NoAnswer}
  /\ budget' = StepBudget
  /\ UNCHANGED <<kernel, namesVars, client, publication, published, reader>>

(* An instruction is allowed what the kernel holds.                        *)
Instruct(need) ==
  /\ Enters
  /\ answer' = [need |-> need, ok |-> need <= budget, limit |-> StepBudget]
  /\ UNCHANGED <<kernel, namesVars, client, budget, publication, published, reader>>

Needs == {StepBudget, StepBudget + 1, MaxQuerySteps, MaxQuerySteps + 1}

ClientNext ==
  \/ \E s \in Syntax : Derive(s)
  \/ \E h \in Handles : ReadNode(h) \/ Hold(h)
  \/ \E n \in Names : Define(n)
  \/ \E n \in BinderNames, h \in Handles, X \in SUBSET DOMAIN records, fresh \in BOOLEAN :
       ~IsReference(h) /\ BindVariable(n, h, X, fresh)
  \/ \E group \in BOOLEAN : Begin(group)
  \/ \E kept \in Survivors : Accept(kept)
  \/ Refuse \/ CommitRefused \/ Trap
  \/ \E accept \in BOOLEAN : EndUnmanaged(accept)
  \/ \E need \in Needs : Query(need) \/ Instruct(need)

ClientSpec == ClientInit /\ [][ClientNext]_clientVars
-----------------------------------------------------------------------------
(* What is published is defined, and frontend metadata describes only what *)
(* is: a refused declaration or family leaves no trace, also in values it  *)
(* overwrote.  A refused commit (CommitRefused) is the exception: its      *)
(* definitions stay, unpublished, with their checkpoint open.              *)
PublishedDefined ==
  /\ published \subseteq DOMAIN definitions
  /\ \A m \in DOMAIN metadata : {m, metadata[m]} \subseteq DOMAIN definitions

(* While no call has trapped, every handle, index and cached read that     *)
(* JavaScript keeps names in the kernel what it was kept for: definitions  *)
(* and their indices (added ones relocated by a commit, and gone after a   *)
(* rollback), nodes read in this declaration or in a settled place, terms  *)
(* a driver derived, and a query's handle whose token is still held; and   *)
(* that the names of context entries are true to the kernel's entries,     *)
(* through nested variants, reuse and the truncation of a declaration's    *)
(* end (web/cubical-transaction.mjs, finish).  And what is published is    *)
(* defined, failed or not.                                                 *)
HandlesTrue ==
  PublishedDefined /\ (~failed =>
    /\ \A n \in DOMAIN definitions :
         /\ definitions[n] \in Handles
         /\ LET node == arena[definitions[n]]
            IN node[1] = "ref" /\ node[2] \in DOMAIN defNames /\ defNames[node[2]] = n
    /\ DOMAIN defNames = 1 .. table
    /\ \A h \in DOMAIN nodes : h >= settled => h \in Handles /\ nodes[h] = arena[h]
    /\ \A h \in DOMAIN settledNodes : h < settled => h \in Handles /\ settledNodes[h] = arena[h]
    /\ \A h \in DOMAIN derived : h \in Handles /\ arena[h] = derived[h]
    /\ HandlesHeld => reader.handle \in Handles /\ arena[reader.handle] = reader.node
    /\ RecordsTrue /\ GroupsTrue)

(* An operation's budget is the same in a fresh session and a reused one:  *)
(* a query succeeds when the declared limit suffices, and an instruction   *)
(* when the session's budget does, whatever was asked before               *)
(* (withGrowingBudget).                                                    *)
BudgetsRepeat == answer # NoAnswer => (answer.ok <=> answer.need <= answer.limit)
=============================================================================
