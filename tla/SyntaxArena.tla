----------------------------- MODULE SyntaxArena -----------------------------
(***************************************************************************)
(* The arena of inert syntax of the kernel (kernel/src/term_store.c): an   *)
(* append-only array of nodes whose children are earlier nodes, and the    *)
(* open-addressing index that makes identical syntax one node.             *)
(*                                                                         *)
(* The operators here are pure: they take an arena and return an arena.    *)
(* TermStore keeps one in a variable and truncates or compacts it.         *)
(*                                                                         *)
(* An arena is a record                                                    *)
(*   nodes       the live nodes; handle h names nodes[h], and handle 0     *)
(*               names nothing, so k->count is Len(nodes) + 1              *)
(*   slots       the index: a function 0 .. capacity-1 -> handle, 0 where  *)
(*               the slot is empty; NoIndex when there is none             *)
(*   sharing     k->optimizations & CC_SHARE_SYNTAX                        *)
(*   nextSymbol  k->next_symbol                                            *)
(***************************************************************************)
EXTENDS Integers, FiniteSets, Sequences, SequencesExt

CONSTANTS
  Kinds,         \* the kinds of syntax clients make
  MaxHandle,     \* the last handle the arena can issue   (UINT32_MAX - 1)
  MaxDepth,      \* the deepest syntax                    (512)
  MaxSymbol,     \* the symbol no variable may take       (UINT32_MAX)
  MinCapacity,   \* the smallest index                    (CC_INTERN_MINIMUM)
  Hash(_)        \* a hash of a node's kind, payload and children

AllKinds == {"VAR", "DEFREF", "SORT", "APP", "LIST"}

ASSUME ArenaAssumption ==
  /\ Kinds \subseteq AllKinds
  /\ MaxHandle \in Nat \ {0}
  /\ MaxDepth \in Nat \ {0}
  /\ MaxSymbol \in Nat \ {0}
  /\ MinCapacity \in Nat \ {0, 1}

(* What identifies a node: every payload and child is compared.            *)
Key(kind, payload, a, b) == [kind |-> kind, payload |-> payload, child |-> <<a, b>>]
KeyOf(node) == Key(node.kind, node.payload, node.child[1], node.child[2])

(* The number of children of a kind.  VAR stands for the leaves with a     *)
(* symbol, APP for the nodes with two children, LIST for those whose last  *)
(* child is optional (0 is the empty list).                                *)
Arity(kind) == IF kind \in {"APP", "LIST"} THEN 2 ELSE 0
Optional(kind, i) == kind = "LIST" /\ i = 2

Live(nodes) == 1 .. Len(nodes)
Children(node) == {node.child[1], node.child[2]} \ {0}

(* The children ck_make accepts: present unless optional, live, and none   *)
(* beyond the arity.                                                       *)
WellFormed(nodes, key) ==
  \A i \in 1 .. 2 :
    IF i <= Arity(key.kind)
    THEN key.child[i] \in Live(nodes) \/ (key.child[i] = 0 /\ Optional(key.kind, i))
    ELSE key.child[i] = 0

DepthOf(nodes, key) ==
  LET below == {nodes[c].depth : c \in Children(key)}
  IN  CHOOSE d \in 1 .. MaxDepth + 1 :
        /\ \A b \in below : b < d
        /\ d = 1 \/ d - 1 \in below

-----------------------------------------------------------------------------
(* The index.                                                              *)

NoIndex == <<>>
Capacity(slots) == Cardinality(DOMAIN slots)
Used(slots) == {s \in DOMAIN slots : slots[s] # 0}

(* The slot where a probe from the hash of key ends: the first one whose   *)
(* content is one of ends.                                                 *)
Walk(slots, key, j) == ((Hash(key) % Capacity(slots)) + j) % Capacity(slots)
Probe(slots, key, ends) ==
  LET first == CHOOSE j \in 0 .. Capacity(slots) - 1 :
                 /\ slots[Walk(slots, key, j)] \in ends
                 /\ \A i \in 0 .. j - 1 : slots[Walk(slots, key, i)] \notin ends
  IN  Walk(slots, key, first)

(* A live node identical to key, or 0: discarded handles and other nodes   *)
(* are passed over, an empty slot ends the walk.                           *)
FindIn(nodes, slots, key) ==
  IF slots = NoIndex THEN 0
  ELSE slots[Probe(slots, key, {0} \cup {h \in Live(nodes) : KeyOf(nodes[h]) = key})]

(* ck_intern: index a live node; a slot holding a discarded handle is free *)
(* again.                                                                  *)
Intern(nodes, slots, t) ==
  IF slots = NoIndex THEN NoIndex
  ELSE [slots EXCEPT ![Probe(slots, KeyOf(nodes[t]), {0, t} \cup (Len(nodes) + 1 .. MaxHandle))] = t]

(* The nodes from first on are indexed, in order.                          *)
InternAll(nodes, slots, first) ==
  LET interned[t \in 0 .. Len(nodes)] ==
        IF t < first THEN slots ELSE Intern(nodes, interned[t - 1], t)
  IN  interned[Len(nodes)]

Empty(capacity) == [s \in 0 .. capacity - 1 |-> 0]

(* The capacity of a new index: MinCapacity doubled until it holds four    *)
(* times the arena.                                                        *)
Enough(nodes) ==
  LET size[i \in 0 .. Len(nodes) + 3] ==
        IF i = 0 THEN MinCapacity
        ELSE IF size[i - 1] >= 4 * (Len(nodes) + 1) THEN size[i - 1] ELSE 2 * size[i - 1]
  IN  size[Len(nodes) + 3]

(* intern_reserve: an index more than half full, tombstones counted, is    *)
(* built again from the live nodes; when its allocation fails there is     *)
(* none.                                                                   *)
Reserve(nodes, slots, allocated) ==
  IF slots # NoIndex /\ (Cardinality(Used(slots)) + 1) * 2 <= Capacity(slots) THEN slots
  ELSE IF allocated THEN InternAll(nodes, Empty(Enough(nodes)), 1)
  ELSE NoIndex

-----------------------------------------------------------------------------
(* ck_make.  The result has the new arena, the node's handle (0 when it    *)
(* was refused) and the class of the error recorded.                       *)

(* Mutant: the next symbol itself may be written, and then issued.         *)
NextSymbolWritten(a, key) ==
  IF key.kind = "VAR" /\ key.payload > a.nextSymbol THEN key.payload + 1 ELSE a.nextSymbol

(* A variable a client wrote is never issued as a fresh one.               *)
NextSymbol(a, key) ==
  IF key.kind = "VAR" /\ key.payload >= a.nextSymbol THEN key.payload + 1 ELSE a.nextSymbol

Append1(a, key) ==
  LET t     == Len(a.nodes) + 1
      node  == [kind |-> key.kind, payload |-> key.payload, child |-> key.child,
                depth |-> DepthOf(a.nodes, key)]
      nodes == Append(a.nodes, node)
  IN  [a EXCEPT
        !.nodes = nodes,
        !.slots = Intern(nodes, a.slots, t),
        !.nextSymbol = NextSymbol(a, key)]

Make(a, key, allocated) ==
  LET reserved == IF a.sharing
                  THEN [a EXCEPT !.slots = Reserve(a.nodes, a.slots, allocated)] ELSE a
      found    == IF a.sharing THEN FindIn(a.nodes, reserved.slots, key) ELSE 0
      refuse(arena, class) == [arena |-> arena, term |-> 0, error |-> class]
  IN  IF ~ WellFormed(a.nodes, key) THEN refuse(a, "other")
      ELSE IF key.kind = "VAR" /\ key.payload = MaxSymbol THEN refuse(a, "resource")
      ELSE IF found # 0 THEN [arena |-> reserved, term |-> found, error |-> "none"]
      ELSE IF DepthOf(a.nodes, key) > MaxDepth THEN refuse(reserved, "resource")
      ELSE IF Len(a.nodes) >= MaxHandle THEN refuse(reserved, "resource")
      ELSE [arena |-> Append1(reserved, key), term |-> Len(a.nodes) + 1, error |-> "none"]

(* cc_kernel_set_optimizations: without sharing there is no index.         *)
SetSharing(a, on) ==
  [a EXCEPT !.sharing = on, !.slots = IF on THEN @ ELSE NoIndex]

NewArena == [nodes |-> <<>>, slots |-> NoIndex, sharing |-> TRUE, nextSymbol |-> 1]
=============================================================================
