----------------------------- MODULE ClientProofs -----------------------------
(***************************************************************************)
(* What is proved of the two ends that keep a picture of something else:   *)
(* the kernel's client, of the kernel (module KernelClient), and the page, *)
(* of the checking worker (module CheckWorker).                            *)
(*                                                                         *)
(* A query answers if and only if it may, for any budget of the session,   *)
(* any limit and any number of steps a query needs: that the budget grows  *)
(* to an answer or to the limit is an induction on how far it is from the  *)
(* limit, by the least number that has no answer.  And the handles and     *)
(* names that JavaScript keeps beside the kernel stay true to it, by an    *)
(* invariant of the names, the maps, the reader, the publication and the   *)
(* transaction.                                                            *)
(*                                                                         *)
(* A request's path is a pipe: from the page's messages to the worker's    *)
(* queue, to the one worked on, to the answers.  The invariant WInv says   *)
(* of everything in the pipe what it is worth.  The worker's part of it    *)
(* needs no page: a check still to come leaves no session open and no      *)
(* contexts, and none comes after one whose epoch is the worker's.  The    *)
(* page's part compares tokens: an answer of the console's epoch is of the *)
(* source in the editor, because checks stay in order and the last of them *)
(* has the greatest token.  The selection's part counts: a selection has   *)
(* at most one unanswered request, so no session is opened over another.   *)
(***************************************************************************)
EXTENDS KernelClient, CheckWorker, SequenceProofs

-----------------------------------------------------------------------------
(* The kernel's client.                                                    *)
(* What a budget of b steps that does not suffice grows to.                *)
Grown(b) == IF 2 * b > MaxQuerySteps THEN MaxQuerySteps ELSE 2 * b
TriesBy(f, need, b) == IF need <= b \/ b >= MaxQuerySteps THEN b ELSE f[Grown(b)]

(* The tries are a function: the recursion of the model has a value.       *)
LEMMA Growing ==
  ASSUME NEW need \in Nat
  PROVE  \E f \in [Nat -> Nat] : f = [b \in Nat |-> TriesBy(f, need, b)]
<1> USE ClientAssumption
<1> DEFINE Up(f, k) == \A b \in Nat : b + k >= MaxQuerySteps => f[b] = TriesBy(f, need, b)
           Bad == {k \in Nat : ~ \E f \in [Nat -> Nat] : Up(f, k)}
<1>1. 0 \notin Bad
  <2> DEFINE f == [b \in Nat |-> b]
  <2>1. f \in [Nat -> Nat] /\ Up(f, 0) BY DEF TriesBy
  <2> QED BY <2>1
<1>2. ASSUME NEW k \in Nat, NEW f \in [Nat -> Nat], Up(f, k)
      PROVE  \E g \in [Nat -> Nat] : Up(g, k + 1)
  <2>1. CASE k + 1 > MaxQuerySteps
    <3>1. Up(f, k + 1) BY <1>2, <2>1
    <3> QED BY <3>1
  <2>2. CASE k + 1 <= MaxQuerySteps
    <3> DEFINE at == MaxQuerySteps - (k + 1)
               v == IF need <= at THEN at ELSE IF at = 0 THEN 0 ELSE f[Grown(at)]
               g == [f EXCEPT ![at] = v]
    <3>1. at \in Nat /\ at < MaxQuerySteps BY <2>2
    <3>2. v \in Nat BY <3>1 DEF Grown
    <3> HIDE DEF v
    <3>3. g \in [Nat -> Nat] BY <3>1, <3>2
    <3>4. g[at] = TriesBy(g, need, at)
      <4>1. g[at] = v BY <3>1
      <4>2. CASE need <= at BY <4>1, <4>2 DEF v, TriesBy
      <4>3. CASE ~ need <= at /\ at = 0
        <5>1. Grown(at) = at BY <3>1, <4>3 DEF Grown
        <5>2. TriesBy(g, need, at) = g[at] BY <3>1, <4>3, <5>1 DEF TriesBy
        <5> QED BY <5>2
      <4>4. CASE ~ need <= at /\ at # 0
        <5>1. Grown(at) \in Nat /\ Grown(at) # at BY <3>1, <4>4 DEF Grown
        <5> HIDE DEF at
        <5>2. g[Grown(at)] = f[Grown(at)] BY <5>1
        <5> QED BY <3>1, <4>1, <4>4, <5>2 DEF v, TriesBy
      <4> QED BY <4>2, <4>3, <4>4
    <3>5. ASSUME NEW b \in Nat, b + (k + 1) >= MaxQuerySteps, b # at
          PROVE  g[b] = TriesBy(g, need, b)
      <4>1. b + k >= MaxQuerySteps /\ b > at BY <3>1, <3>5
      <4>2. f[b] = TriesBy(f, need, b) BY <1>2, <4>1
      <4>3. ASSUME ~ (need <= b \/ b >= MaxQuerySteps)
            PROVE  Grown(b) \in Nat /\ Grown(b) > at
        BY <3>1, <4>1, <4>3 DEF Grown
      <4> HIDE DEF at
      <4>4. g[b] = f[b] BY <3>5
      <4>5. ASSUME ~ (need <= b \/ b >= MaxQuerySteps) PROVE g[Grown(b)] = f[Grown(b)]
        <5>1. Grown(b) \in Nat /\ Grown(b) # at BY <3>1, <4>3, <4>5
        <5> QED BY <5>1
      <4> QED BY <4>2, <4>4, <4>5 DEF TriesBy
    <3>6. Up(g, k + 1) BY <3>4, <3>5
    <3> QED BY <3>3, <3>6
  <2> QED BY <2>1, <2>2
<1>3. Bad = {}
  <2>1. SUFFICES ASSUME Bad # {} PROVE FALSE OBVIOUS
  <2> HIDE DEF Up
  <2>2. Bad \in SUBSET Nat OBVIOUS
  <2>3. PICK m \in Bad : \A n \in Bad : m <= n BY <2>1, <2>2, LeastNat
  <2>4. m # 0
    <3> HIDE DEF Bad
    <3> QED BY <1>1, <2>3
  <2>5. m - 1 \in Nat /\ m - 1 \notin Bad
    <3> HIDE DEF Bad
    <3> QED BY <2>2, <2>3, <2>4
  <2>6. PICK f \in [Nat -> Nat] : Up(f, m - 1) BY <2>5
  <2>7. \E g \in [Nat -> Nat] : Up(g, (m - 1) + 1) BY <1>2, <2>5, <2>6
  <2>8. (m - 1) + 1 = m BY <2>2, <2>3
  <2> QED BY <2>3, <2>7, <2>8
<1>4. PICK f \in [Nat -> Nat] : Up(f, MaxQuerySteps) BY <1>3
<1>5. \A b \in Nat : f[b] = TriesBy(f, need, b) BY <1>4
<1>6. f = [b \in Nat |-> f[b]] OBVIOUS
<1>7. f = [b \in Nat |-> TriesBy(f, need, b)] BY <1>5, <1>6, Zenon
<1> QED BY <1>7

(* The tries end with as many steps as are needed, or with the limit.       *)
LEMMA TriesAnswer ==
  ASSUME NEW need \in Nat
  PROVE  need <= Tries(need) <=> need <= MaxQuerySteps
<1> USE ClientAssumption
<1> DEFINE from == CHOOSE f : f = [b \in Nat |-> TriesBy(f, need, b)]
<1>1. Tries(need) = from[StepBudget] BY DEF Tries, TriesBy, Grown
<1>2. from = [b \in Nat |-> TriesBy(from, need, b)] BY Growing
<1> HIDE DEF from
<1>3. \A b \in Nat : from[b] = TriesBy(from, need, b) BY <1>2
<1> DEFINE Right(b) == need <= from[b] <=> need <= MaxQuerySteps
           Wrong == {k \in Nat : \E b \in Nat \ {0} : b + k = MaxQuerySteps /\ ~ Right(b)}
<1>4. Wrong = {}
  <2>1. SUFFICES ASSUME Wrong # {} PROVE FALSE OBVIOUS
  <2>2. PICK k \in Wrong : \A j \in Wrong : k <= j BY <2>1, LeastNat, Wrong \in SUBSET Nat
  <2>3. PICK b \in Nat \ {0} : b + k = MaxQuerySteps /\ ~ Right(b) BY <2>2
  <2>4. ~ (need <= b \/ b >= MaxQuerySteps)
    <3>1. ASSUME need <= b \/ b >= MaxQuerySteps PROVE FALSE
      <4>1. from[b] = b BY <1>3, <3>1 DEF TriesBy
      <4> QED BY <2>2, <2>3, <3>1, <4>1
    <3> QED BY <3>1
  <2>5. Grown(b) \in Nat \ {0} /\ Grown(b) > b /\ Grown(b) <= MaxQuerySteps BY <2>4 DEF Grown
  <2>6. from[b] = from[Grown(b)] BY <1>3, <2>4 DEF TriesBy
  <2>7. MaxQuerySteps - Grown(b) \in Wrong
    <3>1. MaxQuerySteps - Grown(b) \in Nat BY <2>5
    <3>2. Grown(b) + (MaxQuerySteps - Grown(b)) = MaxQuerySteps BY <2>5
    <3>3. ~ Right(Grown(b)) BY <2>3, <2>6
    <3> QED BY <2>5, <3>1, <3>2, <3>3
  <2> QED BY <2>2, <2>3, <2>5, <2>7
<1>5. Right(StepBudget)
  <2>1. MaxQuerySteps - StepBudget \in Nat OBVIOUS
  <2>2. StepBudget + (MaxQuerySteps - StepBudget) = MaxQuerySteps OBVIOUS
  <2> QED BY <1>4, <2>1, <2>2
<1> QED BY <1>1, <1>5

(* The kernel's budget between calls is the session's.                     *)
BudgetInv == budget = StepBudget /\ BudgetsRepeat

(* The same query is answered again however many were asked before: what   *)
(* one operation needed leaves no budget behind it (CubicalKernel's        *)
(* queries, which grow a budget of their own and put the session's back).  *)
THEOREM BudgetsAreRepeated == ClientSpec => []BudgetsRepeat
<1>1. ClientInit => BudgetInv
  BY ClientAssumption DEF ClientInit, BudgetInv, BudgetsRepeat, NoAnswer
<1>2. BudgetInv /\ [ClientNext]_clientVars => BudgetInv'
  <2> SUFFICES ASSUME BudgetInv, [ClientNext]_clientVars PROVE BudgetInv' OBVIOUS
  <2> USE ClientAssumption
  <2>1. ASSUME NEW need \in Needs, Query(need) PROVE BudgetInv'
    <3>1. need \in Nat BY DEF Needs
    <3>2. budget' = StepBudget BY <2>1 DEF Query
    <3>3. CASE answer' = NoAnswer BY <3>2, <3>3 DEF BudgetInv, BudgetsRepeat, NoAnswer
    <3>4. CASE answer' = [need |-> need, ok |-> need <= Tries(need), limit |-> MaxQuerySteps]
      BY <3>1, <3>2, <3>4, TriesAnswer DEF BudgetInv, BudgetsRepeat
    <3> QED BY <2>1, <3>3, <3>4 DEF Query
  <2>2. ASSUME NEW need \in Needs, Instruct(need) PROVE BudgetInv'
    <3>1. need \in Nat BY DEF Needs
    <3>2. answer' = [need |-> need, ok |-> need <= budget, limit |-> StepBudget]
          /\ budget' = budget
      BY <2>2 DEF Instruct
    <3> QED BY <3>1, <3>2 DEF BudgetInv, BudgetsRepeat
  <2>3. ASSUME UNCHANGED <<budget, answer>> PROVE BudgetInv'
    BY <2>3 DEF BudgetInv, BudgetsRepeat, NoAnswer
  <2>4. ASSUME NEW s \in Syntax, Derive(s) PROVE BudgetInv' BY <2>3, <2>4 DEF Derive
  <2>5. ASSUME NEW h \in Handles, ReadNode(h) \/ Hold(h) PROVE BudgetInv' BY <2>3, <2>5 DEF ReadNode, Hold
  <2>6. ASSUME NEW n \in Names, Define(n) PROVE BudgetInv' BY <2>3, <2>6 DEF Define
  <2>7. ASSUME NEW n, NEW h, NEW X, NEW fresh, BindVariable(n, h, X, fresh) PROVE BudgetInv'
    BY <2>3, <2>7 DEF BindVariable
  <2>8. ASSUME NEW group, Begin(group) PROVE BudgetInv' BY <2>3, <2>8 DEF Begin
  <2>9. ASSUME NEW kept, Accept(kept) PROVE BudgetInv' BY <2>3, <2>9 DEF Accept
  <2>10. ASSUME Refuse \/ CommitRefused \/ Trap PROVE BudgetInv'
    BY <2>3, <2>10 DEF Refuse, CommitRefused, Trap
  <2>11. ASSUME NEW accept, EndUnmanaged(accept) PROVE BudgetInv' BY <2>3, <2>11 DEF EndUnmanaged
  <2>12. CASE UNCHANGED clientVars BY <2>3, <2>12 DEF clientVars
  <2> QED BY <2>1, <2>2, <2>4, <2>5, <2>6, <2>7, <2>8, <2>9, <2>10, <2>11, <2>12 DEF ClientNext
<1>3. BudgetInv => BudgetsRepeat BY DEF BudgetInv
<1> QED BY <1>1, <1>2, <1>3, PTL DEF ClientSpec

-----------------------------------------------------------------------------
(***************************************************************************)
(* Why the handles stay true.  A key's groups hold its entries, each group *)
(* those of one class of types; the oldest entry of a group has the        *)
(* group's own type, so that a truncation that leaves the group any entry  *)
(* leaves it that one, and a type below the checkpoint.  What a key knows  *)
(* of a type above the settled nodes is known since it was touched.  And a *)
(* transaction's snapshot describes what lies below its checkpoint.        *)
(***************************************************************************)
SameClass(a, h, k) == a[h][1] = a[k][1]

(* A group, and the groups, of a key: a the arena, rs the records.         *)
GroupOK(a, rs, key, g) ==
  /\ IsSeq(g.entries)
  /\ \A d \in ToSet(g.entries) :
       d \in DOMAIN rs /\ key \in rs[d].keys /\ SameClass(a, g.type, rs[d].type)
  /\ \E e \in ToSet(g.entries) : rs[e].type = g.type /\ \A d \in ToSet(g.entries) : e <= d
GroupsOK(a, rs, key, gs) ==
  /\ IsSeq(gs)
  /\ \A i \in DOMAIN gs : GroupOK(a, rs, key, gs[i])
  /\ \A i, j \in DOMAIN gs : i # j => ~SameClass(a, gs[i].type, gs[j].type)
  /\ \A e \in DOMAIN rs : key \in rs[e].keys => \E i \in DOMAIN gs : e \in ToSet(gs[i].entries)

(* What a key knows of a type: its group, or groups it is unlike.          *)
KnownOK(a, gs, kn) ==
  \A h \in DOMAIN kn :
    /\ h \in 1 .. Len(a)
    /\ \/ kn[h].group \in DOMAIN gs /\ SameClass(a, gs[kn[h].group].type, h)
       \/ /\ kn[h].group = 0 /\ kn[h].compared \in 0 .. Len(gs)
          /\ \A i \in 1 .. kn[h].compared : ~SameClass(a, gs[i].type, h)

(* The records are the entries', and symbols are not shared.               *)
RecordsOK(a, es, rs) ==
  /\ IsSeq(rs) /\ IsSeq(es) /\ Len(rs) = Len(es)
  /\ \A e \in DOMAIN rs :
       /\ rs[e].symbol = es[e] /\ rs[e].type \in 1 .. Len(a) /\ IsSeq(es[e])
       /\ \A d \in DOMAIN rs : rs[d].symbol = rs[e].symbol => d = e

NamesInv ==
  /\ RecordsOK(arena, entries, records)
  /\ \A e \in DOMAIN records : records[e].keys \subseteq DOMAIN named
  /\ \A key \in DOMAIN named :
       /\ GroupsOK(arena, records, key, named[key].groups)
       /\ KnownOK(arena, named[key].groups, named[key].known)
       /\ key \notin touched => \A h \in DOMAIN named[key].known : h < settled
  /\ \A n \in DOMAIN variants : variants[n] \in Nat

(* The maps and caches name what the kernel has.                           *)
DefinedAt(a, t, names, n, h) ==
  /\ h \in 1 .. Len(a) /\ a[h][1] = "ref" /\ a[h][2] \in 1 .. t /\ names[a[h][2]] = n

ClientInv ==
  /\ IsSeq(arena) /\ table \in Nat /\ settled \in Nat /\ settled <= Len(arena) + 1
  /\ \A n \in DOMAIN definitions : DefinedAt(arena, table, defNames, n, definitions[n])
  /\ DOMAIN defNames = 1 .. table
  /\ \A h \in DOMAIN nodes : h \in Handles /\ h >= settled /\ nodes[h] = arena[h]
  /\ \A h \in DOMAIN settledNodes : h \in Handles /\ h < settled /\ settledNodes[h] = arena[h]
  /\ \A h \in DOMAIN derived : h \in Handles /\ derived[h] = arena[h]

(* A token is no later than the generation.                                *)
ReaderInv ==
  /\ generation \in Nat /\ reader.token \in Nat
  /\ generation # 0 => reader.token <= generation
  /\ HandlesHeld => reader.handle \in Handles /\ arena[reader.handle] = reader.node

(* A declaration's records are defined.                                    *)
PublicationInv ==
  /\ PublishedDefined
  /\ publication # NotPublishing =>
       /\ DOMAIN publication = {"transaction", "group", "records", "snapshot"}
       /\ publication.transaction \in {"open", "unmanaged"}
       /\ publication.records \subseteq DOMAIN definitions

(* What an open transaction would go back to is below its checkpoint.      *)
TransactionInv ==
  publication.transaction = "open" =>
    LET s == publication.snapshot
    IN /\ point.nodes \in Nat /\ point.nodes <= Len(arena) /\ settled <= point.nodes + 1
       /\ point.table \in Nat /\ point.table <= table /\ s.defNames = 1 .. point.table
       /\ point.entries \in Nat /\ point.entries <= Len(entries) /\ s.entries = point.entries
       /\ \A e \in 1 .. point.entries : records[e].type <= point.nodes
       /\ s.definitions \subseteq DOMAIN definitions
       /\ \A n \in s.definitions :
            definitions[n] <= point.nodes /\ arena[definitions[n]][2] <= point.table
       /\ published \subseteq s.definitions
       /\ \A m \in DOMAIN s.metadata : {m, s.metadata[m]} \subseteq s.definitions

KInv == NamesInv /\ ClientInv /\ ReaderInv /\ PublicationInv /\ TransactionInv

-----------------------------------------------------------------------------
(* Sequences as sets.                                                      *)

(* What is appended is one more element.                                   *)
LEMMA ToSetAppend ==
  ASSUME NEW s, IsSeq(s), NEW x
  PROVE  ToSet(Append(s, x)) = ToSet(s) \cup {x}
<1>1. /\ DOMAIN Append(s, x) = DOMAIN s \cup {Len(s) + 1} /\ Append(s, x)[Len(s) + 1] = x
      /\ \A i \in DOMAIN s : Append(s, x)[i] = s[i]
  BY AppendShape DEF Extends
<1> QED BY <1>1 DEF ToSet

(* A filter keeps the elements at the positions, each of them once.        *)
LEMMA KeptAny ==
  ASSUME NEW s, IsSeq(s), NEW S \in SUBSET DOMAIN s, NEW g, g = Kept(s, S)
  PROVE  /\ IsSeq(g)
         /\ \A k \in DOMAIN g : \E p \in S : g[k] = s[p]
         /\ \A p \in S : \E k \in DOMAIN g : g[k] = s[p]
         /\ \A k, l \in DOMAIN g : k # l => \E p, q \in S : p # q /\ g[k] = s[p] /\ g[l] = s[q]
<1>1. PICK T : s \in Seq(T) BY DEF IsSeq
<1>2. g \in Seq(T) BY <1>1, KeptElements
<1> QED BY <1>1, <1>2, KeptElements, SeqOfSet

(* The elements a filter keeps, as a set.                                  *)
LEMMA KeptSet ==
  ASSUME NEW s, IsSeq(s), NEW S \in SUBSET DOMAIN s
  PROVE  IsSeq(Kept(s, S)) /\ ToSet(Kept(s, S)) = {s[k] : k \in S}
<1>1. PICK g : g = Kept(s, S) OBVIOUS
<1>2. IsSeq(g) /\ (\A k \in DOMAIN g : \E p \in S : g[k] = s[p]) /\ (\A p \in S : \E k \in DOMAIN g : g[k] = s[p])
  BY <1>1, KeptAny
<1>3. ToSet(g) = {s[k] : k \in S} BY <1>2 DEF ToSet
<1> QED BY <1>1, <1>2, <1>3

(* The empty sequence.                                                     *)
LEMMA NoElements ==
  ASSUME NEW s, s = <<>>
  PROVE  IsSeq(s) /\ DOMAIN s = {} /\ Len(s) = 0 /\ ToSet(s) = {}
<1>1. s \in Seq({}) OBVIOUS
<1>2. IsSeq(s) BY <1>1, SeqOfSet
<1>3. DOMAIN s = {} /\ Len(s) = 0 OBVIOUS
<1>4. ToSet(s) = {} BY <1>3 DEF ToSet
<1> QED BY <1>2, <1>3, <1>4, Zenon

-----------------------------------------------------------------------------
(* Groups.                                                                 *)

(* No groups are the groups of a key that no entry has.                    *)
LEMMA NoGroups ==
  ASSUME NEW a, NEW rs, NEW key, \A e \in DOMAIN rs : key \notin rs[e].keys
  PROVE  GroupsOK(a, rs, key, <<>>) /\ KnownOK(a, <<>>, Empty)
<1>1. PICK gs : gs = <<>> OBVIOUS
<1>2. IsSeq(gs) /\ DOMAIN gs = {} BY <1>1, NoElements, Zenon
<1>3. GroupsOK(a, rs, key, gs) BY <1>2 DEF GroupsOK
<1>4. KnownOK(a, gs, Empty) BY DEF KnownOK, Empty
<1> QED BY <1>1, <1>3, <1>4

(* A key's groups, and what it knows, whether or not it has any yet.       *)
LEMMA NamedOfOK ==
  ASSUME NamesInv, NEW key
  PROVE  /\ GroupsOK(arena, records, key, NamedOf(key).groups)
         /\ KnownOK(arena, NamedOf(key).groups, NamedOf(key).known)
<1>1. CASE key \in DOMAIN named BY <1>1 DEF NamesInv, NamedOf
<1>2. CASE key \notin DOMAIN named
  <2>1. NamedOf(key) = [groups |-> <<>>, known |-> Empty] BY <1>2 DEF NamedOf
  <2>2. NamedOf(key).groups = <<>> /\ NamedOf(key).known = Empty BY <2>1
  <2>3. \A e \in DOMAIN records : key \notin records[e].keys BY <1>2 DEF NamesInv
  <2> QED BY <2>2, <2>3, NoGroups
<1> QED BY <1>1, <1>2

(* The group a type belongs to, or none when no group is of its class.     *)
GroupRight(a, gs, type, i) ==
  \/ i \in DOMAIN gs /\ SameClass(a, gs[i].type, type)
  \/ i = 0 /\ \A j \in DOMAIN gs : ~ SameClass(a, gs[j].type, type)

(* The choice is right: what is known is, and the first group alike of     *)
(* those not compared with is the only one.                                *)
LEMMA GroupChosen ==
  ASSUME NEW a, NEW gs, IsSeq(gs), NEW kn, KnownOK(a, gs, kn), NEW type,
         NEW known, known = (IF type \in DOMAIN kn THEN kn[type] ELSE Unknown),
         NEW alike, alike = {j \in DOMAIN gs : j > known.compared /\ SameClass(a, gs[j].type, type)},
         NEW i, i = (IF known.group # 0 THEN known.group
                     ELSE IF alike = {} THEN 0 ELSE CHOOSE j \in alike : \A l \in alike : j <= l)
  PROVE  GroupRight(a, gs, type, i)
<1>2. DOMAIN gs = 1 .. Len(gs) /\ Len(gs) \in Nat BY SeqShape
<1>3. CASE known.group # 0
  <2>1. type \in DOMAIN kn /\ known = kn[type] BY <1>3 DEF Unknown
  <2>2. known.group \in DOMAIN gs /\ SameClass(a, gs[known.group].type, type)
    BY <1>3, <2>1 DEF KnownOK
  <2> QED BY <1>3, <2>2 DEF GroupRight
<1>4. CASE known.group = 0
  <2>1. known.compared \in Nat /\ \A j \in DOMAIN gs : j <= known.compared => ~ SameClass(a, gs[j].type, type)
    <3>1. CASE type \in DOMAIN kn
      <4>1. known = kn[type] BY <3>1
      <4>2. known.group \notin DOMAIN gs BY <1>2, <1>4
      <4>3. known.compared \in 0 .. Len(gs) /\ \A j \in 1 .. known.compared : ~ SameClass(a, gs[j].type, type)
        BY <3>1, <4>1, <4>2 DEF KnownOK
      <4> QED BY <1>2, <4>3
    <3>2. CASE type \notin DOMAIN kn
      <4>1. known.compared = 0 BY <3>2 DEF Unknown
      <4> QED BY <1>2, <4>1
    <3> QED BY <3>1, <3>2
  <2>2. \A j \in DOMAIN gs : SameClass(a, gs[j].type, type) <=> j \in alike BY <1>2, <2>1
  <2>3. CASE alike = {} BY <1>4, <2>2, <2>3 DEF GroupRight
  <2>4. CASE alike # {}
    <3>1. alike \in SUBSET Nat /\ alike \subseteq DOMAIN gs BY <1>2
    <3>2. \E j \in alike : \A l \in alike : j <= l BY <2>4, <3>1, LeastNat
    <3>3. i = CHOOSE j \in alike : \A l \in alike : j <= l BY <1>4, <2>4
    <3>4. i \in alike BY <3>2, <3>3
    <3> QED BY <2>2, <3>1, <3>4 DEF GroupRight
  <2> QED BY <2>3, <2>4
<1> QED BY <1>3, <1>4

(* The group that GroupFor finds, by what is known or by comparing.        *)
LEMMA GroupForRight ==
  ASSUME NEW key, NEW type, IsSeq(NamedOf(key).groups),
         KnownOK(arena, NamedOf(key).groups, NamedOf(key).known)
  PROVE  GroupRight(arena, NamedOf(key).groups, type, GroupFor(key, type))
<1>1. PICK gs, kn : gs = NamedOf(key).groups /\ kn = NamedOf(key).known OBVIOUS
<1>2. PICK known : known = IF type \in DOMAIN kn THEN kn[type] ELSE Unknown OBVIOUS
<1>3. PICK alike : alike = {j \in DOMAIN gs : j > known.compared /\ SameClass(arena, gs[j].type, type)} OBVIOUS
<1>4. PICK i : i = IF known.group # 0 THEN known.group
                   ELSE IF alike = {} THEN 0 ELSE CHOOSE j \in alike : \A l \in alike : j <= l
  OBVIOUS
<1>5. GroupFor(key, type) = i
  <2>1. alike = {j \in DOMAIN gs : j > known.compared /\ Alike(gs[j].type, type)}
    BY <1>3 DEF Alike, SameClass
  <2> QED BY <1>1, <1>2, <1>4, <2>1 DEF GroupFor
<1>6. IsSeq(gs) /\ KnownOK(arena, gs, kn) BY <1>1
<1>7. GroupRight(arena, gs, type, i) BY <1>2, <1>3, <1>4, <1>6, GroupChosen
<1> QED BY <1>1, <1>5, <1>7

(* What is known after a type was compared with every group.               *)
LEMMA KnownAdded ==
  ASSUME NEW a, NEW gs, IsSeq(gs), NEW kn, KnownOK(a, gs, kn), NEW type \in 1 .. Len(a),
         NEW i, GroupRight(a, gs, type, i)
  PROVE  KnownOK(a, gs, With(kn, type, [group |-> i, compared |-> IF i = 0 THEN Len(gs) ELSE 0]))
<1>1. PICK new : new = [group |-> i, compared |-> IF i = 0 THEN Len(gs) ELSE 0] OBVIOUS
<1>2. new.group = i /\ (i = 0 => new.compared = Len(gs)) BY <1>1
<1>3. Len(gs) \in Nat /\ DOMAIN gs = 1 .. Len(gs) BY SeqShape
<1>4. PICK n : n = With(kn, type, new) OBVIOUS
<1>5. DOMAIN n = DOMAIN kn \cup {type} /\ n[type] = new /\ \A h \in DOMAIN kn : h # type => n[h] = kn[h]
  BY <1>4 DEF With
<1>6. \/ new.group \in DOMAIN gs /\ SameClass(a, gs[new.group].type, type)
      \/ /\ new.group = 0 /\ new.compared \in 0 .. Len(gs)
         /\ \A j \in 1 .. new.compared : ~ SameClass(a, gs[j].type, type)
  BY <1>2, <1>3 DEF GroupRight
<1>7. KnownOK(a, gs, n) BY <1>5, <1>6 DEF KnownOK
<1> QED BY <1>1, <1>4, <1>7
(* A key that was asked for a type.                                        *)
LEMMA AskedOK ==
  ASSUME NamesInv, NEW key, NEW type \in Handles
  PROVE  /\ GroupsOK(arena, records, key, Asked(key, type).groups)
         /\ KnownOK(arena, Asked(key, type).groups, Asked(key, type).known)
         /\ DOMAIN Asked(key, type).known = DOMAIN NamedOf(key).known \cup {type}
<1>1. PICK gs, kn, i : gs = NamedOf(key).groups /\ kn = NamedOf(key).known /\ i = GroupFor(key, type) OBVIOUS
<1>2. GroupsOK(arena, records, key, gs) /\ KnownOK(arena, gs, kn) BY <1>1, NamedOfOK
<1>3. IsSeq(gs) BY <1>2 DEF GroupsOK
<1>4. GroupRight(arena, gs, type, i) BY <1>1, <1>2, <1>3, GroupForRight
<1>5. PICK n : n = With(kn, type, [group |-> i, compared |-> IF i = 0 THEN Len(gs) ELSE 0]) OBVIOUS
<1>6. KnownOK(arena, gs, n) BY <1>2, <1>3, <1>4, <1>5, KnownAdded DEF Handles
<1>7. Asked(key, type) = [groups |-> gs, known |-> n] BY <1>1, <1>5 DEF Asked
<1>8. Asked(key, type).groups = gs /\ Asked(key, type).known = n BY <1>7
<1>9. DOMAIN n = DOMAIN kn \cup {type} BY <1>5 DEF With
<1> QED BY <1>1, <1>2, <1>6, <1>8, <1>9

(* A group stays one while its entries' records do.                        *)
LEMMA GroupStays ==
  ASSUME NEW a, NEW rs, NEW key, NEW g, GroupOK(a, rs, key, g),
         NEW rn, \A d \in DOMAIN rs : d \in DOMAIN rn /\ rn[d] = rs[d]
  PROVE  GroupOK(a, rn, key, g)
<1>1. PICK e \in ToSet(g.entries) : rs[e].type = g.type /\ \A d \in ToSet(g.entries) : e <= d
  BY DEF GroupOK
<1>2. \A d \in ToSet(g.entries) : d \in DOMAIN rs BY DEF GroupOK
<1>3. rn[e].type = g.type BY <1>1, <1>2
<1>4. \A d \in ToSet(g.entries) :
        d \in DOMAIN rn /\ key \in rn[d].keys /\ SameClass(a, g.type, rn[d].type)
  BY DEF GroupOK
<1> QED BY <1>1, <1>3, <1>4 DEF GroupOK

(* Groups that keep others as they are, and their types.                  *)
Keeps(gs, ng) ==
  IsSeq(ng) /\ Len(gs) <= Len(ng) /\ \A j \in DOMAIN gs : j \in DOMAIN ng /\ ng[j].type = gs[j].type

(* One more entry with a key: its group grows, or is a new one.            *)
GrownGroup(gs, i, rs) ==
  [gs EXCEPT ![i] = [type |-> gs[i].type, entries |-> Append(gs[i].entries, Len(rs) + 1)]]
LEMMA GroupsGrow ==
  ASSUME NEW a, NEW rs, IsSeq(rs), NEW key, NEW gs, GroupsOK(a, rs, key, gs),
         NEW r, key \in r.keys, NEW i, GroupRight(a, gs, r.type, i), i # 0
  PROVE  /\ GroupsOK(a, Append(rs, r), key, GrownGroup(gs, i, rs)) /\ Keeps(gs, GrownGroup(gs, i, rs))
         /\ GroupRight(a, GrownGroup(gs, i, rs), r.type, i)
<1>0. PICK rn, e, g, ng : /\ rn = Append(rs, r) /\ e = Len(rs) + 1
                          /\ g = [type |-> gs[i].type, entries |-> Append(gs[i].entries, e)]
                          /\ ng = [gs EXCEPT ![i] = g]
  OBVIOUS
<1>1. i \in DOMAIN gs /\ SameClass(a, gs[i].type, r.type) BY DEF GroupRight
<1>2. /\ IsSeq(gs)
      /\ \A k \in DOMAIN gs : GroupOK(a, rs, key, gs[k])
      /\ \A k, j \in DOMAIN gs : k # j => ~SameClass(a, gs[k].type, gs[j].type)
      /\ \A d \in DOMAIN rs : key \in rs[d].keys => \E k \in DOMAIN gs : d \in ToSet(gs[k].entries)
  BY DEF GroupsOK
<1>3. /\ DOMAIN rs = 1 .. Len(rs) /\ Len(rs) \in Nat
      /\ DOMAIN rn = DOMAIN rs \cup {e} /\ rn[e] = r /\ \A d \in DOMAIN rs : rn[d] = rs[d]
  BY <1>0, SeqShape, AppendShape DEF Extends
<1>4. IsSeq(ng) /\ DOMAIN ng = DOMAIN gs /\ Len(ng) = Len(gs)
  <2>1. PICK S : gs \in Seq(S) BY <1>2 DEF IsSeq
  <2>2. gs \in Seq(S \cup {g}) BY <2>1
  <2>3. ng \in Seq(S \cup {g}) /\ Len(ng) = Len(gs) BY <1>0, <1>1, <2>2
  <2> QED BY <2>2, <2>3, SeqOfSet, SeqShape
<1>5. /\ \A j \in DOMAIN gs : j # i => ng[j] = gs[j]
      /\ ng[i] = g
  <2>1. i \in DOMAIN gs BY <1>1
  <2> QED BY <1>0, <2>1
<1>6. g.type = gs[i].type /\ g.entries = Append(gs[i].entries, e) BY <1>0
<1>7. ToSet(g.entries) = ToSet(gs[i].entries) \cup {e} /\ IsSeq(g.entries)
  <2>1. IsSeq(gs[i].entries) BY <1>1, <1>2 DEF GroupOK
  <2> QED BY <1>6, <2>1, ToSetAppend, AppendShape
<1>8. \A j \in DOMAIN ng : ng[j].type = gs[j].type BY <1>4, <1>5, <1>6
<1>9. ToSet(gs[i].entries) \subseteq ToSet(ng[i].entries) /\ e \in ToSet(ng[i].entries)
  BY <1>5, <1>7
<1>10. ASSUME NEW k \in DOMAIN ng PROVE GroupOK(a, rn, key, ng[k])
  <2>1. k \in DOMAIN gs /\ GroupOK(a, rs, key, gs[k]) BY <1>2, <1>4
  <2>2. CASE k # i
    <3>1. GroupOK(a, rn, key, gs[k]) BY <1>3, <2>1, GroupStays
    <3> QED BY <1>5, <2>1, <2>2, <3>1
  <2>3. CASE k = i
    <3>1. IsSeq(g.entries) BY <1>7
    <3>2. ASSUME NEW d \in ToSet(g.entries)
          PROVE  d \in DOMAIN rn /\ key \in rn[d].keys /\ SameClass(a, g.type, rn[d].type)
      <4>1. CASE d \in ToSet(gs[i].entries) BY <1>3, <1>6, <2>1, <2>3, <4>1 DEF GroupOK
      <4>2. CASE d = e BY <1>1, <1>3, <1>6, <4>2
      <4> QED BY <1>7, <4>1, <4>2
    <3>3. PICK x \in ToSet(gs[i].entries) :
            rs[x].type = gs[i].type /\ \A d \in ToSet(gs[i].entries) : x <= d
      BY <2>1, <2>3 DEF GroupOK
    <3>4. x \in DOMAIN rs BY <2>1, <2>3 DEF GroupOK
    <3>5. rn[x].type = g.type /\ x <= e /\ x \in ToSet(g.entries) BY <1>0, <1>3, <1>6, <1>7, <3>3, <3>4
    <3>6. \A d \in ToSet(g.entries) : x <= d BY <1>7, <3>3, <3>5
    <3>7. GroupOK(a, rn, key, g) BY <3>1, <3>2, <3>5, <3>6 DEF GroupOK
    <3> QED BY <1>5, <2>3, <3>7
  <2> QED BY <2>2, <2>3
<1>11. \A k, j \in DOMAIN ng : k # j => ~SameClass(a, ng[k].type, ng[j].type) BY <1>2, <1>4, <1>8
<1>12. ASSUME NEW d \in DOMAIN rn, key \in rn[d].keys
       PROVE  \E k \in DOMAIN ng : d \in ToSet(ng[k].entries)
  <2>1. CASE d \in DOMAIN rs
    <3>1. PICK k \in DOMAIN gs : d \in ToSet(gs[k].entries) BY <1>2, <1>3, <1>12, <2>1
    <3> QED BY <1>4, <1>5, <1>9, <3>1
  <2>2. CASE d = e BY <1>1, <1>4, <1>9, <2>2
  <2> QED BY <1>3, <2>1, <2>2
<1>13. GroupsOK(a, rn, key, ng) BY <1>4, <1>10, <1>11, <1>12 DEF GroupsOK
<1>14. ng = GrownGroup(gs, i, rs) BY <1>0 DEF GrownGroup
<1>15. Keeps(gs, ng)
  <2>1. Len(gs) \in Nat BY <1>2, SeqShape
  <2> QED BY <1>4, <1>8, <2>1 DEF Keeps
<1>16. GroupRight(a, ng, r.type, i) BY <1>1, <1>4, <1>8 DEF GroupRight
<1> QED BY <1>0, <1>13, <1>14, <1>15, <1>16

(* One more entry of a type that no group has: a new group.                *)
Added(gs, type, rs) == Append(gs, [type |-> type, entries |-> <<Len(rs) + 1>>])
LEMMA GroupsAdd ==
  ASSUME NEW a, NEW rs, IsSeq(rs), NEW key, NEW gs, GroupsOK(a, rs, key, gs),
         NEW r, key \in r.keys, GroupRight(a, gs, r.type, 0)
  PROVE  /\ GroupsOK(a, Append(rs, r), key, Added(gs, r.type, rs)) /\ Keeps(gs, Added(gs, r.type, rs))
         /\ GroupRight(a, Added(gs, r.type, rs), r.type, Len(gs) + 1)
<1>0. PICK rn, e, g, ng : /\ rn = Append(rs, r) /\ e = Len(rs) + 1
                          /\ g = [type |-> r.type, entries |-> <<e>>]
                          /\ ng = Append(gs, g)
  OBVIOUS
<1>1. \A j \in DOMAIN gs : ~SameClass(a, gs[j].type, r.type)
  <2>1. IsSeq(gs) BY DEF GroupsOK
  <2>2. 0 \notin DOMAIN gs BY <2>1, SeqShape
  <2> QED BY <2>2 DEF GroupRight
<1>2. /\ IsSeq(gs)
      /\ \A k \in DOMAIN gs : GroupOK(a, rs, key, gs[k])
      /\ \A k, j \in DOMAIN gs : k # j => ~SameClass(a, gs[k].type, gs[j].type)
      /\ \A d \in DOMAIN rs : key \in rs[d].keys => \E k \in DOMAIN gs : d \in ToSet(gs[k].entries)
  BY DEF GroupsOK
<1>3. /\ DOMAIN rs = 1 .. Len(rs) /\ Len(rs) \in Nat
      /\ DOMAIN rn = DOMAIN rs \cup {e} /\ rn[e] = r /\ \A d \in DOMAIN rs : rn[d] = rs[d]
  BY <1>0, SeqShape, AppendShape DEF Extends
<1> DEFINE n == Len(gs) + 1
<1>4. /\ IsSeq(ng) /\ DOMAIN ng = DOMAIN gs \cup {n} /\ n \notin DOMAIN gs /\ ng[n] = g
      /\ Len(ng) = n /\ \A j \in DOMAIN gs : ng[j] = gs[j]
  BY <1>0, <1>2, AppendShape DEF Extends
<1>6. g.type = r.type /\ g.entries = <<e>> BY <1>0
<1>7. ToSet(g.entries) = {e} /\ IsSeq(g.entries)
  <2>1. PICK o : o = <<e>> OBVIOUS
  <2>2. o \in Seq({e}) /\ Len(o) = 1 /\ o[1] = e BY <2>1
  <2>4. DOMAIN o = {1} BY <2>2
  <2>3. ToSet(o) = {e} /\ IsSeq(o) BY <2>2, <2>4, SeqOfSet DEF ToSet
  <2> QED BY <1>6, <2>1, <2>3
<1> HIDE DEF n
<1>8. SameClass(a, r.type, r.type) /\ (\A h, k : SameClass(a, h, k) <=> SameClass(a, k, h)) BY DEF SameClass
<1>9. e <= e BY <1>0, <1>3
<1>10. ASSUME NEW k \in DOMAIN ng PROVE GroupOK(a, rn, key, ng[k])
  <2>1. CASE k \in DOMAIN gs
    <3>1. GroupOK(a, rn, key, gs[k]) BY <1>2, <1>3, <2>1, GroupStays
    <3> QED BY <1>4, <2>1, <3>1
  <2>2. CASE k = n
    <3>1. e \in DOMAIN rn /\ rn[e] = r BY <1>3
    <3>2. GroupOK(a, rn, key, g) BY <1>6, <1>7, <1>8, <1>9, <3>1 DEF GroupOK
    <3> QED BY <1>4, <2>2, <3>2
  <2> QED BY <1>4, <2>1, <2>2
<1>11. \A k, j \in DOMAIN ng : k # j => ~SameClass(a, ng[k].type, ng[j].type) BY <1>1, <1>2, <1>4, <1>6, <1>8
<1>12. ASSUME NEW d \in DOMAIN rn, key \in rn[d].keys
       PROVE  \E k \in DOMAIN ng : d \in ToSet(ng[k].entries)
  <2>1. CASE d \in DOMAIN rs BY <1>2, <1>3, <1>4, <1>12, <2>1
  <2>2. CASE d = e BY <1>4, <1>7, <2>2
  <2> QED BY <1>3, <2>1, <2>2
<1>13. GroupsOK(a, rn, key, ng) BY <1>4, <1>10, <1>11, <1>12 DEF GroupsOK
<1>14. ng = Added(gs, r.type, rs) BY <1>0 DEF Added
<1>15. Keeps(gs, ng)
  <2>1. Len(gs) \in Nat BY <1>2, SeqShape
  <2> QED BY <1>4, <2>1 DEF Keeps, n
<1>16. GroupRight(a, ng, r.type, n) BY <1>4, <1>6, <1>8 DEF GroupRight
<1> QED BY <1>0, <1>13, <1>14, <1>15, <1>16 DEF n

(* An entry without a key changes nothing of the key's.                    *)
LEMMA GroupsKept ==
  ASSUME NEW a, NEW rs, IsSeq(rs), NEW key, NEW gs, GroupsOK(a, rs, key, gs),
         NEW r, key \notin r.keys, NEW rn, rn = Append(rs, r)
  PROVE  GroupsOK(a, rn, key, gs)
<1>1. PICK e : e = Len(rs) + 1 OBVIOUS
<1>2. /\ DOMAIN rn = DOMAIN rs \cup {e} /\ rn[e] = r /\ \A d \in DOMAIN rs : rn[d] = rs[d]
  BY <1>1, SeqShape, AppendShape DEF Extends
<1>3. \A k \in DOMAIN gs : GroupOK(a, rn, key, gs[k]) BY <1>2, GroupStays DEF GroupsOK
<1>4. \A d \in DOMAIN rn : key \in rn[d].keys => \E k \in DOMAIN gs : d \in ToSet(gs[k].entries)
  BY <1>2 DEF GroupsOK
<1> QED BY <1>3, <1>4 DEF GroupsOK

(* What is known stays right while groups keep their types, and a type     *)
(* that got its group is known to have it.                                 *)
LEMMA KnownGrows ==
  ASSUME NEW a, NEW gs, IsSeq(gs), NEW kn, KnownOK(a, gs, kn), NEW ng, Keeps(gs, ng),
         NEW type \in 1 .. Len(a), NEW i, i # 0, GroupRight(a, ng, type, i)
  PROVE  KnownOK(a, ng, With(kn, type, Found(i)))
<1>0. /\ IsSeq(ng) /\ Len(gs) <= Len(ng) /\ \A j \in DOMAIN gs : j \in DOMAIN ng /\ ng[j].type = gs[j].type
      /\ i \in DOMAIN ng /\ SameClass(a, ng[i].type, type)
  BY DEF Keeps, GroupRight
<1>1. PICK n : n = With(kn, type, Found(i)) OBVIOUS
<1>2. DOMAIN n = DOMAIN kn \cup {type} /\ n[type] = Found(i) /\ \A h \in DOMAIN kn : h # type => n[h] = kn[h]
  BY <1>1 DEF With
<1>3. Found(i).group = i BY DEF Found
<1>4. Len(gs) \in Nat /\ Len(ng) \in Nat /\ DOMAIN gs = 1 .. Len(gs) BY <1>0, SeqShape
<1>5. ASSUME NEW h \in DOMAIN n
      PROVE  /\ h \in 1 .. Len(a)
             /\ \/ n[h].group \in DOMAIN ng /\ SameClass(a, ng[n[h].group].type, h)
                \/ /\ n[h].group = 0 /\ n[h].compared \in 0 .. Len(ng)
                   /\ \A j \in 1 .. n[h].compared : ~SameClass(a, ng[j].type, h)
  <2>1. CASE h = type BY <1>0, <1>2, <1>3, <2>1
  <2>2. CASE h # type
    <3>1. h \in DOMAIN kn /\ n[h] = kn[h] BY <1>2, <2>2
    <3>2. h \in 1 .. Len(a) BY <3>1 DEF KnownOK
    <3>3. CASE kn[h].group \in DOMAIN gs /\ SameClass(a, gs[kn[h].group].type, h) BY <1>0, <3>1, <3>2, <3>3
    <3>4. CASE /\ kn[h].group = 0 /\ kn[h].compared \in 0 .. Len(gs)
               /\ \A j \in 1 .. kn[h].compared : ~SameClass(a, gs[j].type, h)
      <4>1. kn[h].compared \in 0 .. Len(ng) /\ \A j \in 1 .. kn[h].compared : j \in DOMAIN gs BY <1>0, <1>4, <3>4
      <4>2. \A j \in 1 .. kn[h].compared : ~SameClass(a, ng[j].type, h) BY <1>0, <3>4, <4>1
      <4> QED BY <3>1, <3>2, <3>4, <4>1, <4>2
    <3> QED BY <3>1, <3>3, <3>4 DEF KnownOK
  <2> QED BY <2>1, <2>2
<1>6. KnownOK(a, ng, n) BY <1>5 DEF KnownOK
<1> QED BY <1>1, <1>6

(* A key of a new entry, once it is recorded.                              *)
LEMMA GivenOK ==
  ASSUME NamesInv, NEW key, NEW r, key \in r.keys, r.type \in Handles,
         NEW g, g = Given(key, r.type, Len(entries) + 1),
         NEW rn, rn = Append(records, r)
  PROVE  GroupsOK(arena, rn, key, g.groups) /\ KnownOK(arena, g.groups, g.known)
<1>1. PICK gs, kn, i : gs = NamedOf(key).groups /\ kn = NamedOf(key).known /\ i = GroupFor(key, r.type) OBVIOUS
<1>2. GroupsOK(arena, records, key, gs) /\ KnownOK(arena, gs, kn) BY <1>1, NamedOfOK
<1>3. IsSeq(gs) BY <1>2 DEF GroupsOK
<1>4. GroupRight(arena, gs, r.type, i) BY <1>1, <1>2, <1>3, GroupForRight
<1>5. IsSeq(records) /\ Len(records) = Len(entries) BY DEF NamesInv, RecordsOK
<1>6. PICK e : e = Len(records) + 1 OBVIOUS
<1>7. Len(gs) \in Nat /\ r.type \in 1 .. Len(arena) BY <1>3, SeqShape DEF Handles
<1>8. CASE i # 0
  <2>1. PICK ng : ng = GrownGroup(gs, i, records) OBVIOUS
  <2>2. g = [groups |-> ng, known |-> With(kn, r.type, Found(i))]
    BY <1>1, <1>5, <1>6, <1>8, <2>1 DEF Given, GrownGroup
  <2>3. GroupsOK(arena, Append(records, r), key, ng) /\ Keeps(gs, ng) /\ GroupRight(arena, ng, r.type, i)
    BY <1>2, <1>4, <1>5, <1>8, <2>1, GroupsGrow
  <2>4. KnownOK(arena, ng, With(kn, r.type, Found(i)))
    BY <1>2, <1>3, <1>7, <1>8, <2>3, KnownGrows
  <2>5. g.groups = ng /\ g.known = With(kn, r.type, Found(i)) BY <2>2
  <2> QED BY <2>3, <2>4, <2>5
<1>9. CASE i = 0
  <2>1. PICK ng, n : ng = Added(gs, r.type, records) /\ n = Len(gs) + 1 OBVIOUS
  <2>2. g = [groups |-> ng, known |-> With(kn, r.type, Found(n))]
    BY <1>1, <1>5, <1>6, <1>9, <2>1 DEF Given, Added
  <2>3. GroupRight(arena, gs, r.type, 0) BY <1>4, <1>9
  <2>4. GroupsOK(arena, Append(records, r), key, ng) /\ Keeps(gs, ng) /\ GroupRight(arena, ng, r.type, n)
    BY <1>2, <1>5, <2>1, <2>3, GroupsAdd
  <2>5. n # 0 BY <1>7, <2>1
  <2>6. KnownOK(arena, ng, With(kn, r.type, Found(n)))
    BY <1>2, <1>3, <1>7, <2>4, <2>5, KnownGrows
  <2>7. g.groups = ng /\ g.known = With(kn, r.type, Found(n)) BY <2>2
  <2> QED BY <2>4, <2>6, <2>7
<1> QED BY <1>8, <1>9

-----------------------------------------------------------------------------
(* Spellings.                                                              *)

(* There are more variants to try than entries that could hold one.        *)
LEMMA VariantFree ==
  ASSUME IsSeq(records), NEW name, IsSeq(name), NEW last \in Nat
  PROVE  \E k \in last + 1 .. last + 1 + Len(records) : ~Held(Append(name, k))
<1>1. Len(records) \in Nat /\ DOMAIN records = 1 .. Len(records) BY SeqShape
<1>2. SUFFICES ASSUME \A k \in last + 1 .. last + 1 + Len(records) : Held(Append(name, k)) PROVE FALSE
  OBVIOUS
<1> DEFINE S == last + 1 .. last + 1 + Len(records)
           f == [k \in S |-> CHOOSE e \in DOMAIN records : records[e].symbol = Append(name, k)]
<1>3. \A k \in S : f[k] \in DOMAIN records /\ records[f[k]].symbol = Append(name, k) BY <1>2 DEF Held
<1>4. f \in [S -> DOMAIN records] BY <1>3
<1>5. IsFiniteSet(S) /\ Cardinality(S) = Len(records) + 1
  <2>1. last + 1 \in Int /\ last + 1 + Len(records) \in Int BY <1>1
  <2> QED BY <1>1, <2>1, FS_Interval
<1>6. IsFiniteSet(DOMAIN records) /\ Cardinality(DOMAIN records) = Len(records)
  <2>1. PICK n \in Nat : n = Len(records) BY <1>1
  <2>2. IsFiniteSet(1 .. n) /\ Cardinality(1 .. n) = n BY FS_Interval
  <2> QED BY <1>1, <2>1, <2>2
<1>7. Cardinality(DOMAIN records) < Cardinality(S) BY <1>1, <1>5, <1>6
<1> HIDE DEF f, S
<1>8. PICK j, k \in S : j # k /\ f[j] = f[k] BY <1>4, <1>5, <1>6, <1>7, FS_PigeonHole
<1>9. Append(name, j) = Append(name, k) BY <1>3, <1>8
<1>10. Append(name, j)[Len(name) + 1] = j /\ Append(name, k)[Len(name) + 1] = k BY AppendShape
<1> QED BY <1>8, <1>9, <1>10

(* A new entry's spelling is no live entry's, and a name.                  *)
LEMMA SpellingRight ==
  ASSUME NamesInv, NEW name, IsSeq(name), NEW fresh \in BOOLEAN
  PROVE  /\ NextVariant(name) \in Nat
         /\ ~Held(Spelling(name, fresh)) /\ IsSeq(Spelling(name, fresh))
<1>1. IsSeq(records) /\ Len(records) \in Nat BY SeqShape DEF NamesInv, RecordsOK
<1>2. PICK last : last = IF name \in DOMAIN variants THEN variants[name] ELSE 0 OBVIOUS
<1>3. last \in Nat BY <1>2 DEF NamesInv
<1>4. PICK free : free = {k \in last + 1 .. last + 1 + Len(records) : ~Held(Append(name, k))} OBVIOUS
<1>5. NextVariant(name) = CHOOSE k \in free : \A j \in free : k <= j BY <1>2, <1>4 DEF NextVariant
<1>6. free # {} BY <1>1, <1>3, <1>4, VariantFree
<1>7. free \in SUBSET Nat BY <1>1, <1>3, <1>4
<1>8. \E k \in free : \A j \in free : k <= j BY <1>6, <1>7, LeastNat
<1>9. NextVariant(name) \in free BY <1>5, <1>8
<1>10. ~Held(Append(name, NextVariant(name))) /\ NextVariant(name) \in Nat BY <1>4, <1>7, <1>9
<1>11. IsSeq(Append(name, NextVariant(name))) BY AppendShape
<1> QED BY <1>10, <1>11 DEF Spelling

-----------------------------------------------------------------------------
(* Binders.                                                                *)

(* A new entry leaves the names true.                                      *)
LEMMA ExtendNames ==
  ASSUME NamesInv, NEW name, IsSeq(name), NEW type \in Handles, NEW fresh \in BOOLEAN,
         Extend(name, type, fresh), arena' = arena, settled' = settled
  PROVE  NamesInv' /\ Len(entries') = Len(entries) + 1 /\ Len(entries) \in Nat
         /\ \A d \in DOMAIN records : records'[d] = records[d]
<1>1. PICK spelled, keys, entry, r :
        /\ spelled = Spelling(name, fresh) /\ entry = Len(entries) + 1
        /\ keys = (IF fresh THEN {spelled} ELSE {name, spelled})
        /\ r = [name |-> name, symbol |-> spelled, type |-> type, keys |-> keys]
  OBVIOUS
<1>2. /\ entries' = Append(entries, spelled)
      /\ records' = Append(records, r)
      /\ named' = [k \in DOMAIN named \cup keys |-> IF k \in keys THEN Given(k, type, entry) ELSE named[k]]
      /\ touched' = touched \cup keys
      /\ variants' = (IF spelled = name THEN variants ELSE With(variants, name, NextVariant(name)))
  BY <1>1 DEF Extend
<1>3. r.symbol = spelled /\ r.type = type /\ r.keys = keys BY <1>1
<1>4. IsSeq(spelled) /\ ~Held(spelled) /\ NextVariant(name) \in Nat BY <1>1, SpellingRight
<1>5. /\ IsSeq(records) /\ IsSeq(entries) /\ Len(records) = Len(entries)
      /\ \A e \in DOMAIN records :
           /\ records[e].symbol = entries[e] /\ records[e].type \in 1 .. Len(arena) /\ IsSeq(entries[e])
           /\ \A d \in DOMAIN records : records[d].symbol = records[e].symbol => d = e
  BY DEF NamesInv, RecordsOK
<1>6. /\ IsSeq(records') /\ IsSeq(entries') /\ Len(records') = Len(records) + 1 /\ Len(entries') = Len(entries) + 1
      /\ DOMAIN records = 1 .. Len(records) /\ DOMAIN entries = 1 .. Len(entries) /\ Len(entries) \in Nat
      /\ DOMAIN records' = DOMAIN records \cup {entry} /\ entry \notin DOMAIN records
      /\ records'[entry] = r /\ entries'[entry] = spelled
      /\ \A d \in DOMAIN records : records'[d] = records[d] /\ entries'[d] = entries[d]
  BY <1>1, <1>2, <1>5, SeqShape, AppendShape DEF Extends
<1>7. RecordsOK(arena', entries', records')
  <2>1. Len(records') = Len(entries') BY <1>5, <1>6
  <2>2. ASSUME NEW e \in DOMAIN records'
        PROVE  /\ records'[e].symbol = entries'[e] /\ records'[e].type \in 1 .. Len(arena')
               /\ IsSeq(entries'[e])
    <3>1. CASE e \in DOMAIN records BY <1>5, <1>6, <3>1
    <3>2. CASE e = entry BY <1>3, <1>4, <1>6, <3>2 DEF Handles
    <3> QED BY <1>6, <3>1, <3>2
  <2>3. ASSUME NEW e \in DOMAIN records', NEW d \in DOMAIN records', records'[d].symbol = records'[e].symbol
        PROVE  d = e
    <3>1. \A x \in DOMAIN records : records[x].symbol # spelled BY <1>4 DEF Held
    <3>2. CASE e \in DOMAIN records /\ d \in DOMAIN records BY <1>5, <1>6, <2>3, <3>2
    <3>3. CASE e = entry \/ d = entry
      <4>1. \A x \in DOMAIN records : records'[x].symbol # spelled BY <1>6, <3>1
      <4>2. records'[entry].symbol = spelled BY <1>3, <1>6
      <4> QED BY <1>6, <2>3, <3>3, <4>1, <4>2
    <3> QED BY <1>6, <3>2, <3>3
  <2> QED BY <1>6, <2>1, <2>2, <2>3 DEF RecordsOK
<1>8. \A e \in DOMAIN records' : records'[e].keys \subseteq DOMAIN named'
  <2>1. DOMAIN named' = DOMAIN named \cup keys BY <1>2
  <2>2. \A e \in DOMAIN records : records[e].keys \subseteq DOMAIN named BY DEF NamesInv
  <2> QED BY <1>3, <1>6, <2>1, <2>2
<1>9. ASSUME NEW key \in DOMAIN named'
      PROVE  /\ GroupsOK(arena', records', key, named'[key].groups)
             /\ KnownOK(arena', named'[key].groups, named'[key].known)
             /\ key \notin touched' => \A h \in DOMAIN named'[key].known : h < settled'
  <2>1. CASE key \in keys
    <3>1. named'[key] = Given(key, r.type, Len(entries) + 1) BY <1>1, <1>2, <1>3, <2>1
    <3>2. key \in r.keys /\ r.type \in Handles BY <1>3, <2>1
    <3>3. GroupsOK(arena, records', key, named'[key].groups) /\ KnownOK(arena, named'[key].groups, named'[key].known)
      BY <1>2, <3>1, <3>2, GivenOK
    <3>4. key \in touched' BY <1>2, <2>1
    <3> QED BY <3>3, <3>4
  <2>2. CASE key \notin keys
    <3>1. key \in DOMAIN named /\ named'[key] = named[key] BY <1>2, <2>2
    <3>2. /\ GroupsOK(arena, records, key, named[key].groups)
          /\ KnownOK(arena, named[key].groups, named[key].known)
          /\ key \notin touched => \A h \in DOMAIN named[key].known : h < settled
      BY <3>1 DEF NamesInv
    <3>3. GroupsOK(arena, records', key, named[key].groups) BY <1>2, <1>3, <1>5, <2>2, <3>2, GroupsKept
    <3>4. touched \subseteq touched' BY <1>2
    <3> QED BY <3>1, <3>2, <3>3, <3>4
  <2> QED BY <2>1, <2>2
<1>10. \A n \in DOMAIN variants' : variants'[n] \in Nat
  <2>1. \A n \in DOMAIN variants : variants[n] \in Nat BY DEF NamesInv
  <2> QED BY <1>2, <1>4, <2>1 DEF With
<1> QED BY <1>6, <1>7, <1>8, <1>9, <1>10 DEF NamesInv

(* An entry found is asked for, and the names stay true.                   *)
LEMMA AskNames ==
  ASSUME NamesInv, NEW name, NEW type \in Handles,
         named' = With(named, name, Asked(name, type)), touched' = touched \cup {name},
         UNCHANGED <<entries, records, variants>>, arena' = arena, settled' = settled
  PROVE  NamesInv'
<1>1. /\ DOMAIN named' = DOMAIN named \cup {name} /\ named'[name] = Asked(name, type)
      /\ \A key \in DOMAIN named : key # name => named'[key] = named[key]
  BY DEF With
<1>2. ASSUME NEW key \in DOMAIN named'
      PROVE  /\ GroupsOK(arena', records', key, named'[key].groups)
             /\ KnownOK(arena', named'[key].groups, named'[key].known)
             /\ key \notin touched' => \A h \in DOMAIN named'[key].known : h < settled'
  <2>1. CASE key = name
    <3>1. GroupsOK(arena, records, key, named'[key].groups) /\ KnownOK(arena, named'[key].groups, named'[key].known)
      BY <1>1, <2>1, AskedOK
    <3> QED BY <2>1, <3>1
  <2>2. CASE key # name
    <3>1. key \in DOMAIN named /\ named'[key] = named[key] BY <1>1, <2>2
    <3> QED BY <3>1 DEF NamesInv
  <2> QED BY <2>1, <2>2
<1>3. RecordsOK(arena', entries', records') BY DEF NamesInv
<1>4. \A e \in DOMAIN records' : records'[e].keys \subseteq DOMAIN named' BY <1>1 DEF NamesInv
<1>5. \A n \in DOMAIN variants' : variants'[n] \in Nat BY DEF NamesInv
<1> QED BY <1>2, <1>3, <1>4, <1>5 DEF NamesInv

-----------------------------------------------------------------------------
(* Truncations.                                                            *)

(* The nodes up to P and the records up to a count are what they were, and *)
(* those records have types among those nodes.                             *)
Cut(a, b, rs, rn, count, P) ==
  /\ P \in Nat /\ count \in Nat /\ Len(rs) \in Nat /\ Len(b) \in Nat
  /\ P <= Len(b) /\ \A h \in 1 .. P : b[h] = a[h]
  /\ DOMAIN rs = 1 .. Len(rs) /\ count <= Len(rs) /\ DOMAIN rn = 1 .. count
  /\ \A e \in 1 .. count : rn[e] = rs[e] /\ rs[e].type \in 1 .. P

Live(g, count) == {k \in DOMAIN g.entries : g.entries[k] <= count}
CutGroup(g, count) == [type |-> g.type, entries |-> Kept(g.entries, Live(g, count))]
CutGroups(gs, count) ==
  Kept([i \in DOMAIN gs |-> CutGroup(gs[i], count)], {i \in DOMAIN gs : Live(gs[i], count) # {}})

(* A group that keeps an entry keeps its oldest, the one of its type.      *)
LEMMA GroupCut ==
  ASSUME NEW a, NEW b, NEW rs, NEW rn, NEW count, NEW P, Cut(a, b, rs, rn, count, P),
         NEW key, NEW g, GroupOK(a, rs, key, g), Live(g, count) # {}
  PROVE  /\ GroupOK(b, rn, key, CutGroup(g, count)) /\ CutGroup(g, count).type = g.type
         /\ g.type \in 1 .. P
         /\ ToSet(CutGroup(g, count).entries) = {d \in ToSet(g.entries) : d <= count}
<1>1. PICK live, es : live = Live(g, count) /\ es = Kept(g.entries, live) OBVIOUS
<1>2. /\ IsSeq(g.entries)
      /\ \A d \in ToSet(g.entries) :
           d \in DOMAIN rs /\ key \in rs[d].keys /\ SameClass(a, g.type, rs[d].type)
  BY DEF GroupOK
<1>3. PICK x \in ToSet(g.entries) : rs[x].type = g.type /\ \A d \in ToSet(g.entries) : x <= d
  BY DEF GroupOK
<1>4. live \in SUBSET DOMAIN g.entries /\ \A k \in DOMAIN g.entries : k \in live <=> g.entries[k] <= count
  BY <1>1 DEF Live
<1>5. IsSeq(es) /\ ToSet(es) = {g.entries[k] : k \in live} BY <1>1, <1>2, <1>4, KeptSet
<1>6. ToSet(es) = {d \in ToSet(g.entries) : d <= count} BY <1>4, <1>5 DEF ToSet
<1>7. PICK c : c = CutGroup(g, count) OBVIOUS
<1>8. c.type = g.type /\ c.entries = es BY <1>1, <1>7 DEF CutGroup
<1>9. /\ P \in Nat /\ count \in Nat /\ Len(rs) \in Nat /\ \A h \in 1 .. P : b[h] = a[h]
      /\ DOMAIN rs = 1 .. Len(rs) /\ count <= Len(rs) /\ DOMAIN rn = 1 .. count
      /\ \A e \in 1 .. count : rn[e] = rs[e] /\ rs[e].type \in 1 .. P
  BY DEF Cut
<1>10. x \in 1 .. count
  <2>1. PICK k \in live : TRUE BY <1>1
  <2>2. g.entries[k] \in ToSet(g.entries) /\ g.entries[k] <= count BY <1>4, <2>1 DEF ToSet
  <2>3. x \in 1 .. Len(rs) /\ g.entries[k] \in 1 .. Len(rs) /\ x <= g.entries[k] BY <1>2, <1>3, <1>9, <2>2
  <2> QED BY <1>9, <2>2, <2>3
<1>11. g.type \in 1 .. P /\ rn[x].type = g.type BY <1>3, <1>9, <1>10
<1>12. ASSUME NEW d \in ToSet(es)
       PROVE  d \in DOMAIN rn /\ key \in rn[d].keys /\ SameClass(b, c.type, rn[d].type) /\ x <= d
  <2>1. d \in ToSet(g.entries) /\ d <= count BY <1>6
  <2>2. d \in 1 .. Len(rs) BY <1>2, <1>9, <2>1
  <2>3. d \in 1 .. count BY <1>9, <2>1, <2>2
  <2>4. rn[d] = rs[d] /\ rs[d].type \in 1 .. P BY <1>9, <2>3
  <2>5. SameClass(b, g.type, rs[d].type) BY <1>2, <1>9, <1>11, <2>1, <2>4 DEF SameClass
  <2> QED BY <1>2, <1>3, <1>8, <1>9, <2>1, <2>3, <2>4, <2>5
<1>13. x \in ToSet(es) BY <1>3, <1>6, <1>9, <1>10
<1>14. GroupOK(b, rn, key, c) BY <1>5, <1>8, <1>11, <1>12, <1>13 DEF GroupOK
<1> QED BY <1>6, <1>7, <1>8, <1>11, <1>14

(* The groups that are left.                                               *)
LEMMA GroupsCut ==
  ASSUME NEW a, NEW b, NEW rs, NEW rn, NEW count, NEW P, Cut(a, b, rs, rn, count, P),
         NEW key, NEW gs, GroupsOK(a, rs, key, gs)
  PROVE  /\ GroupsOK(b, rn, key, CutGroups(gs, count))
         /\ \A e \in DOMAIN rn : key \in rn[e].keys => CutGroups(gs, count) # <<>>
<1>1. PICK live, cut, ng : /\ live = {i \in DOMAIN gs : Live(gs[i], count) # {}}
                           /\ cut = [i \in DOMAIN gs |-> CutGroup(gs[i], count)]
                           /\ ng = Kept(cut, live)
  OBVIOUS
<1>2. ng = CutGroups(gs, count) BY <1>1 DEF CutGroups
<1>3. /\ IsSeq(gs) /\ \A i \in DOMAIN gs : GroupOK(a, rs, key, gs[i])
      /\ \A i, j \in DOMAIN gs : i # j => ~SameClass(a, gs[i].type, gs[j].type)
      /\ \A e \in DOMAIN rs : key \in rs[e].keys => \E i \in DOMAIN gs : e \in ToSet(gs[i].entries)
  BY DEF GroupsOK
<1>4. IsSeq(cut) /\ DOMAIN cut = DOMAIN gs
  <2>1. DOMAIN gs = 1 .. Len(gs) /\ Len(gs) \in Nat BY <1>3, SeqShape
  <2>2. PICK n, S : n = Len(gs) /\ S = {CutGroup(gs[i], count) : i \in DOMAIN gs} OBVIOUS
  <2>3. cut \in [1 .. n -> S] BY <1>1, <2>1, <2>2
  <2>4. cut \in Seq(S) BY <2>1, <2>2, <2>3
  <2> QED BY <1>1, <2>4, SeqOfSet
<1>5. live \in SUBSET DOMAIN cut BY <1>1, <1>4
<1>6. /\ IsSeq(ng)
      /\ \A k \in DOMAIN ng : \E p \in live : ng[k] = cut[p]
      /\ \A p \in live : \E k \in DOMAIN ng : ng[k] = cut[p]
      /\ \A k, l \in DOMAIN ng : k # l => \E p, q \in live : p # q /\ ng[k] = cut[p] /\ ng[l] = cut[q]
  <2>1. ng = Kept(cut, live) BY <1>1
  <2> QED BY <1>4, <1>5, <2>1, KeptAny
<1>7. \A p \in live : /\ p \in DOMAIN gs /\ GroupOK(b, rn, key, cut[p]) /\ cut[p].type = gs[p].type
                      /\ gs[p].type \in 1 .. P
                      /\ ToSet(cut[p].entries) = {d \in ToSet(gs[p].entries) : d <= count}
  <2> SUFFICES ASSUME NEW p \in live
               PROVE  /\ p \in DOMAIN gs /\ GroupOK(b, rn, key, cut[p]) /\ cut[p].type = gs[p].type
                      /\ gs[p].type \in 1 .. P
                      /\ ToSet(cut[p].entries) = {d \in ToSet(gs[p].entries) : d <= count}
    OBVIOUS
  <2>1. p \in DOMAIN gs /\ Live(gs[p], count) # {} /\ cut[p] = CutGroup(gs[p], count) BY <1>1
  <2>2. GroupOK(a, rs, key, gs[p]) BY <1>3, <2>1
  <2> QED BY <2>1, <2>2, GroupCut
<1>8. /\ P \in Nat /\ count \in Nat /\ Len(rs) \in Nat /\ \A h \in 1 .. P : b[h] = a[h]
      /\ DOMAIN rs = 1 .. Len(rs) /\ count <= Len(rs) /\ DOMAIN rn = 1 .. count
      /\ \A e \in 1 .. count : rn[e] = rs[e]
  BY DEF Cut
<1>9. \A k \in DOMAIN ng : GroupOK(b, rn, key, ng[k]) BY <1>6, <1>7
<1>10. ASSUME NEW k \in DOMAIN ng, NEW l \in DOMAIN ng, k # l
       PROVE  ~SameClass(b, ng[k].type, ng[l].type)
  <2>1. PICK p, q \in live : p # q /\ ng[k] = cut[p] /\ ng[l] = cut[q] BY <1>6, <1>10
  <2>2. ~SameClass(a, gs[p].type, gs[q].type) BY <1>3, <1>7, <2>1
  <2>3. b[gs[p].type] = a[gs[p].type] /\ b[gs[q].type] = a[gs[q].type] BY <1>7, <1>8
  <2> QED BY <1>7, <2>1, <2>2, <2>3 DEF SameClass
<1>11. ASSUME NEW e \in DOMAIN rn, key \in rn[e].keys
       PROVE  \E k \in DOMAIN ng : e \in ToSet(ng[k].entries)
  <2>1. e \in DOMAIN rs /\ key \in rs[e].keys /\ e <= count BY <1>8, <1>11
  <2>2. PICK i \in DOMAIN gs : e \in ToSet(gs[i].entries) BY <1>3, <2>1
  <2>3. i \in live
    <3>1. PICK k \in DOMAIN gs[i].entries : gs[i].entries[k] = e BY <2>2 DEF ToSet
    <3>2. k \in Live(gs[i], count) BY <2>1, <3>1 DEF Live
    <3> QED BY <1>1, <3>2
  <2>4. e \in ToSet(cut[i].entries) BY <1>7, <2>1, <2>2, <2>3
  <2> QED BY <1>6, <2>3, <2>4
<1>12. GroupsOK(b, rn, key, ng) BY <1>6, <1>9, <1>10, <1>11 DEF GroupsOK
<1>13. \A e \in DOMAIN rn : key \in rn[e].keys => DOMAIN ng # {} BY <1>11
<1>14. \A e \in DOMAIN rn : key \in rn[e].keys => ng # <<>> BY <1>13, NoElements, Zenon
<1> QED BY <1>2, <1>12, <1>14

(* What is known of the types that the entries left were made at.          *)
(* What a truncation knows of the types of the entries that it leaves.     *)
GroupOf(gs, rs, h) ==
  CHOOSE i \in {j \in DOMAIN gs : \E e \in ToSet(gs[j].entries) : rs[e].type = h} : TRUE
KnownLeft(gs, rs) ==
  [h \in {rs[e].type : e \in UNION {ToSet(gs[i].entries) : i \in DOMAIN gs}} |-> Found(GroupOf(gs, rs, h))]
LEMMA KnownCut ==
  ASSUME NEW a, NEW b, NEW rs, NEW rn, NEW count, NEW P, Cut(a, b, rs, rn, count, P),
         NEW key, NEW gs, GroupsOK(b, rn, key, gs)
  PROVE  KnownOK(b, gs, KnownLeft(gs, rs)) /\ \A h \in DOMAIN KnownLeft(gs, rs) : h \in 1 .. P
<1>1. PICK kn : kn = KnownLeft(gs, rs) OBVIOUS
<1>2. \A i \in DOMAIN gs : \A e \in ToSet(gs[i].entries) :
        e \in DOMAIN rn /\ SameClass(b, gs[i].type, rn[e].type)
  BY DEF GroupsOK, GroupOK
<1>3. P <= Len(b) /\ P \in Nat /\ Len(b) \in Nat /\ \A e \in DOMAIN rn : rn[e] = rs[e] /\ rs[e].type \in 1 .. P
  BY DEF Cut
<1>4. ASSUME NEW h \in DOMAIN kn
      PROVE  h \in 1 .. P /\ kn[h].group \in DOMAIN gs /\ SameClass(b, gs[kn[h].group].type, h)
  <2>1. /\ \E i \in DOMAIN gs : \E e \in ToSet(gs[i].entries) : rs[e].type = h
        /\ kn[h] = Found(GroupOf(gs, rs, h))
    BY <1>1 DEF KnownLeft
  <2>2. GroupOf(gs, rs, h) \in {j \in DOMAIN gs : \E e \in ToSet(gs[j].entries) : rs[e].type = h}
    BY <2>1 DEF GroupOf
  <2>3. PICK j \in DOMAIN gs : j = GroupOf(gs, rs, h) /\ \E e \in ToSet(gs[j].entries) : rs[e].type = h
    BY <2>2
  <2>4. kn[h].group = j BY <2>1, <2>3 DEF Found
  <2>5. PICK e \in ToSet(gs[j].entries) : rs[e].type = h BY <2>3
  <2>6. SameClass(b, gs[j].type, h) /\ h \in 1 .. P BY <1>2, <1>3, <2>5
  <2> QED BY <2>4, <2>6
<1>5. \A h \in 1 .. P : h \in 1 .. Len(b) BY <1>3
<1>6. KnownOK(b, gs, kn) BY <1>4, <1>5 DEF KnownOK
<1> QED BY <1>1, <1>4, <1>6

(* Truncating a key.                                                       *)
LEMMA TruncatedOK ==
  ASSUME NEW key \in DOMAIN named, GroupsOK(arena, records, key, named[key].groups),
         NEW b, NEW rn, NEW count, NEW P, Cut(arena, b, records, rn, count, P)
  PROVE  /\ GroupsOK(b, rn, key, Truncated(key, count).groups)
         /\ KnownOK(b, Truncated(key, count).groups, Truncated(key, count).known)
         /\ \A h \in DOMAIN Truncated(key, count).known : h \in 1 .. P
         /\ \A e \in DOMAIN rn : key \in rn[e].keys => Truncated(key, count).groups # <<>>
<1>1. PICK gs, kn : gs = CutGroups(named[key].groups, count) /\ kn = KnownLeft(gs, records) OBVIOUS
<1>2. Truncated(key, count) = [groups |-> gs, known |-> kn]
  <2>1. Truncated(key, count) = [groups |-> CutGroups(named[key].groups, count),
                                 known  |-> KnownLeft(CutGroups(named[key].groups, count), records)]
    BY DEF Truncated, CutGroups, CutGroup, Live, KnownLeft, GroupOf
  <2> QED BY <1>1, <2>1
<1>3. Truncated(key, count).groups = gs /\ Truncated(key, count).known = kn BY <1>2
<1>4. GroupsOK(b, rn, key, gs) /\ \A e \in DOMAIN rn : key \in rn[e].keys => gs # <<>>
  BY <1>1, GroupsCut
<1>5. KnownOK(b, gs, kn) /\ \A h \in DOMAIN kn : h \in 1 .. P BY <1>1, <1>4, KnownCut
<1> QED BY <1>3, <1>4, <1>5

(* A key that no truncation needs to look at.                              *)
LEMMA UntouchedOK ==
  ASSUME NEW a, NEW b, NEW rs, NEW rn, NEW count, NEW P, Cut(a, b, rs, rn, count, P),
         NEW key, NEW gs, GroupsOK(a, rs, key, gs),
         \A e \in DOMAIN rs : key \in rs[e].keys => e <= count,
         NEW kn, KnownOK(a, gs, kn), \A h \in DOMAIN kn : h <= P
  PROVE  GroupsOK(b, rn, key, gs) /\ KnownOK(b, gs, kn)
<1>1. /\ IsSeq(gs) /\ \A i \in DOMAIN gs : GroupOK(a, rs, key, gs[i])
      /\ \A i, j \in DOMAIN gs : i # j => ~SameClass(a, gs[i].type, gs[j].type)
      /\ \A e \in DOMAIN rs : key \in rs[e].keys => \E i \in DOMAIN gs : e \in ToSet(gs[i].entries)
  BY DEF GroupsOK
<1>2. /\ P \in Nat /\ count \in Nat /\ Len(rs) \in Nat /\ Len(b) \in Nat
      /\ P <= Len(b) /\ \A h \in 1 .. P : b[h] = a[h]
      /\ DOMAIN rs = 1 .. Len(rs) /\ count <= Len(rs) /\ DOMAIN rn = 1 .. count
      /\ \A e \in 1 .. count : rn[e] = rs[e] /\ rs[e].type \in 1 .. P
  BY DEF Cut
<1>3. \A e \in DOMAIN rs : key \in rs[e].keys => e \in DOMAIN rn /\ rn[e] = rs[e] /\ rs[e].type \in 1 .. P
  BY <1>2
<1>4. ASSUME NEW i \in DOMAIN gs PROVE GroupOK(b, rn, key, gs[i]) /\ gs[i].type \in 1 .. P
  <2>1. PICK g : g = gs[i] OBVIOUS
  <2>2. /\ IsSeq(g.entries)
        /\ \A d \in ToSet(g.entries) :
             d \in DOMAIN rs /\ key \in rs[d].keys /\ SameClass(a, g.type, rs[d].type)
    BY <1>1, <2>1 DEF GroupOK
  <2>3. PICK x \in ToSet(g.entries) : rs[x].type = g.type /\ \A d \in ToSet(g.entries) : x <= d
    BY <1>1, <2>1 DEF GroupOK
  <2>4. g.type \in 1 .. P /\ rn[x].type = g.type BY <1>3, <2>2, <2>3
  <2>5. \A d \in ToSet(g.entries) : d \in DOMAIN rn /\ key \in rn[d].keys /\ SameClass(b, g.type, rn[d].type)
    <3> SUFFICES ASSUME NEW d \in ToSet(g.entries)
                 PROVE  d \in DOMAIN rn /\ key \in rn[d].keys /\ SameClass(b, g.type, rn[d].type)
      OBVIOUS
    <3>1. d \in DOMAIN rn /\ rn[d] = rs[d] /\ rs[d].type \in 1 .. P BY <1>3, <2>2
    <3>2. b[g.type] = a[g.type] /\ b[rs[d].type] = a[rs[d].type] BY <1>2, <2>4, <3>1
    <3> QED BY <2>2, <3>1, <3>2 DEF SameClass
  <2>6. GroupOK(b, rn, key, g) BY <2>2, <2>3, <2>4, <2>5 DEF GroupOK
  <2> QED BY <2>1, <2>4, <2>6
<1>5. \A i, j \in DOMAIN gs : i # j => ~SameClass(b, gs[i].type, gs[j].type) BY <1>1, <1>2, <1>4 DEF SameClass
<1>6. \A e \in DOMAIN rn : key \in rn[e].keys => \E i \in DOMAIN gs : e \in ToSet(gs[i].entries)
  BY <1>1, <1>2
<1>7. GroupsOK(b, rn, key, gs) BY <1>1, <1>4, <1>5, <1>6 DEF GroupsOK
<1>8. ASSUME NEW h \in DOMAIN kn
      PROVE  /\ h \in 1 .. Len(b)
             /\ \/ kn[h].group \in DOMAIN gs /\ SameClass(b, gs[kn[h].group].type, h)
                \/ /\ kn[h].group = 0 /\ kn[h].compared \in 0 .. Len(gs)
                   /\ \A i \in 1 .. kn[h].compared : ~SameClass(b, gs[i].type, h)
  <2>1. h \in 1 .. P
    <3>1. h \in 1 .. Len(a) BY DEF KnownOK
    <3>2. h \in Nat /\ 1 <= h BY <3>1
    <3> QED BY <1>2, <3>2
  <2>2. h \in 1 .. Len(b) /\ b[h] = a[h] BY <1>2, <2>1
  <2>3. \A i \in DOMAIN gs : SameClass(b, gs[i].type, h) <=> SameClass(a, gs[i].type, h)
    BY <1>2, <1>4, <2>2 DEF SameClass
  <2>4. CASE kn[h].group \in DOMAIN gs /\ SameClass(a, gs[kn[h].group].type, h) BY <2>2, <2>3, <2>4
  <2>5. CASE /\ kn[h].group = 0 /\ kn[h].compared \in 0 .. Len(gs)
             /\ \A i \in 1 .. kn[h].compared : ~SameClass(a, gs[i].type, h)
    <3>1. DOMAIN gs = 1 .. Len(gs) /\ Len(gs) \in Nat BY <1>1, SeqShape
    <3>2. \A i \in 1 .. kn[h].compared : i \in DOMAIN gs BY <2>5, <3>1
    <3> QED BY <2>2, <2>3, <2>5, <3>2
  <2> QED BY <2>4, <2>5 DEF KnownOK
<1> QED BY <1>7, <1>8 DEF KnownOK

(* The end of a declaration leaves the names true.                         *)
LEMMA TruncateNames ==
  ASSUME NamesInv, NEW count \in 0 .. Len(entries), NEW P \in Nat, Truncate(count),
         entries' = SubSeq(entries, 1, count), Len(arena') \in Nat, P <= Len(arena'),
         \A h \in 1 .. P : arena'[h] = arena[h], \A e \in 1 .. count : records[e].type <= P,
         settled \in Nat, settled <= P + 1, settled' = Len(arena') + 1
  PROVE  NamesInv'
<1>1. PICK again, gone :
        /\ again = (touched \cup UNION {records[e].keys : e \in {d \in DOMAIN records : d > count}}) \cap DOMAIN named
        /\ gone = {k \in again : Truncated(k, count).groups = <<>>}
  OBVIOUS
<1>2. /\ records' = SubSeq(records, 1, count)
      /\ named' = [k \in DOMAIN named \ gone |-> IF k \in again THEN Truncated(k, count) ELSE named[k]]
      /\ touched' = {} /\ variants' = variants
  BY <1>1 DEF Truncate
<1>3. /\ IsSeq(records) /\ IsSeq(entries) /\ Len(records) = Len(entries)
      /\ \A e \in DOMAIN records :
           /\ records[e].symbol = entries[e] /\ records[e].type \in 1 .. Len(arena) /\ IsSeq(entries[e])
           /\ \A d \in DOMAIN records : records[d].symbol = records[e].symbol => d = e
  BY DEF NamesInv, RecordsOK
<1>4. /\ DOMAIN records = 1 .. Len(records) /\ Len(records) \in Nat /\ count \in Nat /\ count <= Len(records)
      /\ IsSeq(records') /\ IsSeq(entries') /\ Len(records') = count /\ Len(entries') = count
      /\ DOMAIN records' = 1 .. count
      /\ \A e \in 1 .. count : e \in DOMAIN records /\ records'[e] = records[e] /\ entries'[e] = entries[e]
  <2>1. DOMAIN records = 1 .. Len(records) /\ Len(records) \in Nat BY <1>3, SeqShape
  <2>2. count \in Nat /\ count <= Len(records) /\ count \in 0 .. Len(records) BY <1>3, <2>1
  <2>3. /\ IsSeq(records') /\ Len(records') = count /\ DOMAIN records' = 1 .. count
        /\ \A e \in 1 .. count : records'[e] = records[e]
    BY <1>2, <1>3, <2>2, PrefixShape
  <2>4. IsSeq(entries') /\ Len(entries') = count /\ \A e \in 1 .. count : entries'[e] = entries[e]
    BY <1>3, PrefixShape
  <2> QED BY <2>1, <2>2, <2>3, <2>4
<1>5. \A e \in 1 .. count : records[e].type \in 1 .. P
  <2> SUFFICES ASSUME NEW e \in 1 .. count PROVE records[e].type \in 1 .. P OBVIOUS
  <2>1. records[e].type \in 1 .. Len(arena) /\ records[e].type <= P BY <1>3, <1>4
  <2>2. records[e].type \in Nat /\ 1 <= records[e].type BY <2>1
  <2> QED BY <2>1, <2>2
<1>6. Cut(arena, arena', records, records', count, P) BY <1>4, <1>5 DEF Cut
<1>7. RecordsOK(arena', entries', records')
  <2>1. \A h \in 1 .. P : h \in 1 .. Len(arena') OBVIOUS
  <2>2. ASSUME NEW e \in DOMAIN records'
        PROVE  /\ records'[e].symbol = entries'[e] /\ records'[e].type \in 1 .. Len(arena')
               /\ IsSeq(entries'[e])
    BY <1>3, <1>4, <1>5, <2>1
  <2>3. \A e, d \in DOMAIN records' : records'[d].symbol = records'[e].symbol => d = e BY <1>3, <1>4
  <2> QED BY <1>4, <2>2, <2>3 DEF RecordsOK
<1>8. \A key \in DOMAIN named :
        /\ GroupsOK(arena, records, key, named[key].groups)
        /\ KnownOK(arena, named[key].groups, named[key].known)
        /\ key \notin touched => \A h \in DOMAIN named[key].known : h < settled
  BY DEF NamesInv
<1>9. \A key \in again :
        /\ GroupsOK(arena', records', key, Truncated(key, count).groups)
        /\ KnownOK(arena', Truncated(key, count).groups, Truncated(key, count).known)
        /\ \A h \in DOMAIN Truncated(key, count).known : h \in 1 .. P
        /\ \A e \in DOMAIN records' : key \in records'[e].keys => Truncated(key, count).groups # <<>>
  <2> SUFFICES ASSUME NEW key \in again
               PROVE  /\ GroupsOK(arena', records', key, Truncated(key, count).groups)
                      /\ KnownOK(arena', Truncated(key, count).groups, Truncated(key, count).known)
                      /\ \A h \in DOMAIN Truncated(key, count).known : h \in 1 .. P
                      /\ \A e \in DOMAIN records' : key \in records'[e].keys => Truncated(key, count).groups # <<>>
    OBVIOUS
  <2>1. key \in DOMAIN named BY <1>1
  <2>2. GroupsOK(arena, records, key, named[key].groups) BY <1>8, <2>1
  <2> QED BY <1>6, <2>1, <2>2, TruncatedOK
<1>10. \A e \in DOMAIN records' : records'[e].keys \subseteq DOMAIN named'
  <2> SUFFICES ASSUME NEW e \in DOMAIN records', NEW key \in records'[e].keys PROVE key \in DOMAIN named'
    OBVIOUS
  <2>1. key \in DOMAIN named
    <3>1. e \in DOMAIN records /\ records'[e] = records[e] BY <1>4
    <3> QED BY <3>1 DEF NamesInv
  <2>2. key \notin gone BY <1>1, <1>9
  <2>3. DOMAIN named' = DOMAIN named \ gone BY <1>2
  <2> QED BY <2>1, <2>2, <2>3
<1>11. ASSUME NEW key \in DOMAIN named'
       PROVE  /\ GroupsOK(arena', records', key, named'[key].groups)
              /\ KnownOK(arena', named'[key].groups, named'[key].known)
              /\ \A h \in DOMAIN named'[key].known : h < settled'
  <2>1. key \in DOMAIN named /\ named'[key] = (IF key \in again THEN Truncated(key, count) ELSE named[key]) BY <1>2
  <2>2. CASE key \in again
    <3>1. named'[key] = Truncated(key, count) BY <2>1, <2>2
    <3>2. \A h \in 1 .. P : h < settled' OBVIOUS
    <3> QED BY <1>9, <2>2, <3>1, <3>2
  <2>3. CASE key \notin again
    <3>1. named'[key] = named[key] BY <2>1, <2>3
    <3>2. key \notin touched /\ \A e \in DOMAIN records : key \in records[e].keys => ~(e > count)
      BY <1>1, <2>1, <2>3
    <3>3. \A e \in DOMAIN records : key \in records[e].keys => e <= count BY <1>4, <3>2
    <3>4. /\ GroupsOK(arena, records, key, named[key].groups)
          /\ KnownOK(arena, named[key].groups, named[key].known)
          /\ \A h \in DOMAIN named[key].known : h < settled
      BY <1>8, <2>1, <3>2
    <3>5. \A h \in DOMAIN named[key].known : h <= P /\ h < settled'
      <4> SUFFICES ASSUME NEW h \in DOMAIN named[key].known PROVE h <= P /\ h < settled' OBVIOUS
      <4>1. h \in 1 .. Len(arena) BY <3>4 DEF KnownOK
      <4>2. h \in Nat BY <4>1
      <4>3. h < settled BY <3>4
      <4> QED BY <4>2, <4>3
    <3>6. GroupsOK(arena', records', key, named[key].groups) /\ KnownOK(arena', named[key].groups, named[key].known)
      BY <1>6, <3>3, <3>4, <3>5, UntouchedOK
    <3> QED BY <3>1, <3>5, <3>6
  <2> QED BY <2>2, <2>3
<1>12. \A n \in DOMAIN variants' : variants'[n] \in Nat BY <1>2 DEF NamesInv
<1> QED BY <1>7, <1>10, <1>11, <1>12 DEF NamesInv

(* New nodes leave the names true.                                         *)
LEMMA GrowNames ==
  ASSUME NamesInv, IsSeq(arena), IsSeq(arena'), Extends(arena, arena'),
         UNCHANGED <<entries, records, named, touched, variants, settled>>
  PROVE  NamesInv'
<1>1. /\ Len(arena) \in Nat /\ DOMAIN arena = 1 .. Len(arena)
      /\ Len(arena') \in Nat /\ DOMAIN arena' = 1 .. Len(arena')
  BY SeqShape
<1>2. \A h \in 1 .. Len(arena) : h \in 1 .. Len(arena') /\ arena'[h] = arena[h] BY <1>1 DEF Extends
<1>3. Len(arena) <= Len(arena')
  <2>1. CASE Len(arena) = 0 BY <1>1, <2>1
  <2>2. CASE Len(arena) # 0
    <3>1. Len(arena) \in 1 .. Len(arena) BY <1>1, <2>2
    <3>2. Len(arena) \in 1 .. Len(arena') BY <1>2, <3>1
    <3> QED BY <1>1, <3>2
  <2> QED BY <2>1, <2>2
<1>4. /\ IsSeq(records) /\ IsSeq(entries) /\ Len(records) = Len(entries)
      /\ \A e \in DOMAIN records :
           /\ records[e].symbol = entries[e] /\ records[e].type \in 1 .. Len(arena) /\ IsSeq(entries[e])
           /\ \A d \in DOMAIN records : records[d].symbol = records[e].symbol => d = e
  BY DEF NamesInv, RecordsOK
<1>5. DOMAIN records = 1 .. Len(records) /\ Len(records) \in Nat BY <1>4, SeqShape
<1>6. RecordsOK(arena', entries', records') BY <1>2, <1>4 DEF RecordsOK
<1>7. Cut(arena, arena', records, records, Len(records), Len(arena)) BY <1>1, <1>2, <1>3, <1>4, <1>5 DEF Cut
<1>8. ASSUME NEW key \in DOMAIN named
      PROVE  /\ GroupsOK(arena', records, key, named[key].groups)
             /\ KnownOK(arena', named[key].groups, named[key].known)
  <2>1. GroupsOK(arena, records, key, named[key].groups) /\ KnownOK(arena, named[key].groups, named[key].known)
    BY DEF NamesInv
  <2>2. \A e \in DOMAIN records : key \in records[e].keys => e <= Len(records) BY <1>5
  <2>3. \A h \in DOMAIN named[key].known : h <= Len(arena)
    <3>1. \A h \in DOMAIN named[key].known : h \in 1 .. Len(arena) BY <2>1 DEF KnownOK
    <3> QED BY <1>1, <3>1
  <2> QED BY <1>7, <2>1, <2>2, <2>3, UntouchedOK
<1>9. /\ \A e \in DOMAIN records : records[e].keys \subseteq DOMAIN named
      /\ \A key \in DOMAIN named : key \notin touched => \A h \in DOMAIN named[key].known : h < settled
      /\ \A n \in DOMAIN variants : variants[n] \in Nat
  BY DEF NamesInv
<1> QED BY <1>6, <1>8, <1>9 DEF NamesInv

-----------------------------------------------------------------------------
(* Steps.                                                                  *)

(* The names are true of what they are about, and nothing else.            *)
LEMMA SameNames ==
  ASSUME NamesInv, UNCHANGED <<arena, entries, namesVars, settled>>
  PROVE  NamesInv'
BY DEF NamesInv, namesVars

(* A handle held names its node while the arena only grows.                *)
LEMMA SameReader ==
  ASSUME ReaderInv, IsSeq(arena), IsSeq(arena'), Extends(arena, arena'), UNCHANGED <<generation, reader>>
  PROVE  ReaderInv'
<1>1. DOMAIN arena = 1 .. Len(arena) /\ DOMAIN arena' = 1 .. Len(arena') BY SeqShape
<1>2. \A h \in Handles : h \in Handles' /\ arena'[h] = arena[h] BY <1>1 DEF Extends, Handles
<1>3. HandlesHeld' <=> HandlesHeld BY DEF HandlesHeld
<1> QED BY <1>2, <1>3 DEF ReaderInv

(* What is published stays defined where neither changes.                  *)
LEMMA SamePublication ==
  ASSUME PublicationInv, UNCHANGED <<published, definitions, metadata, publication>>
  PROVE  PublicationInv'
BY DEF PublicationInv, PublishedDefined

(* The transaction's own part of what its records and definitions are.     *)
LEMMA SameTransaction ==
  ASSUME TransactionInv, ClientInv, IsSeq(arena'), Extends(arena, arena'),
         UNCHANGED <<publication, point, settled, table, definitions, published>>,
         Len(entries) \in Nat, Len(entries') \in Nat, Len(entries) <= Len(entries'),
         \A d \in 1 .. Len(entries) : records'[d] = records[d]
  PROVE  TransactionInv'
<1> SUFFICES ASSUME publication.transaction = "open" PROVE TransactionInv' BY DEF TransactionInv
<1>1. PICK s : s = publication.snapshot OBVIOUS
<1>2. /\ point.nodes \in Nat /\ point.nodes <= Len(arena) /\ settled <= point.nodes + 1
      /\ point.table \in Nat /\ point.table <= table /\ s.defNames = 1 .. point.table
      /\ point.entries \in Nat /\ point.entries <= Len(entries) /\ s.entries = point.entries
      /\ \A e \in 1 .. point.entries : records[e].type <= point.nodes
      /\ s.definitions \subseteq DOMAIN definitions
      /\ \A n \in s.definitions : definitions[n] <= point.nodes /\ arena[definitions[n]][2] <= point.table
      /\ published \subseteq s.definitions
      /\ \A m \in DOMAIN s.metadata : {m, s.metadata[m]} \subseteq s.definitions
  BY <1>1 DEF TransactionInv
<1>3. /\ IsSeq(arena) /\ DOMAIN arena = 1 .. Len(arena) /\ Len(arena) \in Nat
      /\ DOMAIN arena' = 1 .. Len(arena') /\ Len(arena') \in Nat
  BY SeqShape DEF ClientInv
<1>4. Len(arena) <= Len(arena')
  <2>1. CASE Len(arena) = 0 BY <1>3, <2>1
  <2>2. CASE Len(arena) # 0 BY <1>3, <2>2 DEF Extends
  <2> QED BY <2>1, <2>2
<1>5. \A n \in s.definitions : arena'[definitions[n]] = arena[definitions[n]]
  BY <1>2, <1>3 DEF ClientInv, DefinedAt, Extends
<1>6. \A e \in 1 .. point.entries : records'[e].type <= point.nodes
  <2>1. \A e \in 1 .. point.entries : e \in 1 .. Len(entries) BY <1>2
  <2> QED BY <1>2, <2>1
<1>7. point.nodes <= Len(arena') /\ point.entries <= Len(entries') BY <1>2, <1>3, <1>4
<1> QED BY <1>1, <1>2, <1>5, <1>6, <1>7 DEF TransactionInv

(* A derived term is found in the arena, or is one more node of it.        *)
LEMMA DeriveKept ==
  ASSUME KInv, NEW s \in Syntax, Derive(s)
  PROVE  KInv'
<1>1. PICK known, h : /\ known = {k \in Handles : arena[k] = s}
                      /\ h = (IF known = {} THEN Len(arena) + 1 ELSE CHOOSE k \in known : TRUE)
  OBVIOUS
<1>2. /\ arena' = (IF known = {} THEN Append(arena, s) ELSE arena)
      /\ derived' = With(derived, h, s)
      /\ UNCHANGED <<manages, table, entries, point, generation, failed, namesVars, definitions, defNames,
                     metadata, nodes, settledNodes, settled, budget, publication, published, reader, answer>>
  BY <1>1 DEF Derive
<1>3. NamesInv /\ ClientInv /\ ReaderInv /\ PublicationInv /\ TransactionInv BY DEF KInv
<1>4. IsSeq(arena) /\ DOMAIN arena = 1 .. Len(arena) /\ Len(arena) \in Nat BY <1>3, SeqShape DEF ClientInv
<1>5. /\ IsSeq(arena') /\ Extends(arena, arena') /\ Len(arena) <= Len(arena')
      /\ \A k \in 1 .. Len(arena) : k \in 1 .. Len(arena') /\ arena'[k] = arena[k]
      /\ h \in 1 .. Len(arena') /\ arena'[h] = s /\ Len(arena') \in Nat
  <2>1. CASE known = {}
    <3>1. arena' = Append(arena, s) /\ h = Len(arena) + 1 BY <1>1, <1>2, <2>1
    <3> QED BY <1>4, <3>1, AppendShape, SeqShape DEF Extends
  <2>2. CASE known # {}
    <3>1. arena' = arena /\ h \in known BY <1>1, <1>2, <2>2
    <3> QED BY <1>1, <1>4, <3>1 DEF Extends, Handles
  <2> QED BY <2>1, <2>2
<1>6. NamesInv' BY <1>2, <1>3, <1>4, <1>5, GrowNames DEF namesVars
<1>7. ClientInv'
  <2>1. /\ table' \in Nat /\ settled' \in Nat /\ settled' <= Len(arena') + 1
    BY <1>2, <1>3, <1>4, <1>5 DEF ClientInv
  <2>2. \A n \in DOMAIN definitions' : DefinedAt(arena', table', defNames', n, definitions'[n])
    BY <1>2, <1>3, <1>5 DEF ClientInv, DefinedAt
  <2>3. DOMAIN defNames' = 1 .. table' BY <1>2, <1>3 DEF ClientInv
  <2>4. \A k \in DOMAIN nodes' : k \in Handles' /\ k >= settled' /\ nodes'[k] = arena'[k]
    BY <1>2, <1>3, <1>5 DEF ClientInv, Handles
  <2>5. \A k \in DOMAIN settledNodes' : k \in Handles' /\ k < settled' /\ settledNodes'[k] = arena'[k]
    BY <1>2, <1>3, <1>5 DEF ClientInv, Handles
  <2>6. \A k \in DOMAIN derived' : k \in Handles' /\ derived'[k] = arena'[k]
    BY <1>2, <1>3, <1>5 DEF ClientInv, Handles, With
  <2> QED BY <1>5, <2>1, <2>2, <2>3, <2>4, <2>5, <2>6 DEF ClientInv
<1>8. ReaderInv' BY <1>2, <1>3, <1>4, <1>5, SameReader
<1>9. PublicationInv' BY <1>2, <1>3, SamePublication
<1>10. TransactionInv'
  <2>1. Len(entries) \in Nat BY <1>3, SeqShape DEF NamesInv, RecordsOK
  <2>2. entries' = entries /\ records' = records BY <1>2 DEF namesVars
  <2> QED BY <1>2, <1>3, <1>5, <2>1, <2>2, SameTransaction
<1> QED BY <1>6, <1>7, <1>8, <1>9, <1>10 DEF KInv

(* A node read again is read from the cache, and is the kernel's.          *)
LEMMA ReadNodeKept ==
  ASSUME KInv, NEW h \in Handles, ReadNode(h)
  PROVE  KInv'
<1>1. NamesInv /\ ClientInv /\ ReaderInv /\ PublicationInv /\ TransactionInv BY DEF KInv
<1>2. UNCHANGED <<kernel, namesVars, definitions, defNames, metadata, settled, derived, budget,
                  publication, published, reader, answer>>
  BY DEF ReadNode
<1>3. UNCHANGED <<manages, arena, table, entries, point, generation, failed, namesVars, definitions, defNames,
                  metadata, settled, derived, publication, published, reader>>
  BY <1>2 DEF kernel
<1>4. Node(h) = arena[h] /\ h \in Nat /\ settled \in Nat BY <1>1 DEF ClientInv, Node, Handles
<1>5. /\ settledNodes' = (IF h < settled THEN With(settledNodes, h, arena[h]) ELSE settledNodes)
      /\ nodes' = (IF h < settled THEN nodes ELSE With(nodes, h, arena[h]))
  BY <1>4 DEF ReadNode, Reads
<1>6. ClientInv'
  <2>1. /\ IsSeq(arena') /\ table' \in Nat /\ settled' \in Nat /\ settled' <= Len(arena') + 1
        /\ \A n \in DOMAIN definitions' : DefinedAt(arena', table', defNames', n, definitions'[n])
        /\ DOMAIN defNames' = 1 .. table'
        /\ \A k \in DOMAIN derived' : k \in Handles' /\ derived'[k] = arena'[k]
    BY <1>1, <1>3 DEF ClientInv, Handles
  <2>2. \A k \in DOMAIN nodes' : k \in Handles' /\ k >= settled' /\ nodes'[k] = arena'[k]
    <3>1. CASE h < settled BY <1>1, <1>3, <1>5, <3>1 DEF ClientInv, Handles
    <3>2. CASE ~(h < settled)
      <4>1. h >= settled BY <1>4, <3>2
      <4> QED BY <1>1, <1>3, <1>5, <3>2, <4>1 DEF ClientInv, Handles, With
    <3> QED BY <3>1, <3>2
  <2>3. \A k \in DOMAIN settledNodes' : k \in Handles' /\ k < settled' /\ settledNodes'[k] = arena'[k]
    BY <1>1, <1>3, <1>5 DEF ClientInv, Handles, With
  <2> QED BY <2>1, <2>2, <2>3 DEF ClientInv
<1>7. NamesInv' BY <1>1, <1>3, SameNames
<1>8. ReaderInv' BY <1>1, <1>3 DEF ReaderInv, HandlesHeld, Handles
<1>9. PublicationInv' BY <1>1, <1>3, SamePublication
<1>10. TransactionInv' BY <1>1, <1>3 DEF TransactionInv, namesVars
<1> QED BY <1>6, <1>7, <1>8, <1>9, <1>10 DEF KInv

(* A definition's reference is a new node, so no cache has it: the index   *)
(* nameDefinition reads is the kernel's.                                   *)
LEMMA DefineKept ==
  ASSUME KInv, NEW n, Define(n)
  PROVE  KInv'
<1>1. NamesInv /\ ClientInv /\ ReaderInv /\ PublicationInv /\ TransactionInv BY DEF KInv
<1>2. PICK h, i, ref : h = Len(arena) + 1 /\ i = table + 1 /\ ref = <<"ref", i>> OBVIOUS
<1>3. IsSeq(arena) /\ DOMAIN arena = 1 .. Len(arena) /\ Len(arena) \in Nat BY <1>1, SeqShape DEF ClientInv
<1>4. table \in Nat /\ settled \in Nat /\ h \in Nat /\ h >= settled /\ h \notin Handles
  BY <1>1, <1>2, <1>3 DEF ClientInv, Handles
<1>5. ~(h < settled) /\ h \notin DOMAIN nodes BY <1>1, <1>4 DEF ClientInv
<1>6. /\ publication # NotPublishing /\ n \notin DOMAIN definitions
      /\ arena' = Append(arena, ref) /\ table' = i
      /\ definitions' = With(definitions, n, h)
      /\ metadata' \in {metadata, With(metadata, n, n)} \cup {With(metadata, m, n) : m \in DOMAIN metadata}
      /\ publication' = [publication EXCEPT !.records = @ \cup {n}]
      /\ UNCHANGED <<manages, entries, point, generation, failed, namesVars, settled, derived, budget,
                     published, reader, answer>>
  BY <1>2 DEF Define
<1>7. defNames' = With(defNames, ref[2], n) /\ Reads(h, ref)
  BY <1>2, <1>5 DEF Define
<1>8. ref[1] = "ref" /\ ref[2] = i BY <1>2
<1>9. nodes' = With(nodes, h, ref) /\ settledNodes' = settledNodes BY <1>5, <1>7 DEF Reads
<1>10. /\ IsSeq(arena') /\ Extends(arena, arena') /\ Len(arena') = h /\ arena'[h] = ref
       /\ \A k \in 1 .. Len(arena) : k \in 1 .. h /\ arena'[k] = arena[k]
       /\ h \in 1 .. h
  BY <1>2, <1>3, <1>6, AppendShape DEF Extends
<1>11. NamesInv' BY <1>1, <1>3, <1>6, <1>10, GrowNames DEF namesVars
<1>12. ClientInv'
  <2>1. table' \in Nat /\ settled' \in Nat /\ settled' <= Len(arena') + 1
    BY <1>1, <1>2, <1>3, <1>4, <1>6, <1>10
  <2>2. DOMAIN defNames' = 1 .. table' /\ defNames'[i] = n /\ \A j \in 1 .. table : defNames'[j] = defNames[j]
    <3>1. DOMAIN defNames = 1 .. table /\ i \notin 1 .. table /\ 1 .. i = (1 .. table) \cup {i}
      BY <1>1, <1>2, <1>4 DEF ClientInv
    <3> QED BY <1>6, <1>7, <1>8, <3>1 DEF With
  <2>3. \A m \in DOMAIN definitions' : DefinedAt(arena', table', defNames', m, definitions'[m])
    <3> SUFFICES ASSUME NEW m \in DOMAIN definitions'
                 PROVE  DefinedAt(arena', table', defNames', m, definitions'[m])
      OBVIOUS
    <3>1. CASE m = n
      <4>1. definitions'[m] = h BY <1>6, <3>1 DEF With
      <4>2. i \in 1 .. table' BY <1>2, <1>4, <1>6
      <4> QED BY <1>8, <1>10, <2>2, <3>1, <4>1, <4>2 DEF DefinedAt
    <3>2. CASE m # n
      <4>1. m \in DOMAIN definitions /\ definitions'[m] = definitions[m] BY <1>6, <3>2 DEF With
      <4>2. DefinedAt(arena, table, defNames, m, definitions[m]) BY <1>1, <4>1 DEF ClientInv
      <4>3. \A j \in 1 .. table : j \in 1 .. table' BY <1>2, <1>4, <1>6
      <4> QED BY <1>10, <2>2, <4>1, <4>2, <4>3 DEF DefinedAt
    <3> QED BY <3>1, <3>2
  <2>4. \A k \in DOMAIN nodes' : k \in Handles' /\ k >= settled' /\ nodes'[k] = arena'[k]
    BY <1>1, <1>4, <1>6, <1>9, <1>10 DEF ClientInv, Handles, With
  <2>5. \A k \in DOMAIN settledNodes' : k \in Handles' /\ k < settled' /\ settledNodes'[k] = arena'[k]
    BY <1>1, <1>6, <1>9, <1>10 DEF ClientInv, Handles
  <2>6. \A k \in DOMAIN derived' : k \in Handles' /\ derived'[k] = arena'[k]
    BY <1>1, <1>6, <1>10 DEF ClientInv, Handles
  <2> QED BY <1>10, <2>1, <2>2, <2>3, <2>4, <2>5, <2>6 DEF ClientInv
<1>13. ReaderInv' BY <1>1, <1>3, <1>6, <1>10, SameReader
<1>14. DOMAIN definitions' = DOMAIN definitions \cup {n} /\ definitions'[n] = h
       /\ \A m \in DOMAIN definitions : definitions'[m] = definitions[m]
  BY <1>6 DEF With
<1>15. /\ DOMAIN publication = {"transaction", "group", "records", "snapshot"}
       /\ publication.transaction \in {"open", "unmanaged"}
       /\ publication.records \subseteq DOMAIN definitions
  BY <1>1, <1>6 DEF PublicationInv
<1>16. /\ DOMAIN publication' = {"transaction", "group", "records", "snapshot"}
       /\ publication'.transaction = publication.transaction /\ publication'.snapshot = publication.snapshot
       /\ publication'.records = publication.records \cup {n}
  BY <1>6, <1>15
<1>17. PublicationInv'
  <2>1. \A m \in DOMAIN metadata : m \in DOMAIN definitions /\ metadata[m] \in DOMAIN definitions
    BY <1>1 DEF PublicationInv, PublishedDefined
  <2>2. \A m \in DOMAIN metadata' : m \in DOMAIN definitions' /\ metadata'[m] \in DOMAIN definitions'
    <3>1. CASE metadata' = metadata BY <1>14, <2>1, <3>1
    <3>2. CASE metadata' = With(metadata, n, n) BY <1>14, <2>1, <3>2 DEF With
    <3>3. ASSUME NEW k \in DOMAIN metadata, metadata' = With(metadata, k, n)
          PROVE  \A m \in DOMAIN metadata' : m \in DOMAIN definitions' /\ metadata'[m] \in DOMAIN definitions'
      BY <1>14, <2>1, <3>3 DEF With
    <3> QED BY <1>6, <3>1, <3>2, <3>3
  <2>3. published' \subseteq DOMAIN definitions' BY <1>1, <1>6, <1>14 DEF PublicationInv, PublishedDefined
  <2>4. PublishedDefined' BY <2>2, <2>3 DEF PublishedDefined
  <2>5. publication'.transaction \in {"open", "unmanaged"} /\ publication'.records \subseteq DOMAIN definitions'
    BY <1>14, <1>15, <1>16
  <2> QED BY <1>16, <2>4, <2>5 DEF PublicationInv
<1>18. TransactionInv'
  <2> SUFFICES ASSUME publication.transaction = "open" PROVE TransactionInv' BY <1>16 DEF TransactionInv
  <2>1. PICK s : s = publication.snapshot OBVIOUS
  <2>2. /\ point.nodes \in Nat /\ point.nodes <= Len(arena) /\ settled <= point.nodes + 1
        /\ point.table \in Nat /\ point.table <= table /\ s.defNames = 1 .. point.table
        /\ point.entries \in Nat /\ point.entries <= Len(entries) /\ s.entries = point.entries
        /\ \A e \in 1 .. point.entries : records[e].type <= point.nodes
        /\ s.definitions \subseteq DOMAIN definitions
        /\ \A m \in s.definitions : definitions[m] <= point.nodes /\ arena[definitions[m]][2] <= point.table
        /\ published \subseteq s.definitions
        /\ \A m \in DOMAIN s.metadata : {m, s.metadata[m]} \subseteq s.definitions
    BY <1>1, <2>1 DEF TransactionInv
  <2>3. \A m \in s.definitions : /\ definitions'[m] = definitions[m]
                                 /\ arena'[definitions'[m]] = arena[definitions[m]]
    <3> SUFFICES ASSUME NEW m \in s.definitions
                 PROVE  definitions'[m] = definitions[m] /\ arena'[definitions'[m]] = arena[definitions[m]]
      OBVIOUS
    <3>1. m \in DOMAIN definitions BY <2>2
    <3>2. definitions[m] \in 1 .. Len(arena) BY <1>1, <3>1 DEF ClientInv, DefinedAt
    <3> QED BY <1>10, <1>14, <3>1, <3>2
  <2>4. point'.nodes <= Len(arena') /\ point'.table <= table' BY <1>2, <1>3, <1>4, <1>6, <1>10, <2>2
  <2>5. UNCHANGED <<point, settled, entries, records, published>> BY <1>6 DEF namesVars
  <2>6. s.definitions \subseteq DOMAIN definitions' BY <1>14, <2>2
  <2> QED BY <1>16, <2>1, <2>2, <2>3, <2>4, <2>5, <2>6 DEF TransactionInv
<1> QED BY <1>11, <1>12, <1>13, <1>17, <1>18 DEF KInv

(* A binder's entry is found by its name and type, or recorded with both.  *)
LEMMA BindVariableKept ==
  ASSUME KInv, NEW n \in BinderNames, NEW type \in Handles, NEW excluded, NEW fresh \in BOOLEAN,
         BindVariable(n, type, excluded, fresh)
  PROVE  KInv'
<1>1. NamesInv /\ ClientInv /\ ReaderInv /\ PublicationInv /\ TransactionInv BY DEF KInv
<1>2. UNCHANGED <<manages, arena, table, point, generation, failed, client, budget, publication,
                  published, reader, answer>>
  BY DEF BindVariable
<1>3. IsSeq(n)
  <2>1. CASE \E m \in Names : n = <<m>>
    <3>1. PICK m \in Names : n = <<m>> BY <2>1
    <3>2. n \in Seq({m}) BY <3>1
    <3> QED BY <3>2, SeqOfSet
  <2>2. CASE \E e \in DOMAIN entries : n = entries[e]
    <3>1. DOMAIN entries = DOMAIN records
      <4>1. IsSeq(entries) /\ IsSeq(records) /\ Len(records) = Len(entries) BY <1>1 DEF NamesInv, RecordsOK
      <4> QED BY <4>1, SeqShape
    <3> QED BY <1>1, <2>2, <3>1 DEF NamesInv, RecordsOK
  <2> QED BY <2>1, <2>2 DEF BinderNames
<1>4. UNCHANGED <<definitions, defNames, metadata, nodes, settledNodes, settled, derived>> BY <1>2 DEF client
<1>5. Len(entries) \in Nat BY <1>1, SeqShape DEF NamesInv, RecordsOK
<1>6. /\ NamesInv' /\ Len(entries') \in Nat /\ Len(entries) <= Len(entries')
      /\ \A d \in 1 .. Len(entries) : records'[d] = records[d]
  <2>1. ASSUME NEW f \in BOOLEAN, Extend(n, type, f)
        PROVE  /\ NamesInv' /\ Len(entries') \in Nat /\ Len(entries) <= Len(entries')
               /\ \A d \in 1 .. Len(entries) : records'[d] = records[d]
    <3>1. /\ NamesInv' /\ Len(entries') = Len(entries) + 1
          /\ \A d \in DOMAIN records : records'[d] = records[d]
      BY <1>1, <1>2, <1>3, <1>4, <2>1, ExtendNames
    <3>2. DOMAIN records = 1 .. Len(entries) BY <1>1, SeqShape DEF NamesInv, RecordsOK
    <3> QED BY <1>5, <3>1, <3>2
  <2>2. CASE fresh
    <3>1. Extend(n, type, TRUE) BY <2>2 DEF BindVariable
    <3> QED BY <2>1, <3>1
  <2>3. CASE ~fresh
    <3>1. Bind(n, type, excluded) BY <2>3 DEF BindVariable
    <3>2. CASE Find(n, type, excluded) = 0
      <4>1. Extend(n, type, FALSE) BY <3>1, <3>2 DEF Bind
      <4> QED BY <2>1, <4>1
    <3>3. CASE Find(n, type, excluded) # 0
      <4>1. /\ named' = With(named, n, Asked(n, type)) /\ touched' = touched \cup {n}
            /\ UNCHANGED <<entries, records, variants>>
        BY <3>1, <3>3 DEF Bind
      <4>2. NamesInv' BY <1>1, <1>2, <1>4, <4>1, AskNames
      <4> QED BY <1>5, <4>1, <4>2
    <3> QED BY <3>2, <3>3
  <2> QED BY <2>2, <2>3
<1>7. ClientInv' BY <1>1, <1>2, <1>4 DEF ClientInv, Handles
<1>8. ReaderInv' BY <1>1, <1>2 DEF ReaderInv, HandlesHeld, Handles
<1>9. PublicationInv' BY <1>1, <1>2, <1>4, SamePublication
<1>10. TransactionInv'
  <2>1. IsSeq(arena') /\ Extends(arena, arena') BY <1>1, <1>2 DEF ClientInv, Extends
  <2> QED BY <1>1, <1>2, <1>4, <1>5, <1>6, <2>1, SameTransaction
<1> QED BY <1>6, <1>7, <1>8, <1>9, <1>10 DEF KInv

(* What a transaction remembers is true when it begins.                    *)
LEMMA BeginKept ==
  ASSUME KInv, NEW group \in BOOLEAN, Begin(group)
  PROVE  KInv'
<1>1. NamesInv /\ ClientInv /\ ReaderInv /\ PublicationInv /\ TransactionInv BY DEF KInv
<1>2. PICK opens : opens = (group \/ manages) OBVIOUS
<1>3. /\ publication = NotPublishing
      /\ publication' = [transaction |-> IF opens THEN "open" ELSE "unmanaged", group |-> group,
                         records |-> {}, snapshot |-> IF opens THEN Snapshot ELSE [no |-> 0]]
      /\ point' = (IF opens THEN OpenCheckpoint ELSE point)
      /\ UNCHANGED <<manages, arena, table, entries, generation, failed, namesVars, client, budget, published,
                     reader, answer>>
  BY <1>2 DEF Begin
<1>4. UNCHANGED <<definitions, defNames, metadata, nodes, settledNodes, settled, derived,
                  records, named, touched, variants>>
  BY <1>3 DEF client, namesVars
<1>5. NamesInv' BY <1>1, <1>3, <1>4, SameNames
<1>6. ClientInv' BY <1>1, <1>3, <1>4 DEF ClientInv, Handles
<1>7. ReaderInv' BY <1>1, <1>3 DEF ReaderInv, HandlesHeld, Handles
<1>8. /\ DOMAIN publication' = {"transaction", "group", "records", "snapshot"}
      /\ publication'.transaction = (IF opens THEN "open" ELSE "unmanaged")
      /\ publication'.records = {} /\ publication'.snapshot = (IF opens THEN Snapshot ELSE [no |-> 0])
  BY <1>3
<1>9. PublicationInv'
  <2>1. PublishedDefined' BY <1>1, <1>3, <1>4 DEF PublicationInv, PublishedDefined
  <2> QED BY <1>8, <2>1 DEF PublicationInv
<1>10. TransactionInv'
  <2> SUFFICES ASSUME opens PROVE TransactionInv' BY <1>8 DEF TransactionInv
  <2>1. PICK s : s = Snapshot OBVIOUS
  <2>2. /\ s.definitions = DOMAIN definitions /\ s.defNames = DOMAIN defNames
        /\ s.metadata = metadata /\ s.entries = Len(entries)
    BY <2>1 DEF Snapshot
  <2>3. point'.nodes = Len(arena) /\ point'.table = table /\ point'.entries = Len(entries)
    BY <1>3 DEF OpenCheckpoint
  <2>4. publication'.snapshot = s BY <1>8, <2>1
  <2>5. IsSeq(arena) /\ Len(arena) \in Nat /\ table \in Nat BY <1>1, SeqShape DEF ClientInv
  <2>6. /\ IsSeq(records) /\ Len(records) = Len(entries) /\ Len(entries) \in Nat
        /\ DOMAIN records = 1 .. Len(entries)
        /\ \A e \in DOMAIN records : records[e].type \in 1 .. Len(arena)
    BY <1>1, SeqShape DEF NamesInv, RecordsOK
  <2>7. \A n \in DOMAIN definitions :
          definitions[n] \in 1 .. Len(arena) /\ arena[definitions[n]][2] \in 1 .. table
    BY <1>1 DEF ClientInv, DefinedAt
  <2>8. /\ point'.nodes \in Nat /\ point'.nodes <= Len(arena') /\ settled' <= point'.nodes + 1
        /\ point'.table \in Nat /\ point'.table <= table' /\ s.defNames = 1 .. point'.table
        /\ point'.entries \in Nat /\ point'.entries <= Len(entries') /\ s.entries = point'.entries
    BY <1>1, <1>3, <1>4, <2>2, <2>3, <2>5, <2>6 DEF ClientInv
  <2>9. \A e \in 1 .. point'.entries : records'[e].type <= point'.nodes
    BY <1>4, <2>3, <2>5, <2>6
  <2>10. s.definitions \subseteq DOMAIN definitions'
         /\ \A n \in s.definitions :
              definitions'[n] <= point'.nodes /\ arena'[definitions'[n]][2] <= point'.table
    BY <1>3, <1>4, <2>2, <2>3, <2>5, <2>7
  <2>11. /\ published' \subseteq s.definitions
         /\ \A m \in DOMAIN s.metadata : {m, s.metadata[m]} \subseteq s.definitions
    BY <1>1, <1>3, <2>2 DEF PublicationInv, PublishedDefined
  <2> QED BY <2>4, <2>8, <2>9, <2>10, <2>11 DEF TransactionInv
<1> QED BY <1>5, <1>6, <1>7, <1>9, <1>10 DEF KInv

(* The steps that leave the kernel and the maps alone.                     *)
LEMMA SameMaps ==
  ASSUME KInv, UNCHANGED <<arena, table, entries, namesVars, client>>
  PROVE  NamesInv' /\ ClientInv'
<1>1. UNCHANGED <<definitions, defNames, metadata, nodes, settledNodes, settled, derived>> BY DEF client
<1>2. NamesInv' BY <1>1, SameNames DEF KInv
<1>3. ClientInv' BY <1>1 DEF KInv, ClientInv, Handles
<1> QED BY <1>2, <1>3

(* A token read before a commit or a rollback is no longer held.           *)
LEMMA NextReader ==
  ASSUME ReaderInv, generation' = NextGeneration, reader' = reader
  PROVE  ReaderInv'
<1>1. generation \in Nat /\ reader.token \in Nat /\ (generation # 0 => reader.token <= generation)
  BY DEF ReaderInv
<1>2. generation' \in Nat BY <1>1 DEF NextGeneration
<1>3. generation' # 0 => generation' = generation + 1 /\ generation # 0 BY <1>1 DEF NextGeneration
<1>4. ~HandlesHeld' /\ (generation' # 0 => reader'.token <= generation') BY <1>1, <1>2, <1>3 DEF HandlesHeld
<1> QED BY <1>1, <1>2, <1>4 DEF ReaderInv

(* A refused commit leaves the maps, and no handle held.                   *)
LEMMA CommitRefusedKept ==
  ASSUME KInv, CommitRefused
  PROVE  KInv'
<1>1. /\ generation' = NextGeneration /\ publication' = NotPublishing
      /\ UNCHANGED <<manages, arena, table, entries, point, failed, namesVars, client, budget, published,
                     reader, answer>>
  BY DEF CommitRefused
<1>2. NamesInv' /\ ClientInv' BY <1>1, SameMaps
<1>3. UNCHANGED <<definitions, metadata>> BY <1>1 DEF client
<1>4. publication'.transaction = "none" BY <1>1 DEF NotPublishing
<1>5. ReaderInv' BY <1>1, NextReader DEF KInv
<1>6. PublicationInv' BY <1>1, <1>3 DEF KInv, PublicationInv, PublishedDefined
<1>7. TransactionInv' BY <1>4 DEF TransactionInv
<1> QED BY <1>2, <1>5, <1>6, <1>7 DEF KInv

(* Without a transaction, what is published was defined.                   *)
LEMMA EndUnmanagedKept ==
  ASSUME KInv, NEW accept \in BOOLEAN, EndUnmanaged(accept)
  PROVE  KInv'
<1>1. /\ publication.transaction = "unmanaged" /\ publication' = NotPublishing
      /\ published' = (IF accept THEN published \cup publication.records ELSE published)
      /\ UNCHANGED <<kernel, namesVars, client, budget, reader, answer>>
  BY DEF EndUnmanaged
<1>2. UNCHANGED <<arena, table, entries, generation, reader>> BY <1>1 DEF kernel
<1>3. NamesInv' /\ ClientInv' BY <1>1, <1>2, SameMaps
<1>4. UNCHANGED <<definitions, metadata>> BY <1>1 DEF client
<1>5. publication'.transaction = "none" BY <1>1 DEF NotPublishing
<1>6. ReaderInv' BY <1>2 DEF KInv, ReaderInv, HandlesHeld, Handles
<1>7. PublicationInv'
  <2>1. publication # NotPublishing BY <1>1 DEF NotPublishing
  <2> QED BY <1>1, <1>4, <2>1 DEF KInv, PublicationInv, PublishedDefined
<1>8. TransactionInv' BY <1>5 DEF TransactionInv
<1> QED BY <1>3, <1>6, <1>7, <1>8 DEF KInv

(* A trap changes nothing that JavaScript keeps.                           *)
LEMMA TrapKept ==
  ASSUME KInv, Trap
  PROVE  KInv'
<1>1. /\ publication' \in {publication, NotPublishing}
      /\ UNCHANGED <<manages, arena, table, entries, point, generation, namesVars, client, budget, published,
                     reader, answer>>
  BY DEF Trap
<1>2. NamesInv' /\ ClientInv' BY <1>1, SameMaps
<1>3. UNCHANGED <<definitions, metadata, settled, records>> BY <1>1 DEF client, namesVars
<1>4. ReaderInv' BY <1>1 DEF KInv, ReaderInv, HandlesHeld, Handles
<1>5. PublicationInv' BY <1>1, <1>3 DEF KInv, PublicationInv, PublishedDefined
<1>6. TransactionInv'
  <2>1. CASE publication' = publication BY <1>1, <1>3, <2>1 DEF KInv, TransactionInv
  <2>2. CASE publication' = NotPublishing
    <3>1. publication'.transaction = "none" BY <2>2 DEF NotPublishing
    <3> QED BY <3>1 DEF TransactionInv
  <2> QED BY <1>1, <2>1, <2>2
<1> QED BY <1>2, <1>4, <1>5, <1>6 DEF KInv

(* A handle is held with the generation it was read in.                    *)
LEMMA HoldKept ==
  ASSUME KInv, NEW h \in Handles, Hold(h)
  PROVE  KInv'
<1>1. /\ reader' = [token |-> generation, handle |-> h, node |-> arena[h]]
      /\ UNCHANGED <<kernel, namesVars, client, budget, publication, published, answer>>
  BY DEF Hold
<1>2. UNCHANGED <<arena, table, entries, point, generation>> BY <1>1 DEF kernel
<1>3. NamesInv' /\ ClientInv' BY <1>1, <1>2, SameMaps
<1>4. UNCHANGED <<definitions, metadata, settled, records>> BY <1>1 DEF client, namesVars
<1>5. reader'.token = generation /\ reader'.handle = h /\ reader'.node = arena[h] BY <1>1
<1>6. ReaderInv' BY <1>2, <1>5 DEF KInv, ReaderInv, Handles
<1>7. PublicationInv' BY <1>1, <1>4, SamePublication DEF KInv
<1>8. TransactionInv' BY <1>1, <1>2, <1>4 DEF KInv, TransactionInv
<1> QED BY <1>3, <1>6, <1>7, <1>8 DEF KInv

(* Steps that only ask.                                                    *)
LEMMA StillKept ==
  ASSUME KInv, UNCHANGED <<kernel, namesVars, client, publication, published, reader>>
  PROVE  KInv'
<1>1. UNCHANGED <<arena, table, entries, point, generation>> BY DEF kernel
<1>2. NamesInv' /\ ClientInv' BY <1>1, SameMaps
<1>3. UNCHANGED <<definitions, metadata, settled, records>> BY DEF client, namesVars
<1>4. ReaderInv' BY <1>1 DEF KInv, ReaderInv, HandlesHeld, Handles
<1>5. PublicationInv' BY <1>3, SamePublication DEF KInv
<1>6. TransactionInv' BY <1>1, <1>3 DEF KInv, TransactionInv
<1> QED BY <1>2, <1>4, <1>5, <1>6 DEF KInv

(* The end of a transaction.                                               *)
LEMMA OpenFacts ==
  ASSUME KInv, publication.transaction = "open", NEW s, s = publication.snapshot
  PROVE  /\ point.nodes \in Nat /\ point.nodes <= Len(arena) /\ settled <= point.nodes + 1
         /\ point.table \in Nat /\ point.table <= table /\ s.defNames = 1 .. point.table
         /\ point.entries \in 0 .. Len(entries) /\ s.entries = point.entries
         /\ \A e \in 1 .. point.entries : records[e].type <= point.nodes
         /\ s.definitions \subseteq DOMAIN definitions
         /\ \A n \in s.definitions :
              definitions[n] <= point.nodes /\ arena[definitions[n]][2] <= point.table
         /\ published \subseteq s.definitions
         /\ \A m \in DOMAIN s.metadata : {m, s.metadata[m]} \subseteq s.definitions
         /\ IsSeq(arena) /\ DOMAIN arena = 1 .. Len(arena) /\ Len(arena) \in Nat
         /\ settled \in Nat /\ table \in Nat
<1>1. IsSeq(arena) /\ DOMAIN arena = 1 .. Len(arena) /\ Len(arena) \in Nat /\ settled \in Nat /\ table \in Nat
  BY SeqShape DEF KInv, ClientInv
<1>2. Len(entries) \in Nat BY SeqShape DEF KInv, NamesInv, RecordsOK
<1> QED BY <1>1, <1>2 DEF KInv, TransactionInv

(* A rollback cuts the arena and the maps to what the transaction found.   *)
LEMMA RefuseKept ==
  ASSUME KInv, Refuse
  PROVE  KInv'
<1>1. PICK s, P, T : s = publication.snapshot /\ P = point.nodes /\ T = point.table OBVIOUS
<1>2. /\ publication.transaction = "open"
      /\ arena' = SubSeq(arena, 1, P) /\ table' = T
      /\ entries' = SubSeq(entries, 1, point.entries)
      /\ definitions' = Restricted(definitions, s.definitions)
      /\ defNames' = Restricted(defNames, s.defNames)
      /\ metadata' = s.metadata
      /\ Truncate(s.entries)
      /\ nodes' = Empty /\ settled' = Len(arena') + 1 /\ derived' = Empty /\ settledNodes' = settledNodes
      /\ generation' = NextGeneration /\ publication' = NotPublishing
      /\ published' = published /\ reader' = reader
  BY <1>1 DEF Refuse, RollbackFinish, ForgetHandles
<1>3. NamesInv /\ ClientInv /\ ReaderInv /\ PublicationInv BY DEF KInv
<1>4. /\ P \in Nat /\ P <= Len(arena) /\ settled <= P + 1
      /\ T \in Nat /\ T <= table /\ s.defNames = 1 .. T
      /\ point.entries \in 0 .. Len(entries) /\ s.entries = point.entries
      /\ \A e \in 1 .. point.entries : records[e].type <= P
      /\ s.definitions \subseteq DOMAIN definitions
      /\ \A n \in s.definitions : definitions[n] <= P /\ arena[definitions[n]][2] <= T
      /\ published \subseteq s.definitions
      /\ \A m \in DOMAIN s.metadata : {m, s.metadata[m]} \subseteq s.definitions
      /\ IsSeq(arena) /\ Len(arena) \in Nat /\ settled \in Nat /\ table \in Nat
  BY <1>1, <1>2, OpenFacts
<1>5. IsSeq(arena') /\ Len(arena') = P /\ \A h \in 1 .. P : arena'[h] = arena[h]
  <2>1. P \in 0 .. Len(arena) BY <1>4
  <2> QED BY <1>2, <1>4, <2>1, PrefixShape
<1>6. NamesInv'
  <2>1. Truncate(point.entries) /\ Len(arena') \in Nat /\ P <= Len(arena') BY <1>2, <1>4, <1>5
  <2> QED BY <1>2, <1>3, <1>4, <1>5, <2>1, TruncateNames
<1>7. DOMAIN definitions' = s.definitions /\ \A n \in s.definitions : definitions'[n] = definitions[n]
  BY <1>2, <1>4 DEF Restricted
<1>8. ClientInv'
  <2>1. DOMAIN defNames' = 1 .. T /\ \A i \in 1 .. T : defNames'[i] = defNames[i]
    <3>1. DOMAIN defNames = 1 .. table /\ \A i \in 1 .. T : i \in 1 .. table BY <1>3, <1>4 DEF ClientInv
    <3> QED BY <1>2, <1>4, <3>1 DEF Restricted
  <2>2. \A n \in DOMAIN definitions' : DefinedAt(arena', table', defNames', n, definitions'[n])
    <3> SUFFICES ASSUME NEW n \in s.definitions
                 PROVE  DefinedAt(arena', table', defNames', n, definitions[n])
      BY <1>7
    <3>1. DefinedAt(arena, table, defNames, n, definitions[n]) BY <1>3, <1>4 DEF ClientInv
    <3>2. definitions[n] <= P /\ arena[definitions[n]][2] <= T BY <1>4
    <3>3. definitions[n] \in 1 .. P /\ arena[definitions[n]][2] \in 1 .. T
      BY <1>4, <3>1, <3>2 DEF DefinedAt
    <3> QED BY <1>2, <1>5, <2>1, <3>1, <3>3 DEF DefinedAt
  <2>3. \A k \in DOMAIN settledNodes' : k \in Handles' /\ k < settled' /\ settledNodes'[k] = arena'[k]
    <3> SUFFICES ASSUME NEW k \in DOMAIN settledNodes
                 PROVE  k \in Handles' /\ k < settled' /\ settledNodes[k] = arena'[k]
      BY <1>2
    <3>1. k \in Handles /\ k < settled /\ settledNodes[k] = arena[k] BY <1>3 DEF ClientInv
    <3>2. k \in 1 .. P BY <1>4, <3>1 DEF Handles
    <3> QED BY <1>2, <1>4, <1>5, <3>1, <3>2 DEF Handles
  <2>4. DOMAIN nodes' = {} /\ DOMAIN derived' = {} BY <1>2 DEF Empty
  <2>5. table' \in Nat /\ settled' \in Nat /\ settled' <= Len(arena') + 1 BY <1>2, <1>4, <1>5
  <2> QED BY <1>2, <1>5, <2>1, <2>2, <2>3, <2>4, <2>5 DEF ClientInv
<1>9. ReaderInv' BY <1>2, <1>3, NextReader
<1>10. PublicationInv' BY <1>2, <1>4, <1>7 DEF PublicationInv, PublishedDefined
<1>11. TransactionInv'
  <2>1. publication'.transaction = "none" BY <1>2 DEF NotPublishing
  <2> QED BY <2>1 DEF TransactionInv
<1> QED BY <1>6, <1>8, <1>9, <1>10, <1>11 DEF KInv

(* A commit moves every surviving node without changing it.                *)
LEMMA MovedRight ==
  ASSUME IsSeq(arena), point.nodes \in Nat, point.nodes <= Len(arena), NEW kept \in Survivors,
         NEW c, c = Compacted(kept)
  PROVE  /\ IsSeq(c) /\ Len(c) \in Nat /\ point.nodes <= Len(c)
         /\ \A h \in 1 .. point.nodes : c[h] = arena[h]
         /\ \A h \in Handles :
              IsReference(h) => Moved(kept, h) \in 1 .. Len(c) /\ c[Moved(kept, h)] = arena[h]
<1>1. PICK P, n : P = point.nodes /\ n = Cardinality(kept) OBVIOUS
<1>2. Len(arena) \in Nat /\ P \in Nat BY <1>1, SeqShape
<1>3. /\ \A h \in kept : h \in Handles /\ h > P
      /\ \A h \in Handles : h > P /\ IsReference(h) => h \in kept
  BY <1>1 DEF Survivors
<1>4. kept \in SUBSET Nat /\ IsFiniteSet(kept)
  <2>1. PICK m \in Nat : m = Len(arena) BY <1>2
  <2>2. kept \in SUBSET (1 .. m) BY <1>3, <2>1 DEF Handles
  <2>3. IsFiniteSet(1 .. m) BY FS_Interval
  <2>4. IsFiniteSet(kept) BY <2>2, <2>3, FS_Subset
  <2> QED BY <2>2, <2>4
<1>5. /\ n \in Nat
      /\ \A h \in kept : Rank(kept, h) \in 1 .. n /\ Nth(kept, Rank(kept, h)) = h
  BY <1>1, <1>4, Ranks
<1>6. c = [k \in 1 .. P + n |-> IF k <= P THEN arena[k] ELSE arena[Nth(kept, k - P)]]
  BY <1>1 DEF Compacted
<1>7. IsSeq(c) /\ Len(c) = P + n
  <2>1. PICK m, S : m = P + n /\ S = {c[k] : k \in 1 .. P + n} OBVIOUS
  <2>2. m \in Nat BY <1>2, <1>5, <2>1
  <2>3. DOMAIN c = 1 .. m /\ c = [k \in 1 .. m |-> c[k]] BY <1>6, <2>1
  <2>4. c \in [1 .. m -> S] BY <2>1, <2>3
  <2>5. c \in Seq(S) /\ Len(c) = m BY <2>2, <2>3, <2>4
  <2> QED BY <2>1, <2>5, SeqOfSet
<1>8. ASSUME NEW h \in Handles, IsReference(h)
      PROVE  Moved(kept, h) \in 1 .. Len(c) /\ c[Moved(kept, h)] = arena[h]
  <2>1. h \in Nat /\ 1 <= h BY DEF Handles
  <2>2. CASE h <= P
    <3>1. Moved(kept, h) = h BY <1>1, <2>2 DEF Moved
    <3>2. h \in 1 .. P + n BY <1>2, <1>5, <2>1, <2>2
    <3> QED BY <1>6, <1>7, <2>2, <3>1, <3>2
  <2>3. CASE h > P
    <3>1. h \in kept BY <1>3, <1>8, <2>3
    <3>2. PICK r : r = Rank(kept, h) OBVIOUS
    <3>3. r \in 1 .. n /\ Nth(kept, r) = h BY <1>5, <3>1, <3>2
    <3>4. ~(h <= P) BY <1>2, <2>1, <2>3
    <3>5. Moved(kept, h) = P + r BY <1>1, <3>2, <3>4 DEF Moved
    <3>6. P + r \in 1 .. P + n /\ ~(P + r <= P) /\ (P + r) - P = r BY <1>2, <1>5, <3>3
    <3>7. c[P + r] = arena[Nth(kept, (P + r) - P)] BY <1>6, <3>6
    <3> QED BY <1>7, <3>3, <3>5, <3>6, <3>7
  <2> QED BY <1>2, <2>1, <2>2, <2>3
<1>9. \A h \in 1 .. P : c[h] = arena[h]
  <2>1. \A h \in 1 .. P : h \in 1 .. P + n /\ h <= P BY <1>2, <1>5
  <2> QED BY <1>6, <2>1
<1> QED BY <1>1, <1>2, <1>5, <1>7, <1>8, <1>9

(* A commit relocates the definitions that were added, and no other.       *)
LEMMA AcceptKept ==
  ASSUME KInv, NEW kept \in Survivors, Accept(kept)
  PROVE  KInv'
<1>1. PICK s, P, added : /\ s = publication.snapshot /\ P = point.nodes
                         /\ added = DOMAIN definitions \ s.definitions
  OBVIOUS
<1>2. /\ publication.transaction = "open"
      /\ arena' = Compacted(kept)
      /\ entries' = SubSeq(entries, 1, point.entries)
      /\ definitions' = [n \in DOMAIN definitions |->
                           IF n \in added THEN Moved(kept, definitions[n]) ELSE definitions[n]]
      /\ Truncate(s.entries)
      /\ nodes' = Empty /\ settled' = Len(arena') + 1 /\ derived' = Empty /\ settledNodes' = settledNodes
      /\ UNCHANGED <<table, defNames, metadata>>
      /\ generation' = NextGeneration /\ publication' = NotPublishing
      /\ published' = published \cup publication.records /\ reader' = reader
  BY <1>1 DEF Accept, CommitFinish, ForgetHandles
<1>3. NamesInv /\ ClientInv /\ ReaderInv /\ PublicationInv BY DEF KInv
<1>4. /\ P \in Nat /\ P <= Len(arena) /\ settled <= P + 1
      /\ point.entries \in 0 .. Len(entries) /\ s.entries = point.entries
      /\ \A e \in 1 .. point.entries : records[e].type <= P
      /\ s.definitions \subseteq DOMAIN definitions
      /\ \A n \in s.definitions : definitions[n] <= P
      /\ IsSeq(arena) /\ Len(arena) \in Nat /\ settled \in Nat /\ table \in Nat
  BY <1>1, <1>2, OpenFacts
<1>5. /\ IsSeq(arena') /\ Len(arena') \in Nat /\ P <= Len(arena')
      /\ \A h \in 1 .. P : arena'[h] = arena[h]
      /\ \A h \in Handles :
           IsReference(h) => Moved(kept, h) \in 1 .. Len(arena') /\ arena'[Moved(kept, h)] = arena[h]
  BY <1>1, <1>2, <1>4, MovedRight
<1>6. NamesInv'
  <2>1. Truncate(point.entries) BY <1>2, <1>4
  <2> QED BY <1>2, <1>3, <1>4, <1>5, <2>1, TruncateNames
<1>7. ClientInv'
  <2>1. \A n \in DOMAIN definitions' : DefinedAt(arena', table', defNames', n, definitions'[n])
    <3> SUFFICES ASSUME NEW n \in DOMAIN definitions
                 PROVE  DefinedAt(arena', table', defNames', n, definitions'[n])
      BY <1>2
    <3>1. DefinedAt(arena, table, defNames, n, definitions[n]) BY <1>3 DEF ClientInv
    <3>2. definitions'[n] \in 1 .. Len(arena') /\ arena'[definitions'[n]] = arena[definitions[n]]
      <4>1. CASE n \in added
        <5>1. definitions[n] \in Handles /\ IsReference(definitions[n])
          BY <3>1 DEF DefinedAt, Handles, IsReference
        <5>2. definitions'[n] = Moved(kept, definitions[n]) BY <1>2, <4>1
        <5> QED BY <1>5, <5>1, <5>2
      <4>2. CASE n \notin added
        <5>1. definitions'[n] = definitions[n] /\ n \in s.definitions BY <1>1, <1>2, <4>2
        <5>2. definitions[n] \in 1 .. P BY <1>4, <3>1, <5>1 DEF DefinedAt
        <5>3. definitions[n] \in 1 .. Len(arena') BY <1>4, <1>5, <5>2
        <5> QED BY <1>5, <5>1, <5>2, <5>3
      <4> QED BY <4>1, <4>2
    <3> QED BY <1>2, <3>1, <3>2 DEF DefinedAt
  <2>2. \A k \in DOMAIN settledNodes' : k \in Handles' /\ k < settled' /\ settledNodes'[k] = arena'[k]
    <3> SUFFICES ASSUME NEW k \in DOMAIN settledNodes
                 PROVE  k \in Handles' /\ k < settled' /\ settledNodes[k] = arena'[k]
      BY <1>2
    <3>1. k \in Handles /\ k < settled /\ settledNodes[k] = arena[k] BY <1>3 DEF ClientInv
    <3>2. k \in 1 .. P BY <1>4, <3>1 DEF Handles
    <3> QED BY <1>2, <1>4, <1>5, <3>1, <3>2 DEF Handles
  <2>3. DOMAIN nodes' = {} /\ DOMAIN derived' = {} BY <1>2 DEF Empty
  <2>4. table' \in Nat /\ settled' \in Nat /\ settled' <= Len(arena') + 1 BY <1>2, <1>4, <1>5
  <2>5. DOMAIN defNames' = 1 .. table' BY <1>2, <1>3 DEF ClientInv
  <2> QED BY <1>5, <2>1, <2>2, <2>3, <2>4, <2>5 DEF ClientInv
<1>8. ReaderInv' BY <1>2, <1>3, NextReader
<1>9. PublicationInv'
  <2>1. publication # NotPublishing BY <1>2 DEF NotPublishing
  <2>2. DOMAIN definitions' = DOMAIN definitions BY <1>2
  <2> QED BY <1>2, <1>3, <2>1, <2>2 DEF PublicationInv, PublishedDefined
<1>10. TransactionInv'
  <2>1. publication'.transaction = "none" BY <1>2 DEF NotPublishing
  <2> QED BY <2>1 DEF TransactionInv
<1> QED BY <1>6, <1>7, <1>8, <1>9, <1>10 DEF KInv

(* At first nothing is kept.                                               *)
LEMMA KeptAtFirst ==
  ASSUME ClientInit
  PROVE  KInv
<1>1. /\ arena = <<>> /\ entries = <<>> /\ records = <<>>
      /\ table = 0 /\ generation = 1 /\ settled = 0
      /\ definitions = Empty /\ defNames = Empty /\ metadata = Empty
      /\ nodes = Empty /\ settledNodes = Empty /\ derived = Empty
      /\ named = Empty /\ touched = {} /\ variants = Empty
      /\ publication = NotPublishing /\ published = {} /\ reader = NoReader
  BY DEF ClientInit, NamesInit
<1>2. DOMAIN Empty = {} BY DEF Empty
<1>3. /\ IsSeq(arena) /\ DOMAIN arena = {} /\ Len(arena) = 0
      /\ IsSeq(entries) /\ DOMAIN entries = {} /\ Len(entries) = 0
      /\ IsSeq(records) /\ DOMAIN records = {} /\ Len(records) = 0
  BY <1>1, NoElements, Zenon
<1>4. /\ DOMAIN definitions = {} /\ DOMAIN defNames = {} /\ DOMAIN metadata = {} /\ DOMAIN nodes = {}
      /\ DOMAIN settledNodes = {} /\ DOMAIN derived = {} /\ DOMAIN named = {} /\ DOMAIN variants = {}
  BY <1>1, <1>2, Zenon
<1>5. NamesInv
  <2>1. RecordsOK(arena, entries, records) BY <1>3, Zenon DEF RecordsOK
  <2> QED BY <1>3, <1>4, <2>1, Zenon DEF NamesInv
<1>6. ClientInv
  <2>1. table \in Nat /\ settled \in Nat /\ settled <= Len(arena) + 1
    <3>1. PICK n : n = Len(arena) /\ n = 0 BY <1>3
    <3>2. settled <= n + 1 /\ table \in Nat /\ settled \in Nat BY <1>1, <3>1
    <3> QED BY <3>1, <3>2
  <2>2. DOMAIN defNames = 1 .. table
    <3>1. 1 .. table = {} BY <1>1
    <3> QED BY <1>4, <3>1
  <2> QED BY <1>3, <1>4, <2>1, <2>2, Zenon DEF ClientInv
<1>7. ReaderInv BY <1>1 DEF ReaderInv, HandlesHeld, NoReader
<1>8. PublicationInv BY <1>1, <1>4 DEF PublicationInv, PublishedDefined
<1>9. TransactionInv
  <2>1. publication.transaction = "none" BY <1>1 DEF NotPublishing
  <2> QED BY <2>1 DEF TransactionInv
<1> QED BY <1>5, <1>6, <1>7, <1>8, <1>9 DEF KInv

(* The invariant says that the handles are true.                           *)
LEMMA KeptTrue ==
  ASSUME KInv
  PROVE  HandlesTrue
<1>1. NamesInv /\ ClientInv /\ ReaderInv /\ PublicationInv BY DEF KInv
<1>2. PublishedDefined BY <1>1 DEF PublicationInv
<1>3. \A n \in DOMAIN definitions :
        /\ definitions[n] \in Handles
        /\ LET node == arena[definitions[n]]
           IN node[1] = "ref" /\ node[2] \in DOMAIN defNames /\ defNames[node[2]] = n
  BY <1>1 DEF ClientInv, DefinedAt, Handles
<1>4. /\ DOMAIN defNames = 1 .. table
      /\ \A h \in DOMAIN nodes : h >= settled => h \in Handles /\ nodes[h] = arena[h]
      /\ \A h \in DOMAIN settledNodes : h < settled => h \in Handles /\ settledNodes[h] = arena[h]
      /\ \A h \in DOMAIN derived : h \in Handles /\ arena[h] = derived[h]
  BY <1>1 DEF ClientInv
<1>5. HandlesHeld => reader.handle \in Handles /\ arena[reader.handle] = reader.node BY <1>1 DEF ReaderInv
<1>6. RecordsTrue BY <1>1 DEF NamesInv, RecordsOK, RecordsTrue, Handles
<1>7. GroupsTrue
  <2> SUFFICES ASSUME NEW key \in DOMAIN named, NEW g, g = named[key].groups, NEW known, known = named[key].known
               PROVE  /\ \A i, j \in DOMAIN g : i # j => ~Alike(g[i].type, g[j].type)
                      /\ \A e \in DOMAIN records :
                           (key \in records[e].keys)
                             <=> \E i \in DOMAIN g : e \in ToSet(g[i].entries) /\ Alike(g[i].type, records[e].type)
                      /\ \A h \in DOMAIN known :
                           /\ h \in Handles
                           /\ IF known[h].group # 0
                              THEN known[h].group \in DOMAIN g /\ Alike(g[known[h].group].type, h)
                              ELSE \A i \in 1 .. known[h].compared : i \in DOMAIN g => ~Alike(g[i].type, h)
    BY DEF GroupsTrue
  <2>1. GroupsOK(arena, records, key, g) /\ KnownOK(arena, g, known) BY <1>1 DEF NamesInv
  <2>2. \A h, k : Alike(h, k) <=> SameClass(arena, h, k) BY DEF Alike, SameClass
  <2>3. \A i, j \in DOMAIN g : i # j => ~Alike(g[i].type, g[j].type) BY <2>1, <2>2 DEF GroupsOK
  <2>4. ASSUME NEW e \in DOMAIN records
        PROVE  (key \in records[e].keys)
                 <=> \E i \in DOMAIN g : e \in ToSet(g[i].entries) /\ Alike(g[i].type, records[e].type)
    BY <2>1, <2>2 DEF GroupsOK, GroupOK
  <2>5. ASSUME NEW h \in DOMAIN known
        PROVE  /\ h \in Handles
               /\ IF known[h].group # 0
                  THEN known[h].group \in DOMAIN g /\ Alike(g[known[h].group].type, h)
                  ELSE \A i \in 1 .. known[h].compared : i \in DOMAIN g => ~Alike(g[i].type, h)
    <3>1. /\ h \in 1 .. Len(arena)
          /\ \/ known[h].group \in DOMAIN g /\ SameClass(arena, g[known[h].group].type, h)
             \/ /\ known[h].group = 0 /\ known[h].compared \in 0 .. Len(g)
                /\ \A i \in 1 .. known[h].compared : ~SameClass(arena, g[i].type, h)
      BY <2>1 DEF KnownOK
    <3>2. 0 \notin DOMAIN g
      <4>1. IsSeq(g) BY <2>1 DEF GroupsOK
      <4> QED BY <4>1, SeqShape
    <3> QED BY <2>2, <3>1, <3>2 DEF Handles
  <2> QED BY <2>3, <2>4, <2>5
<1> QED BY <1>2, <1>3, <1>4, <1>5, <1>6, <1>7 DEF HandlesTrue

(* A step.                                                                 *)
LEMMA StepKept ==
  ASSUME KInv, [ClientNext]_clientVars
  PROVE  KInv'
<1>1. ASSUME NEW s \in Syntax, Derive(s) PROVE KInv' BY <1>1, DeriveKept
<1>2. ASSUME NEW h \in Handles, ReadNode(h) PROVE KInv' BY <1>2, ReadNodeKept
<1>3. ASSUME NEW h \in Handles, Hold(h) PROVE KInv' BY <1>3, HoldKept
<1>4. ASSUME NEW n \in Names, Define(n) PROVE KInv' BY <1>4, DefineKept
<1>5. ASSUME NEW n \in BinderNames, NEW h \in Handles, NEW X, NEW fresh \in BOOLEAN, BindVariable(n, h, X, fresh)
      PROVE  KInv'
  BY <1>5, BindVariableKept
<1>6. ASSUME NEW group \in BOOLEAN, Begin(group) PROVE KInv' BY <1>6, BeginKept
<1>7. ASSUME NEW kept \in Survivors, Accept(kept) PROVE KInv' BY <1>7, AcceptKept
<1>8. CASE Refuse BY <1>8, RefuseKept
<1>9. CASE CommitRefused BY <1>9, CommitRefusedKept
<1>10. CASE Trap BY <1>10, TrapKept
<1>11. ASSUME NEW accept \in BOOLEAN, EndUnmanaged(accept) PROVE KInv' BY <1>11, EndUnmanagedKept
<1>12. ASSUME NEW need \in Needs, Query(need) \/ Instruct(need) PROVE KInv'
  BY <1>12, StillKept DEF Query, Instruct
<1>13. CASE UNCHANGED clientVars BY <1>13, StillKept DEF clientVars
<1> QED BY <1>1, <1>2, <1>3, <1>4, <1>5, <1>6, <1>7, <1>8, <1>9, <1>10, <1>11, <1>12, <1>13 DEF ClientNext

(* While no call has trapped, every handle, index, cached read and name    *)
(* that JavaScript keeps beside the kernel names there what it was kept    *)
(* for, and what is published is defined, failed or not: for any names,    *)
(* syntax and number of entries, through commits that compact the arena,   *)
(* rollbacks that cut it, refused commits and traps.                       *)
THEOREM HandlesStayTrue == ClientSpec => []HandlesTrue
<1>1. ClientInit => KInv BY KeptAtFirst
<1>2. KInv /\ [ClientNext]_clientVars => KInv' BY StepKept
<1>3. KInv => HandlesTrue BY KeptTrue
<1> QED BY <1>1, <1>2, <1>3, PTL DEF ClientSpec

-----------------------------------------------------------------------------
(* The checking worker.                                                    *)


(* The types.                                                              *)
CheckRequests == [command : {"check"}, of : Nat, collect : BOOLEAN, token : Nat, id : Nat]
PointRequests == [command : {"contexts"}, token : Nat]
OpenRequests == [command : {"context-open"}, scope : Nat, token : Nat, chosen : Nat, again : BOOLEAN, id : Nat]
RunRequests == [command : {"context-run"}, session : Nat, token : Nat, chosen : Nat, id : Nat]
Requests == CheckRequests \cup PointRequests \cup OpenRequests \cup RunRequests
Notices == [command : {"context-close"}, session : Nat] \cup [command : {"context-invalidate"}]
Messages == Requests \cup Notices
Replies == [request : Requests, ok : BOOLEAN, value : Nat]
Queued == [request : Requests, epoch : Nat]
Consoles == [epoch : Nat, selection : Nat, enabled : BOOLEAN, active : Nat, version : Nat]
Panels == [token : Nat, chosen : Nat, busy : BOOLEAN]
Programs == [version : Nat, registry : Nat, ready : BOOLEAN, epoch : Nat]
Sessions == [registry : Nat, version : Nat, closed : BOOLEAN]

PageTypes ==
  /\ source \in Nat /\ console \in Consoles /\ listed \in Nat /\ panel \in Panels
  /\ waiting \subseteq Requests
  /\ shown \in [version : Nat, of : Nat]
  /\ counts \in [edits : Nat, checks : Nat, opens : Nat, runs : Nat]
WorkerTypes ==
  /\ toWorker \in Seq(Messages) /\ toPage \in Seq(Replies)
  /\ alive \in BOOLEAN /\ contextEpoch \in Nat
  /\ queue \in Seq(Queued)
  /\ running = Idle \/ running \in [request : CheckRequests \cup RunRequests, epoch : Nat]
  /\ installed \in Programs /\ sessions \in Seq(Sessions)
WorkerTypeOK == PageTypes /\ WorkerTypes

(* What is on its way, from the oldest to the newest: answers a, the       *)
(* request r being worked on, the queue b and the messages c.              *)
Pipe(a, r, b, c) ==
  {a[i].request : i \in DOMAIN a} \cup {r.request} \cup {b[i].request : i \in DOMAIN b} \cup {c[i] : i \in DOMAIN c}
OnItsWay == Pipe(toPage, running, queue, toWorker)

(* Requests of a command k keep their order, and their ids are below n.    *)
Earlier(k, x, y) == x.command = k /\ y.command = k => x.id < y.id
Ordered(k, a, r, b, c) ==
  /\ \A i, j \in DOMAIN a : i < j => Earlier(k, a[i].request, a[j].request)
  /\ \A i \in DOMAIN a : Earlier(k, a[i].request, r.request)
  /\ \A i \in DOMAIN a, j \in DOMAIN b : Earlier(k, a[i].request, b[j].request)
  /\ \A i \in DOMAIN a, j \in DOMAIN c : Earlier(k, a[i].request, c[j])
  /\ \A j \in DOMAIN b : Earlier(k, r.request, b[j].request)
  /\ \A j \in DOMAIN c : Earlier(k, r.request, c[j])
  /\ \A i, j \in DOMAIN b : i < j => Earlier(k, b[i].request, b[j].request)
  /\ \A i \in DOMAIN b, j \in DOMAIN c : Earlier(k, b[i].request, c[j])
  /\ \A i, j \in DOMAIN c : i < j => Earlier(k, c[i], c[j])
Numbered(k, n) == \A r \in OnItsWay : r.command = k => r.id < n
OrderInv ==
  /\ Ordered("check", toPage, running, queue, toWorker) /\ Numbered("check", counts.checks)
  /\ Ordered("context-open", toPage, running, queue, toWorker) /\ Numbered("context-open", counts.opens)

(* The worker: what is still to be checked, what is installed and what is  *)
(* open.                                                                   *)
NoCheckQueued == \A i \in DOMAIN queue : queue[i].request.command # "check"
NoCheckHeld == running.request.command # "check" /\ NoCheckQueued
ProgramInv ==
  /\ installed.ready => installed.epoch = contextEpoch
  /\ \A s \in DOMAIN sessions : ~sessions[s].closed => installed.ready /\ sessions[s].registry = installed.registry
  /\ installed.ready => NoCheckHeld
  /\ \A i \in DOMAIN queue : queue[i].epoch <= contextEpoch
  /\ running.request.command = "check" => running.epoch <= contextEpoch
  /\ \A i, j \in DOMAIN queue :
       i < j /\ queue[i].request.command = "check" /\ queue[j].request.command = "check"
         => queue[i].epoch < contextEpoch
  /\ \A j \in DOMAIN queue :
       running.request.command = "check" /\ queue[j].request.command = "check"
         => running.epoch < contextEpoch

(* What a request and an answer are worth to the page, and the console.    *)
RequestOK(r) ==
  /\ r.command \in {"check", "contexts", "context-open"} => r.token <= console.epoch
  /\ r.command = "check" /\ r.token = console.epoch => r.of = source /\ r.id + 1 = counts.checks
  /\ r.command = "contexts" /\ r.token = console.epoch => console.enabled
  /\ r.command = "context-open" /\ r.token = console.epoch => r.scope = source /\ listed = source
  /\ r.command = "context-run" => r.session \in DOMAIN sessions
RequestsOK == \A r \in OnItsWay : RequestOK(r)
ReplyOK(p) ==
  p.ok =>
    /\ p.request.command = "check" /\ p.request.token = console.epoch => installed.version = source
    /\ p.request.command = "contexts" /\ p.request.token = console.epoch => p.value = source
    /\ p.request.command = "context-open" =>
         p.value # 0 /\ p.value \in DOMAIN sessions /\ sessions[p.value].version = p.request.scope
    /\ p.request.command = "context-run" => p.value = sessions[p.request.session].version
RepliesOK == \A i \in DOMAIN toPage : ReplyOK(toPage[i])
ConsoleInv ==
  /\ shown # NotShown => shown.version = shown.of
  /\ ~alive => ~console.enabled /\ toPage = <<>> /\ toWorker = <<>>
  /\ console.enabled => installed.version = source /\ \A r \in OnItsWay : r.command # "check"
  /\ listed # 0 => console.enabled /\ listed = source
  /\ panel # NoPanel /\ panel.token = console.epoch => listed = source
  /\ panel.token <= console.epoch
  /\ console.active # 0 => /\ console.enabled /\ console.active \in DOMAIN sessions
                           /\ sessions[console.active].version = source

(* The selection: one request at a time, and the panel busy meanwhile.     *)
OfSelection(r) == r.command \in {"context-open", "context-run"} /\ r.chosen = console.selection
SelectionInv ==
  /\ \A r \in waiting : r.command \in {"context-open", "context-run"} =>
       r.chosen <= console.selection /\ (r.chosen = console.selection => r.token = console.epoch)
  /\ panel.chosen <= console.selection /\ (panel.chosen = console.selection => panel.token = console.epoch)
  /\ \A r \in waiting : OfSelection(r) /\ r.command = "context-open" => console.active = 0
  /\ \A r, t \in waiting : OfSelection(r) /\ OfSelection(t) => r = t
  /\ \A r \in waiting : OfSelection(r) /\ panel.chosen = console.selection => panel.busy

(* Open sessions: each is the one shown, or about to be shown, closed or   *)
(* revoked.                                                                *)
Revoking(m) == m.command \in {"check", "context-invalidate"}
Attended(s) ==
  \/ s = console.active
  \/ \E i \in DOMAIN toWorker : toWorker[i].command = "context-close" /\ toWorker[i].session = s
  \/ \E i \in DOMAIN toWorker : Revoking(toWorker[i])
  \/ \E i \in DOMAIN toPage : toPage[i].request.command = "context-open" /\ toPage[i].ok /\ toPage[i].value = s
HeldInv ==
  alive =>
    /\ \A r \in OnItsWay : r.command = "context-open" => r \in waiting
    /\ \A s \in DOMAIN sessions : ~sessions[s].closed => Attended(s)

-----------------------------------------------------------------------------
(* How a pipe moves.                                                       *)

(* A sequence less its first element, and with one more.                   *)
LEMMA TailShape ==
  ASSUME NEW S, NEW s \in Seq(S), s # <<>>
  PROVE  /\ Tail(s) \in Seq(S) /\ Head(s) = s[1] /\ 1 \in DOMAIN s /\ s[1] \in S
         /\ \A i \in DOMAIN Tail(s) : i \in Nat /\ i + 1 \in DOMAIN s /\ Tail(s)[i] = s[i + 1] /\ 1 < i + 1
         /\ \A i \in DOMAIN s : i # 1 => \E j \in DOMAIN Tail(s) : i = j + 1 /\ Tail(s)[j] = s[i]
<1>1. PICK n \in Nat : n = Len(s) /\ n # 0
  OBVIOUS
<1>2. Tail(s) \in Seq(S) /\ Len(Tail(s)) = n - 1 /\ DOMAIN s = 1 .. n /\ DOMAIN Tail(s) = 1 .. n - 1
  BY <1>1
<1>3. \A i \in 1 .. n - 1 : Tail(s)[i] = s[i + 1]
  BY <1>1
<1>4. Head(s) = s[1] /\ s[1] \in S
  BY <1>1
<1>5. ASSUME NEW i \in DOMAIN s, i # 1
      PROVE  \E j \in DOMAIN Tail(s) : i = j + 1 /\ Tail(s)[j] = s[i]
  <2>1. i - 1 \in DOMAIN Tail(s) /\ i = (i - 1) + 1
    BY <1>2, <1>5
  <2>2. Tail(s)[i - 1] = s[i]
    BY <2>1, <1>2, <1>3
  <2>3. QED
    BY <2>1, <2>2
<1>6. QED
  BY <1>1, <1>2, <1>3, <1>4, <1>5

Has(s, x) == \E i \in DOMAIN s : s[i] = x

(* A sequence with one more element.                                       *)
LEMMA LastShape ==
  ASSUME NEW S, NEW s \in Seq(S), NEW x \in S
  PROVE  /\ Append(s, x) \in Seq(S) /\ Append(s, x) # <<>>
         /\ \A i \in DOMAIN Append(s, x) :
              \/ i \in DOMAIN s /\ Append(s, x)[i] = s[i]
              \/ i \notin DOMAIN s /\ Append(s, x)[i] = x /\ \A j \in DOMAIN s : j < i
         /\ \A i, j \in DOMAIN Append(s, x) : i < j => i \in DOMAIN s
         /\ \A i \in DOMAIN s : i \in DOMAIN Append(s, x) /\ Append(s, x)[i] = s[i]
         /\ Has(Append(s, x), x)
<1>1. PICK n \in Nat : n = Len(s)
  OBVIOUS
<1>2. Append(s, x) \in Seq(S) /\ DOMAIN s = 1 .. n /\ DOMAIN Append(s, x) = 1 .. n + 1
      /\ Append(s, x)[n + 1] = x /\ Len(Append(s, x)) = n + 1
  BY <1>1
<1>3. \A i \in 1 .. n : Append(s, x)[i] = s[i]
  BY <1>1
<1>4. \A i \in 1 .. n + 1 : i \in 1 .. n \/ i = n + 1
  OBVIOUS
<1>5. QED
  BY <1>2, <1>3, <1>4 DEF Has

(* The oldest answer is received.                                          *)
LEMMA PipeReceives ==
  ASSUME NEW k, NEW A, NEW a \in Seq(A), NEW r, NEW b, NEW c, a # <<>>, Ordered(k, a, r, b, c)
  PROVE  /\ Ordered(k, Tail(a), r, b, c)
         /\ Pipe(Tail(a), r, b, c) \subseteq Pipe(a, r, b, c)
         /\ Head(a).request \in Pipe(a, r, b, c)
         /\ \A x \in Pipe(Tail(a), r, b, c) : Earlier(k, Head(a).request, x)
<1>1. PICK t : t = Tail(a)
  OBVIOUS
<1>2. /\ Head(a) = a[1] /\ 1 \in DOMAIN a
      /\ \A i \in DOMAIN t : i \in Nat /\ i + 1 \in DOMAIN a /\ t[i] = a[i + 1] /\ 1 < i + 1
  BY <1>1, TailShape
<1>3. Ordered(k, t, r, b, c)
  BY <1>2 DEF Ordered
<1>4. Pipe(t, r, b, c) \subseteq Pipe(a, r, b, c) /\ Head(a).request \in Pipe(a, r, b, c)
  BY <1>2 DEF Pipe
<1>5. \A x \in Pipe(t, r, b, c) : Earlier(k, Head(a).request, x)
  BY <1>2 DEF Pipe, Ordered
<1>6. QED
  BY <1>1, <1>3, <1>4, <1>5

(* The worker takes a message that asks for something.                     *)
LEMMA PipePasses ==
  ASSUME NEW k, NEW a, NEW r, NEW B, NEW b \in Seq(B), NEW C, NEW c \in Seq(C), c # <<>>,
         NEW q \in B, q.request = Head(c), Ordered(k, a, r, b, c)
  PROVE  /\ Ordered(k, a, r, Append(b, q), Tail(c))
         /\ Pipe(a, r, Append(b, q), Tail(c)) \subseteq Pipe(a, r, b, c)
<1>1. PICK t : t = Tail(c)
  OBVIOUS
<1>2. PICK d : d = Append(b, q)
  OBVIOUS
<1>3. /\ Head(c) = c[1] /\ 1 \in DOMAIN c
      /\ \A i \in DOMAIN t : i \in Nat /\ i + 1 \in DOMAIN c /\ t[i] = c[i + 1] /\ 1 < i + 1
  BY <1>1, TailShape
<1>4. /\ \A i \in DOMAIN d : (i \in DOMAIN b /\ d[i] = b[i]) \/ (i \notin DOMAIN b /\ d[i] = q /\ \A j \in DOMAIN b : j < i)
      /\ \A i, j \in DOMAIN d : i < j => i \in DOMAIN b
      /\ \A i \in DOMAIN b : d[i] = b[i]
  BY <1>2, LastShape
<1>5. Ordered(k, a, r, d, t)
  BY <1>3, <1>4 DEF Ordered
<1>6. Pipe(a, r, d, t) \subseteq Pipe(a, r, b, c)
  BY <1>3, <1>4 DEF Pipe
<1>7. QED
  BY <1>1, <1>2, <1>5, <1>6

(* It takes one that does not.                                             *)
LEMMA PipeSkips ==
  ASSUME NEW k, NEW a, NEW r, NEW b, NEW C, NEW c \in Seq(C), c # <<>>, Ordered(k, a, r, b, c)
  PROVE  /\ Ordered(k, a, r, b, Tail(c))
         /\ Pipe(a, r, b, Tail(c)) \subseteq Pipe(a, r, b, c)
<1>1. PICK t : t = Tail(c)
  OBVIOUS
<1>2. \A i \in DOMAIN t : i \in Nat /\ i + 1 \in DOMAIN c /\ t[i] = c[i + 1] /\ 1 < i + 1
  BY <1>1, TailShape
<1>3. Ordered(k, a, r, b, t) /\ Pipe(a, r, b, t) \subseteq Pipe(a, r, b, c)
  BY <1>2 DEF Ordered, Pipe
<1>4. QED
  BY <1>1, <1>3

(* It begins a request.                                                    *)
LEMMA PipeBegins ==
  ASSUME NEW k, k # "none", NEW a, NEW B, NEW b \in Seq(B), NEW c, b # <<>>, Ordered(k, a, Idle, b, c)
  PROVE  /\ Ordered(k, a, Head(b), Tail(b), c)
         /\ Pipe(a, Head(b), Tail(b), c) \subseteq Pipe(a, Idle, b, c)
         /\ \A i \in DOMAIN Tail(b) : Earlier(k, Head(b).request, Tail(b)[i].request)
<1>1. PICK t : t = Tail(b)
  OBVIOUS
<1>2. /\ Head(b) = b[1] /\ 1 \in DOMAIN b
      /\ \A i \in DOMAIN t : i \in Nat /\ i + 1 \in DOMAIN b /\ t[i] = b[i + 1] /\ 1 < i + 1
  BY <1>1, TailShape
<1>3. Ordered(k, a, Head(b), t, c) /\ Pipe(a, Head(b), t, c) \subseteq Pipe(a, Idle, b, c)
  BY <1>2 DEF Ordered, Pipe
<1>4. \A i \in DOMAIN t : Earlier(k, Head(b).request, t[i].request)
  BY <1>3 DEF Ordered
<1>5. QED
  BY <1>1, <1>3, <1>4

(* It answers one that needs no import.                                    *)
LEMMA PipeAnswers ==
  ASSUME NEW k, k # "none", NEW A, NEW a \in Seq(A), NEW B, NEW b \in Seq(B), NEW c, b # <<>>,
         NEW p \in A, p.request = Head(b).request, Ordered(k, a, Idle, b, c)
  PROVE  /\ Ordered(k, Append(a, p), Idle, Tail(b), c)
         /\ Pipe(Append(a, p), Idle, Tail(b), c) \subseteq Pipe(a, Idle, b, c)
<1>1. PICK t : t = Tail(b)
  OBVIOUS
<1>2. PICK d : d = Append(a, p)
  OBVIOUS
<1>3. /\ Head(b) = b[1] /\ 1 \in DOMAIN b
      /\ \A i \in DOMAIN t : i \in Nat /\ i + 1 \in DOMAIN b /\ t[i] = b[i + 1] /\ 1 < i + 1
  BY <1>1, TailShape
<1>4. /\ \A i \in DOMAIN d : (i \in DOMAIN a /\ d[i] = a[i]) \/ (i \notin DOMAIN a /\ d[i] = p /\ \A j \in DOMAIN a : j < i)
      /\ \A i, j \in DOMAIN d : i < j => i \in DOMAIN a
      /\ \A i \in DOMAIN a : d[i] = a[i]
  BY <1>2, LastShape
<1>5. \A i \in DOMAIN d : Earlier(k, d[i].request, Idle.request)
  BY DEF Earlier, Idle
<1>6. \A x : Earlier(k, Idle.request, x)
  BY DEF Earlier, Idle
<1>7. Ordered(k, d, Idle, t, c)
  BY <1>3, <1>4, <1>5, <1>6 DEF Ordered
<1>8. Pipe(d, Idle, t, c) \subseteq Pipe(a, Idle, b, c)
  BY <1>3, <1>4 DEF Pipe
<1>9. QED
  BY <1>1, <1>2, <1>7, <1>8

(* It ends the one it was working on.                                      *)
LEMMA PipeEnds ==
  ASSUME NEW k, k # "none", NEW A, NEW a \in Seq(A), NEW r, NEW b, NEW c,
         NEW p \in A, p.request = r.request, Ordered(k, a, r, b, c)
  PROVE  /\ Ordered(k, Append(a, p), Idle, b, c)
         /\ Pipe(Append(a, p), Idle, b, c) \subseteq Pipe(a, r, b, c) \cup {Idle.request}
<1>1. PICK d : d = Append(a, p)
  OBVIOUS
<1>2. /\ \A i \in DOMAIN d : (i \in DOMAIN a /\ d[i] = a[i]) \/ (i \notin DOMAIN a /\ d[i] = p /\ \A j \in DOMAIN a : j < i)
      /\ \A i, j \in DOMAIN d : i < j => i \in DOMAIN a
      /\ \A i \in DOMAIN a : d[i] = a[i]
  BY <1>1, LastShape
<1>3. \A i \in DOMAIN d : Earlier(k, d[i].request, Idle.request)
  BY DEF Earlier, Idle
<1>4. \A x : Earlier(k, Idle.request, x)
  BY DEF Earlier, Idle
<1>5. Ordered(k, d, Idle, b, c)
  BY <1>2, <1>3, <1>4 DEF Ordered
<1>6. Pipe(d, Idle, b, c) \subseteq Pipe(a, r, b, c) \cup {Idle.request}
  BY <1>2 DEF Pipe
<1>7. QED
  BY <1>1, <1>5, <1>6

(* The page sends more: notices, and at the end at most one request m.     *)
Posted(c, d, m) ==
  /\ \A i \in DOMAIN c : i \in DOMAIN d /\ d[i] = c[i]
  /\ \A i \in DOMAIN d :
       i \in DOMAIN c \/ ((\A j \in DOMAIN c : j < i) /\ (d[i] \in Notices \/ (d[i] = m /\ \A j \in DOMAIN d : j <= i)))
LEMMA PipePosts ==
  ASSUME NEW k, k \in {"check", "context-open"}, NEW a, NEW r, NEW b, NEW C, NEW c \in Seq(C), NEW d \in Seq(C),
         NEW m, Posted(c, d, m),
         Ordered(k, a, r, b, c), \A x \in Pipe(a, r, b, c) : Earlier(k, x, m)
  PROVE  /\ Ordered(k, a, r, b, d)
         /\ Pipe(a, r, b, d) \subseteq Pipe(a, r, b, c) \cup Notices \cup {m}
<1>1. \A x, y : y \in Notices => Earlier(k, x, y) /\ Earlier(k, y, x)
  BY DEF Earlier, Notices
<1>2. \A i \in DOMAIN d :
       \/ i \in DOMAIN c /\ d[i] = c[i]
       \/ d[i] \in Notices
       \/ d[i] = m /\ (\A j \in DOMAIN d : j <= i)
  BY DEF Posted
<1>3. /\ \A i \in DOMAIN a : Earlier(k, a[i].request, m)
      /\ Earlier(k, r.request, m)
      /\ \A i \in DOMAIN b : Earlier(k, b[i].request, m)
      /\ \A i \in DOMAIN c : Earlier(k, c[i], m)
  BY DEF Pipe
<1>4. \A j \in DOMAIN d : \A i \in DOMAIN a : Earlier(k, a[i].request, d[j])
  BY <1>1, <1>2, <1>3 DEF Ordered
<1>5. \A j \in DOMAIN d : Earlier(k, r.request, d[j])
  BY <1>1, <1>2, <1>3 DEF Ordered
<1>6. \A j \in DOMAIN d : \A i \in DOMAIN b : Earlier(k, b[i].request, d[j])
  BY <1>1, <1>2, <1>3 DEF Ordered
<1>7. \A i, j \in DOMAIN d : i < j => Earlier(k, d[i], d[j])
  <2>1. SUFFICES ASSUME NEW i \in DOMAIN d, NEW j \in DOMAIN d, i < j
                 PROVE  Earlier(k, d[i], d[j])
    OBVIOUS
  <2>2. i \in Nat /\ j \in Nat
    OBVIOUS
  <2>3. d[i] \in Notices \/ (i \in DOMAIN c /\ d[i] = c[i])
    BY <1>2, <2>1, <2>2
  <2>4. d[j] \in Notices \/ d[j] = m \/ (j \in DOMAIN c /\ d[j] = c[j])
    BY <1>2
  <2>5. QED
    BY <1>1, <1>3, <2>1, <2>3, <2>4 DEF Ordered
<1>8. Ordered(k, a, r, b, d)
  BY <1>4, <1>5, <1>6, <1>7 DEF Ordered
<1>9. Pipe(a, r, b, d) \subseteq Pipe(a, r, b, c) \cup Notices \cup {m}
  BY <1>2 DEF Pipe
<1>10. QED
  BY <1>8, <1>9

(* What each kind of sending adds.                                         *)
Closes(d, s) == s # 0 => \E i \in DOMAIN d : d[i].command = "context-close" /\ d[i].session = s
LEMMA SendsOne ==
  ASSUME NEW c \in Seq(Messages), NEW m \in Messages
  PROVE  /\ c \o <<m>> \in Seq(Messages) /\ Posted(c, c \o <<m>>, m)
         /\ Has(c \o <<m>>, m)
<1>1. PICK n \in Nat : n = Len(c)
  OBVIOUS
<1>2. PICK d : d = c \o <<m>>
  OBVIOUS
<1>3. d \in Seq(Messages) /\ Len(d) = n + 1 /\ DOMAIN c = 1 .. n /\ DOMAIN d = 1 .. n + 1
  BY <1>1, <1>2
<1>4. (\A i \in 1 .. n : d[i] = c[i]) /\ d[n + 1] = m
  BY <1>1, <1>2
<1>5. Posted(c, d, m)
  BY <1>3, <1>4 DEF Posted
<1>6. Has(d, m)
  BY <1>3, <1>4 DEF Has
<1>7. QED
  BY <1>2, <1>3, <1>5, <1>6

(* Closing a session that is none sends nothing.                           *)
LEMMA SendsClose ==
  ASSUME NEW c \in Seq(Messages), NEW s \in Nat, NEW m
  PROVE  /\ c \o Close(s) \in Seq(Messages) /\ Posted(c, c \o Close(s), m) /\ Closes(c \o Close(s), s)
         /\ \A i \in DOMAIN (c \o Close(s)) : i \in DOMAIN c \/ (c \o Close(s))[i] \in Notices
<1>1. CASE s = 0
  <2>1. c \o Close(s) = c
    BY <1>1 DEF Close
  <2>2. QED
    BY <1>1, <2>1 DEF Posted, Closes
<1>2. CASE s # 0
  <2>1. PICK x : x = [command |-> "context-close", session |-> s]
    OBVIOUS
  <2>2. x \in Notices /\ x \in Messages /\ x.command = "context-close" /\ x.session = s
    BY <2>1 DEF Notices, Messages
  <2>3. c \o Close(s) = c \o <<x>>
    BY <1>2, <2>1 DEF Close
  <2>4. PICK d : d = c \o <<x>>
    OBVIOUS
  <2>5. d \in Seq(Messages) /\ Posted(c, d, x) /\ Has(d, x)
    BY <2>2, <2>4, SendsOne
  <2>6. Posted(c, d, m) /\ \A i \in DOMAIN d : i \in DOMAIN c \/ d[i] \in Notices
    BY <2>2, <2>5 DEF Posted
  <2>7. QED
    BY <2>2, <2>3, <2>4, <2>5, <2>6 DEF Closes, Has
<1>3. QED
  BY <1>1, <1>2

(* Closing what was active, and asking for something.                      *)
LEMMA SendsBoth ==
  ASSUME NEW c \in Seq(Messages), NEW s \in Nat, NEW m \in Messages
  PROVE  /\ c \o (Close(s) \o <<m>>) \in Seq(Messages) /\ Posted(c, c \o (Close(s) \o <<m>>), m)
         /\ Closes(c \o (Close(s) \o <<m>>), s)
         /\ Has(c \o (Close(s) \o <<m>>), m)
<1>1. PICK d : d = c \o Close(s)
  OBVIOUS
<1>2. d \in Seq(Messages) /\ Posted(c, d, m) /\ Closes(d, s) /\ \A i \in DOMAIN d : i \in DOMAIN c \/ d[i] \in Notices
  BY <1>1, SendsClose
<1>3. PICK e : e = d \o <<m>>
  OBVIOUS
<1>4. e \in Seq(Messages) /\ Posted(d, e, m) /\ Has(e, m)
  BY <1>2, <1>3, SendsOne
<1>5. c \o (Close(s) \o <<m>>) = e
  <2>1. Close(s) \in Seq(Messages)
    <3>1. [command |-> "context-close", session |-> s] \in Messages
      BY DEF Messages, Notices
    <3>2. QED
      BY <3>1 DEF Close
  <2>2. <<m>> \in Seq(Messages)
    OBVIOUS
  <2>3. QED
    BY <1>1, <1>3, <2>1, <2>2
<1>6. Posted(c, e, m)
  <2>1. \A i \in DOMAIN c : i \in DOMAIN e /\ e[i] = c[i]
    BY <1>2, <1>4 DEF Posted
  <2>2. \A i \in DOMAIN e : i \in DOMAIN d \/ ((\A j \in DOMAIN d : j < i) /\ (e[i] \in Notices \/ (e[i] = m /\ \A j \in DOMAIN e : j <= i)))
    BY <1>4 DEF Posted
  <2>3. \A i \in DOMAIN d : e[i] = d[i] /\ (i \in DOMAIN c \/ (d[i] \in Notices /\ \A j \in DOMAIN c : j < i))
    BY <1>2, <1>4 DEF Posted
  <2>4. \A i \in DOMAIN c : i \in DOMAIN d
    BY <1>2 DEF Posted
  <2>5. QED
    BY <2>1, <2>2, <2>3, <2>4 DEF Posted
<1>7. Closes(e, s)
  BY <1>2, <1>4 DEF Closes, Posted
<1>8. QED
  BY <1>4, <1>5, <1>6, <1>7

-----------------------------------------------------------------------------
(* The invariant.                                                          *)

WInv ==
  /\ WorkerTypeOK /\ OrderInv /\ ProgramInv /\ RequestsOK /\ RepliesOK /\ ConsoleInv
  /\ SelectionInv /\ HeldInv

(* A console less what it showed, and an invalidated one.                  *)
LEMMA ConsoleChange ==
  ASSUME NEW c \in Consoles, NEW e \in Nat, NEW s \in Nat
  PROVE  [c EXCEPT !.epoch = e, !.selection = s, !.enabled = FALSE, !.active = 0] \in Consoles
BY DEF Consoles

(* An invalidated console: a later epoch, a later selection, nothing shown.*)
LEMMA InvalidShape ==
  ASSUME console \in Consoles
  PROVE  /\ Invalid \in Consoles /\ Invalid.epoch = console.epoch + 1 /\ Invalid.selection = console.selection + 1
         /\ Invalid.enabled = FALSE /\ Invalid.active = 0
         /\ console.epoch \in Nat /\ console.selection \in Nat /\ console.active \in Nat /\ console.enabled \in BOOLEAN
<1>1. /\ console.epoch \in Nat /\ console.selection \in Nat /\ console.active \in Nat /\ console.enabled \in BOOLEAN
      /\ console.version \in Nat
  BY DEF Consoles
<1>2. /\ Invalid.epoch = console.epoch + 1 /\ Invalid.selection = console.selection + 1
      /\ Invalid.enabled = FALSE /\ Invalid.active = 0
  BY DEF Invalid, Consoles
<1>3. Invalid \in Consoles
  <2>1. PICK e \in Nat : e = console.epoch + 1
    BY <1>1
  <2>2. PICK s \in Nat : s = console.selection + 1
    BY <1>1
  <2>3. Invalid = [console EXCEPT !.epoch = e, !.selection = s, !.enabled = FALSE, !.active = 0]
    BY <2>1, <2>2 DEF Invalid
  <2>4. QED
    BY <2>3, ConsoleChange
<1>4. QED
  BY <1>1, <1>2, <1>3

(* WInv holds at the start.                                                *)
LEMMA InitHolds == WorkerInit => WInv
<1>1. SUFFICES ASSUME WorkerInit PROVE WInv
  OBVIOUS
<1> USE <1>1 DEF WorkerInit
<1>2. WorkerTypeOK
  <2>1. PageTypes
    BY DEF PageTypes, Consoles, Panels, NoPanel, NotShown
  <2>2. WorkerTypes
    BY DEF WorkerTypes, Programs, NoProgram
  <2>3. QED
    BY <2>1, <2>2 DEF WorkerTypeOK
<1>3. OnItsWay = {Idle.request} /\ Idle.request.command = "none" /\ DOMAIN toPage = {} /\ DOMAIN queue = {}
      /\ DOMAIN toWorker = {} /\ DOMAIN sessions = {} /\ running = Idle
  BY DEF OnItsWay, Pipe, Idle
<1>4. OrderInv
  BY <1>3 DEF OrderInv, Ordered, Numbered
<1>5. ProgramInv
  BY <1>3 DEF ProgramInv, NoProgram
<1>6. RequestsOK /\ RepliesOK
  BY <1>3 DEF RequestsOK, RequestOK, RepliesOK
<1>7. ConsoleInv
  BY <1>3 DEF ConsoleInv, NoPanel
<1>8. SelectionInv
  BY DEF SelectionInv, NoPanel
<1>9. HeldInv
  BY <1>3 DEF HeldInv
<1>10. QED
  BY <1>2, <1>4, <1>5, <1>6, <1>7, <1>8, <1>9 DEF WInv

(* What is on its way is a message, or nothing.                            *)
LEMMA PipeTypes ==
  ASSUME WorkerTypeOK
  PROVE  /\ \A x \in OnItsWay : x \in Messages \/ x = Idle.request
         /\ \A x \in OnItsWay : x.command \in {"check", "context-open"} => x.id \in Nat
         /\ \A x \in OnItsWay : x.command \in {"check", "contexts", "context-open"} => x.token \in Nat
         /\ \A i \in DOMAIN toPage : toPage[i].request \in OnItsWay /\ toPage[i].request \in Requests
<1>1. \A i \in DOMAIN toPage : toPage[i].request \in Messages /\ toPage[i].request \in Requests
  <2>1. \A i \in DOMAIN toPage : toPage[i] \in Replies
    BY DEF WorkerTypeOK, WorkerTypes
  <2>2. \A p \in Replies : p.request \in Messages /\ p.request \in Requests
    BY DEF Replies, Messages
  <2>3. QED
    BY <2>1, <2>2
<1>2. \A i \in DOMAIN queue : queue[i].request \in Messages
  <2>1. \A i \in DOMAIN queue : queue[i] \in Queued
    BY DEF WorkerTypeOK, WorkerTypes
  <2>2. \A p \in Queued : p.request \in Messages
    BY DEF Queued, Messages
  <2>3. QED
    BY <2>1, <2>2
<1>3. \A i \in DOMAIN toWorker : toWorker[i] \in Messages
  BY DEF WorkerTypeOK, WorkerTypes
<1>4. running.request \in Messages \/ running.request = Idle.request
  BY DEF WorkerTypeOK, WorkerTypes, Requests, Messages
<1>5. \A x \in OnItsWay : x \in Messages \/ x = Idle.request
  BY <1>1, <1>2, <1>3, <1>4 DEF OnItsWay, Pipe
<1>6. \A x \in Messages :
        /\ x.command \in {"check", "context-open"} => x.id \in Nat
        /\ x.command \in {"check", "contexts", "context-open"} => x.token \in Nat
  BY DEF Messages, Notices, Requests, CheckRequests, PointRequests, OpenRequests, RunRequests
<1>7. Idle.request.command = "none"
  BY DEF Idle
<1>8. \A i \in DOMAIN toPage : toPage[i].request \in OnItsWay
  BY DEF OnItsWay, Pipe
<1>9. QED
  BY <1>1, <1>5, <1>6, <1>7, <1>8

(* What the worker leaves alone when the page acts.                        *)
LEMMA SameProgram ==
  ASSUME ProgramInv, UNCHANGED <<queue, running, contextEpoch, installed, sessions>>
  PROVE  ProgramInv'
BY DEF ProgramInv, NoCheckHeld, NoCheckQueued, Stale

(* The page sends something: m is the last of it, or a notice.             *)
Sends(m) ==
  /\ toWorker' \in Seq(Messages) /\ Posted(toWorker, toWorker', m)
  /\ UNCHANGED <<toPage, running, queue>>
(* What is sent last has the greatest number.                              *)
LEMMA OrderSends ==
  ASSUME WorkerTypeOK, OrderInv, NEW m \in Messages, Sends(m),
         m.command = "check" => m.id = counts.checks /\ counts'.checks = counts.checks + 1,
         m.command = "context-open" => m.id = counts.opens /\ counts'.opens = counts.opens + 1,
         m.command # "check" => counts'.checks = counts.checks,
         m.command # "context-open" => counts'.opens = counts.opens
  PROVE  OrderInv' /\ OnItsWay' \subseteq OnItsWay \cup Notices \cup {m}
<1>1. \A x \in OnItsWay : Earlier("check", x, m) /\ Earlier("context-open", x, m)
  BY DEF OrderInv, Numbered, Earlier
<1>2. toWorker \in Seq(Messages) /\ toWorker' \in Seq(Messages) /\ Posted(toWorker, toWorker', m)
  BY DEF WorkerTypeOK, WorkerTypes, Sends
<1>3. /\ Ordered("check", toPage, running, queue, toWorker')
      /\ Pipe(toPage, running, queue, toWorker') \subseteq OnItsWay \cup Notices \cup {m}
  BY <1>1, <1>2, PipePosts DEF OrderInv, OnItsWay
<1>4. Ordered("context-open", toPage, running, queue, toWorker')
  BY <1>1, <1>2, PipePosts DEF OrderInv, OnItsWay
<1>5. OnItsWay' = Pipe(toPage, running, queue, toWorker')
  BY DEF OnItsWay, Sends
<1>6. counts.checks \in Nat /\ counts.opens \in Nat
  BY DEF WorkerTypeOK, PageTypes
<1>7. \A x \in Notices : x.command # "check" /\ x.command # "context-open"
  BY DEF Notices
<1>8. \A x \in OnItsWay : x.command \in {"check", "context-open"} => x.id \in Nat
  BY PipeTypes
<1>10. Numbered("check", counts.checks)'
  BY <1>3, <1>5, <1>6, <1>7, <1>8 DEF Numbered, OrderInv
<1>11. Numbered("context-open", counts.opens)'
  BY <1>3, <1>5, <1>6, <1>7, <1>8 DEF Numbered, OrderInv
<1>12. QED
  BY <1>3, <1>4, <1>5, <1>10, <1>11 DEF OrderInv, Sends

(* After an invalidation nothing that was asked for before is current.     *)
LEMMA Outdated ==
  ASSUME WorkerTypeOK, RequestsOK, console' = Invalid, UNCHANGED sessions, NEW r \in OnItsWay
  PROVE  /\ RequestOK(r)'
         /\ r.command \in {"check", "contexts", "context-open"} => r.token # console'.epoch
<1>1. RequestOK(r)
  BY DEF RequestsOK
<1>2. r.command \in {"check", "contexts", "context-open"} => r.token \in Nat
  BY PipeTypes
<1>3. console'.epoch = console.epoch + 1 /\ console.epoch \in Nat
  BY InvalidShape DEF WorkerTypeOK, PageTypes
<1>4. QED
  BY <1>1, <1>2, <1>3 DEF RequestOK

(* So is an answer given before.                                           *)
LEMMA OutdatedReply ==
  ASSUME WorkerTypeOK, RequestsOK, console' = Invalid, UNCHANGED sessions, NEW p, p.request \in OnItsWay, ReplyOK(p)
  PROVE  ReplyOK(p)'
<1>1. p.request.command \in {"check", "contexts"} => p.request.token # console'.epoch
  BY Outdated
<1>2. QED
  BY <1>1 DEF ReplyOK

(* So is the selection.                                                    *)
LEMMA SelectionEnds ==
  ASSUME WorkerTypeOK, SelectionInv, console' = Invalid, panel'.chosen = panel.chosen,
         \A r \in waiting' : r \in waiting \/ r.command \notin {"context-open", "context-run"}
  PROVE  SelectionInv'
<1>1. console'.selection = console.selection + 1 /\ console.selection \in Nat
  BY InvalidShape DEF WorkerTypeOK, PageTypes
<1>2. panel.chosen \in Nat
  BY DEF WorkerTypeOK, PageTypes, Panels
<1>3. \A r \in waiting : r.command \in {"context-open", "context-run"} => r.chosen \in Nat
  BY DEF WorkerTypeOK, PageTypes, Requests, CheckRequests, PointRequests, OpenRequests, RunRequests
<1>4. panel'.chosen <= console'.selection /\ panel'.chosen # console'.selection
  BY <1>1, <1>2 DEF SelectionInv
<1>5. \A r \in waiting' : r.command \in {"context-open", "context-run"} =>
        r.chosen <= console'.selection /\ r.chosen # console'.selection
  BY <1>1, <1>3 DEF SelectionInv
<1>6. QED
  BY <1>4, <1>5 DEF SelectionInv, OfSelection

(* What an open session hangs on stays when the page sends more.           *)
LEMMA HoldersStay ==
  ASSUME WorkerTypeOK, NEW m, Sends(m), NEW s, Attended(s),
         s = console.active => s = console'.active \/ \E i \in DOMAIN toWorker' :
            toWorker'[i].command = "context-close" /\ toWorker'[i].session = s
  PROVE  Attended(s)'
BY DEF Attended, Sends, Posted

(* An edit, or a new check: what was open is revoked when the worker takes *)
(* the message.                                                            *)
LEMMA Revokes ==
  ASSUME WInv, alive, console' = Invalid, listed' = 0, NEW m \in Messages, Revoking(m), Sends(m),
         Has(toWorker', m), 
         m.command = "check" =>
           m.token = console'.epoch /\ m.of = source' /\ m.id = counts.checks /\ counts'.checks = counts.checks + 1,
         m.command # "check" => counts'.checks = counts.checks,
         counts'.opens = counts.opens,
         UNCHANGED <<panel, shown, workerVars>>,
         \A r \in waiting' : r \in waiting \/ r.command \notin {"context-open", "context-run"},
         waiting \subseteq waiting', WorkerTypeOK'
  PROVE  WInv'
<1> USE DEF WInv
<1>1. OrderInv' /\ OnItsWay' \subseteq OnItsWay \cup Notices \cup {m}
  <2>1. m.command # "context-open"
    BY DEF Revoking
  <2>2. QED
    BY <2>1, OrderSends
<1>2. ProgramInv'
  BY SameProgram DEF workerVars
<1>3. console'.epoch = console.epoch + 1 /\ console.epoch \in Nat /\ console'.enabled = FALSE /\ console'.active = 0
  BY InvalidShape DEF WorkerTypeOK, PageTypes
<1>4. UNCHANGED <<sessions, toPage, installed, alive>>
  BY DEF workerVars, Sends
<1>5. RequestsOK'
  <2>1. SUFFICES ASSUME NEW r \in OnItsWay' PROVE RequestOK(r)'
    BY DEF RequestsOK
  <2>2. CASE r \in OnItsWay
    BY <1>4, <2>2, Outdated
  <2>3. CASE r \in Notices
    BY <2>3 DEF RequestOK, Notices
  <2>4. CASE r = m
    BY <1>3, <2>4 DEF RequestOK, Revoking
  <2>5. QED
    BY <1>1, <2>2, <2>3, <2>4
<1>6. RepliesOK'
  <2>1. SUFFICES ASSUME NEW i \in DOMAIN toPage PROVE ReplyOK(toPage[i])'
    BY <1>4 DEF RepliesOK
  <2>2. QED
    BY <1>4, OutdatedReply, PipeTypes DEF RepliesOK, ReplyOK
<1>7. ConsoleInv'
  <2>1. panel.token \in Nat
    BY DEF WorkerTypeOK, PageTypes, Panels
  <2>2. QED
    BY <1>3, <1>4, <2>1 DEF ConsoleInv
<1>8. SelectionInv'
  BY SelectionEnds
<1>9. HeldInv'
  <2>1. \A r \in OnItsWay' : r.command = "context-open" => r \in waiting'
    BY <1>1 DEF HeldInv, Revoking, Notices
  <2>2. \A s \in DOMAIN sessions : Attended(s)'
    BY DEF Attended, Revoking, Has
  <2>3. QED
    BY <1>4, <2>1, <2>2 DEF HeldInv
<1>10. QED
  BY <1>1, <1>2, <1>5, <1>6, <1>7, <1>8, <1>9

(* One count goes up.                                                      *)
LEMMA Counted ==
  ASSUME NEW c \in [edits : Nat, checks : Nat, opens : Nat, runs : Nat]
  PROVE  /\ [c EXCEPT !.edits = @ + 1] \in [edits : Nat, checks : Nat, opens : Nat, runs : Nat]
         /\ [c EXCEPT !.edits = @ + 1].checks = c.checks /\ [c EXCEPT !.edits = @ + 1].opens = c.opens
         /\ [c EXCEPT !.checks = @ + 1] \in [edits : Nat, checks : Nat, opens : Nat, runs : Nat]
         /\ [c EXCEPT !.checks = @ + 1].checks = c.checks + 1 /\ [c EXCEPT !.checks = @ + 1].opens = c.opens
         /\ [c EXCEPT !.opens = @ + 1] \in [edits : Nat, checks : Nat, opens : Nat, runs : Nat]
         /\ [c EXCEPT !.opens = @ + 1].opens = c.opens + 1 /\ [c EXCEPT !.opens = @ + 1].checks = c.checks
         /\ [c EXCEPT !.runs = @ + 1] \in [edits : Nat, checks : Nat, opens : Nat, runs : Nat]
         /\ [c EXCEPT !.runs = @ + 1].checks = c.checks /\ [c EXCEPT !.runs = @ + 1].opens = c.opens
  OBVIOUS

(* An edit, with the worker running or stopped.                            *)
LEMMA EditKeeps == WInv /\ EditSource => WInv'
<1>1. SUFFICES ASSUME WInv, EditSource PROVE WInv'
  OBVIOUS
<1> USE DEF WInv
<1>2. PICK m : m = [command |-> "context-invalidate"]
  OBVIOUS
<1>3. m \in Messages /\ m \in Notices /\ m.command = "context-invalidate" /\ Revoking(m)
  BY <1>2 DEF Messages, Notices, Revoking
<1>4. console' = Invalid /\ listed' = 0 /\ source' = source + 1 /\ UNCHANGED <<panel, waiting, toPage, workerVars, shown>>
      /\ counts' = [counts EXCEPT !.edits = @ + 1]
      /\ toWorker' = (IF alive THEN toWorker \o (Close(console.active) \o <<m>>) ELSE toWorker)
  BY <1>1, <1>2 DEF EditSource, Post
<1>5. console \in Consoles /\ toWorker \in Seq(Messages) /\ console.active \in Nat /\ alive \in BOOLEAN
      /\ Invalid \in Consoles
  BY <1>1, InvalidShape DEF WorkerTypeOK, PageTypes, WorkerTypes, Consoles
<1>6. Sends(m)
  <2>1. CASE alive
    BY <1>3, <1>4, <1>5, <2>1, SendsBoth DEF Sends, workerVars
  <2>2. CASE ~alive
    BY <1>4, <1>5, <2>2 DEF Sends, workerVars, Posted
  <2>3. QED
    BY <2>1, <2>2
<1>7. /\ counts'.checks = counts.checks /\ counts'.opens = counts.opens
      /\ counts' \in [edits : Nat, checks : Nat, opens : Nat, runs : Nat]
  BY <1>1, <1>4, Counted DEF WorkerTypeOK, PageTypes
<1>8. WorkerTypeOK'
  <2>1. PageTypes
    BY <1>1 DEF WorkerTypeOK
  <2>2. PageTypes'
    <3>1. source' \in Nat /\ listed' \in Nat
      BY <1>4, <2>1 DEF PageTypes
    <3>2. console' \in Consoles
      BY <1>4, <1>5
    <3>3. panel' = panel /\ waiting' = waiting /\ shown' = shown
      BY <1>4
    <3>4. counts' \in [edits : Nat, checks : Nat, opens : Nat, runs : Nat]
      BY <1>7
    <3>5. QED
      BY <2>1, <3>1, <3>2, <3>3, <3>4 DEF PageTypes
  <2>3. WorkerTypes'
    BY <1>1, <1>4, <1>6 DEF WorkerTypeOK, WorkerTypes, Sends, workerVars
  <2>4. QED
    BY <2>2, <2>3 DEF WorkerTypeOK
<1>9. CASE alive
  <2>1. Has(toWorker', m)
    <3>1. toWorker' = toWorker \o (Close(console.active) \o <<m>>)
      BY <1>4, <1>9
    <3>2. QED
      BY <1>3, <1>5, <3>1, SendsBoth
  <2>2. QED
    BY <1>1, <1>3, <1>4, <1>6, <1>7, <1>8, <1>9, <2>1, Revokes
<1>10. CASE ~alive
  <2>1. OnItsWay' = OnItsWay /\ UNCHANGED <<toWorker, toPage, running, queue, sessions, installed, alive>>
    BY <1>4, <1>10 DEF OnItsWay, workerVars
  <2>2. OrderInv'
    BY <1>1, <1>7, <2>1 DEF OrderInv, Numbered
  <2>3. ProgramInv'
    BY <1>1, <1>4, SameProgram DEF workerVars
  <2>4. RequestsOK'
    BY <1>1, <1>4, <2>1, Outdated DEF RequestsOK
  <2>5. RepliesOK' /\ HeldInv'
    BY <1>1, <1>10, <2>1 DEF RepliesOK, ConsoleInv, HeldInv
  <2>6. ConsoleInv'
    <3>1. panel.token \in Nat
      BY <1>1 DEF WorkerTypeOK, PageTypes, Panels
    <3>2. console'.epoch = console.epoch + 1 /\ console'.enabled = FALSE /\ console'.active = 0 /\ console.epoch \in Nat
      BY <1>4, <1>5, InvalidShape
    <3>3. panel.token <= console.epoch /\ toPage = <<>> /\ toWorker = <<>> /\ (shown # NotShown => shown.version = shown.of)
      BY <1>1, <1>10 DEF ConsoleInv
    <3>4. panel'.token <= console'.epoch /\ panel'.token # console'.epoch
      BY <1>4, <3>1, <3>2, <3>3
    <3>5. QED
      BY <1>4, <2>1, <3>2, <3>3, <3>4 DEF ConsoleInv
  <2>7. SelectionInv'
    BY <1>1, <1>4, SelectionEnds
  <2>8. QED
    BY <1>8, <2>2, <2>3, <2>4, <2>5, <2>6, <2>7
<1>11. QED
  BY <1>5, <1>9, <1>10

(* A new check.                                                            *)
LEMMA CheckKeeps == ASSUME NEW collect \in BOOLEAN PROVE WInv /\ AskCheck(collect) => WInv'
<1>1. SUFFICES ASSUME WInv, AskCheck(collect) PROVE WInv'
  OBVIOUS
<1> USE DEF WInv
<1>2. PICK m : m = [command |-> "check", of |-> source, collect |-> collect, token |-> console.epoch + 1, id |-> counts.checks]
  OBVIOUS
<1>3. console \in Consoles /\ toWorker \in Seq(Messages) /\ console.active \in Nat /\ console.epoch \in Nat
      /\ source \in Nat /\ counts.checks \in Nat /\ Invalid \in Consoles /\ Invalid.epoch = console.epoch + 1
  BY <1>1, InvalidShape DEF WorkerTypeOK, PageTypes, WorkerTypes, Consoles
<1>4. m \in Requests /\ m \in Messages /\ m.command = "check" /\ Revoking(m)
  <2>1. m \in CheckRequests /\ m.command = "check"
    BY <1>2, <1>3 DEF CheckRequests
  <2>2. QED
    BY <2>1 DEF Requests, Messages, Revoking
<1>5. console' = Invalid /\ listed' = 0 /\ alive /\ UNCHANGED <<source, panel, toPage, workerVars, shown>>
      /\ counts' = [counts EXCEPT !.checks = @ + 1] /\ waiting' = waiting \cup {m}
      /\ toWorker' = toWorker \o (Close(console.active) \o <<m>>)
  BY <1>1, <1>2 DEF AskCheck, Post
<1>6. Sends(m) /\ Has(toWorker', m)
  <2>1. PICK d : d = toWorker \o (Close(console.active) \o <<m>>)
    OBVIOUS
  <2>2. d \in Seq(Messages) /\ Posted(toWorker, d, m) /\ Has(d, m)
    BY <1>3, <1>4, <2>1, SendsBoth
  <2>3. QED
    BY <1>5, <2>1, <2>2 DEF Sends, workerVars
<1>7. /\ counts'.checks = counts.checks + 1 /\ counts'.opens = counts.opens
      /\ counts' \in [edits : Nat, checks : Nat, opens : Nat, runs : Nat]
  BY <1>1, <1>5, Counted DEF WorkerTypeOK, PageTypes
<1>8. WorkerTypeOK'
  <2>2. PageTypes'
    BY <1>1, <1>3, <1>4, <1>5, <1>7 DEF WorkerTypeOK, PageTypes
  <2>3. WorkerTypes'
    BY <1>1, <1>5, <1>6 DEF WorkerTypeOK, WorkerTypes, Sends, workerVars
  <2>4. QED
    BY <2>2, <2>3 DEF WorkerTypeOK
<1>9. m.token = console'.epoch /\ m.of = source' /\ m.id = counts.checks
  BY <1>2, <1>3, <1>5
<1>10. QED
  BY <1>1, <1>4, <1>5, <1>6, <1>7, <1>8, <1>9, Revokes

(* The page asks for something about the check it shows, or closes what it *)
(* showed.                                                                 *)
LEMMA Asks ==
  ASSUME WInv, alive, NEW m \in Messages, Sends(m), m.command # "check",
         console'.epoch = console.epoch, console'.enabled = console.enabled,
         console'.active = console.active \/ (console'.active = 0 /\ Closes(toWorker', console.active)),
         UNCHANGED <<source, listed, shown, workerVars>>,
         counts'.checks = counts.checks,
         m.command = "context-open" => m.id = counts.opens /\ counts'.opens = counts.opens + 1 /\ m \in waiting',
         m.command # "context-open" => counts'.opens = counts.opens,
         waiting \subseteq waiting', RequestOK(m),
         panel' # NoPanel => panel # NoPanel /\ panel'.token = panel.token,
         SelectionInv', WorkerTypeOK'
  PROVE  WInv'
<1> USE DEF WInv
<1>1. OrderInv' /\ OnItsWay' \subseteq OnItsWay \cup Notices \cup {m}
  BY OrderSends
<1>2. ProgramInv'
  BY SameProgram DEF workerVars
<1>3. UNCHANGED <<sessions, toPage, installed, alive>>
  BY DEF workerVars, Sends
<1>4. RequestsOK'
  <2>1. SUFFICES ASSUME NEW r \in OnItsWay' PROVE RequestOK(r)'
    BY DEF RequestsOK
  <2>2. r \in Notices \/ RequestOK(r)
    BY <1>1 DEF RequestsOK
  <2>3. r \in Notices => RequestOK(r)
    BY DEF RequestOK, Notices
  <2>4. QED
    BY <1>3, <2>2, <2>3 DEF RequestOK
<1>5. RepliesOK'
  <2>1. \A i \in DOMAIN toPage : ReplyOK(toPage[i])
    BY DEF RepliesOK
  <2>2. ASSUME NEW p, ReplyOK(p) PROVE ReplyOK(p)'
    BY <1>3, <2>2 DEF ReplyOK
  <2>3. QED
    BY <1>3, <2>1, <2>2 DEF RepliesOK
<1>6. ConsoleInv'
  <2>1. panel'.token <= console'.epoch
    <3>1. console.epoch \in Nat
      BY DEF WorkerTypeOK, PageTypes, Consoles
    <3>2. QED
      BY <3>1 DEF ConsoleInv, NoPanel
  <2>2. console'.enabled => \A r \in OnItsWay' : r.command # "check"
    BY <1>1 DEF ConsoleInv, Notices
  <2>3. console'.active # 0 => console'.active = console.active
    OBVIOUS
  <2>4. QED
    BY <1>3, <2>1, <2>2, <2>3 DEF ConsoleInv
<1>7. HeldInv'
  <2>1. \A r \in OnItsWay' : r.command = "context-open" => r \in waiting'
    BY <1>1 DEF HeldInv, Notices
  <2>2. ASSUME NEW s \in DOMAIN sessions, Attended(s) PROVE Attended(s)'
    <3>1. 0 \notin DOMAIN sessions
      BY DEF WorkerTypeOK, WorkerTypes
    <3>2. s = console.active => s = console'.active \/ \E i \in DOMAIN toWorker' :
            toWorker'[i].command = "context-close" /\ toWorker'[i].session = s
      BY <3>1 DEF Closes
    <3>3. QED
      BY <2>2, <3>2, HoldersStay
  <2>3. QED
    BY <1>3, <2>1, <2>2 DEF HeldInv
<1>8. QED
  BY <1>1, <1>2, <1>4, <1>5, <1>6, <1>7

(* A session runs while the page shows it.                                 *)
LEMMA EnabledAlive == ConsoleInv /\ console.enabled /\ alive \in BOOLEAN => alive
BY DEF ConsoleInv

(* Asking for the points of the check shown.                               *)
LEMMA AskPointsKeeps == WInv /\ AskPoints => WInv'
<1>1. SUFFICES ASSUME WInv, AskPoints PROVE WInv'
  OBVIOUS
<1> USE DEF WInv
<1>2. PICK m : m = [command |-> "contexts", token |-> console.epoch]
  OBVIOUS
<1>3. alive
  BY <1>1, EnabledAlive DEF WorkerTypeOK, WorkerTypes, AskPoints
<1>4. /\ console.enabled /\ waiting' = waiting \cup {m} /\ toWorker' = toWorker \o <<m>>
      /\ UNCHANGED <<source, console, listed, panel, toPage, workerVars, shown, counts>>
  BY <1>1, <1>2, <1>3 DEF AskPoints, Post
<1>5. m \in Requests /\ m \in Messages /\ m.command = "contexts" /\ m.token = console.epoch /\ console.epoch \in Nat
  <2>1. console.epoch \in Nat
    BY <1>1 DEF WorkerTypeOK, PageTypes, Consoles
  <2>2. m \in PointRequests /\ m.command = "contexts"
    BY <1>2, <2>1 DEF PointRequests
  <2>3. QED
    BY <1>2, <2>1, <2>2 DEF Requests, Messages
<1>6. Sends(m)
  <2>1. toWorker \in Seq(Messages)
    BY <1>1 DEF WorkerTypeOK, WorkerTypes
  <2>2. QED
    BY <1>4, <1>5, <2>1, SendsOne DEF Sends, workerVars
<1>7. RequestOK(m)
  BY <1>4, <1>5 DEF RequestOK
<1>8. SelectionInv'
  <2>1. \A r \in waiting' : r \in waiting \/ r.command \notin {"context-open", "context-run"}
    BY <1>4, <1>5
  <2>2. QED
    BY <1>1, <1>4, <2>1 DEF SelectionInv, OfSelection
<1>9. WorkerTypeOK'
  BY <1>1, <1>4, <1>5, <1>6 DEF WorkerTypeOK, PageTypes, WorkerTypes, Sends, workerVars
<1>10. QED
  BY <1>1, <1>3, <1>4, <1>5, <1>6, <1>7, <1>8, <1>9, Asks

(* Giving the selection up.                                                *)
LEMMA DeselectKeeps == WInv /\ Deselect => WInv'
<1>1. SUFFICES ASSUME WInv, Deselect PROVE WInv'
  OBVIOUS
<1> USE DEF WInv
<1>2. PICK m : m = [command |-> "context-invalidate"]
  OBVIOUS
<1>3. m \in Messages /\ m \in Notices /\ m.command = "context-invalidate" /\ RequestOK(m)
  BY <1>2 DEF Messages, Notices, RequestOK
<1>4. alive
  BY <1>1, EnabledAlive DEF WorkerTypeOK, WorkerTypes, Deselect, ConsoleInv
<1>5. /\ console' = [console EXCEPT !.selection = @ + 1, !.active = 0] /\ toWorker' = toWorker \o Close(console.active)
      /\ UNCHANGED <<source, listed, panel, waiting, toPage, workerVars, shown, counts>>
  BY <1>1, <1>4 DEF Deselect, Post
<1>6. console \in Consoles /\ console.selection \in Nat /\ console.active \in Nat
  BY <1>1 DEF WorkerTypeOK, PageTypes, Consoles
<1>7. /\ console'.selection = console.selection + 1 /\ console'.active = 0 /\ console'.epoch = console.epoch
      /\ console'.enabled = console.enabled /\ console' \in Consoles
  <2>1. PICK s \in Nat : s = console.selection + 1
    BY <1>6
  <2>2. console' = [console EXCEPT !.selection = s, !.active = 0] /\ 0 \in Nat
    BY <1>5, <1>6, <2>1
  <2>3. QED
    BY <1>6, <2>1, <2>2 DEF Consoles
<1>8. Sends(m) /\ Closes(toWorker', console.active)
  <2>1. toWorker \in Seq(Messages)
    BY <1>1 DEF WorkerTypeOK, WorkerTypes
  <2>2. QED
    BY <1>5, <1>6, <2>1, SendsClose DEF Sends, workerVars
<1>9. SelectionInv'
  <2>1. panel.chosen \in Nat
    BY <1>1 DEF WorkerTypeOK, PageTypes, Panels
  <2>2. \A r \in waiting : r.command \in {"context-open", "context-run"} => r.chosen \in Nat
    BY <1>1 DEF WorkerTypeOK, PageTypes, Requests, CheckRequests, PointRequests, OpenRequests, RunRequests
  <2>3. panel.chosen <= console'.selection /\ panel.chosen # console'.selection
    BY <1>1, <1>6, <1>7, <2>1 DEF SelectionInv
  <2>4. \A r \in waiting : r.command \in {"context-open", "context-run"} =>
          r.chosen <= console'.selection /\ r.chosen # console'.selection
    BY <1>1, <1>6, <1>7, <2>2 DEF SelectionInv
  <2>5. QED
    BY <1>5, <2>3, <2>4 DEF SelectionInv, OfSelection
<1>10. WorkerTypeOK'
  BY <1>1, <1>5, <1>7, <1>8 DEF WorkerTypeOK, PageTypes, WorkerTypes, Sends, workerVars
<1>11. QED
  BY <1>1, <1>3, <1>4, <1>5, <1>7, <1>8, <1>9, <1>10, Asks

(* Opening a context, of a new selection or of the one there is.           *)
LEMMA OpensKeeps ==
  ASSUME WInv, NEW again \in BOOLEAN, Opens(again), listed = source, console.enabled,
         panel' # NoPanel => panel # NoPanel /\ panel'.token = panel.token, panel' \in Panels,
         again => panel # NoPanel /\ ~panel.busy /\ Current(panel) /\ panel'.chosen = panel.chosen /\ panel'.busy,
         ~again => panel' = NoPanel
  PROVE  WInv'
<1> USE DEF WInv
<1>1. alive
  BY EnabledAlive DEF WorkerTypeOK, WorkerTypes
<1>2. console \in Consoles /\ console.selection \in Nat /\ console.active \in Nat /\ console.epoch \in Nat
      /\ listed \in Nat /\ counts.opens \in Nat /\ toWorker \in Seq(Messages)
  BY DEF WorkerTypeOK, PageTypes, WorkerTypes, Consoles
<1>3. PICK chosen \in Nat : chosen = (IF again THEN console.selection ELSE console.selection + 1)
  BY <1>2
<1>4. PICK m : m = [command |-> "context-open", scope |-> listed, token |-> console.epoch, chosen |-> chosen,
                    again |-> again, id |-> counts.opens]
  OBVIOUS
<1>5. m \in Requests /\ m \in Messages /\ m.command = "context-open" /\ m.id = counts.opens /\ m.chosen = chosen
      /\ m.token = console.epoch /\ RequestOK(m)
  <2>1. m \in OpenRequests /\ m.command = "context-open"
    BY <1>2, <1>4 DEF OpenRequests
  <2>2. m \in Requests /\ m \in Messages
    BY <2>1 DEF Requests, Messages
  <2>3. m.id = counts.opens /\ m.chosen = chosen /\ m.token = console.epoch /\ m.scope = listed
    BY <1>4
  <2>4. RequestOK(m)
    BY <1>2, <2>1, <2>3 DEF RequestOK
  <2>5. QED
    BY <2>1, <2>2, <2>3, <2>4
<1>6. /\ console' = [console EXCEPT !.selection = chosen, !.active = 0]
      /\ toWorker' = toWorker \o (Close(console.active) \o <<m>>)
      /\ waiting' = waiting \cup {m}
      /\ counts' = [counts EXCEPT !.opens = @ + 1]
      /\ UNCHANGED <<source, listed, toPage, workerVars, shown>>
  BY <1>1, <1>3, <1>4 DEF Opens, Post
<1>7. /\ console'.selection = chosen /\ console'.active = 0 /\ console'.epoch = console.epoch
      /\ console'.enabled = console.enabled /\ console' \in Consoles
  BY <1>2, <1>3, <1>6 DEF Consoles
<1>8. Sends(m) /\ Closes(toWorker', console.active)
  <2>1. PICK d : d = toWorker \o (Close(console.active) \o <<m>>)
    OBVIOUS
  <2>2. d \in Seq(Messages) /\ Posted(toWorker, d, m) /\ Closes(d, console.active)
    BY <1>2, <1>5, <2>1, SendsBoth
  <2>3. QED
    BY <1>6, <2>1, <2>2 DEF Sends, workerVars
<1>9. counts'.checks = counts.checks /\ counts'.opens = counts.opens + 1
      /\ counts' \in [edits : Nat, checks : Nat, opens : Nat, runs : Nat]
  BY <1>6, Counted DEF WorkerTypeOK, PageTypes
<1>10. SelectionInv'
  <2>1. panel.chosen \in Nat /\ panel.busy \in BOOLEAN
    BY DEF WorkerTypeOK, PageTypes, Panels
  <2>2. \A r \in waiting : r.command \in {"context-open", "context-run"} => r.chosen \in Nat
    BY DEF WorkerTypeOK, PageTypes, Requests, CheckRequests, PointRequests, OpenRequests, RunRequests
  <2>3. \A r \in waiting : r.command \in {"context-open", "context-run"} =>
          r.chosen <= chosen /\ r.chosen # chosen
    <3>1. CASE ~again
      BY <1>2, <1>3, <2>2, <3>1 DEF SelectionInv
    <3>2. CASE again
      <4>1. panel.chosen = console.selection /\ chosen = console.selection
        BY <1>3, <3>2 DEF Current
      <4>2. QED
        BY <3>2, <4>1 DEF SelectionInv, OfSelection
    <3>3. QED
      BY <3>1, <3>2
  <2>4. panel'.chosen <= chosen /\ (panel'.chosen = chosen => panel'.token = console.epoch /\ panel'.busy)
    <3>1. CASE ~again
      BY <1>2, <1>3, <3>1 DEF NoPanel
    <3>2. CASE again
      <4>1. panel.chosen = console.selection /\ chosen = console.selection /\ panel.token = console.epoch
        BY <1>3, <3>2 DEF Current, Valid
      <4>2. panel' # NoPanel
        BY <3>2 DEF NoPanel
      <4>3. QED
        BY <1>2, <3>2, <4>1, <4>2
    <3>3. QED
      BY <3>1, <3>2
  <2>5. QED
    BY <1>5, <1>6, <1>7, <2>3, <2>4 DEF SelectionInv, OfSelection
<1>11. WorkerTypeOK'
  <2>1. PageTypes'
    BY <1>5, <1>6, <1>7, <1>9 DEF WorkerTypeOK, PageTypes
  <2>2. WorkerTypes'
    BY <1>6, <1>8 DEF WorkerTypeOK, WorkerTypes, Sends, workerVars
  <2>3. QED
    BY <2>1, <2>2 DEF WorkerTypeOK
<1>12. QED
  BY <1>1, <1>5, <1>6, <1>7, <1>8, <1>9, <1>10, <1>11, Asks

(* A context selected.                                                     *)
LEMMA SelectKeeps == WInv /\ Select => WInv'
<1>1. SUFFICES ASSUME WInv, Select PROVE WInv'
  OBVIOUS
<1>2. Opens(FALSE) /\ panel' = NoPanel /\ console.enabled /\ listed = source
  BY <1>1 DEF Select, WInv, ConsoleInv
<1>3. NoPanel \in Panels
  BY DEF NoPanel, Panels
<1>4. QED
  BY <1>1, <1>2, <1>3, OpensKeeps

(* The console reset: the same selection, opened again.                    *)
LEMMA ResetKeeps == WInv /\ Reset => WInv'
<1>1. SUFFICES ASSUME WInv, Reset PROVE WInv'
  OBVIOUS
<1>2. Opens(TRUE) /\ panel' = [panel EXCEPT !.busy = TRUE] /\ panel # NoPanel /\ ~panel.busy /\ Current(panel)
  BY <1>1 DEF Reset
<1>3. console.enabled /\ listed = source
  BY <1>1, <1>2 DEF WInv, ConsoleInv, Current, Valid
<1>4. panel \in Panels
  BY <1>1 DEF WInv, WorkerTypeOK, PageTypes
<1>5. panel' \in Panels /\ panel'.token = panel.token /\ panel'.chosen = panel.chosen /\ panel'.busy
  BY <1>2, <1>4 DEF Panels
<1>6. QED
  BY <1>1, <1>2, <1>3, <1>5, OpensKeeps

(* An entry of the panel.                                                  *)
LEMMA EnterKeeps == WInv /\ EnterLine => WInv'
<1>1. SUFFICES ASSUME WInv, EnterLine PROVE WInv'
  OBVIOUS
<1> USE DEF WInv
<1>2. PICK m : m = [command |-> "context-run", session |-> console.active, token |-> panel.token,
                    chosen |-> panel.chosen, id |-> counts.runs]
  OBVIOUS
<1>3. panel # NoPanel /\ ~panel.busy /\ Current(panel) /\ console.active # 0 /\ console.enabled
      /\ panel.chosen = console.selection /\ panel.token = console.epoch
  BY <1>1 DEF EnterLine, Current, Valid
<1>4. alive
  BY <1>1, <1>3, EnabledAlive DEF WorkerTypeOK, WorkerTypes
<1>5. /\ toWorker' = toWorker \o <<m>> /\ waiting' = waiting \cup {m}
      /\ panel' = [panel EXCEPT !.busy = TRUE] /\ counts' = [counts EXCEPT !.runs = @ + 1]
      /\ UNCHANGED <<source, console, listed, toPage, workerVars, shown>>
  BY <1>1, <1>2, <1>4 DEF EnterLine, Post
<1>6. panel \in Panels /\ panel.token \in Nat /\ panel.chosen \in Nat /\ console.active \in Nat /\ counts.runs \in Nat
      /\ toWorker \in Seq(Messages)
  BY <1>1 DEF WorkerTypeOK, PageTypes, WorkerTypes, Panels, Consoles
<1>7. panel' \in Panels /\ panel'.token = panel.token /\ panel'.chosen = panel.chosen /\ panel'.busy
  BY <1>5, <1>6 DEF Panels
<1>8. m \in Requests /\ m \in Messages /\ m.command = "context-run" /\ m.chosen = panel.chosen /\ m.token = panel.token
      /\ RequestOK(m)
  <2>1. m \in RunRequests /\ m.command = "context-run"
    BY <1>2, <1>6 DEF RunRequests
  <2>2. m \in Requests /\ m \in Messages
    BY <2>1 DEF Requests, Messages
  <2>3. m.chosen = panel.chosen /\ m.token = panel.token /\ m.session = console.active
    BY <1>2
  <2>4. RequestOK(m)
    BY <1>1, <1>3, <2>1, <2>3 DEF RequestOK, ConsoleInv
  <2>5. QED
    BY <2>1, <2>2, <2>3, <2>4
<1>9. Sends(m)
  BY <1>5, <1>6, <1>8, SendsOne DEF Sends, workerVars
<1>10. counts'.checks = counts.checks /\ counts'.opens = counts.opens
      /\ counts' \in [edits : Nat, checks : Nat, opens : Nat, runs : Nat]
  BY <1>1, <1>5, Counted DEF WorkerTypeOK, PageTypes
<1>11. SelectionInv'
  <2>1. \A r \in waiting : ~ OfSelection(r)
    BY <1>1, <1>3 DEF SelectionInv
  <2>2. m.chosen <= console.selection /\ m.chosen = console.selection /\ m.token = console.epoch
    BY <1>3, <1>6, <1>8
  <2>3. QED
    BY <1>1, <1>5, <1>7, <1>8, <2>1, <2>2 DEF SelectionInv, OfSelection
<1>12. WorkerTypeOK'
  <2>1. PageTypes'
    BY <1>1, <1>5, <1>7, <1>8, <1>10 DEF WorkerTypeOK, PageTypes
  <2>2. WorkerTypes'
    BY <1>1, <1>5, <1>9 DEF WorkerTypeOK, WorkerTypes, Sends, workerVars
  <2>3. QED
    BY <2>1, <2>2 DEF WorkerTypeOK
<1>13. QED
  BY <1>1, <1>3, <1>4, <1>5, <1>7, <1>8, <1>9, <1>10, <1>11, <1>12, Asks

-----------------------------------------------------------------------------
(* The page receives the oldest answer, and perhaps closes a session.      *)

Receives ==
  /\ toPage # <<>> /\ toPage' = Tail(toPage) /\ waiting' = waiting \ {Head(toPage).request}
  /\ toWorker' \in Seq(Messages) /\ Posted(toWorker, toWorker', [command |-> "context-invalidate"])
  /\ UNCHANGED <<source, workerVars, counts>>
  /\ PageTypes'

(* What comes after the answer was asked for later.                        *)
LEMMA PipeReceived ==
  ASSUME WInv, Receives
  PROVE  /\ OrderInv' /\ ProgramInv' /\ alive /\ WorkerTypeOK'
         /\ OnItsWay' \subseteq OnItsWay \cup Notices
         /\ \A x \in OnItsWay' : Earlier("check", Head(toPage).request, x) /\ Earlier("context-open", Head(toPage).request, x)
<1> USE DEF WInv
<1>1. PICK m : m = [command |-> "context-invalidate"]
  OBVIOUS
<1>2. m \in Notices /\ m.command = "context-invalidate"
  BY <1>1 DEF Notices
<1>3. \A x : Earlier("check", x, m) /\ Earlier("context-open", x, m)
  BY <1>2 DEF Earlier
<1>4. \A x, y : y \in Notices => Earlier("check", x, y) /\ Earlier("context-open", x, y)
  BY DEF Earlier, Notices
<1>5. toPage \in Seq(Replies) /\ toWorker \in Seq(Messages) /\ alive \in BOOLEAN
  BY DEF WorkerTypeOK, WorkerTypes
<1>6. PICK t : t = Tail(toPage)
  OBVIOUS
<1>7. ASSUME NEW k \in {"check", "context-open"}
      PROVE  /\ Pipe(t, running, queue, toWorker) \subseteq OnItsWay
             /\ Ordered(k, t, running, queue, toWorker)
             /\ \A x \in Pipe(t, running, queue, toWorker) : Earlier(k, Head(toPage).request, x)
  <2>1. Ordered(k, toPage, running, queue, toWorker) /\ toPage # <<>>
    BY DEF OrderInv, Receives
  <2>2. QED
    BY <1>5, <1>6, <2>1, PipeReceives DEF OnItsWay
<1>8. ASSUME NEW k \in {"check", "context-open"}
      PROVE  /\ Ordered(k, t, running, queue, toWorker')
             /\ Pipe(t, running, queue, toWorker') \subseteq Pipe(t, running, queue, toWorker) \cup Notices \cup {m}
  <2>1. toWorker' \in Seq(Messages) /\ Posted(toWorker, toWorker', m)
    BY <1>1 DEF Receives
  <2>2. \A x \in Pipe(t, running, queue, toWorker) : Earlier(k, x, m)
    BY <1>3
  <2>3. QED
    BY <1>5, <1>7, <2>1, <2>2, PipePosts
<1>9. OnItsWay' = Pipe(t, running, queue, toWorker') /\ toPage' = t /\ running' = running /\ queue' = queue
  BY <1>6 DEF OnItsWay, Receives, workerVars
<1>10. OnItsWay' \subseteq OnItsWay \cup Notices
  BY <1>2, <1>7, <1>8, <1>9
<1>11. \A x \in Notices : x.command # "check" /\ x.command # "context-open"
  BY DEF Notices
<1>12. OrderInv'
  <2>1. Numbered("check", counts.checks)' /\ Numbered("context-open", counts.opens)'
    BY <1>10, <1>11 DEF OrderInv, Numbered, Receives
  <2>2. QED
    BY <1>8, <1>9, <2>1 DEF OrderInv
<1>13. \A x \in OnItsWay' : Earlier("check", Head(toPage).request, x) /\ Earlier("context-open", Head(toPage).request, x)
  BY <1>2, <1>4, <1>7, <1>8, <1>9
<1>14. ProgramInv'
  BY SameProgram DEF Receives, workerVars
<1>15. alive
  BY <1>5 DEF Receives, ConsoleInv
<1>16. WorkerTypeOK'
  <2>1. t \in Seq(Replies)
    BY <1>5, <1>6, TailShape DEF Receives
  <2>2. WorkerTypes'
    BY <1>9, <2>1 DEF WorkerTypeOK, WorkerTypes, Receives, workerVars
  <2>3. QED
    BY <2>2 DEF WorkerTypeOK, Receives
<1>17. QED
  BY <1>10, <1>12, <1>13, <1>14, <1>15, <1>16

(* The answer received was good, and the others remain.                    *)
LEMMA AnswerReceived ==
  ASSUME WInv, Receives
  PROVE  /\ Head(toPage) \in Replies /\ Head(toPage).request \in Requests /\ Head(toPage).request \in OnItsWay
         /\ ReplyOK(Head(toPage)) /\ RequestOK(Head(toPage).request)
         /\ \A i \in DOMAIN toPage' : \E j \in DOMAIN toPage : toPage'[i] = toPage[j]
         /\ \A i \in DOMAIN toPage : toPage[i] = Head(toPage) \/ \E j \in DOMAIN toPage' : toPage'[j] = toPage[i]
<1> USE DEF WInv
<1>1. toPage \in Seq(Replies) /\ toPage # <<>> /\ toPage' = Tail(toPage)
  BY DEF WorkerTypeOK, WorkerTypes, Receives
<1>2. /\ Head(toPage) = toPage[1] /\ 1 \in DOMAIN toPage /\ toPage[1] \in Replies
      /\ \A i \in DOMAIN toPage' : i \in Nat /\ i + 1 \in DOMAIN toPage /\ toPage'[i] = toPage[i + 1]
      /\ \A i \in DOMAIN toPage : i # 1 => \E j \in DOMAIN toPage' : i = j + 1 /\ toPage'[j] = toPage[i]
  BY <1>1, TailShape
<1>3. Head(toPage).request \in Requests /\ Head(toPage).request \in OnItsWay
  BY <1>2, PipeTypes
<1>4. ReplyOK(Head(toPage)) /\ RequestOK(Head(toPage).request)
  BY <1>2, <1>3 DEF RepliesOK, RequestsOK
<1>5. \A i \in DOMAIN toPage' : \E j \in DOMAIN toPage : toPage'[i] = toPage[j]
  BY <1>2
<1>6. \A i \in DOMAIN toPage : toPage[i] = Head(toPage) \/ \E j \in DOMAIN toPage' : toPage'[j] = toPage[i]
  BY <1>2
<1>7. QED
  BY <1>2, <1>3, <1>4, <1>5, <1>6

(* Requests and answers stay as good when nothing was invalidated.         *)
LEMMA StillGood ==
  ASSUME WInv, Receives, console'.epoch = console.epoch, console.enabled => console'.enabled,
         listed' = listed \/ listed' = source
  PROVE  RequestsOK' /\ RepliesOK'
<1> USE DEF WInv
<1>1. UNCHANGED <<source, sessions, counts, installed>>
  BY DEF Receives, workerVars
<1>2. ASSUME NEW r \in OnItsWay' PROVE RequestOK(r)'
  <2>1. r \in OnItsWay \/ r \in Notices
    BY PipeReceived
  <2>2. CASE r \in Notices
    BY <2>2 DEF RequestOK, Notices
  <2>3. CASE r \in OnItsWay
    BY <1>1, <2>3 DEF RequestsOK, RequestOK
  <2>4. QED
    BY <2>1, <2>2, <2>3
<1>3. ASSUME NEW p, ReplyOK(p) PROVE ReplyOK(p)'
  BY <1>1, <1>3 DEF ReplyOK
<1>4. \A i \in DOMAIN toPage' : \A p : p = toPage'[i] => ReplyOK(p)'
  BY <1>3, AnswerReceived DEF RepliesOK
<1>5. RepliesOK'
  BY <1>4 DEF RepliesOK, ReplyOK
<1>6. QED
  BY <1>2, <1>5 DEF RequestsOK

(* No session is forgotten that was open: but the one answered for and the *)
(* one that was active, the others hang on what they did.                  *)
LEMMA HeldReceived ==
  ASSUME WInv, Receives,
         \A s \in DOMAIN sessions :
           \/ ~ (s = console.active \/ (/\ Head(toPage).request.command = "context-open"
                                        /\ Head(toPage).ok /\ Head(toPage).value = s))
           \/ s = console'.active
           \/ Closes(toWorker', s)
  PROVE  HeldInv'
<1> USE DEF WInv
<1>1. alive /\ UNCHANGED sessions
  BY PipeReceived DEF Receives, workerVars
<1>2. ASSUME NEW x \in OnItsWay', x.command = "context-open" PROVE x \in waiting'
  <2>1. x \in OnItsWay /\ x.id \in Nat
    BY <1>2, PipeReceived, PipeTypes DEF Notices
  <2>2. Earlier("context-open", Head(toPage).request, x)
    BY PipeReceived
  <2>3. x # Head(toPage).request
    BY <1>2, <2>1, <2>2 DEF Earlier
  <2>4. QED
    BY <1>1, <1>2, <2>1, <2>3 DEF HeldInv, Receives
<1>3. ASSUME NEW s \in DOMAIN sessions, Attended(s) PROVE Attended(s)'
  <2>1. CASE s = console.active \/ (/\ Head(toPage).request.command = "context-open"
                                    /\ Head(toPage).ok /\ Head(toPage).value = s)
    <3>1. s # 0
      BY DEF WorkerTypeOK, WorkerTypes
    <3>2. s = console'.active \/ Closes(toWorker', s)
      BY <2>1
    <3>3. QED
      BY <3>1, <3>2 DEF Attended, Closes
  <2>2. CASE \E i \in DOMAIN toWorker :
               \/ toWorker[i].command = "context-close" /\ toWorker[i].session = s
               \/ Revoking(toWorker[i])
    BY <2>2 DEF Attended, Receives, Posted
  <2>3. CASE /\ ~ (s = console.active \/ (/\ Head(toPage).request.command = "context-open"
                                          /\ Head(toPage).ok /\ Head(toPage).value = s))
             /\ \E i \in DOMAIN toPage : toPage[i].request.command = "context-open" /\ toPage[i].ok /\ toPage[i].value = s
    <3>1. PICK i \in DOMAIN toPage : toPage[i].request.command = "context-open" /\ toPage[i].ok /\ toPage[i].value = s
      BY <2>3
    <3>2. toPage[i] # Head(toPage)
      BY <2>3, <3>1
    <3>3. PICK j \in DOMAIN toPage' : toPage'[j] = toPage[i]
      BY <3>2, AnswerReceived
    <3>4. QED
      BY <3>1, <3>3 DEF Attended
  <2>4. QED
    BY <1>3, <2>1, <2>2, <2>3 DEF Attended
<1>4. QED
  BY <1>1, <1>2, <1>3 DEF HeldInv

(* The result of a check.                                                  *)
LEMMA CheckedKeeps ==
  ASSUME WInv, Receives, Head(toPage).request.command = "check",
         Checked(Head(toPage).request, Head(toPage))
  PROVE  WInv'
<1> USE DEF WInv
<1>1. PICK p \in Replies : p = Head(toPage)
  BY AnswerReceived
<1>2. PICK q \in Requests : q = p.request
  BY <1>1, AnswerReceived
<1>3. q.command = "check" /\ q \in OnItsWay /\ ReplyOK(p) /\ RequestOK(q) /\ q \in CheckRequests
  <2>1. q.command = "check" /\ q \in OnItsWay /\ ReplyOK(p) /\ RequestOK(q)
    BY <1>1, <1>2, AnswerReceived
  <2>2. QED
    BY <2>1 DEF Requests, CheckRequests, PointRequests, OpenRequests, RunRequests
<1>4. OrderInv' /\ ProgramInv' /\ alive /\ WorkerTypeOK'
      /\ OnItsWay' \subseteq OnItsWay \cup Notices
      /\ \A x \in OnItsWay' : Earlier("check", q, x)
  BY <1>1, <1>2, PipeReceived
<1>5. UNCHANGED <<source, sessions, counts, installed, alive>>
  BY DEF Receives, workerVars
<1>6. waiting' \subseteq waiting
  BY DEF Receives
<1>7. CASE ~p.ok
  <2>1. console' = Invalid /\ listed' = 0 /\ UNCHANGED <<panel, shown>> /\ toWorker' = toWorker \o Close(console.active)
    BY <1>1, <1>4, <1>7 DEF Checked, Post
  <2>2. console'.epoch = console.epoch + 1 /\ console.epoch \in Nat /\ console'.enabled = FALSE /\ console'.active = 0
        /\ console.active \in Nat
    BY <2>1, InvalidShape DEF WorkerTypeOK, PageTypes
  <2>3. RequestsOK'
    <3>1. SUFFICES ASSUME NEW r \in OnItsWay' PROVE RequestOK(r)'
      BY DEF RequestsOK
    <3>2. r \in Notices => RequestOK(r)'
      BY DEF RequestOK, Notices
    <3>3. r \in OnItsWay => RequestOK(r)'
      BY <1>5, <2>1, Outdated
    <3>4. QED
      BY <1>4, <3>2, <3>3
  <2>4. RepliesOK'
    <3>1. \A i \in DOMAIN toPage' : \A x : x = toPage'[i] => x.request \in OnItsWay /\ ReplyOK(x)
      BY AnswerReceived, PipeTypes DEF RepliesOK
    <3>2. \A i \in DOMAIN toPage' : \A x : x = toPage'[i] => ReplyOK(x)'
      BY <1>5, <2>1, <3>1, OutdatedReply
    <3>3. QED
      BY <3>2 DEF RepliesOK, ReplyOK
  <2>5. ConsoleInv'
    <3>1. panel.token \in Nat
      BY DEF WorkerTypeOK, PageTypes, Panels
    <3>2. panel'.token <= console'.epoch /\ panel'.token # console'.epoch
      BY <2>1, <2>2, <3>1 DEF ConsoleInv
    <3>3. QED
      BY <1>4, <1>5, <2>1, <2>2, <3>2 DEF ConsoleInv
  <2>6. SelectionInv'
    BY <1>6, <2>1, SelectionEnds
  <2>7. HeldInv'
    <3>1. Closes(toWorker', console.active)
      BY <2>1, <2>2, SendsClose DEF WorkerTypeOK, WorkerTypes
    <3>2. QED
      BY <1>1, <1>2, <1>3, <3>1, HeldReceived
  <2>8. QED
    BY <1>4, <2>3, <2>4, <2>5, <2>6, <2>7
<1>8. CASE p.ok /\ q.token = console.epoch
  <2>1. console' = [console EXCEPT !.enabled = q.collect, !.version = q.of] /\ UNCHANGED <<listed, panel, shown, toWorker>>
    BY <1>1, <1>2, <1>8 DEF Checked
  <2>2. console'.epoch = console.epoch /\ console'.selection = console.selection /\ console'.active = console.active
        /\ console.epoch \in Nat
    BY <2>1 DEF WorkerTypeOK, PageTypes, Consoles
  <2>3. ~console.enabled
    BY <1>3 DEF ConsoleInv
  <2>4. installed.version = source /\ q.id + 1 = counts.checks /\ listed = 0 /\ console.active = 0
    <3>1. installed.version = source
      BY <1>2, <1>3, <1>8 DEF ReplyOK
    <3>2. q.id + 1 = counts.checks
      BY <1>3, <1>8 DEF RequestOK
    <3>3. QED
      BY <2>3, <3>1, <3>2 DEF ConsoleInv
  <2>5. \A x \in OnItsWay' : x.command # "check"
    <3>1. SUFFICES ASSUME NEW x \in OnItsWay', x.command = "check" PROVE FALSE
      OBVIOUS
    <3>2. q.id < x.id
      BY <1>3, <1>4, <3>1 DEF Earlier
    <3>3. x.id < counts.checks
      BY <1>4, <1>5, <3>1 DEF OrderInv, Numbered
    <3>4. x \in OnItsWay /\ x.id \in Nat /\ q.id \in Nat
      BY <1>3, <1>4, <3>1, PipeTypes DEF Notices
    <3>5. QED
      BY <2>4, <3>2, <3>3, <3>4
  <2>6. RequestsOK' /\ RepliesOK'
    BY <2>1, <2>2, <2>3, StillGood
  <2>7. ConsoleInv'
    BY <1>4, <1>5, <2>1, <2>2, <2>4, <2>5 DEF ConsoleInv
  <2>8. SelectionInv'
    BY <1>6, <2>1, <2>2 DEF SelectionInv, OfSelection
  <2>9. HeldInv'
    BY <1>1, <1>2, <1>3, <2>2, HeldReceived
  <2>10. QED
    BY <1>4, <2>6, <2>7, <2>8, <2>9
<1>9. CASE p.ok /\ q.token # console.epoch
  <2>1. UNCHANGED <<console, listed, panel, shown, toWorker>>
    BY <1>1, <1>2, <1>9 DEF Checked
  <2>2. RequestsOK' /\ RepliesOK'
    BY <2>1, StillGood
  <2>3. ConsoleInv'
    <3>1. \A x \in OnItsWay' : x \in OnItsWay \/ x.command # "check"
      BY <1>4 DEF Notices
    <3>2. QED
      BY <1>4, <1>5, <2>1, <3>1 DEF ConsoleInv
  <2>4. SelectionInv'
    BY <1>6, <2>1 DEF SelectionInv, OfSelection
  <2>5. HeldInv'
    BY <1>1, <1>2, <1>3, <2>1, HeldReceived
  <2>6. QED
    BY <1>4, <2>2, <2>3, <2>4, <2>5
<1>10. QED
  BY <1>7, <1>8, <1>9

(* What holds whatever is answered to a request about the check shown.     *)
LEMMA StillShown ==
  ASSUME WInv, Receives, console'.epoch = console.epoch, console'.enabled = console.enabled,
         listed' = listed \/ (listed' = source /\ console.enabled),
         panel' # NoPanel /\ panel'.token = console.epoch => listed' = source,
         panel'.token <= console.epoch,
         console'.active = console.active
           \/ (console.enabled /\ console'.active \in DOMAIN sessions /\ sessions[console'.active].version = source),
         shown' # NotShown => shown'.version = shown'.of
  PROVE  OrderInv' /\ ProgramInv' /\ WorkerTypeOK' /\ RequestsOK' /\ RepliesOK' /\ ConsoleInv'
<1> USE DEF WInv
<1>1. OrderInv' /\ ProgramInv' /\ alive /\ WorkerTypeOK' /\ OnItsWay' \subseteq OnItsWay \cup Notices
  BY PipeReceived
<1>2. UNCHANGED <<source, sessions, counts, installed, alive>>
  BY DEF Receives, workerVars
<1>3. RequestsOK' /\ RepliesOK'
  BY StillGood
<1>4. \A x \in OnItsWay' : x \in OnItsWay \/ x.command # "check"
  BY <1>1 DEF Notices
<1>5. listed' # 0 => console'.enabled /\ listed' = source
  BY DEF ConsoleInv
<1>6. console'.active # 0 => /\ console'.enabled /\ console'.active \in DOMAIN sessions
                             /\ sessions[console'.active].version = source
  BY DEF ConsoleInv
<1>7. ConsoleInv'
  BY <1>1, <1>2, <1>4, <1>5, <1>6 DEF ConsoleInv
<1>8. QED
  BY <1>1, <1>3, <1>7

(* The points of a check.                                                  *)
LEMMA PointsKeeps ==
  ASSUME WInv, Receives, Head(toPage).request.command = "contexts",
         Points(Head(toPage).request, Head(toPage))
  PROVE  WInv'
<1> USE DEF WInv
<1>1. PICK p \in Replies : p = Head(toPage)
  BY AnswerReceived
<1>2. p.request.command = "contexts" /\ ReplyOK(p)
  BY <1>1, AnswerReceived
<1>3. /\ listed' = (IF p.ok /\ Valid(p.request.token) THEN p.value ELSE listed)
      /\ UNCHANGED <<console, panel, shown, toWorker>>
  BY <1>1 DEF Points
<1>4. listed' = listed \/ (listed' = source /\ console.enabled)
  BY <1>2, <1>3 DEF ReplyOK, Valid
<1>5. OrderInv' /\ ProgramInv' /\ WorkerTypeOK' /\ RequestsOK' /\ RepliesOK' /\ ConsoleInv'
  BY <1>3, <1>4, StillShown DEF ConsoleInv
<1>6. SelectionInv'
  BY <1>3 DEF SelectionInv, OfSelection, Receives
<1>7. HeldInv'
  BY <1>1, <1>2, <1>3, HeldReceived
<1>8. QED
  BY <1>5, <1>6, <1>7

(* Once the one request of the selection is answered the panel is free.    *)
LEMMA SelectionAnswered ==
  ASSUME WInv, NEW q \in waiting, waiting' = waiting \ {q}, q.command \in {"context-open", "context-run"},
         console'.epoch = console.epoch, console'.selection = console.selection,
         console'.active = console.active \/ q.chosen = console.selection,
         \/ panel'.token = panel.token /\ panel'.chosen = panel.chosen
            /\ (panel'.busy = panel.busy \/ panel.chosen = q.chosen)
         \/ panel'.token = q.token /\ panel'.chosen = q.chosen /\ q.chosen = console.selection
  PROVE  SelectionInv'
<1> USE DEF WInv
<1>1. q.chosen <= console.selection /\ (q.chosen = console.selection => q.token = console.epoch)
  BY DEF SelectionInv
<1>2. q.chosen = console.selection => \A r \in waiting' : ~ OfSelection(r)
  BY DEF SelectionInv, OfSelection
<1>3. panel'.chosen <= console.selection /\ (panel'.chosen = console.selection => panel'.token = console.epoch)
  BY <1>1 DEF SelectionInv
<1>4. \A r \in waiting' : OfSelection(r) /\ panel'.chosen = console.selection => panel'.busy
  <2>1. CASE q.chosen = console.selection
    BY <1>2, <2>1
  <2>2. CASE q.chosen # console.selection
    BY <2>2 DEF SelectionInv
  <2>3. QED
    BY <2>1, <2>2
<1>5. \A r \in waiting' : OfSelection(r) /\ r.command = "context-open" => console'.active = 0
  BY <1>2 DEF SelectionInv
<1>6. QED
  BY <1>3, <1>4, <1>5 DEF SelectionInv, OfSelection

(* A panel that is free or busy is otherwise the same.                     *)
LEMMA PanelFree ==
  ASSUME panel \in Panels, NEW b \in BOOLEAN
  PROVE  /\ [panel EXCEPT !.busy = b] \in Panels
         /\ [panel EXCEPT !.busy = b].token = panel.token /\ [panel EXCEPT !.busy = b].chosen = panel.chosen
         /\ [panel EXCEPT !.busy = b].busy = b
BY DEF Panels

(* Freeing no panel does nothing.                                          *)
LEMMA NoPanelFree ==
  ASSUME panel = NoPanel
  PROVE  [panel EXCEPT !.busy = FALSE] = NoPanel
<1>1. NoPanel \in Panels
  BY DEF NoPanel, Panels
<1>2. PICK x : x = [panel EXCEPT !.busy = FALSE]
  OBVIOUS
<1>3. x \in Panels /\ x.token = NoPanel.token /\ x.chosen = NoPanel.chosen /\ x.busy = FALSE
  BY <1>1, <1>2, PanelFree
<1>4. \A u, v \in Panels : u.token = v.token /\ u.chosen = v.chosen /\ u.busy = v.busy => u = v
  BY DEF Panels
<1>5. NoPanel.busy = FALSE
  BY DEF NoPanel
<1>6. QED
  BY <1>1, <1>2, <1>3, <1>4, <1>5

(* A context opened, shown if it is still selected and closed otherwise.   *)
LEMMA OpenedKeeps ==
  ASSUME WInv, Receives, Head(toPage).request.command = "context-open",
         Opened(Head(toPage).request, Head(toPage))
  PROVE  WInv'
<1> USE DEF WInv
<1>1. PICK p \in Replies : p = Head(toPage)
  BY AnswerReceived
<1>2. PICK q \in Requests : q = p.request
  BY <1>1, AnswerReceived
<1>3. q.command = "context-open" /\ q \in OnItsWay /\ ReplyOK(p) /\ RequestOK(q) /\ q \in OpenRequests
  <2>1. q.command = "context-open" /\ q \in OnItsWay /\ ReplyOK(p) /\ RequestOK(q)
    BY <1>1, <1>2, AnswerReceived
  <2>2. QED
    BY <2>1 DEF Requests, CheckRequests, PointRequests, OpenRequests, RunRequests
<1>4. alive /\ q \in waiting /\ waiting' = waiting \ {q} /\ UNCHANGED sessions
  BY <1>1, <1>2, <1>3, PipeReceived DEF HeldInv, Receives, workerVars
<1>5. PICK free : free = (IF q.again /\ panel.chosen = q.chosen THEN [panel EXCEPT !.busy = FALSE] ELSE panel)
  OBVIOUS
<1>6. /\ free.token = panel.token /\ free.chosen = panel.chosen
      /\ free.busy = panel.busy \/ panel.chosen = q.chosen
      /\ free # NoPanel => panel # NoPanel
  <2>1. panel \in Panels
    BY DEF WorkerTypeOK, PageTypes
  <2>2. QED
    BY <1>5, <2>1, PanelFree, NoPanelFree
<1>7. UNCHANGED <<listed, shown>> /\ console.active \in Nat
  BY DEF Opened, WorkerTypeOK, PageTypes, Consoles
<1>8. CASE ~p.ok
  <2>1. panel' = free /\ UNCHANGED <<console, toWorker>>
    BY <1>1, <1>2, <1>5, <1>8 DEF Opened
  <2>2. OrderInv' /\ ProgramInv' /\ WorkerTypeOK' /\ RequestsOK' /\ RepliesOK' /\ ConsoleInv'
    BY <1>6, <1>7, <2>1, StillShown DEF ConsoleInv
  <2>3. SelectionInv'
    BY <1>3, <1>4, <1>6, <2>1, SelectionAnswered
  <2>4. HeldInv'
    BY <1>1, <1>8, <2>1, HeldReceived
  <2>5. QED
    BY <2>2, <2>3, <2>4
<1>9. CASE p.ok /\ ~Current(q)
  <2>1. panel' = free /\ UNCHANGED console /\ toWorker' = toWorker \o Close(p.value)
    BY <1>1, <1>2, <1>4, <1>5, <1>9 DEF Opened, Post
  <2>2. OrderInv' /\ ProgramInv' /\ WorkerTypeOK' /\ RequestsOK' /\ RepliesOK' /\ ConsoleInv'
    BY <1>6, <1>7, <2>1, StillShown DEF ConsoleInv
  <2>3. SelectionInv'
    BY <1>3, <1>4, <1>6, <2>1, SelectionAnswered
  <2>4. HeldInv'
    <3>1. p.value \in Nat
      BY DEF Replies
    <3>2. Closes(toWorker', p.value)
      BY <2>1, <3>1, SendsClose DEF WorkerTypeOK, WorkerTypes
    <3>3. QED
      BY <1>1, <2>1, <3>2, HeldReceived
  <2>5. QED
    BY <2>2, <2>3, <2>4
<1>10. CASE p.ok /\ Current(q)
  <2>1. /\ console' = [console EXCEPT !.active = p.value] /\ UNCHANGED toWorker
        /\ panel' = (IF q.again THEN free ELSE [token |-> q.token, chosen |-> q.chosen, busy |-> FALSE])
    BY <1>1, <1>2, <1>5, <1>10 DEF Opened
  <2>2. console'.epoch = console.epoch /\ console'.selection = console.selection /\ console'.active = p.value
        /\ console'.enabled = console.enabled /\ console.epoch \in Nat
    BY <2>1 DEF WorkerTypeOK, PageTypes, Consoles
  <2>3. console.enabled /\ q.token = console.epoch /\ q.chosen = console.selection
    BY <1>10 DEF Current, Valid
  <2>4. p.value \in DOMAIN sessions /\ sessions[p.value].version = source /\ listed = source
    BY <1>2, <1>3, <1>10, <2>3 DEF ReplyOK, RequestOK
  <2>5. panel'.token <= console.epoch
    BY <1>6, <2>1, <2>2, <2>3 DEF ConsoleInv
  <2>6. OrderInv' /\ ProgramInv' /\ WorkerTypeOK' /\ RequestsOK' /\ RepliesOK' /\ ConsoleInv'
    BY <1>7, <2>2, <2>3, <2>4, <2>5, StillShown DEF ConsoleInv
  <2>7. SelectionInv'
    <3>1. \/ panel'.token = panel.token /\ panel'.chosen = panel.chosen
             /\ (panel'.busy = panel.busy \/ panel.chosen = q.chosen)
          \/ panel'.token = q.token /\ panel'.chosen = q.chosen /\ q.chosen = console.selection
      BY <1>6, <2>1, <2>3
    <3>2. QED
      BY <1>3, <1>4, <2>2, <2>3, <3>1, SelectionAnswered
  <2>8. HeldInv'
    <3>1. console.active = 0
      BY <1>3, <1>4, <2>3 DEF SelectionInv, OfSelection
    <3>2. 0 \notin DOMAIN sessions
      BY DEF WorkerTypeOK, WorkerTypes
    <3>3. QED
      BY <1>1, <2>2, <3>1, <3>2, HeldReceived
  <2>9. QED
    BY <2>6, <2>7, <2>8
<1>11. QED
  BY <1>8, <1>9, <1>10

(* The result of an entry.                                                 *)
LEMMA RanKeeps ==
  ASSUME WInv, Receives, Head(toPage).request.command = "context-run", Head(toPage).request \in waiting,
         Ran(Head(toPage).request, Head(toPage))
  PROVE  WInv'
<1> USE DEF WInv
<1>1. PICK p \in Replies : p = Head(toPage)
  BY AnswerReceived
<1>2. PICK q \in Requests : q = p.request
  BY <1>1, AnswerReceived
<1>3. q.command = "context-run" /\ q \in waiting /\ ReplyOK(p) /\ waiting' = waiting \ {q}
  BY <1>1, <1>2, AnswerReceived DEF Receives
<1>4. /\ shown' = (IF p.ok /\ Current(q) /\ console.active = q.session THEN [version |-> p.value, of |-> source] ELSE shown)
      /\ panel' = (IF panel.chosen = q.chosen THEN [panel EXCEPT !.busy = FALSE] ELSE panel)
      /\ UNCHANGED <<console, listed, toWorker>>
  BY <1>1, <1>2 DEF Ran
<1>5. panel \in Panels /\ console.active \in Nat /\ 0 \notin DOMAIN sessions
  BY DEF WorkerTypeOK, PageTypes, WorkerTypes, Consoles
<1>6. /\ panel'.token = panel.token /\ panel'.chosen = panel.chosen
      /\ panel'.busy = panel.busy \/ panel.chosen = q.chosen
      /\ panel' # NoPanel => panel # NoPanel
  BY <1>4, <1>5, PanelFree, NoPanelFree
<1>7. shown' # NotShown => shown'.version = shown'.of
  <2>1. CASE p.ok /\ Current(q) /\ console.active = q.session
    <3>1. q.session \in DOMAIN sessions
      BY <1>1, <1>2, <1>3, AnswerReceived DEF RequestOK
    <3>2. sessions[q.session].version = source
      BY <1>5, <2>1, <3>1 DEF ConsoleInv
    <3>3. p.value = source
      BY <1>2, <1>3, <2>1, <3>2 DEF ReplyOK
    <3>4. QED
      BY <1>4, <2>1, <3>3
  <2>2. CASE ~ (p.ok /\ Current(q) /\ console.active = q.session)
    BY <1>4, <2>2 DEF ConsoleInv
  <2>3. QED
    BY <2>1, <2>2
<1>8. OrderInv' /\ ProgramInv' /\ WorkerTypeOK' /\ RequestsOK' /\ RepliesOK' /\ ConsoleInv'
  BY <1>4, <1>6, <1>7, StillShown DEF ConsoleInv
<1>9. SelectionInv'
  BY <1>3, <1>4, <1>6, SelectionAnswered
<1>10. HeldInv'
  BY <1>1, <1>2, <1>3, <1>4, HeldReceived
<1>11. QED
  BY <1>8, <1>9, <1>10

(* The page receives an answer.                                            *)
LEMMA ReceiveKeeps == WInv /\ Receive => WInv'
<1>1. SUFFICES ASSUME WInv, Receive PROVE WInv'
  OBVIOUS
<1> USE DEF WInv
<1>2. toPage # <<>> /\ toPage' = Tail(toPage) /\ UNCHANGED <<source, workerVars, counts>>
      /\ waiting' = waiting \ {Head(toPage).request}
  BY <1>1 DEF Receive
<1>3. toPage \in Seq(Replies) /\ toWorker \in Seq(Messages) /\ console \in Consoles /\ panel \in Panels /\ alive
      /\ source \in Nat /\ console.active \in Nat
  BY <1>1, <1>2 DEF WorkerTypeOK, PageTypes, WorkerTypes, ConsoleInv, Consoles
<1>4. PICK p \in Replies : p = Head(toPage)
  BY <1>2, <1>3, TailShape
<1>5. PICK q \in Requests : q = p.request
  BY <1>4 DEF Replies
<1>6. p.ok \in BOOLEAN /\ p.value \in Nat
  BY DEF Replies
<1>7. \A c \in Seq(Messages) : Posted(c, c, [command |-> "context-invalidate"])
  BY DEF Posted
<1>8. ASSUME NEW s \in Nat, toWorker' = toWorker \o Close(s)
      PROVE  toWorker' \in Seq(Messages) /\ Posted(toWorker, toWorker', [command |-> "context-invalidate"])
  BY <1>3, <1>8, SendsClose
<1>9. waiting' \subseteq Requests
  BY <1>1, <1>2 DEF WorkerTypeOK, PageTypes
<1>10. CASE q \notin waiting
  <2>1. UNCHANGED <<console, listed, panel, shown, toWorker>>
    BY <1>1, <1>4, <1>5, <1>10 DEF Receive
  <2>2. Receives
    BY <1>1, <1>2, <1>3, <1>7, <1>9, <2>1 DEF Receives, WorkerTypeOK, PageTypes
  <2>3. q.command # "context-open"
    BY <1>1, <1>3, <1>4, <1>5, <1>10, <2>2, AnswerReceived DEF HeldInv
  <2>4. OrderInv' /\ ProgramInv' /\ WorkerTypeOK' /\ RequestsOK' /\ RepliesOK' /\ ConsoleInv'
    BY <1>1, <2>1, <2>2, StillShown DEF ConsoleInv
  <2>5. SelectionInv'
    BY <1>1, <1>2, <2>1 DEF SelectionInv, OfSelection
  <2>6. HeldInv'
    BY <1>1, <1>4, <1>5, <2>1, <2>2, <2>3, HeldReceived
  <2>7. QED
    BY <2>4, <2>5, <2>6
<1>11. CASE q \in waiting /\ q.command = "check"
  <2>1. Checked(q, p)
    BY <1>1, <1>4, <1>5, <1>11 DEF Receive
  <2>2. q.collect \in BOOLEAN /\ q.of \in Nat
    BY <1>11 DEF Requests, CheckRequests, PointRequests, OpenRequests, RunRequests
  <2>3. console' \in Consoles /\ listed' \in Nat /\ UNCHANGED <<panel, shown>>
    <3>1. CASE ~p.ok
      BY <1>3, <2>1, <3>1, InvalidShape DEF Checked
    <3>2. CASE p.ok
      <4>1. [console EXCEPT !.enabled = q.collect, !.version = q.of] \in Consoles
        BY <1>3, <2>2 DEF Consoles
      <4>2. QED
        BY <1>1, <1>3, <2>1, <3>2, <4>1 DEF Checked, WorkerTypeOK, PageTypes
    <3>3. QED
      BY <3>1, <3>2
  <2>4. toWorker' = toWorker \/ toWorker' = toWorker \o Close(console.active)
    BY <1>3, <2>1 DEF Checked, Post
  <2>5. Receives
    BY <1>1, <1>2, <1>3, <1>7, <1>8, <1>9, <2>3, <2>4 DEF Receives, WorkerTypeOK, PageTypes
  <2>6. QED
    BY <1>1, <1>4, <1>5, <1>11, <2>1, <2>5, CheckedKeeps
<1>12. CASE q \in waiting /\ q.command = "contexts"
  <2>1. Points(q, p)
    BY <1>1, <1>4, <1>5, <1>12 DEF Receive
  <2>2. Receives
    BY <1>1, <1>2, <1>3, <1>6, <1>7, <1>9, <2>1 DEF Receives, Points, WorkerTypeOK, PageTypes
  <2>3. QED
    BY <1>1, <1>4, <1>5, <1>12, <2>1, <2>2, PointsKeeps
<1>13. CASE q \in waiting /\ q.command = "context-open"
  <2>1. Opened(q, p)
    BY <1>1, <1>4, <1>5, <1>13 DEF Receive
  <2>2. q.token \in Nat /\ q.chosen \in Nat
    BY <1>13 DEF Requests, CheckRequests, PointRequests, OpenRequests, RunRequests
  <2>3. [panel EXCEPT !.busy = FALSE] \in Panels /\ [token |-> q.token, chosen |-> q.chosen, busy |-> FALSE] \in Panels
    BY <1>3, <2>2 DEF Panels
  <2>4. [console EXCEPT !.active = p.value] \in Consoles
    BY <1>3, <1>6 DEF Consoles
  <2>5. panel' \in Panels /\ console' \in Consoles /\ UNCHANGED <<listed, shown>>
        /\ (toWorker' = toWorker \/ toWorker' = toWorker \o Close(p.value))
    BY <1>3, <2>1, <2>3, <2>4 DEF Opened, Post
  <2>6. Receives
    BY <1>1, <1>2, <1>3, <1>6, <1>7, <1>8, <1>9, <2>5 DEF Receives, WorkerTypeOK, PageTypes
  <2>7. QED
    BY <1>1, <1>4, <1>5, <1>13, <2>1, <2>6, OpenedKeeps
<1>14. CASE q \in waiting /\ q.command = "context-run"
  <2>1. Ran(q, p)
    BY <1>1, <1>4, <1>5, <1>14 DEF Receive
  <2>2. panel' \in Panels /\ shown' \in [version : Nat, of : Nat] /\ UNCHANGED <<console, listed, toWorker>>
    <3>1. [panel EXCEPT !.busy = FALSE] \in Panels
      BY <1>3 DEF Panels
    <3>2. [version |-> p.value, of |-> source] \in [version : Nat, of : Nat]
      BY <1>3, <1>6
    <3>3. QED
      BY <1>1, <1>3, <2>1, <3>1, <3>2 DEF Ran, WorkerTypeOK, PageTypes
  <2>3. Receives
    BY <1>1, <1>2, <1>3, <1>7, <1>9, <2>2 DEF Receives, WorkerTypeOK, PageTypes
  <2>4. QED
    BY <1>1, <1>4, <1>5, <1>14, <2>1, <2>3, RanKeeps
<1>15. q.command \in {"check", "contexts", "context-open", "context-run"}
  BY DEF Requests, CheckRequests, PointRequests, OpenRequests, RunRequests
<1>16. QED
  BY <1>10, <1>11, <1>12, <1>13, <1>14, <1>15

-----------------------------------------------------------------------------
(* The worker.                                                             *)

(* Sessions stay what they are of, and what is on its way was.             *)
Works ==
  /\ alive /\ alive' /\ UNCHANGED <<pageVars, counts>>
  /\ \A s \in DOMAIN sessions : s \in DOMAIN sessions' /\ sessions'[s].version = sessions[s].version
  /\ OnItsWay' \subseteq OnItsWay \cup {Idle.request}

LEMMA WorksKeeps ==
  ASSUME WInv, Works, console.enabled => installed'.version = installed.version
  PROVE  /\ RequestsOK' /\ ConsoleInv' /\ SelectionInv'
         /\ Numbered("check", counts.checks)' /\ Numbered("context-open", counts.opens)'
         /\ \A r \in OnItsWay' : r.command = "context-open" => r \in waiting'
<1> USE DEF WInv
<1>1. UNCHANGED <<source, console, listed, panel, waiting, shown, counts>> /\ alive /\ alive'
  BY DEF Works, pageVars
<1>2. Idle.request.command = "none"
  BY DEF Idle
<1>3. \A r \in OnItsWay' : r \in OnItsWay \/ r.command = "none"
  BY <1>2 DEF Works
<1>4. RequestsOK'
  <2>1. SUFFICES ASSUME NEW r \in OnItsWay' PROVE RequestOK(r)'
    BY DEF RequestsOK
  <2>2. CASE r \in OnItsWay
    BY <1>1, <2>2 DEF RequestsOK, RequestOK, Works
  <2>3. CASE r.command = "none"
    BY <2>3 DEF RequestOK
  <2>4. QED
    BY <1>3, <2>2, <2>3
<1>5. ConsoleInv'
  <2>1. console.active # 0 => sessions'[console.active].version = source /\ console.active \in DOMAIN sessions'
    BY DEF ConsoleInv, Works
  <2>2. \A r \in OnItsWay' : r \in OnItsWay \/ r.command # "check"
    BY <1>3
  <2>3. QED
    BY <1>1, <2>1, <2>2 DEF ConsoleInv
<1>6. SelectionInv'
  BY <1>1 DEF SelectionInv, OfSelection
<1>7. Numbered("check", counts.checks)' /\ Numbered("context-open", counts.opens)'
  BY <1>1, <1>3 DEF OrderInv, Numbered
<1>8. \A r \in OnItsWay' : r.command = "context-open" => r \in waiting'
  BY <1>1, <1>3 DEF HeldInv
<1>9. QED
  BY <1>4, <1>5, <1>6, <1>7, <1>8

(* An answer keeps its value.                                              *)
LEMMA AnswerStays ==
  ASSUME WInv, Works, installed'.version = installed.version, NEW p, p.request \in OnItsWay, ReplyOK(p)
  PROVE  ReplyOK(p)'
<1>1. UNCHANGED <<source, console, listed, panel, waiting, shown, counts>>
  BY DEF Works, pageVars
<1>2. RequestOK(p.request)
  BY DEF WInv, RequestsOK
<1>3. QED
  BY <1>1, <1>2 DEF Works, ReplyOK, RequestOK

(* Without an answer more, the answers keep their values.                  *)
LEMMA SameAnswers ==
  ASSUME WInv, Works, installed'.version = installed.version, UNCHANGED toPage
  PROVE  RepliesOK'
<1>1. \A i \in DOMAIN toPage : \A p : p = toPage[i] => p.request \in OnItsWay /\ ReplyOK(p)
  BY PipeTypes DEF WInv, RepliesOK
<1>2. \A i \in DOMAIN toPage : \A p : p = toPage[i] => ReplyOK(p)'
  BY <1>1, AnswerStays
<1>3. QED
  BY <1>2 DEF RepliesOK, ReplyOK

(* And with one more.                                                      *)
LEMMA OneMoreAnswer ==
  ASSUME WInv, Works, installed'.version = installed.version,
         NEW p \in Replies, toPage' = Append(toPage, p), ReplyOK(p)'
  PROVE  RepliesOK'
<1>1. \A i \in DOMAIN toPage : \A x : x = toPage[i] => x.request \in OnItsWay /\ ReplyOK(x)
  BY PipeTypes DEF WInv, RepliesOK
<1>2. \A i \in DOMAIN toPage : \A x : x = toPage[i] => ReplyOK(x)'
  BY <1>1, AnswerStays
<1>3. \A i \in DOMAIN toPage' : (i \in DOMAIN toPage /\ toPage'[i] = toPage[i]) \/ toPage'[i] = p
  BY LastShape DEF WInv, WorkerTypeOK, WorkerTypes
<1>4. \A i \in DOMAIN toPage' : \A x : x = toPage'[i] => ReplyOK(x)'
  BY <1>2, <1>3
<1>5. QED
  BY <1>4 DEF RepliesOK, ReplyOK

(* What open sessions hang on, when the page's messages wait.              *)
LEMMA HoldersWait ==
  ASSUME WInv, NEW s \in DOMAIN sessions, ~sessions[s].closed, alive, UNCHANGED <<console, toWorker>>,
         \A i \in DOMAIN toPage : i \in DOMAIN toPage' /\ toPage'[i] = toPage[i]
  PROVE  Attended(s)'
BY DEF WInv, HeldInv, Attended

(* The worker takes a message.                                             *)
LEMMA OnMessageKeeps == WInv /\ OnMessage => WInv'
<1>1. SUFFICES ASSUME WInv, OnMessage PROVE WInv'
  OBVIOUS
<1> USE DEF WInv
<1>2. PICK m : m = Head(toWorker)
  OBVIOUS
<1>3. PICK epoch : epoch = (IF Revoking(m) THEN contextEpoch + 1 ELSE contextEpoch)
  OBVIOUS
<1>4. /\ alive /\ toWorker # <<>> /\ toWorker' = Tail(toWorker) /\ contextEpoch' = epoch
      /\ installed' = (IF Revoking(m) THEN [installed EXCEPT !.ready = FALSE] ELSE installed)
      /\ sessions' = (IF m.command = "context-close" THEN [sessions EXCEPT ![m.session].closed = TRUE]
                      ELSE Revoked(Revoking(m)))
      /\ queue' = (IF m.command \in {"context-invalidate", "context-close"} THEN queue
                   ELSE Append(queue, [request |-> m, epoch |-> epoch]))
      /\ UNCHANGED <<pageVars, toPage, alive, running, counts>>
  BY <1>1, <1>2, <1>3 DEF OnMessage, Revoking
<1>5. toWorker \in Seq(Messages) /\ queue \in Seq(Queued) /\ installed \in Programs /\ sessions \in Seq(Sessions)
      /\ contextEpoch \in Nat
  BY <1>1 DEF WorkerTypeOK, WorkerTypes
<1>6. m \in Messages /\ m = toWorker[1] /\ 1 \in DOMAIN toWorker
      /\ \A i \in DOMAIN toWorker : i # 1 => \E j \in DOMAIN toWorker' : i = j + 1 /\ toWorker'[j] = toWorker[i]
  BY <1>2, <1>4, <1>5, TailShape
<1>7. epoch \in Nat /\ contextEpoch <= epoch /\ (Revoking(m) => contextEpoch < epoch)
  BY <1>3, <1>5
<1>8. /\ installed' \in Programs /\ installed'.version = installed.version /\ installed'.registry = installed.registry
      /\ installed'.epoch = installed.epoch /\ (installed'.ready <=> installed.ready /\ ~Revoking(m))
  BY <1>4, <1>5 DEF Programs
<1>9. /\ sessions' \in Seq(Sessions) /\ DOMAIN sessions' = DOMAIN sessions
      /\ \A s \in DOMAIN sessions :
           /\ sessions'[s].version = sessions[s].version /\ sessions'[s].registry = sessions[s].registry
           /\ ~sessions'[s].closed => /\ ~sessions[s].closed /\ ~Revoking(m)
                                      /\ ~ (m.command = "context-close" /\ m.session = s)
  <2>1. DOMAIN sessions = 1 .. Len(sessions) /\ Len(sessions) \in Nat /\ \A s \in DOMAIN sessions : sessions[s] \in Sessions
    BY <1>5
  <2>2. \A r \in Sessions : /\ [r EXCEPT !.closed = TRUE] \in Sessions /\ [r EXCEPT !.closed = TRUE].version = r.version
                            /\ [r EXCEPT !.closed = TRUE].registry = r.registry /\ [r EXCEPT !.closed = TRUE].closed
    BY DEF Sessions
  <2>3. CASE m.command = "context-close"
    <3>1. sessions' = [sessions EXCEPT ![m.session].closed = TRUE] /\ ~Revoking(m)
      BY <1>4, <2>3 DEF Revoking
    <3>2. DOMAIN sessions' = DOMAIN sessions
          /\ \A s \in DOMAIN sessions : sessions'[s] = (IF s = m.session THEN [sessions[s] EXCEPT !.closed = TRUE] ELSE sessions[s])
      BY <1>5, <3>1
    <3>3. \A s \in DOMAIN sessions : sessions'[s] \in Sessions
      BY <2>1, <2>2, <3>2
    <3>4. sessions' \in Seq(Sessions)
      <4>1. sessions' \in [1 .. Len(sessions) -> Sessions]
        BY <2>1, <3>1, <3>2, <3>3
      <4>2. QED
        BY <2>1, <4>1
    <3>5. QED
      BY <2>1, <2>2, <3>1, <3>2, <3>4
  <2>4. CASE m.command # "context-close" /\ Revoking(m)
    <3>1. sessions' = [s \in 1 .. Len(sessions) |-> [sessions[s] EXCEPT !.closed = TRUE]]
      BY <1>4, <2>1, <2>4 DEF Revoked
    <3>2. \A s \in 1 .. Len(sessions) : sessions'[s] = [sessions[s] EXCEPT !.closed = TRUE] /\ sessions'[s] \in Sessions
      BY <2>1, <2>2, <3>1
    <3>3. sessions' \in Seq(Sessions) /\ DOMAIN sessions' = DOMAIN sessions
      BY <2>1, <3>1, <3>2
    <3>4. ASSUME NEW s \in DOMAIN sessions
          PROVE  /\ sessions'[s].version = sessions[s].version /\ sessions'[s].registry = sessions[s].registry
                 /\ sessions'[s].closed
      <4>1. PICK x \in Sessions : x = sessions[s]
        BY <2>1
      <4>2. sessions'[s] = [x EXCEPT !.closed = TRUE]
        BY <2>1, <3>2, <4>1
      <4>3. QED
        BY <2>2, <4>1, <4>2
    <3>5. QED
      BY <3>3, <3>4
  <2>5. CASE m.command # "context-close" /\ ~Revoking(m)
    <3>1. sessions' = [s \in 1 .. Len(sessions) |-> sessions[s]]
      BY <1>4, <2>1, <2>5 DEF Revoked
    <3>2. sessions' = sessions
      BY <1>5, <3>1
    <3>3. QED
      BY <1>5, <2>5, <3>2
  <2>6. QED
    BY <2>3, <2>4, <2>5
<1>10. PICK q : q = [request |-> m, epoch |-> epoch]
  OBVIOUS
<1>11. q.request = m /\ q.epoch = epoch /\ (m \in Requests => q \in Queued)
  BY <1>7, <1>10 DEF Queued
<1>12. m \in Notices <=> m.command \in {"context-invalidate", "context-close"}
  BY <1>6 DEF Messages, Notices, Requests, CheckRequests, PointRequests, OpenRequests, RunRequests
<1>13. m \in Requests \/ m \in Notices
  BY <1>6 DEF Messages
<1>14. queue' = queue \/ (m \in Requests /\ queue' = Append(queue, q))
  BY <1>4, <1>10, <1>12, <1>13
<1>15. WorkerTypeOK'
  <2>1. toWorker' \in Seq(Messages) /\ queue' \in Seq(Queued)
    BY <1>4, <1>5, <1>11, <1>14, TailShape, LastShape
  <2>2. QED
    BY <1>1, <1>4, <1>7, <1>8, <1>9, <2>1 DEF WorkerTypeOK, PageTypes, WorkerTypes, pageVars
<1>16. \A k \in {"check", "context-open"} : Ordered(k, toPage, running, queue', toWorker') /\ OnItsWay' \subseteq OnItsWay
  <2>1. SUFFICES ASSUME NEW k \in {"check", "context-open"}
                 PROVE  Ordered(k, toPage, running, queue', toWorker') /\ OnItsWay' \subseteq OnItsWay
    OBVIOUS
  <2>2. Ordered(k, toPage, running, queue, toWorker)
    BY <1>1 DEF OrderInv
  <2>3. OnItsWay' = Pipe(toPage, running, queue', toWorker')
    BY <1>4 DEF OnItsWay
  <2>4. CASE queue' = queue
    BY <1>4, <1>5, <2>2, <2>3, <2>4, PipeSkips DEF OnItsWay
  <2>5. CASE m \in Requests /\ queue' = Append(queue, q)
    <3>1. q \in Queued /\ q.request = Head(toWorker) /\ toWorker # <<>>
      BY <1>2, <1>4, <1>11, <2>5
    <3>2. /\ Ordered(k, toPage, running, Append(queue, q), Tail(toWorker))
          /\ Pipe(toPage, running, Append(queue, q), Tail(toWorker)) \subseteq Pipe(toPage, running, queue, toWorker)
      BY <1>5, <2>2, <3>1, PipePasses
    <3>3. QED
      BY <1>4, <2>3, <2>5, <3>2 DEF OnItsWay
  <2>6. QED
    BY <1>14, <2>4, <2>5
<1>17. Works
  BY <1>4, <1>9, <1>16 DEF Works
<1>18. OrderInv' /\ RequestsOK' /\ ConsoleInv' /\ SelectionInv'
       /\ \A r \in OnItsWay' : r.command = "context-open" => r \in waiting'
  BY <1>1, <1>4, <1>8, <1>16, <1>17, WorksKeeps DEF OrderInv
<1>19. RepliesOK'
  BY <1>1, <1>4, <1>8, <1>17, SameAnswers
<1>20. HeldInv'
  <2>1. ASSUME NEW s \in DOMAIN sessions, ~sessions'[s].closed PROVE Attended(s)'
    <3>1. ~sessions[s].closed /\ ~Revoking(m) /\ ~ (m.command = "context-close" /\ m.session = s)
      BY <1>9, <2>1
    <3>2. Attended(s)
      BY <1>1, <1>4, <3>1 DEF HeldInv
    <3>3. ASSUME NEW i \in DOMAIN toWorker,
                 Revoking(toWorker[i]) \/ (toWorker[i].command = "context-close" /\ toWorker[i].session = s)
          PROVE  \E j \in DOMAIN toWorker' : toWorker'[j] = toWorker[i]
      BY <1>6, <3>1, <3>3
    <3>4. QED
      BY <1>4, <3>2, <3>3 DEF Attended, pageVars
  <2>2. QED
    BY <1>9, <1>18, <2>1 DEF HeldInv
<1>21. ProgramInv'
  <2>0. /\ \A i \in DOMAIN queue : queue[i].epoch \in Nat
        /\ running.request.command = "check" => running.epoch \in Nat
    <3>1. \A i \in DOMAIN queue : queue[i] \in Queued
      BY <1>5
    <3>2. \A x \in Queued : x.epoch \in Nat
      BY DEF Queued
    <3>3. QED
      BY <1>1, <3>1, <3>2 DEF WorkerTypeOK, WorkerTypes, Idle
  <2>1. CASE queue' = queue
    <3>1. UNCHANGED <<running, queue>>
      BY <1>4, <2>1
    <3>2. \A i \in DOMAIN queue : queue[i].epoch <= contextEpoch => queue[i].epoch <= contextEpoch'
      BY <1>4, <1>5, <1>7, <2>0
    <3>3. \A i \in DOMAIN queue : queue[i].epoch < contextEpoch => queue[i].epoch < contextEpoch'
      BY <1>4, <1>5, <1>7, <2>0
    <3>4. running.request.command = "check" =>
            /\ running.epoch <= contextEpoch => running.epoch <= contextEpoch'
            /\ running.epoch < contextEpoch => running.epoch < contextEpoch'
      BY <1>4, <1>5, <1>7, <2>0
    <3>5. (installed'.ready => installed'.epoch = contextEpoch')
          /\ \A s \in DOMAIN sessions' : ~sessions'[s].closed => installed'.ready /\ sessions'[s].registry = installed'.registry
      BY <1>1, <1>3, <1>4, <1>8, <1>9 DEF ProgramInv
    <3>6. installed'.ready => NoCheckHeld'
      BY <1>1, <1>8, <3>1 DEF ProgramInv, NoCheckHeld, NoCheckQueued
    <3>7. QED
      BY <1>1, <3>1, <3>2, <3>3, <3>4, <3>5, <3>6 DEF ProgramInv
  <2>2. CASE m \in Requests /\ queue' = Append(queue, q)
    <3>1. \A i \in DOMAIN queue : queue[i].epoch \in Nat
      BY <2>0
    <3>2. running.request.command = "check" => running.epoch \in Nat
      BY <2>0
    <3>3. /\ \A i \in DOMAIN queue' : (i \in DOMAIN queue /\ queue'[i] = queue[i]) \/ (i \notin DOMAIN queue /\ queue'[i] = q)
          /\ \A i, j \in DOMAIN queue' : i < j => i \in DOMAIN queue
      BY <1>5, <1>11, <2>2, LastShape
    <3>4. m.command = "check" => Revoking(m)
      BY DEF Revoking
    <3>5. \A i \in DOMAIN queue' : queue'[i].epoch <= contextEpoch'
      BY <1>1, <1>4, <1>5, <1>7, <1>11, <3>1, <3>3 DEF ProgramInv
    <3>6. installed'.ready => NoCheckHeld'
      BY <1>1, <1>4, <1>8, <1>11, <3>3, <3>4 DEF ProgramInv, NoCheckHeld, NoCheckQueued
    <3>7. ASSUME NEW i \in DOMAIN queue', NEW j \in DOMAIN queue', i < j,
                 queue'[i].request.command = "check", queue'[j].request.command = "check"
          PROVE  queue'[i].epoch < contextEpoch'
      <4>1. i \in DOMAIN queue /\ queue'[i] = queue[i]
        BY <3>3, <3>7
      <4>2. CASE j \in DOMAIN queue
        BY <1>1, <1>4, <1>5, <1>7, <3>1, <3>3, <3>7, <4>1, <4>2 DEF ProgramInv
      <4>3. CASE j \notin DOMAIN queue
        BY <1>1, <1>4, <1>5, <1>7, <1>11, <3>1, <3>3, <3>4, <3>7, <4>1, <4>3 DEF ProgramInv
      <4>4. QED
        BY <4>2, <4>3
    <3>8. ASSUME NEW j \in DOMAIN queue', running.request.command = "check", queue'[j].request.command = "check"
          PROVE  running.epoch < contextEpoch'
      <4>1. CASE j \in DOMAIN queue
        BY <1>1, <1>4, <1>5, <1>7, <3>2, <3>3, <3>8, <4>1 DEF ProgramInv
      <4>2. CASE j \notin DOMAIN queue
        BY <1>1, <1>4, <1>5, <1>7, <1>11, <3>2, <3>3, <3>4, <3>8, <4>2 DEF ProgramInv
      <4>3. QED
        BY <4>1, <4>2
    <3>9. running.request.command = "check" => running.epoch <= contextEpoch'
      BY <1>1, <1>4, <1>5, <1>7, <3>2 DEF ProgramInv
    <3>10. (installed'.ready => installed'.epoch = contextEpoch')
           /\ \A s \in DOMAIN sessions' : ~sessions'[s].closed => installed'.ready /\ sessions'[s].registry = installed'.registry
      BY <1>1, <1>3, <1>4, <1>8, <1>9 DEF ProgramInv
    <3>11. running' = running
      BY <1>4
    <3>12. QED
      BY <3>5, <3>6, <3>7, <3>8, <3>9, <3>10, <3>11 DEF ProgramInv
  <2>3. QED
    BY <1>14, <2>1, <2>2
<1>22. QED
  BY <1>15, <1>18, <1>19, <1>20, <1>21

(* The next request leaves the queue.                                      *)
LEMMA QueueBegins ==
  ASSUME WInv, running = Idle, queue # <<>>, queue' = Tail(queue), running' = Head(queue) \/ running' = Idle,
         UNCHANGED <<contextEpoch, installed>>,
         \A s \in DOMAIN sessions' : ~sessions'[s].closed => installed.ready /\ sessions'[s].registry = installed.registry
  PROVE  ProgramInv'
<1> USE DEF WInv
<1>1. queue \in Seq(Queued)
  BY DEF WorkerTypeOK, WorkerTypes
<1>2. /\ Head(queue) = queue[1] /\ 1 \in DOMAIN queue
      /\ \A i \in DOMAIN queue' : i \in Nat /\ i + 1 \in DOMAIN queue /\ queue'[i] = queue[i + 1] /\ 1 < i + 1
  BY <1>1, TailShape
<1>3. Idle.request.command = "none"
  BY DEF Idle
<1>4. running'.request.command = "check" => running' = queue[1]
  BY <1>2, <1>3
<1>5. NoCheckHeld => NoCheckHeld'
  BY <1>2, <1>4 DEF NoCheckHeld, NoCheckQueued
<1>6. \A i \in DOMAIN queue' : queue'[i].epoch <= contextEpoch'
  BY <1>2 DEF ProgramInv
<1>7. running'.request.command = "check" => running'.epoch <= contextEpoch'
  BY <1>2, <1>4 DEF ProgramInv
<1>8. \A i, j \in DOMAIN queue' :
        i < j /\ queue'[i].request.command = "check" /\ queue'[j].request.command = "check"
          => queue'[i].epoch < contextEpoch'
  <2>1. SUFFICES ASSUME NEW i \in DOMAIN queue', NEW j \in DOMAIN queue', i < j,
                        queue'[i].request.command = "check", queue'[j].request.command = "check"
                 PROVE  queue'[i].epoch < contextEpoch'
    OBVIOUS
  <2>2. i + 1 < j + 1 /\ i + 1 \in DOMAIN queue /\ j + 1 \in DOMAIN queue
    BY <1>2, <2>1
  <2>3. QED
    BY <1>2, <2>1, <2>2 DEF ProgramInv
<1>9. \A j \in DOMAIN queue' :
        running'.request.command = "check" /\ queue'[j].request.command = "check" => running'.epoch < contextEpoch'
  BY <1>2, <1>4 DEF ProgramInv
<1>10. (installed'.ready => NoCheckHeld') /\ (installed'.ready => installed'.epoch = contextEpoch')
  BY <1>5 DEF ProgramInv
<1>11. \A s \in DOMAIN sessions' : ~sessions'[s].closed => installed'.ready /\ sessions'[s].registry = installed'.registry
  OBVIOUS
<1>12. QED
  BY <1>6, <1>7, <1>8, <1>9, <1>10, <1>11 DEF ProgramInv

(* A request that waits for an import becomes the one worked on.           *)
LEMMA BeginKeeps ==
  ASSUME WInv, alive, running = Idle, queue # <<>>, Head(queue).request.command \in {"check", "context-run"},
         queue' = Tail(queue), running' = Head(queue),
         UNCHANGED <<pageVars, toWorker, toPage, alive, contextEpoch, installed, sessions, counts>>
  PROVE  WInv'
<1> USE DEF WInv
<1>1. queue \in Seq(Queued)
  BY DEF WorkerTypeOK, WorkerTypes
<1>2. PICK q \in Queued : q = Head(queue)
  BY <1>1, TailShape
<1>3. q.request \in CheckRequests \cup RunRequests /\ q.epoch \in Nat
  BY <1>2 DEF Queued, Requests, CheckRequests, PointRequests, OpenRequests, RunRequests
<1>4. WorkerTypeOK'
  <2>1. running' \in [request : CheckRequests \cup RunRequests, epoch : Nat]
    BY <1>2, <1>3 DEF Queued
  <2>2. queue' \in Seq(Queued)
    BY <1>1, TailShape
  <2>3. QED
    BY <2>1, <2>2 DEF WorkerTypeOK, PageTypes, WorkerTypes, pageVars
<1>5. ASSUME NEW k \in {"check", "context-open"}
      PROVE  Ordered(k, toPage, running', queue', toWorker) /\ OnItsWay' \subseteq OnItsWay
  <2>1. Ordered(k, toPage, Idle, queue, toWorker) /\ k # "none"
    BY DEF OrderInv
  <2>2. /\ Ordered(k, toPage, Head(queue), Tail(queue), toWorker)
        /\ Pipe(toPage, Head(queue), Tail(queue), toWorker) \subseteq Pipe(toPage, Idle, queue, toWorker)
    BY <1>1, <2>1, PipeBegins
  <2>3. QED
    BY <2>2 DEF OnItsWay
<1>6. Works
  BY <1>5 DEF Works
<1>7. OrderInv' /\ RequestsOK' /\ ConsoleInv' /\ SelectionInv'
      /\ \A r \in OnItsWay' : r.command = "context-open" => r \in waiting'
  BY <1>5, <1>6, WorksKeeps DEF OrderInv
<1>8. RepliesOK'
  BY <1>6, SameAnswers
<1>9. ProgramInv'
  BY QueueBegins DEF ProgramInv
<1>10. HeldInv'
  BY <1>7, HoldersWait DEF HeldInv, pageVars
<1>11. QED
  BY <1>4, <1>7, <1>8, <1>9, <1>10

(* A check begins.                                                         *)
LEMMA BeginCheckKeeps == WInv /\ BeginCheck => WInv'
BY BeginKeeps DEF BeginCheck, Begins

(* An answer at once.                                                      *)
LEMMA AnswersKeeps ==
  ASSUME WInv, alive, running = Idle, queue # <<>>, queue' = Tail(queue),
         NEW ok \in BOOLEAN, NEW value \in Nat, Answer(Head(queue).request, ok, value),
         UNCHANGED <<pageVars, toWorker, alive, running, contextEpoch, installed, counts>>,
         sessions' \in Seq(Sessions),
         \A s \in DOMAIN sessions : s \in DOMAIN sessions' /\ sessions'[s].version = sessions[s].version,
         \A s \in DOMAIN sessions' : ~sessions'[s].closed => installed.ready /\ sessions'[s].registry = installed.registry,
         \A s \in DOMAIN sessions' :
           ~sessions'[s].closed =>
             \/ s \in DOMAIN sessions /\ ~sessions[s].closed
             \/ Head(queue).request.command = "context-open" /\ ok /\ value = s,
         \A p : p.request = Head(queue).request /\ p.ok = ok /\ (ok => p.value = value) => ReplyOK(p)'
  PROVE  WInv'
<1> USE DEF WInv
<1>1. queue \in Seq(Queued) /\ toPage \in Seq(Replies)
  BY DEF WorkerTypeOK, WorkerTypes
<1>2. PICK q \in Queued : q = Head(queue)
  BY <1>1, TailShape
<1>3. PICK p : p = [request |-> q.request, ok |-> ok, value |-> IF ok THEN value ELSE 0]
  OBVIOUS
<1>4. p \in Replies /\ p.request = q.request /\ p.ok = ok /\ (ok => p.value = value) /\ toPage' = Append(toPage, p)
  <2>1. q.request \in Requests
    BY DEF Queued
  <2>2. QED
    BY <1>2, <1>3, <2>1 DEF Answer, Replies
<1>5. WorkerTypeOK'
  <2>1. queue' \in Seq(Queued) /\ toPage' \in Seq(Replies)
    BY <1>1, <1>4, TailShape, LastShape
  <2>2. QED
    BY <2>1 DEF WorkerTypeOK, PageTypes, WorkerTypes, pageVars
<1>6. ASSUME NEW k \in {"check", "context-open"}
      PROVE  Ordered(k, toPage', running, queue', toWorker) /\ OnItsWay' \subseteq OnItsWay
  <2>1. Ordered(k, toPage, Idle, queue, toWorker) /\ k # "none"
    BY DEF OrderInv
  <2>2. p \in Replies /\ p.request = Head(queue).request
    BY <1>2, <1>4
  <2>3. /\ Ordered(k, Append(toPage, p), Idle, Tail(queue), toWorker)
        /\ Pipe(Append(toPage, p), Idle, Tail(queue), toWorker) \subseteq Pipe(toPage, Idle, queue, toWorker)
    BY <1>1, <2>1, <2>2, PipeAnswers
  <2>4. QED
    BY <1>4, <2>3 DEF OnItsWay
<1>7. Works
  BY <1>6 DEF Works
<1>8. OrderInv' /\ RequestsOK' /\ ConsoleInv' /\ SelectionInv'
      /\ \A r \in OnItsWay' : r.command = "context-open" => r \in waiting'
  BY <1>6, <1>7, WorksKeeps DEF OrderInv
<1>9. RepliesOK'
  <2>1. ReplyOK(p)'
    BY <1>2, <1>4
  <2>2. QED
    BY <1>4, <1>7, <2>1, OneMoreAnswer
<1>10. ProgramInv'
  BY QueueBegins
<1>11. HeldInv'
  <2>1. \A i \in DOMAIN toPage : i \in DOMAIN toPage' /\ toPage'[i] = toPage[i]
    BY <1>1, <1>4, LastShape
  <2>2. Has(toPage', p)
    BY <1>1, <1>4, LastShape
  <2>3. ASSUME NEW s \in DOMAIN sessions', ~sessions'[s].closed PROVE Attended(s)'
    <3>1. CASE s \in DOMAIN sessions /\ ~sessions[s].closed
      BY <2>1, <3>1, HoldersWait DEF pageVars
    <3>2. CASE q.request.command = "context-open" /\ ok /\ value = s
      BY <1>4, <2>2, <3>2 DEF Attended, Has
    <3>3. QED
      BY <1>2, <2>3, <3>1, <3>2
  <2>4. QED
    BY <1>8, <2>3 DEF HeldInv
<1>12. QED
  BY <1>5, <1>8, <1>9, <1>10, <1>11

(* The points are listed.                                                  *)
LEMMA ListKeeps == WInv /\ ListPoints => WInv'
<1>1. SUFFICES ASSUME WInv, ListPoints PROVE WInv'
  OBVIOUS
<1> USE DEF WInv
<1>2. alive /\ running = Idle /\ queue # <<>> /\ queue' = Tail(queue) /\ Head(queue).request.command = "contexts"
      /\ Answer(Head(queue).request, installed.ready, installed.version)
      /\ UNCHANGED <<pageVars, toWorker, alive, running, contextEpoch, installed, sessions, counts>>
  BY <1>1 DEF ListPoints, Begins
<1>3. installed.ready \in BOOLEAN /\ installed.version \in Nat /\ sessions \in Seq(Sessions) /\ queue \in Seq(Queued)
  BY <1>1 DEF WorkerTypeOK, WorkerTypes, Programs
<1>4. Head(queue).request \in OnItsWay
  BY <1>2, <1>3, TailShape DEF OnItsWay, Pipe
<1>5. Head(queue).request.token = console.epoch => installed.version = source
  BY <1>1, <1>2, <1>4 DEF RequestsOK, RequestOK, ConsoleInv
<1>6. \A p : p.request = Head(queue).request /\ p.ok = installed.ready /\ (installed.ready => p.value = installed.version)
        => ReplyOK(p)'
  BY <1>2, <1>5 DEF ReplyOK, pageVars
<1>7. \A s \in DOMAIN sessions : ~sessions[s].closed => installed.ready /\ sessions[s].registry = installed.registry
  BY <1>1 DEF ProgramInv
<1>8. QED
  BY <1>1, <1>2, <1>3, <1>6, <1>7, AnswersKeeps

(* A session is opened, of the installed program.                          *)
LEMMA OpenKeeps == WInv /\ OpenContext => WInv'
<1>1. SUFFICES ASSUME WInv, OpenContext PROVE WInv'
  OBVIOUS
<1> USE DEF WInv
<1>2. PICK q : q = Head(queue).request
  OBVIOUS
<1>3. PICK opens \in BOOLEAN : opens = (installed.ready /\ q.scope = installed.version)
  OBVIOUS
<1>4. PICK made : made = [registry |-> installed.registry, version |-> installed.version, closed |-> FALSE]
  OBVIOUS
<1>5. alive /\ running = Idle /\ queue # <<>> /\ queue' = Tail(queue) /\ q.command = "context-open"
      /\ Answer(q, opens, Len(sessions) + 1)
      /\ sessions' = (IF ~opens THEN sessions ELSE Append(sessions, made))
      /\ UNCHANGED <<pageVars, toWorker, alive, running, contextEpoch, installed, counts>>
  BY <1>1, <1>2, <1>3, <1>4 DEF OpenContext, Begins
<1>6. installed \in Programs /\ sessions \in Seq(Sessions) /\ queue \in Seq(Queued)
  BY <1>1 DEF WorkerTypeOK, WorkerTypes
<1>7. made \in Sessions /\ made.registry = installed.registry /\ made.version = installed.version /\ ~made.closed
  BY <1>4, <1>6 DEF Sessions, Programs
<1>8. PICK n \in Nat : n = Len(sessions) + 1
  BY <1>6
<1>9. n # 0 /\ DOMAIN sessions = 1 .. n - 1
  BY <1>6, <1>8
<1>10. opens => /\ sessions' \in Seq(Sessions) /\ DOMAIN sessions' = 1 .. n /\ sessions'[n] = made
                /\ \A s \in DOMAIN sessions : s \in DOMAIN sessions' /\ sessions'[s] = sessions[s]
                /\ \A s \in DOMAIN sessions' : s \in DOMAIN sessions \/ s = n
  BY <1>5, <1>6, <1>7, <1>8, <1>9
<1>11. sessions' \in Seq(Sessions)
       /\ \A s \in DOMAIN sessions : s \in DOMAIN sessions' /\ sessions'[s].version = sessions[s].version
  BY <1>5, <1>6, <1>10
<1>12. \A s \in DOMAIN sessions : ~sessions[s].closed => installed.ready /\ sessions[s].registry = installed.registry
  BY <1>1 DEF ProgramInv
<1>13. \A s \in DOMAIN sessions' : ~sessions'[s].closed => installed.ready /\ sessions'[s].registry = installed.registry
  BY <1>3, <1>5, <1>7, <1>10, <1>12
<1>14. \A s \in DOMAIN sessions' :
         ~sessions'[s].closed =>
           \/ s \in DOMAIN sessions /\ ~sessions[s].closed
           \/ Head(queue).request.command = "context-open" /\ opens /\ n = s
  BY <1>2, <1>5, <1>10
<1>15. \A p : p.request = Head(queue).request /\ p.ok = opens /\ (opens => p.value = n) => ReplyOK(p)'
  <2>1. SUFFICES ASSUME NEW p, p.request = q, p.ok, opens, p.value = n PROVE ReplyOK(p)'
    BY <1>2 DEF ReplyOK
  <2>2. n \in DOMAIN sessions' /\ sessions'[n].version = q.scope
    <3>1. q.scope = installed.version
      BY <1>3, <2>1
    <3>2. DOMAIN sessions' = 1 .. n /\ sessions'[n] = made
      BY <1>10, <2>1
    <3>3. n \in 1 .. n
      BY <1>9
    <3>4. QED
      BY <1>7, <3>1, <3>2, <3>3
  <2>3. QED
    BY <1>5, <1>9, <2>1, <2>2 DEF ReplyOK
<1>16. Answer(Head(queue).request, opens, n)
  BY <1>2, <1>5, <1>8
<1>17. QED
  BY <1>1, <1>5, <1>11, <1>13, <1>14, <1>15, <1>16, AnswersKeeps

(* An entry is run, or refused at once.                                    *)
LEMMA BeginRunKeeps == WInv /\ BeginRun => WInv'
<1>1. SUFFICES ASSUME WInv, BeginRun PROVE WInv'
  OBVIOUS
<1> USE DEF WInv
<1>2. alive /\ running = Idle /\ queue # <<>> /\ queue' = Tail(queue) /\ Head(queue).request.command = "context-run"
      /\ UNCHANGED <<pageVars, toWorker, alive, contextEpoch, installed, sessions, counts>>
  BY <1>1 DEF BeginRun, Begins
<1>3. CASE Stale(Head(queue).request.session)
  <2>1. Answer(Head(queue).request, FALSE, 0) /\ UNCHANGED running
    BY <1>1, <1>3 DEF BeginRun
  <2>2. \A p : p.request = Head(queue).request /\ p.ok = FALSE /\ (FALSE => p.value = 0) => ReplyOK(p)'
    BY DEF ReplyOK
  <2>3. \A s \in DOMAIN sessions : ~sessions[s].closed => installed.ready /\ sessions[s].registry = installed.registry
    BY <1>1 DEF ProgramInv
  <2>4. sessions \in Seq(Sessions) /\ 0 \in Nat
    BY <1>1 DEF WorkerTypeOK, WorkerTypes
  <2>5. QED
    BY <1>1, <1>2, <2>1, <2>2, <2>3, <2>4, AnswersKeeps
<1>4. CASE ~Stale(Head(queue).request.session)
  <2>1. running' = Head(queue) /\ UNCHANGED toPage
    BY <1>1, <1>4 DEF BeginRun
  <2>2. QED
    BY <1>1, <1>2, <2>1, BeginKeeps
<1>5. QED
  BY <1>3, <1>4

(* The request worked on is answered.                                      *)
LEMMA EndsMove ==
  ASSUME WInv, alive, running # Idle, running' = Idle, NEW ok \in BOOLEAN, NEW value \in Nat,
         Answer(running.request, ok, value),
         UNCHANGED <<pageVars, toWorker, alive, queue, contextEpoch, sessions, counts>>,
         installed' \in Programs, console.enabled => installed'.version = installed.version
  PROVE  /\ Works /\ WorkerTypeOK' /\ OrderInv' /\ RequestsOK' /\ ConsoleInv' /\ SelectionInv' /\ HeldInv'
         /\ \E p \in Replies : /\ p.request = running.request /\ p.ok = ok /\ (ok => p.value = value)
                               /\ toPage' = Append(toPage, p)
         /\ running \in [request : CheckRequests \cup RunRequests, epoch : Nat]
<1> USE DEF WInv
<1>1. running \in [request : CheckRequests \cup RunRequests, epoch : Nat] /\ toPage \in Seq(Replies)
  BY DEF WorkerTypeOK, WorkerTypes
<1>2. PICK q \in Requests : q = running.request
  BY <1>1 DEF Requests
<1>3. PICK p : p = [request |-> q, ok |-> ok, value |-> IF ok THEN value ELSE 0]
  OBVIOUS
<1>4. p \in Replies /\ p.request = running.request /\ p.ok = ok /\ (ok => p.value = value) /\ toPage' = Append(toPage, p)
  BY <1>2, <1>3 DEF Answer, Replies
<1>5. WorkerTypeOK'
  <2>1. toPage' \in Seq(Replies)
    BY <1>1, <1>4, LastShape
  <2>2. QED
    BY <2>1 DEF WorkerTypeOK, PageTypes, WorkerTypes, pageVars
<1>6. ASSUME NEW k \in {"check", "context-open"}
      PROVE  Ordered(k, toPage', running', queue', toWorker) /\ OnItsWay' \subseteq OnItsWay \cup {Idle.request}
  <2>1. Ordered(k, toPage, running, queue, toWorker) /\ k # "none"
    BY DEF OrderInv
  <2>2. /\ Ordered(k, Append(toPage, p), Idle, queue, toWorker)
        /\ Pipe(Append(toPage, p), Idle, queue, toWorker) \subseteq Pipe(toPage, running, queue, toWorker) \cup {Idle.request}
    BY <1>1, <1>4, <2>1, PipeEnds
  <2>3. QED
    BY <1>4, <2>2 DEF OnItsWay
<1>7. Works
  BY <1>6 DEF Works
<1>8. OrderInv' /\ RequestsOK' /\ ConsoleInv' /\ SelectionInv'
      /\ \A r \in OnItsWay' : r.command = "context-open" => r \in waiting'
  BY <1>6, <1>7, WorksKeeps DEF OrderInv
<1>9. HeldInv'
  <2>1. \A i \in DOMAIN toPage : i \in DOMAIN toPage' /\ toPage'[i] = toPage[i]
    BY <1>1, <1>4, LastShape
  <2>2. QED
    BY <1>8, <2>1, HoldersWait DEF HeldInv, pageVars
<1>10. QED
  BY <1>1, <1>4, <1>5, <1>7, <1>8, <1>9

(* It ends, in a session that may be stale by then.                        *)
LEMMA EndRunKeeps == WInv /\ EndRun => WInv'
<1>1. SUFFICES ASSUME WInv, EndRun PROVE WInv'
  OBVIOUS
<1> USE DEF WInv
<1>2. PICK s : s = running.request.session
  OBVIOUS
<1>3. alive /\ running.request.command = "context-run" /\ running # Idle /\ running' = Idle
      /\ Answer(running.request, ~Stale(s), sessions[s].version)
      /\ UNCHANGED <<pageVars, toWorker, alive, queue, contextEpoch, installed, sessions, counts>>
  BY <1>1, <1>2 DEF EndRun, Idle
<1>4. running.request \in OnItsWay
  BY DEF OnItsWay, Pipe
<1>5. s \in DOMAIN sessions
  BY <1>1, <1>2, <1>3, <1>4 DEF RequestsOK, RequestOK
<1>6. PICK value \in Nat : value = sessions[s].version
  <2>1. sessions[s] \in Sessions
    BY <1>1, <1>5 DEF WorkerTypeOK, WorkerTypes
  <2>2. QED
    BY <2>1 DEF Sessions
<1>7. PICK ok \in BOOLEAN : ok = ~Stale(s)
  OBVIOUS
<1>8. Answer(running.request, ok, value) /\ installed' \in Programs /\ installed'.version = installed.version
  BY <1>1, <1>3, <1>6, <1>7 DEF WorkerTypeOK, WorkerTypes
<1>9. /\ Works /\ WorkerTypeOK' /\ OrderInv' /\ RequestsOK' /\ ConsoleInv' /\ SelectionInv' /\ HeldInv'
      /\ \E p \in Replies : /\ p.request = running.request /\ p.ok = ok /\ (ok => p.value = value)
                            /\ toPage' = Append(toPage, p)
  BY <1>1, <1>3, <1>8, EndsMove
<1>10. RepliesOK'
  <2>1. PICK p \in Replies : /\ p.request = running.request /\ p.ok = ok /\ (ok => p.value = value)
                             /\ toPage' = Append(toPage, p)
    BY <1>9
  <2>2. p.request.command = "context-run" /\ p.request.session = s
    BY <1>2, <1>3, <2>1
  <2>3. ReplyOK(p)'
    BY <1>3, <1>6, <2>1, <2>2 DEF ReplyOK
  <2>4. QED
    BY <1>1, <1>8, <1>9, <2>1, <2>3, OneMoreAnswer
<1>11. ProgramInv'
  <2>1. running'.request.command # "check"
    BY <1>3 DEF Idle
  <2>2. QED
    BY <1>1, <1>3, <2>1 DEF ProgramInv, NoCheckHeld, NoCheckQueued
<1>12. QED
  BY <1>9, <1>10, <1>11

(* A check ends: every session of the program before is closed already.    *)
LEMMA EndCheckKeeps == ASSUME NEW ok \in BOOLEAN PROVE WInv /\ EndCheck(ok) => WInv'
<1>1. SUFFICES ASSUME WInv, EndCheck(ok) PROVE WInv'
  OBVIOUS
<1> USE DEF WInv
<1>2. alive /\ running.request.command = "check" /\ running # Idle /\ running' = Idle
      /\ Answer(running.request, ok, 0)
      /\ installed' = (IF ok THEN Installed(running) ELSE installed)
      /\ UNCHANGED <<pageVars, toWorker, alive, queue, contextEpoch, sessions, counts>>
  BY <1>1 DEF EndCheck, Idle
<1>3. running.request \in OnItsWay
  BY DEF OnItsWay, Pipe
<1>4. installed \in Programs /\ toPage \in Seq(Replies) /\ source \in Nat /\ console.epoch \in Nat /\ counts.checks \in Nat
  BY <1>1 DEF WorkerTypeOK, PageTypes, WorkerTypes, Consoles
<1>5. /\ running.request \in CheckRequests /\ running.epoch \in Nat
      /\ running.request.of \in Nat /\ running.request.collect \in BOOLEAN
  <2>1. running \in [request : CheckRequests \cup RunRequests, epoch : Nat]
    BY <1>1, <1>2 DEF WorkerTypeOK, WorkerTypes
  <2>2. running.request \in CheckRequests /\ running.epoch \in Nat
    BY <1>2, <2>1 DEF RunRequests
  <2>3. QED
    BY <2>2 DEF CheckRequests
<1>6. PICK ready \in BOOLEAN : ready = (running.request.collect /\ running.epoch = contextEpoch)
  OBVIOUS
<1>7. ok => /\ installed'.version = running.request.of /\ installed'.registry = installed.registry + 1
            /\ installed'.epoch = running.epoch /\ installed'.ready = ready
            /\ installed' \in Programs
  <2>1. ASSUME ok
        PROVE  installed' = [version |-> running.request.of, registry |-> installed.registry + 1, epoch |-> running.epoch,
                             ready |-> ready]
    BY <1>2, <1>6, <2>1 DEF Installed
  <2>2. installed.registry + 1 \in Nat
    BY <1>4 DEF Programs
  <2>3. QED
    BY <1>5, <2>1, <2>2 DEF Programs
<1>8. installed' \in Programs /\ ~console.enabled
  BY <1>1, <1>2, <1>3, <1>4, <1>7 DEF ConsoleInv
<1>9. /\ Works /\ WorkerTypeOK' /\ OrderInv' /\ RequestsOK' /\ ConsoleInv' /\ SelectionInv' /\ HeldInv'
      /\ \E p \in Replies : /\ p.request = running.request /\ p.ok = ok /\ (ok => p.value = 0)
                            /\ toPage' = Append(toPage, p)
  BY <1>1, <1>2, <1>8, EndsMove
<1>10. RepliesOK'
  <2>1. PICK p \in Replies : p.request = running.request /\ p.ok = ok /\ toPage' = Append(toPage, p)
    BY <1>9
  <2>2. UNCHANGED <<source, console, listed, panel, waiting, shown, counts, sessions>>
    BY <1>2 DEF pageVars
  <2>3. ok /\ running.request.token = console.epoch => installed'.version = source
    BY <1>1, <1>2, <1>3, <1>7 DEF RequestsOK, RequestOK
  <2>4. ReplyOK(p)'
    BY <1>2, <2>1, <2>2, <2>3 DEF ReplyOK
  <2>5. ASSUME NEW x \in Replies, NEW i \in DOMAIN toPage, x = toPage[i] PROVE ReplyOK(x)'
    <3>1. ReplyOK(x) /\ x.request \in OnItsWay /\ RequestOK(x.request) /\ Earlier("check", x.request, running.request)
      BY <1>1, <2>5, PipeTypes DEF RepliesOK, RequestsOK, OrderInv, Ordered
    <3>2. ~ (x.request.command = "check" /\ x.request.token = console.epoch)
      <4>1. SUFFICES ASSUME x.request.command = "check", x.request.token = console.epoch PROVE FALSE
        OBVIOUS
      <4>2. x.request.id + 1 = counts.checks
        BY <3>1, <4>1 DEF RequestOK
      <4>3. x.request.id < running.request.id
        BY <1>2, <3>1, <4>1 DEF Earlier
      <4>4. running.request.id < counts.checks
        BY <1>1, <1>2, <1>3 DEF OrderInv, Numbered
      <4>5. x.request.id \in Nat /\ running.request.id \in Nat
        BY <1>1, <1>2, <1>3, <3>1, <4>1, PipeTypes
      <4>6. QED
        BY <1>4, <4>2, <4>3, <4>4, <4>5
    <3>3. QED
      BY <2>2, <3>1, <3>2 DEF ReplyOK
  <2>6. \A i \in DOMAIN toPage' : (i \in DOMAIN toPage /\ toPage'[i] = toPage[i]) \/ toPage'[i] = p
    BY <1>4, <2>1, LastShape
  <2>7. \A i \in DOMAIN toPage : toPage[i] \in Replies
    BY <1>4
  <2>8. \A i \in DOMAIN toPage' : \A x : x = toPage'[i] => ReplyOK(x)'
    BY <2>4, <2>5, <2>6, <2>7
  <2>9. QED
    BY <2>8 DEF RepliesOK, ReplyOK
<1>11. ProgramInv'
  <2>1. running'.request.command # "check"
    BY <1>2 DEF Idle
  <2>2. ~installed.ready
    BY <1>1, <1>2 DEF ProgramInv, NoCheckHeld
  <2>3. \A s \in DOMAIN sessions : sessions[s].closed
    BY <1>1, <2>2 DEF ProgramInv
  <2>4. installed'.ready => NoCheckQueued
    <3>1. SUFFICES ASSUME installed'.ready, NEW j \in DOMAIN queue, queue[j].request.command = "check" PROVE FALSE
      BY DEF NoCheckQueued
    <3>2. running.epoch < contextEpoch
      BY <1>1, <1>2, <3>1 DEF ProgramInv
    <3>3. running.epoch = contextEpoch
      BY <1>2, <1>6, <1>7, <2>2, <3>1
    <3>4. QED
      BY <1>5, <3>2, <3>3
  <2>5. installed'.ready => installed'.epoch = contextEpoch
    BY <1>2, <1>6, <1>7, <2>2
  <2>6. QED
    BY <1>1, <1>2, <2>1, <2>3, <2>4, <2>5 DEF ProgramInv, NoCheckHeld, NoCheckQueued
<1>12. QED
  BY <1>9, <1>10, <1>11

(* The kernel's instance fails.                                            *)
LEMMA FaultKeeps == WInv /\ Fault => WInv'
<1>1. SUFFICES ASSUME WInv, Fault PROVE WInv'
  OBVIOUS
<1> USE DEF WInv
<1>2. /\ alive /\ alive' = FALSE /\ toWorker' = <<>> /\ toPage' = <<>> /\ waiting' = {}
      /\ console' = Invalid /\ listed' = 0 /\ panel' = [panel EXCEPT !.busy = FALSE]
      /\ UNCHANGED <<source, shown, queue, running, contextEpoch, installed, sessions, counts>>
  BY <1>1 DEF Fault
<1>3. console \in Consoles /\ panel \in Panels
  BY <1>1 DEF WorkerTypeOK, PageTypes
<1>4. console' \in Consoles /\ console'.epoch = console.epoch + 1 /\ console.epoch \in Nat /\ console'.enabled = FALSE
      /\ console'.active = 0
  BY <1>2, <1>3, InvalidShape
<1>5. panel' \in Panels /\ panel'.token = panel.token /\ panel'.chosen = panel.chosen
  BY <1>2, <1>3, PanelFree
<1>6. WorkerTypeOK'
  <2>1. PageTypes'
    BY <1>1, <1>2, <1>4, <1>5 DEF WorkerTypeOK, PageTypes
  <2>2. toWorker' \in Seq(Messages) /\ toPage' \in Seq(Replies) /\ alive' \in BOOLEAN
    <3>1. \A S : <<>> \in Seq(S)
      OBVIOUS
    <3>2. alive' \in BOOLEAN
      BY <1>2
    <3>3. QED
      BY <1>2, <3>1, <3>2
  <2>3. WorkerTypes'
    BY <1>1, <1>2, <2>2 DEF WorkerTypeOK, WorkerTypes
  <2>4. QED
    BY <2>1, <2>3 DEF WorkerTypeOK
<1>7. OnItsWay' \subseteq OnItsWay /\ DOMAIN toPage' = {} /\ DOMAIN toWorker' = {}
  BY <1>2 DEF OnItsWay, Pipe
<1>8. OrderInv'
  BY <1>1, <1>2, <1>7 DEF OrderInv, Ordered, Numbered
<1>9. ProgramInv'
  BY <1>1, <1>2, SameProgram
<1>10. RequestsOK'
  BY <1>1, <1>2, <1>7, Outdated DEF RequestsOK
<1>11. RepliesOK' /\ HeldInv'
  BY <1>2, <1>7 DEF RepliesOK, HeldInv
<1>12. ConsoleInv'
  <2>1. panel.token \in Nat
    BY <1>3 DEF Panels
  <2>2. panel'.token <= console'.epoch /\ panel'.token # console'.epoch
    BY <1>1, <1>4, <1>5, <2>1 DEF ConsoleInv
  <2>3. shown # NotShown => shown.version = shown.of
    BY <1>1 DEF ConsoleInv
  <2>4. QED
    BY <1>2, <1>4, <2>2, <2>3 DEF ConsoleInv
<1>13. SelectionInv'
  BY <1>1, <1>2, <1>5, SelectionEnds
<1>14. QED
  BY <1>6, <1>8, <1>9, <1>10, <1>11, <1>12, <1>13

-----------------------------------------------------------------------------
(* What each step keeps.                                                   *)
LEMMA WInvHolds == WorkerSpec => []WInv
<1>1. WInv /\ [WorkerNext]_workerSystem => WInv'
  <2>1. SUFFICES ASSUME WInv, [WorkerNext]_workerSystem PROVE WInv'
    OBVIOUS
  <2>2. CASE EditSource
    BY <2>1, <2>2, EditKeeps
  <2>3. CASE AskPoints
    BY <2>1, <2>3, AskPointsKeeps
  <2>4. CASE Select
    BY <2>1, <2>4, SelectKeeps
  <2>5. CASE Reset
    BY <2>1, <2>5, ResetKeeps
  <2>6. CASE Deselect
    BY <2>1, <2>6, DeselectKeeps
  <2>7. CASE EnterLine
    BY <2>1, <2>7, EnterKeeps
  <2>8. CASE Receive
    BY <2>1, <2>8, ReceiveKeeps
  <2>9. CASE \E collect \in BOOLEAN : AskCheck(collect)
    BY <2>1, <2>9, CheckKeeps
  <2>10. CASE OnMessage
    BY <2>1, <2>10, OnMessageKeeps
  <2>11. CASE BeginCheck
    BY <2>1, <2>11, BeginCheckKeeps
  <2>12. CASE ListPoints
    BY <2>1, <2>12, ListKeeps
  <2>13. CASE OpenContext
    BY <2>1, <2>13, OpenKeeps
  <2>14. CASE BeginRun
    BY <2>1, <2>14, BeginRunKeeps
  <2>15. CASE EndRun
    BY <2>1, <2>15, EndRunKeeps
  <2>16. CASE Fault
    BY <2>1, <2>16, FaultKeeps
  <2>17. CASE \E ok \in BOOLEAN : EndCheck(ok)
    BY <2>1, <2>17, EndCheckKeeps
  <2>18. CASE UNCHANGED workerSystem
    BY <2>1, <2>18
    DEF workerSystem, pageVars, workerVars, WInv, WorkerTypeOK, PageTypes, WorkerTypes, OrderInv, Numbered, OnItsWay,
        ProgramInv, NoCheckHeld, NoCheckQueued, RequestsOK, RequestOK, RepliesOK, ReplyOK, ConsoleInv, SelectionInv,
        OfSelection, HeldInv, Attended
  <2>19. QED
    BY <2>1, <2>2, <2>3, <2>4, <2>5, <2>6, <2>7, <2>8, <2>9, <2>10, <2>11, <2>12, <2>13, <2>14, <2>15, <2>16, <2>17,
       <2>18 DEF WorkerNext
<1>2. QED
  BY <1>1, InitHolds, PTL DEF WorkerSpec

(* SessionsCurrent: what a panel shows was computed for the source in the  *)
(* editor then; an open session is of the installed program and none that  *)
(* the page does not show stays open; for any numbers of edits, checks,    *)
(* contexts and entries.                                                   *)
THEOREM SessionsStayCurrent == WorkerSpec => []SessionsCurrent
<1>1. WInv => SessionsCurrent
  <2>1. SUFFICES ASSUME WInv PROVE SessionsCurrent
    OBVIOUS
  <2>2. shown # NotShown => shown.version = shown.of
    BY <2>1 DEF WInv, ConsoleInv
  <2>3. installed.ready => installed.epoch = contextEpoch
    BY <2>1 DEF WInv, ProgramInv
  <2>4. ASSUME NEW s \in DOMAIN sessions, ~sessions[s].closed PROVE ~Stale(s) /\ (Quiet => s = console.active)
    <3>1. ~Stale(s)
      BY <2>1, <2>4 DEF WInv, ProgramInv, Stale
    <3>2. Quiet => DOMAIN toWorker = {} /\ DOMAIN toPage = {} /\ alive
      BY DEF Quiet
    <3>3. Quiet => s = console.active
      BY <2>1, <2>4, <3>2 DEF WInv, HeldInv, Attended
    <3>4. QED
      BY <3>1, <3>3
  <2>5. QED
    BY <2>2, <2>3, <2>4 DEF SessionsCurrent
<1>2. QED
  BY <1>1, WInvHolds, PTL
=============================================================================
