-------------------------- MODULE DeclarationsProofs --------------------------
(***************************************************************************)
(* AvailableIsDefined and OneMeaning of module Declarations, proved for    *)
(* any labels, sources, imports and number of items.                       *)
(*                                                                         *)
(* The queue has one shape: it is empty, it has the one item just read, or *)
(* it has the rest of a theory's groups, each a start, its members and its *)
(* end, in their order (Chain).  The invariant DInv says what each means.  *)
(* With no group open, the environment stands (EnvOK) but for the names    *)
(* that are still to come.  With one open (Busy), it stands but for those  *)
(* and the members after the last that was checked; and so does the one    *)
(* that a failure restores, but for the whole group.  That a step keeps    *)
(* this is one lemma for whatever it publishes (Publishing): a name is     *)
(* published once, by its owner, while it is still to come.                *)
(***************************************************************************)
EXTENDS Declarations, SequenceProofs

-----------------------------------------------------------------------------
(* The invariant.                                                          *)

Values == [tag : {"absent", "refused", "checked", "untranslated"}, by : Keys \cup {NoName}, item : Nat,
           root : Keys \cup {NoName}]
Envs == [plain : [Labels -> Values], exact : [Keys -> Values], spelled : [Keys -> Values]]
Kernels == [by : Keys, uses : SUBSET (Keys \cup {NoName})]
Groups == [members : Seq(Members), item : Nat, root : Keys \cup {NoName}, dependencies : SUBSET Nat,
           state : {"reserved", "checking", "checked", "failed", "blocked"}]

DeclarationTypeOK ==
  /\ items \in Nat /\ IsSeq(queue) /\ groups \in Seq(Groups)
  /\ env \in Envs /\ kernel \in SUBSET Kernels /\ rootFailures \in SUBSET Keys
  /\ DOMAIN owner \subseteq Labels /\ owner \in [DOMAIN owner -> 1 .. items] /\ declared \subseteq DOMAIN owner
  /\ \/ active = NoGroup
     \/ active.group \in DOMAIN groups /\ active.env \in Envs /\ active.kernel \in SUBSET Kernels

(* A group reserved its names, apart from any other's, and depends on      *)
(* groups before it.                                                       *)
NamesOf(g) == AllNames(groups[g].members)
GroupInv ==
  \A g \in DOMAIN groups :
    /\ groups[g].item \in 1 .. items
    /\ \A n \in NamesOf(g) : n \in DOMAIN owner /\ owner[n] = groups[g].item /\ n \in declared
    /\ \A h \in DOMAIN groups \ {g} : NamesOf(g) \cap NamesOf(h) = {}
    /\ \A i \in DOMAIN groups[g].members :
         /\ groups[g].members[i].item = groups[g].item
         /\ \A j \in DOMAIN groups[g].members \ {i} :
              NamesIn(groups[g].members[i]) \cap NamesIn(groups[g].members[j]) = {}
    /\ \A h \in groups[g].dependencies : h \in 1 .. g - 1
    /\ groups[g].state \in {"failed", "blocked"} => groups[g].root \in rootFailures

(* The queue has a group's members after position i, its end after them,   *)
(* and then the start of the next group, if there is one.                  *)
BlockAt(q, i, gs, g) ==
  LET end == i + Len(gs[g].members) + 1 IN
  /\ end \in DOMAIN q /\ q[end].kind = "end" /\ q[end].item = gs[g].item
  /\ \A j \in DOMAIN gs[g].members : i + j >= 1 => q[i + j] = gs[g].members[j]
  /\ IF end = Len(q) THEN g = Len(gs) ELSE q[end + 1].kind = "start" /\ q[end + 1].group = g + 1
Chain(q, gs) ==
  \A i \in DOMAIN q : q[i].kind = "start" =>
    q[i].group \in DOMAIN gs /\ q[i].item = gs[q[i].group].item /\ BlockAt(q, i, gs, q[i].group)

(* The groups before g are done with, and those from h on are to come.     *)
Settled == {"checked", "failed", "blocked"}
Upto(gs, g, h) ==
  /\ \A l \in DOMAIN gs : l < g => gs[l].state \in Settled
  /\ \A l \in DOMAIN gs : l >= h => gs[l].state = "reserved"

(* What an environment has is defined and has its causes; what is owned    *)
(* and not still to come means its owner's item; what is to come has no    *)
(* identity yet, and a spelling that stands for something says the same.   *)
Means(e, o, n) ==
  /\ e.plain[n].item = o[n] /\ e.plain[n].by = <<Module, n>>
  /\ n \notin Joined => e.exact[<<Module, n>>] = e.plain[n]
Grounds(v, K, F) ==
  /\ v.tag = "checked" => \E k \in K : k.by = v.by
  /\ v.tag = "untranslated" => v.root \in F
EnvOK(e, K, F, o, W, gs) ==
  /\ \A n \in Labels : Grounds(e.plain[n], K, F)
  /\ \A k \in Keys : Grounds(e.exact[k], K, F) /\ Grounds(e.spelled[k], K, F)
  /\ \A k \in K : \A u \in k.uses : \E l \in K : l.by = u
  /\ \A n \in DOMAIN o \ W : Means(e, o, n)
  /\ \A n \in Labels : n \notin DOMAIN o \/ n \in W \/ n \in Joined => e.exact[<<Module, n>>].tag = "absent"
  /\ \A k \in Keys : e.spelled[k].tag \notin {"absent", "refused"} => e.spelled[k] = e.exact[k]
  /\ \A g \in DOMAIN gs : gs[g].state = "checked" => \A n \in AllNames(gs[g].members) : e.plain[n].tag = "checked"

ToCome(gs) == UNION {AllNames(gs[g].members) : g \in {h \in DOMAIN gs : gs[h].state = "reserved"}}
After(ds, done) == UNION {NamesIn(ds[j]) : j \in {i \in DOMAIN ds : i > done}}

(* Nothing is queued; an item is; or the rest of a theory's groups are.   *)
Waits == queue = <<>> /\ Upto(groups, Len(groups) + 1, Len(groups) + 1)
Fresh ==
  /\ items # 0 /\ Len(queue) = 1 /\ queue[1] \in Sources /\ queue[1].item = items
  /\ queue[1].kind = "theory" =>
       /\ queue[1].constructors = {} /\ queue[1].name \in AllNames(queue[1].members)
       /\ WellOrdered(queue[1].members)
       /\ \A i \in DOMAIN queue[1].members : queue[1].members[i].item = items
  /\ \A n \in DOMAIN owner : owner[n] < items
  /\ \A g \in DOMAIN groups : groups[g].item < items
  /\ Upto(groups, Len(groups) + 1, Len(groups) + 1)
Grouped ==
  /\ queue # <<>> /\ queue[1].kind = "start" /\ Chain(queue, groups)
  /\ Upto(groups, queue[1].group, queue[1].group)
  /\ \A g \in DOMAIN groups : g >= queue[1].group => groups[g].item = items
Idle ==
  /\ active = NoGroup
  /\ EnvOK(env, kernel, rootFailures, owner, ToCome(groups), groups)
  /\ Waits \/ Fresh \/ Grouped
Busy(done) ==
  /\ active # NoGroup
  /\ done \in 0 .. Len(groups[active.group].members)
  /\ BlockAt(queue, - done, groups, active.group) /\ Chain(queue, groups)
  /\ groups[active.group].state = "checking" /\ Upto(groups, active.group, active.group + 1)
  /\ \A g \in DOMAIN groups : g >= active.group => groups[g].item = items
  /\ EnvOK(env, kernel, rootFailures, owner, ToCome(groups) \cup After(groups[active.group].members, done), groups)
  /\ \A n \in NamesOf(active.group) \ After(groups[active.group].members, done) : env.plain[n].tag = "checked"
  /\ EnvOK(active.env, active.kernel, rootFailures, owner, ToCome(groups) \cup NamesOf(active.group), groups)

DInv == DeclarationTypeOK /\ GroupInv /\ (Idle \/ \E done \in Nat : Busy(done))

-----------------------------------------------------------------------------
(* Numbers and sequences.                                                  *)

(* What is left of a sequence without its first m elements.                *)
Suffix(r, q, m) ==
  /\ IsSeq(r) /\ Len(r) = Len(q) - m /\ DOMAIN r = 1 .. Len(q) - m
  /\ \A i \in 1 .. Len(q) - m : r[i] = q[i + m]

LEMMA SuffixShape ==
  ASSUME NEW q, IsSeq(q), NEW m \in 0 .. Len(q)
  PROVE  Suffix(SubSeq(q, m + 1, Len(q)), q, m)
<1>1. PICK S : q \in Seq(S)
  BY DEF IsSeq
<1>2. PICK r : r = SubSeq(q, m + 1, Len(q))
  OBVIOUS
<1>3. r \in Seq(S) /\ Len(r) = Len(q) - m
  BY <1>1, <1>2
<1>4. \A i \in 1 .. Len(q) - m : r[i] = q[i + m]
  BY <1>1, <1>2
<1>5. IsSeq(r) /\ DOMAIN r = 1 .. Len(q) - m
  BY <1>3 DEF IsSeq
<1>6. QED
  BY <1>2, <1>3, <1>4, <1>5 DEF Suffix

LEMMA TailShape ==
  ASSUME NEW q, IsSeq(q), q # <<>>
  PROVE  /\ Head(q) = q[1] /\ Len(q) \in Nat \ {0} /\ 1 \in DOMAIN q
         /\ Suffix(Tail(q), q, 1)
<1>1. PICK S : q \in Seq(S)
  BY DEF IsSeq
<1>2. PICK r : r = Tail(q)
  OBVIOUS
<1>3. Head(q) = q[1] /\ Len(q) \in Nat \ {0} /\ 1 \in DOMAIN q
  BY <1>1
<1>4. r \in Seq(S) /\ Len(r) = Len(q) - 1
  BY <1>1, <1>2, <1>3
<1>5. \A i \in 1 .. Len(q) - 1 : r[i] = q[i + 1]
  BY <1>1, <1>2, <1>3
<1>6. IsSeq(r) /\ DOMAIN r = 1 .. Len(q) - 1
  BY <1>4 DEF IsSeq
<1>7. QED
  BY <1>2, <1>3, <1>4, <1>5, <1>6 DEF Suffix

(* The queue keeps its order as it is worked off.                          *)
LEMMA SuffixBlock ==
  ASSUME NEW q, IsSeq(q), NEW m \in 0 .. Len(q), NEW r, Suffix(r, q, m),
         NEW gs \in Seq(Groups), NEW g \in DOMAIN gs, NEW i \in Int, BlockAt(q, i, gs, g),
         i + Len(gs[g].members) + 1 > m
  PROVE  BlockAt(r, i - m, gs, g)
<1>1. PICK ds : ds = gs[g].members
  OBVIOUS
<1>2. PICK len \in Nat : len = Len(ds) /\ DOMAIN ds = 1 .. len
  <2>1. gs[g] \in Groups
    OBVIOUS
  <2>2. ds \in Seq(Members)
    BY <1>1, <2>1 DEF Groups
  <2>3. QED
    BY <2>2
<1>3. PICK n \in Nat : n = Len(q) /\ DOMAIN q = 1 .. n
  BY SeqShape
<1>4. PICK end : end = i + len + 1
  OBVIOUS
<1>5. /\ end \in 1 .. n /\ q[end].kind = "end" /\ q[end].item = gs[g].item
      /\ \A j \in 1 .. len : i + j >= 1 => q[i + j] = ds[j]
      /\ IF end = n THEN g = Len(gs) ELSE q[end + 1].kind = "start" /\ q[end + 1].group = g + 1
  BY <1>1, <1>2, <1>3, <1>4 DEF BlockAt
<1>6. /\ Len(r) = n - m /\ DOMAIN r = 1 .. n - m /\ \A k \in 1 .. n - m : r[k] = q[k + m]
  BY <1>3 DEF Suffix
<1>7. PICK e : e = i - m + len + 1
  OBVIOUS
<1>8. e = end - m /\ e \in 1 .. n - m /\ r[e] = q[end]
  <2>1. i + len + 1 > m
    BY <1>1, <1>2
  <2>2. end \in Int /\ e = end - m /\ end > m /\ end <= n
    BY <1>3, <1>4, <1>5, <1>7, <2>1
  <2>3. e \in 1 .. n - m /\ e + m = end
    BY <1>3, <2>2
  <2>4. QED
    BY <1>6, <2>2, <2>3
<1>9. ASSUME NEW j \in 1 .. len, i - m + j >= 1 PROVE r[i - m + j] = ds[j]
  <2>1. i - m + j \in 1 .. n - m /\ i - m + j + m = i + j /\ i + j >= 1
    BY <1>2, <1>3, <1>4, <1>5, <1>9
  <2>2. r[i - m + j] = q[i + j]
    BY <1>6, <2>1
  <2>3. QED
    BY <1>5, <2>1, <2>2
<1>10. IF e = n - m THEN g = Len(gs) ELSE r[e + 1].kind = "start" /\ r[e + 1].group = g + 1
  <2>1. CASE e = n - m
    BY <1>5, <1>8, <2>1
  <2>2. CASE e # n - m
    <3>1. e + 1 \in 1 .. n - m /\ e + 1 + m = end + 1 /\ end # n
      BY <1>3, <1>5, <1>8, <2>2
    <3>2. r[e + 1] = q[end + 1]
      BY <1>6, <3>1
    <3>3. QED
      BY <1>5, <2>2, <3>1, <3>2
  <2>3. QED
    BY <2>1, <2>2
<1>11. i - m + Len(gs[g].members) + 1 = e
  BY <1>1, <1>2, <1>7
<1>12. DOMAIN gs[g].members = 1 .. len /\ e \in DOMAIN r /\ Len(r) = n - m
  BY <1>1, <1>2, <1>6, <1>8
<1>13. r[e].kind = "end" /\ r[e].item = gs[g].item
  BY <1>5, <1>8
<1>14. QED
  BY <1>1, <1>9, <1>10, <1>11, <1>12, <1>13, ZenonT(40) DEF BlockAt

LEMMA SuffixChain ==
  ASSUME NEW q, IsSeq(q), NEW m \in 0 .. Len(q), NEW r, Suffix(r, q, m),
         NEW gs \in Seq(Groups), Chain(q, gs)
  PROVE  Chain(r, gs)
<1>1. PICK n \in Nat : n = Len(q) /\ DOMAIN q = 1 .. n
  BY SeqShape
<1>2. ASSUME NEW i \in DOMAIN r, r[i].kind = "start"
      PROVE  r[i].group \in DOMAIN gs /\ r[i].item = gs[r[i].group].item /\ BlockAt(r, i, gs, r[i].group)
  <2>1. i \in 1 .. n - m /\ r[i] = q[i + m] /\ i + m \in DOMAIN q
    BY <1>1, <1>2 DEF Suffix
  <2>2. PICK g \in DOMAIN gs : g = r[i].group /\ r[i].item = gs[g].item /\ BlockAt(q, i + m, gs, g)
    BY <1>2, <2>1 DEF Chain
  <2>3. Len(gs[g].members) \in Nat
    <3>1. gs[g] \in Groups
      OBVIOUS
    <3>2. gs[g].members \in Seq(Members)
      BY <3>1 DEF Groups
    <3>3. QED
      BY <3>2
  <2>4. PICK k \in Int : k = i + m /\ k + Len(gs[g].members) + 1 > m /\ k - m = i
    BY <1>1, <2>1, <2>3
  <2>5. BlockAt(q, k, gs, g)
    BY <2>2, <2>4
  <2>6. BlockAt(r, k - m, gs, g)
    BY <2>4, <2>5, SuffixBlock
  <2>7. QED
    BY <2>2, <2>4, <2>6
<1>3. QED
  BY <1>2 DEF Chain

(* Flattening is concatenating one more each time.                         *)
Flattens(f, ss) ==
  /\ f[0] = <<>>
  /\ \A i \in 1 .. Len(ss) : f[i] = f[i - 1] \o ss[i]
  /\ FlattenSeq(ss) = f[Len(ss)]

LEMMA ConcatIn == ASSUME NEW X, NEW s \in Seq(X), NEW t \in Seq(X) PROVE s \o t \in Seq(X)
OBVIOUS

LEMMA FlattenShape ==
  ASSUME NEW X, NEW ss \in Seq(Seq(X))
  PROVE  \E f \in [0 .. Len(ss) -> Seq(X)] : Flattens(f, ss)
<1> DEFINE n == Len(ss)
           Good(m) == \E f \in [0 .. m -> Seq(X)] : f[0] = <<>> /\ \A i \in 1 .. m : f[i] = f[i - 1] \o ss[i]
<1>1. n \in Nat /\ \A i \in 1 .. n : ss[i] \in Seq(X)
  OBVIOUS
<1>2. Good(0)
  <2> DEFINE f == [i \in 0 .. 0 |-> <<>>]
  <2>1. f \in [0 .. 0 -> Seq(X)] /\ f[0] = <<>> /\ 1 .. 0 = {}
    OBVIOUS
  <2> HIDE DEF f
  <2>2. \A i \in 1 .. 0 : f[i] = f[i - 1] \o ss[i]
    BY <2>1
  <2>3. QED
    BY <2>1, <2>2
<1>3. ASSUME NEW m \in Nat, m + 1 <= n, Good(m) PROVE Good(m + 1)
  <2>1. PICK f \in [0 .. m -> Seq(X)] : f[0] = <<>> /\ \A i \in 1 .. m : f[i] = f[i - 1] \o ss[i]
    BY <1>3
  <2>2. f[m] \in Seq(X) /\ ss[m + 1] \in Seq(X)
    BY <1>1, <1>3, <2>1
  <2>3. PICK x \in Seq(X) : x = f[m] \o ss[m + 1]
    <3>1. f[m] \o ss[m + 1] \in Seq(X)
      BY <2>2, ConcatIn, Zenon
    <3>2. QED
      BY <3>1, Zenon
  <2> DEFINE g == [i \in 0 .. m + 1 |-> IF i = m + 1 THEN x ELSE f[i]]
  <2>4. g \in [0 .. m + 1 -> Seq(X)]
    BY <2>1, <2>3
  <2>5. g[0] = <<>>
    BY <2>1
  <2>6. ASSUME NEW i \in 1 .. m + 1 PROVE g[i] = g[i - 1] \o ss[i]
    <3>1. i - 1 \in 0 .. m /\ i - 1 # m + 1 /\ i - 1 \in 0 .. m + 1 /\ i \in 0 .. m + 1
      OBVIOUS
    <3>2. g[i - 1] = f[i - 1]
      BY <3>1
    <3>3. CASE i = m + 1
      <4>1. i - 1 = m /\ g[i] = x
        BY <3>1, <3>3
      <4>2. QED
        BY <2>3, <3>2, <3>3, <4>1
    <3>4. CASE i # m + 1
      <4>1. i \in 1 .. m /\ g[i] = f[i]
        BY <3>1, <3>4
      <4>2. QED
        BY <2>1, <3>2, <4>1
    <3>5. QED
      BY <3>3, <3>4
  <2> HIDE DEF g
  <2>7. QED
    BY <2>4, <2>5, <2>6
<1>4. Good(n)
  <2> DEFINE Bad == {m \in 0 .. n : ~ Good(m)}
  <2> HIDE DEF Good
  <2>1. SUFFICES ASSUME Bad # {} PROVE FALSE
    BY <1>1
  <2>2. PICK m \in Bad : \A l \in Bad : m <= l
    <3>1. Bad \in SUBSET Nat
      BY <1>1
    <3> HIDE DEF Bad
    <3>2. QED
      BY <2>1, <3>1, LeastNat, Zenon
  <2>3. m \in 0 .. n /\ m # 0
    BY <1>1, <1>2, <2>2
  <2>4. PICK l \in Nat : l = m - 1 /\ l + 1 = m
    BY <1>1, <2>3
  <2>5. Good(l)
    BY <1>1, <2>2, <2>3, <2>4
  <2>6. Good(l + 1)
    BY <1>1, <1>3, <2>3, <2>4, <2>5
  <2>7. QED
    BY <2>2, <2>4, <2>6
<1>6. PICK f \in [0 .. n -> Seq(X)] : f[0] = <<>> /\ \A i \in 1 .. n : f[i] = f[i - 1] \o ss[i]
  BY <1>1, <1>4
<1>7. FlattenSeq(ss) = f[n]
  <2>1. CASE n = 0
    <3>1. ss = <<>>
      BY <2>1
    <3>2. FlattenSeq(ss) = ss
      BY <2>1 DEF FlattenSeq
    <3>3. QED
      BY <1>6, <2>1, <3>1, <3>2
  <2>2. CASE n # 0
    <3> DEFINE Is(g) == g = [i \in 1 .. Len(ss) |-> IF i = 1 THEN ss[i] ELSE g[i - 1] \o ss[i]]
               flat == CHOOSE g : Is(g)
               h == [i \in 1 .. n |-> f[i]]
    <3>1. FlattenSeq(ss) = flat[n]
      BY <2>2 DEF FlattenSeq
    <3>0. f[1] = ss[1]
      <4>1. 1 \in 1 .. n /\ 1 - 1 = 0
        BY <1>1, <2>2
      <4>2. f[1] = f[0] \o ss[1]
        BY <1>6, <4>1
      <4>3. ss[1] \in Seq(X) /\ f[0] = <<>>
        BY <1>1, <1>6, <4>1
      <4>4. <<>> \o ss[1] = ss[1]
        BY <4>3
      <4>5. QED
        BY <4>2, <4>3, <4>4
    <3>2. ASSUME NEW i \in 1 .. n PROVE h[i] = IF i = 1 THEN ss[i] ELSE h[i - 1] \o ss[i]
      <4>1. CASE i = 1
        BY <3>0, <4>1
      <4>2. CASE i # 1
        <5>1. i - 1 \in 1 .. n /\ h[i - 1] = f[i - 1] /\ h[i] = f[i]
          BY <1>1, <4>2
        <5>2. QED
          BY <1>6, <4>2, <5>1
      <4>3. QED
        BY <4>1, <4>2
    <3>3. Is(h)
      <4>1. h = [i \in 1 .. n |-> h[i]]
        OBVIOUS
      <4> HIDE DEF h
      <4>2. QED
        BY <3>2, <4>1
    <3>4. Is(flat)
      <4> HIDE DEF Is, h
      <4>1. QED
        BY <3>3
    <3>5. flat = [i \in 1 .. n |-> IF i = 1 THEN ss[i] ELSE flat[i - 1] \o ss[i]]
      BY <3>4
    <3> HIDE DEF flat, h
    <3>6. \A i \in 1 .. n : flat[i] = IF i = 1 THEN ss[i] ELSE flat[i - 1] \o ss[i]
      BY <3>5
    <3> DEFINE Bad == {i \in 1 .. n : flat[i] # f[i]}
    <3>7. Bad = {}
      <4>1. SUFFICES ASSUME Bad # {} PROVE FALSE
        OBVIOUS
      <4>2. PICK m \in Bad : \A l \in Bad : m <= l
        <5>1. Bad \in SUBSET Nat
          BY <1>1
        <5> HIDE DEF Bad
        <5>2. QED
          BY <4>1, <5>1, LeastNat, Zenon
      <4>3. CASE m = 1
        <5>1. flat[m] = ss[m] /\ f[m] = ss[m]
          BY <3>0, <3>6, <4>2, <4>3
        <5>2. QED
          BY <4>2, <5>1
      <4>4. CASE m # 1
        <5>1. m - 1 \in 1 .. n /\ ~ (m <= m - 1) /\ m \in 1 .. n
          BY <1>1, <4>2, <4>4
        <5>2. flat[m - 1] = f[m - 1]
          BY <4>2, <5>1
        <5>3. flat[m] = f[m]
          BY <1>6, <3>6, <4>4, <5>1, <5>2
        <5>4. QED
          BY <4>2, <5>3
      <4>5. QED
        BY <4>3, <4>4
    <3>8. n \in 1 .. n
      BY <1>1, <2>2
    <3>9. QED
      BY <3>1, <3>7, <3>8
  <2>3. QED
    BY <2>1, <2>2
<1>8. QED
  BY <1>6, <1>7 DEF Flattens

(* Blocks one after the other are a chain.                                 *)
BlockIn(q, i, gs, g, last) ==
  LET end == i + Len(gs[g].members) + 1 IN
  /\ end \in DOMAIN q /\ q[end].kind = "end" /\ q[end].item = gs[g].item
  /\ \A j \in DOMAIN gs[g].members : q[i + j] = gs[g].members[j]
  /\ IF end = Len(q) THEN g = last ELSE q[end + 1].kind = "start" /\ q[end + 1].group = g + 1
PartChain(q, gs, last) ==
  \A i \in DOMAIN q : q[i].kind = "start" =>
    q[i].group \in DOMAIN gs /\ q[i].item = gs[q[i].group].item /\ BlockIn(q, i, gs, q[i].group, last)

LEMMA GroupShape ==
  ASSUME NEW gs \in Seq(Groups), NEW g \in DOMAIN gs
  PROVE  /\ gs[g].members \in Seq(Members) /\ Len(gs[g].members) \in Nat
         /\ DOMAIN gs[g].members = 1 .. Len(gs[g].members)
         /\ \A j \in DOMAIN gs[g].members : gs[g].members[j] \in Members
<1>1. gs[g] \in Groups
  OBVIOUS
<1>2. gs[g].members \in Seq(Members)
  BY <1>1 DEF Groups
<1>3. PICK ds : ds = gs[g].members
  OBVIOUS
<1>4. ds \in Seq(Members)
  BY <1>2, <1>3
<1>5. Len(ds) \in Nat /\ DOMAIN ds = 1 .. Len(ds) /\ \A j \in DOMAIN ds : ds[j] \in Members
  BY <1>4
<1>6. QED
  BY <1>3, <1>4, <1>5, Zenon

Entries == Members \cup [kind : {"start", "end"}, group : Int, item : Nat]

LEMMA BlockShape ==
  ASSUME NEW gs \in Seq(Groups), NEW g \in DOMAIN gs
  PROVE  /\ Block(gs[g], g) \in Seq(Entries)
         /\ Len(Block(gs[g], g)) = Len(gs[g].members) + 2
         /\ Block(gs[g], g)[1] = Mark("start", g, gs[g].item)
         /\ \A j \in DOMAIN gs[g].members : Block(gs[g], g)[1 + j] = gs[g].members[j]
         /\ Block(gs[g], g)[Len(gs[g].members) + 2] = Mark("end", g, gs[g].item)
<1>1. PICK ds : ds = gs[g].members
  OBVIOUS
<1>2. ds \in Seq(Members) /\ Len(ds) \in Nat /\ DOMAIN ds = 1 .. Len(ds)
  BY <1>1, GroupShape, Zenon
<1>3. PICK a, b : a = Mark("start", g, gs[g].item) /\ b = Mark("end", g, gs[g].item)
  OBVIOUS
<1>4. a \in Entries /\ b \in Entries
  <2>1. gs[g] \in Groups /\ g \in Int
    OBVIOUS
  <2>2. gs[g].item \in Nat
    BY <2>1 DEF Groups
  <2>3. QED
    BY <1>3, <2>1, <2>2 DEF Mark, Entries
<1>5. ds \in Seq(Entries)
  <2>1. \A j \in DOMAIN ds : ds[j] \in Entries
    <3>1. \A j \in DOMAIN ds : ds[j] \in Members
      BY <1>2
    <3>2. QED
      BY <3>1 DEF Entries
  <2>2. QED
    BY <1>2, <2>1
<1>6. Block(gs[g], g) = <<a>> \o ds \o <<b>>
  BY <1>1, <1>3 DEF Block
<1>7. PICK n \in Nat : n = Len(ds) /\ DOMAIN ds = 1 .. n
  BY <1>2
<1>8. PICK s \in Seq(Entries) : s = <<a>> \o ds
  <2>1. <<a>> \in Seq(Entries)
    BY <1>4
  <2>2. <<a>> \o ds \in Seq(Entries)
    BY <1>5, <2>1, ConcatIn, Zenon
  <2>3. QED
    BY <2>2, Zenon
<1>9. Len(s) = n + 1 /\ s[1] = a /\ \A j \in 1 .. n : s[1 + j] = ds[j]
  BY <1>4, <1>5, <1>7, <1>8
<1>10. PICK t \in Seq(Entries) : t = s \o <<b>>
  <2>1. <<b>> \in Seq(Entries) /\ s \in Seq(Entries)
    BY <1>4, <1>8
  <2>2. s \o <<b>> \in Seq(Entries)
    BY <2>1, ConcatIn, Zenon
  <2>3. QED
    BY <2>2, Zenon
<1>11. Len(t) = n + 2 /\ t[n + 2] = b /\ \A j \in 1 .. n + 1 : t[j] = s[j]
  BY <1>4, <1>7, <1>9, <1>10
<1>12. t[1] = a /\ \A j \in 1 .. n : t[1 + j] = ds[j]
  <2>1. 1 \in 1 .. n + 1 /\ \A j \in 1 .. n : 1 + j \in 1 .. n + 1
    OBVIOUS
  <2>2. QED
    BY <1>9, <1>11, <2>1
<1>13. Block(gs[g], g) = t
  BY <1>6, <1>8, <1>10
<1>14. QED
  BY <1>1, <1>3, <1>7, <1>10, <1>11, <1>12, <1>13

LEMMA NextBlock ==
  ASSUME NEW gs \in Seq(Groups), NEW q \in Seq(Entries), NEW last \in Nat, last + 1 \in DOMAIN gs,
         PartChain(q, gs, last), NEW b, b = Block(gs[last + 1], last + 1)
  PROVE  q \o b \in Seq(Entries) /\ PartChain(q \o b, gs, last + 1)
<1>1. PICK g \in DOMAIN gs : g = last + 1 /\ g \in Nat
  OBVIOUS
<1>2. PICK ds : ds = gs[g].members
  OBVIOUS
<1>3. PICK m \in Nat : m = Len(ds) /\ DOMAIN ds = 1 .. m
  BY <1>2, GroupShape, Zenon
<1>4. /\ b \in Seq(Entries) /\ Len(b) = m + 2 /\ b[1] = Mark("start", g, gs[g].item)
      /\ \A j \in 1 .. m : b[1 + j] = ds[j]
      /\ b[m + 2] = Mark("end", g, gs[g].item)
  <2>1. b = Block(gs[g], g)
    BY <1>1
  <2>2. /\ Block(gs[g], g) \in Seq(Entries)
        /\ Len(Block(gs[g], g)) = Len(gs[g].members) + 2
        /\ Block(gs[g], g)[1] = Mark("start", g, gs[g].item)
        /\ \A j \in DOMAIN gs[g].members : Block(gs[g], g)[1 + j] = gs[g].members[j]
        /\ Block(gs[g], g)[Len(gs[g].members) + 2] = Mark("end", g, gs[g].item)
    BY BlockShape, Zenon
  <2>3. QED
    BY <1>2, <1>3, <2>1, <2>2
<1>5. PICK r : r = q \o b
  OBVIOUS
<1>6. PICK n \in Nat : n = Len(q)
  OBVIOUS
<1>7. r \in Seq(Entries) /\ Len(r) = n + m + 2
  <2>1. q \o b \in Seq(Entries)
    BY <1>4, ConcatIn, Zenon
  <2>2. IsSeq(q) /\ IsSeq(b)
    BY <1>4, SeqOfSet, Zenon
  <2>3. Len(q \o b) = Len(q) + Len(b)
    BY <2>2, ConcatShape, Zenon
  <2>4. Len(r) = n + m + 2
    <3>1. n + (m + 2) = n + m + 2
      OBVIOUS
    <3>2. Len(r) = n + (m + 2)
      BY <1>4, <1>5, <1>6, <2>3, Zenon
    <3>3. QED
      BY <3>1, <3>2, Zenon
  <2>5. QED
    BY <1>5, <2>1, <2>4, Zenon
<1>8. (\A i \in 1 .. n : r[i] = q[i]) /\ \A i \in 1 .. m + 2 : r[n + i] = b[i]
  <2>1. IsSeq(q) /\ IsSeq(b)
    BY <1>4, SeqOfSet, Zenon
  <2>2. Extends(q, q \o b) /\ \A i \in DOMAIN b : (q \o b)[Len(q) + i] = b[i]
    BY <2>1, ConcatShape, ZenonT(40)
  <2>3. DOMAIN q = 1 .. n /\ DOMAIN b = 1 .. m + 2
    BY <1>4, <1>6
  <2>4. QED
    BY <1>5, <1>6, <2>2, <2>3 DEF Extends
<1>9. DOMAIN r = 1 .. n + m + 2 /\ DOMAIN q = 1 .. n
  BY <1>6, <1>7, <1>3
<1>10. /\ r[n + 1] = Mark("start", g, gs[g].item) /\ r[n + m + 2] = Mark("end", g, gs[g].item)
       /\ \A j \in 1 .. m : r[n + 1 + j] = ds[j]
  <2>1. 1 \in 1 .. m + 2 /\ m + 2 \in 1 .. m + 2 /\ n + (m + 2) = n + m + 2
    OBVIOUS
  <2>2. \A j \in 1 .. m : 1 + j \in 1 .. m + 2 /\ n + (1 + j) = n + 1 + j
    OBVIOUS
  <2>3. r[n + 1] = b[1] /\ r[n + m + 2] = b[m + 2]
    BY <1>8, <2>1
  <2>4. ASSUME NEW j \in 1 .. m PROVE r[n + 1 + j] = ds[j]
    <3>1. r[n + (1 + j)] = b[1 + j]
      BY <1>8, <2>2
    <3>2. QED
      BY <1>4, <2>2, <3>1
  <2>5. QED
    BY <1>4, <2>3, <2>4
<1>11. ASSUME NEW i \in DOMAIN r, r[i].kind = "start", NEW h, h = r[i].group
       PROVE  h \in DOMAIN gs /\ r[i].item = gs[h].item /\ BlockIn(r, i, gs, h, g)
  <2>1. CASE i <= n
    <3>1. i \in DOMAIN q /\ r[i] = q[i]
      BY <1>8, <1>9, <1>11, <2>1
    <3>2. h \in DOMAIN gs /\ q[i].item = gs[h].item /\ BlockIn(q, i, gs, h, last)
      BY <1>11, <3>1 DEF PartChain
    <3>3. PICK k \in Nat : k = Len(gs[h].members) /\ DOMAIN gs[h].members = 1 .. k
      BY <3>2, GroupShape
    <3>4. PICK end : end = i + k + 1
      OBVIOUS
    <3>5. /\ end \in 1 .. n /\ q[end].kind = "end" /\ q[end].item = gs[h].item
          /\ \A j \in 1 .. k : q[i + j] = gs[h].members[j]
          /\ IF end = n THEN h = last ELSE q[end + 1].kind = "start" /\ q[end + 1].group = h + 1
      BY <1>6, <1>9, <3>2, <3>3, <3>4 DEF BlockIn
    <3>6. end \in DOMAIN r /\ r[end] = q[end]
      BY <1>8, <1>9, <3>5
    <3>7. \A j \in 1 .. k : r[i + j] = q[i + j]
      <4>0. i \in 1 .. n /\ end \in 1 .. n
        BY <1>9, <3>1, <3>5
      <4>1. \A j \in 1 .. k : i + j \in 1 .. n
        BY <3>4, <4>0
      <4>2. QED
        BY <1>8, <4>1
    <3>8. IF end = Len(r) THEN h = g ELSE r[end + 1].kind = "start" /\ r[end + 1].group = h + 1
      <4>1. end # Len(r)
        BY <1>7, <3>5
      <4>2. CASE end = n
        <5>1. h = last /\ r[end + 1] = Mark("start", g, gs[g].item)
          BY <1>10, <3>5, <4>2
        <5>2. QED
          BY <1>1, <4>1, <5>1 DEF Mark
      <4>3. CASE end # n
        <5>1. end + 1 \in 1 .. n
          BY <3>5, <4>3
        <5>2. r[end + 1] = q[end + 1]
          BY <1>8, <5>1
        <5>3. QED
          BY <3>5, <4>1, <4>3, <5>2
      <4>4. QED
        BY <4>2, <4>3
    <3>9. BlockIn(r, i, gs, h, g)
      BY <3>3, <3>4, <3>5, <3>6, <3>7, <3>8 DEF BlockIn
    <3>10. QED
      BY <3>1, <3>2, <3>9
  <2>2. CASE i > n
    <3>1. PICK j \in 1 .. m + 2 : i = n + j
      <4>1. i \in 1 .. n + m + 2
        BY <1>9, <1>11
      <4>2. i - n \in 1 .. m + 2 /\ i = n + (i - n)
        BY <2>2, <4>1
      <4>3. QED
        BY <4>2
    <3>2. j = 1
      <4>1. CASE j = m + 2
        <5>1. r[i] = Mark("end", g, gs[g].item)
          BY <1>10, <3>1, <4>1
        <5>2. QED
          BY <1>11, <5>1 DEF Mark
      <4>2. CASE j # 1 /\ j # m + 2
        <5>1. PICK l \in 1 .. m : j = 1 + l
          BY <3>1, <4>2
        <5>2. r[i] = ds[l]
          <6>1. i = n + 1 + l
            BY <3>1, <5>1
          <6>2. QED
            BY <1>10, <6>1
        <5>3. ds[l] \in Members
          BY <1>2, <1>3, GroupShape
        <5>4. QED
          BY <1>11, <5>2, <5>3 DEF Members
      <4>3. QED
        BY <4>1, <4>2
    <3>3. r[i] = Mark("start", g, gs[g].item) /\ i = n + 1
      BY <1>10, <3>1, <3>2
    <3>4. h = g /\ r[i].item = gs[g].item
      BY <1>11, <3>3 DEF Mark
    <3>5. PICK end \in Nat : end = i + m + 1 /\ end = n + m + 2
      BY <3>3
    <3>6. end \in DOMAIN r /\ end = Len(r)
      <4>1. n + m + 2 \in 1 .. n + m + 2
        OBVIOUS
      <4>2. QED
        BY <1>7, <1>9, <3>5, <4>1, Zenon
    <3>7. r[end].kind = "end" /\ r[end].item = gs[g].item
      BY <1>10, <3>5 DEF Mark
    <3>8. \A l \in 1 .. m : r[i + l] = ds[l]
      BY <1>10, <3>3
    <3>9. BlockIn(r, i, gs, g, g)
      BY <1>2, <1>3, <3>5, <3>6, <3>7, <3>8 DEF BlockIn
    <3>10. QED
      BY <3>4, <3>9
  <2>3. QED
    <3>1. i \in Nat /\ (i <= n \/ i > n)
      BY <1>9, <1>11
    <3>2. QED
      BY <2>1, <2>2, <3>1
<1>12. PartChain(r, gs, g)
  BY <1>11, Zenon DEF PartChain
<1>13. QED
  BY <1>1, <1>5, <1>7, <1>12

LEMMA FunctionSeq == ASSUME NEW S, NEW n \in Nat, NEW s \in [1 .. n -> S] PROVE s \in Seq(S) /\ Len(s) = n
OBVIOUS

(* What a theory's groups put in the queue.                                *)
LEMMA MarkedChain ==
  ASSUME NEW gs \in Seq(Groups), gs # <<>>, groups \in Seq(Groups), NEW q, q = Marked(gs)
  PROVE  /\ IsSeq(q) /\ q # <<>> /\ 1 \in DOMAIN q
         /\ q[1] = Mark("start", Len(groups) + 1, gs[1].item)
         /\ Chain(q, groups \o gs)
<1>1. PICK base \in Nat : base = Len(groups)
  OBVIOUS
<1>2. PICK all \in Seq(Groups) : all = groups \o gs
  <2>1. groups \o gs \in Seq(Groups)
    BY ConcatIn, Zenon
  <2>2. QED
    BY <2>1, Zenon
<1>3. PICK n \in Nat : n = Len(gs) /\ DOMAIN gs = 1 .. n /\ n # 0
  OBVIOUS
<1>4. /\ Len(all) = base + n /\ DOMAIN all = 1 .. base + n
      /\ \A k \in 1 .. n : all[base + k] = gs[k]
  <2>1. IsSeq(groups) /\ IsSeq(gs)
    BY SeqOfSet, Zenon
  <2>2. Len(all) = Len(groups) + Len(gs) /\ \A k \in DOMAIN gs : all[Len(groups) + k] = gs[k]
    BY <1>2, <2>1, ConcatShape, Zenon
  <2>3. DOMAIN all = 1 .. Len(all)
    BY <1>2
  <2>4. QED
    BY <1>1, <1>3, <2>2, <2>3
<1> DEFINE ss == [k \in DOMAIN gs |-> Block(gs[k], Len(groups) + k)]
<1>5. /\ q = FlattenSeq(ss) /\ DOMAIN ss = 1 .. n
      /\ \A k \in 1 .. n : ss[k] = Block(all[base + k], base + k)
  BY <1>1, <1>3, <1>4 DEF Marked
<1>6. \A k \in 1 .. n : base + k \in DOMAIN all
  BY <1>4
<1>7. ss \in Seq(Seq(Entries)) /\ Len(ss) = n
  <2>1. \A k \in 1 .. n : ss[k] \in Seq(Entries)
    BY <1>5, <1>6, BlockShape
  <2>2. ss = [k \in 1 .. n |-> ss[k]]
    BY <1>3
  <2> HIDE DEF ss
  <2>3. ss \in [1 .. n -> Seq(Entries)]
    BY <2>1, <2>2
  <2>4. QED
    BY <2>3, FunctionSeq
<1> HIDE DEF ss
<1>8. PICK f \in [0 .. n -> Seq(Entries)] :
        f[0] = <<>> /\ (\A k \in 1 .. n : f[k] = f[k - 1] \o ss[k]) /\ FlattenSeq(ss) = f[n]
  <2>1. PICK f \in [0 .. Len(ss) -> Seq(Entries)] : Flattens(f, ss)
    BY <1>7, FlattenShape
  <2>2. QED
    BY <1>7, <2>1 DEF Flattens
<1> DEFINE first == Mark("start", base + 1, gs[1].item)
           Good(k) == PartChain(f[k], all, base + k) /\ (k # 0 => Len(f[k]) # 0 /\ f[k][1] = first)
<1>9. Good(0)
  BY <1>8 DEF PartChain
<1>10. ASSUME NEW k \in Nat, k + 1 <= n, Good(k) PROVE Good(k + 1)
  <2>1. PICK l \in Nat : l = base + k /\ l + 1 = base + (k + 1)
    OBVIOUS
  <2>2. k + 1 \in 1 .. n /\ k \in 0 .. n /\ k + 1 - 1 = k
    BY <1>3, <1>10
  <2>3. PICK b : b = ss[k + 1]
    OBVIOUS
  <2>4. b = Block(all[l + 1], l + 1) /\ l + 1 \in DOMAIN all
    BY <1>5, <1>6, <2>1, <2>2, <2>3
  <2>5. PICK s \in Seq(Entries) : s = f[k]
    BY <1>8, <2>2
  <2>6. f[k + 1] = s \o b
    <3>1. PICK j \in 1 .. n : j = k + 1 /\ j - 1 = k
      BY <2>2
    <3>2. f[j] = f[j - 1] \o ss[j]
      BY <1>8, Zenon
    <3>3. QED
      BY <2>3, <2>5, <3>1, <3>2, Zenon
  <2>7. s \o b \in Seq(Entries) /\ PartChain(s \o b, all, l + 1)
    <3>1. PartChain(s, all, l)
      BY <1>10, <2>1, <2>5
    <3>2. QED
      BY <2>4, <3>1, NextBlock, Zenon
  <2>8. PICK g \in DOMAIN all : g = l + 1
    BY <2>4
  <2>9. b \in Seq(Entries) /\ b[1] = Mark("start", g, all[g].item) /\ Len(b) \in Nat \ {0}
    <3>1. b = Block(all[g], g)
      BY <2>4, <2>8
    <3>2. b \in Seq(Entries) /\ Len(b) = Len(all[g].members) + 2 /\ b[1] = Mark("start", g, all[g].item)
      BY <3>1, BlockShape, Zenon
    <3>3. Len(all[g].members) \in Nat
      BY GroupShape, Zenon
    <3>4. QED
      BY <3>2, <3>3
  <2>10. Len(s \o b) # 0 /\ (s \o b)[1] = first
    <3>1. CASE k = 0
      <4>1. s = <<>> /\ g = base + 1 /\ all[g] = gs[1]
        <5>1. s = <<>> /\ g = base + 1
          BY <1>8, <2>1, <2>5, <2>8, <3>1
        <5>2. 1 \in 1 .. n
          BY <1>3
        <5>3. QED
          BY <1>4, <5>1, <5>2
      <4>2. s \o b = b
        BY <2>9, <4>1
      <4>3. QED
        BY <2>9, <4>1, <4>2
    <3>2. CASE k # 0
      <4>1. Len(s) # 0 /\ s[1] = first
        BY <1>10, <2>5, <3>2
      <4>2. IsSeq(s) /\ IsSeq(b)
        BY <2>9, SeqOfSet, Zenon
      <4>3. Len(s) \in Nat \ {0} /\ 1 \in DOMAIN s
        BY <4>1
      <4>4. Extends(s, s \o b) /\ Len(s \o b) = Len(s) + Len(b)
        BY <4>2, ConcatShape, Zenon
      <4>5. (s \o b)[1] = s[1]
        BY <4>3, <4>4 DEF Extends
      <4>6. Len(s) + Len(b) # 0
        BY <2>9, <4>3
      <4>7. QED
        BY <4>1, <4>4, <4>5, <4>6, Zenon
    <3>3. QED
      BY <3>1, <3>2
  <2>11. QED
    BY <2>1, <2>6, <2>7, <2>10, Zenon
<1>11. Good(n)
  <2> DEFINE Bad == {m \in 0 .. n : ~ Good(m)}
  <2> HIDE DEF Good
  <2>1. SUFFICES ASSUME Bad # {} PROVE FALSE
    BY <1>3
  <2>2. PICK m \in Bad : \A l \in Bad : m <= l
    <3>1. Bad \in SUBSET Nat
      BY <1>3
    <3> HIDE DEF Bad
    <3>2. QED
      BY <2>1, <3>1, LeastNat, Zenon
  <2>3. m \in 0 .. n /\ m # 0
    BY <1>3, <1>9, <2>2
  <2>4. PICK l \in Nat : l = m - 1 /\ l + 1 = m
    BY <1>3, <2>3
  <2>5. Good(l)
    BY <1>3, <2>2, <2>3, <2>4
  <2>6. Good(l + 1)
    BY <1>3, <1>10, <2>3, <2>4, <2>5
  <2>7. QED
    BY <2>2, <2>4, <2>6
<1>12. q = f[n] /\ q \in Seq(Entries)
  BY <1>3, <1>5, <1>8
<1>13. q # <<>> /\ q[1] = first
  BY <1>3, <1>11, <1>12
<1>14. IsSeq(q) /\ 1 \in DOMAIN q
  BY <1>12, <1>13, SeqOfSet
<1>15. PartChain(q, all, Len(all))
  BY <1>4, <1>11, <1>12
<1>16. Chain(q, all)
  <2>1. \A i \in DOMAIN q : i \in Nat /\ \A j \in Nat \ {0} : i + j >= 1
    BY <1>12
  <2>2. ASSUME NEW i \in DOMAIN q, NEW g \in DOMAIN all, BlockIn(q, i, all, g, Len(all)) PROVE BlockAt(q, i, all, g)
    BY <2>2 DEF BlockIn, BlockAt
  <2>3. QED
    BY <1>15, <2>2, Zenon DEF PartChain, Chain
<1>17. QED
  BY <1>1, <1>2, <1>13, <1>14, <1>16

-----------------------------------------------------------------------------
(* The groups of a theory's declarations.                                  *)

LEMMA MemberShape ==
  ASSUME NEW ds \in Seq(Members)
  PROVE  /\ Len(ds) \in Nat /\ DOMAIN ds = 1 .. Len(ds)
         /\ \A i \in DOMAIN ds : ds[i] \in Members
OBVIOUS

(* Where the first declaration of each family is.                         *)
FirstOf(place, fs, ds) ==
  /\ \A k \in DOMAIN fs : fs[k] = ds[place[k]].family /\ \A j \in 1 .. place[k] - 1 : ds[j].family # fs[k]
  /\ \A k, l \in DOMAIN fs : k < l => place[k] < place[l]
  /\ \A i \in DOMAIN ds : \E k \in DOMAIN fs : place[k] <= i /\ fs[k] = ds[i].family

LEMMA FamilyOrder ==
  ASSUME NEW ds \in Seq(Members), NEW fs, fs = Families(ds)
  PROVE  fs \in Seq(STRING) /\ \E place \in [DOMAIN fs -> DOMAIN ds] : FirstOf(place, fs, ds)
<1>1. PICK n \in Nat : n = Len(ds) /\ DOMAIN ds = 1 .. n
  BY MemberShape
<1> DEFINE all == [i \in DOMAIN ds |-> ds[i].family]
           firsts == {i \in DOMAIN ds : \A j \in 1 .. i - 1 : ds[j].family # ds[i].family}
<1>2. all \in Seq(STRING) /\ DOMAIN all = 1 .. n
  <2>1. ASSUME NEW i \in DOMAIN ds PROVE ds[i].family \in STRING
    <3>1. ds[i] \in Members
      BY MemberShape
    <3>2. QED
      BY <3>1 DEF Members
  <2>2. all \in [1 .. n -> STRING]
    BY <1>1, <2>1
  <2> HIDE DEF all
  <2>3. QED
    BY <2>2, FunctionSeq
<1>3. fs = Kept(all, firsts) /\ firsts \subseteq DOMAIN all
  BY <1>1, <1>2 DEF Families
<1>4. \A i \in DOMAIN ds : all[i] = ds[i].family
  OBVIOUS
<1>5. \A i \in firsts : i \in DOMAIN ds /\ \A j \in 1 .. i - 1 : ds[j].family # ds[i].family
  OBVIOUS
<1>6. ASSUME NEW i \in DOMAIN ds PROVE \E j \in firsts : j <= i /\ ds[j].family = ds[i].family
  <2> DEFINE same == {j \in 1 .. n : ds[j].family = ds[i].family}
  <2>1. i \in same /\ same \in SUBSET Nat
    BY <1>1
  <2>2. PICK j \in same : \A l \in same : j <= l
    <3> HIDE DEF same
    <3>1. QED
      BY <2>1, LeastNat, Zenon
  <2>3. j \in 1 .. n /\ ds[j].family = ds[i].family /\ j <= i
    BY <2>1, <2>2
  <2>4. \A l \in 1 .. j - 1 : ds[l].family # ds[j].family
    BY <1>1, <2>2, <2>3
  <2>5. QED
    BY <1>1, <2>3, <2>4
<1> HIDE DEF all, firsts
<1>7. /\ fs \in Seq(STRING)
      /\ \E place \in [DOMAIN fs -> firsts] :
           /\ \A k \in DOMAIN fs : fs[k] = all[place[k]]
           /\ \A k, l \in DOMAIN fs : k < l => place[k] < place[l]
           /\ \A p \in firsts : \E k \in DOMAIN fs : place[k] = p
  BY <1>2, <1>3, KeptPlaces, SMTT(30)
<1>8. PICK place \in [DOMAIN fs -> firsts] :
        /\ \A k \in DOMAIN fs : fs[k] = all[place[k]]
        /\ \A k, l \in DOMAIN fs : k < l => place[k] < place[l]
        /\ \A p \in firsts : \E k \in DOMAIN fs : place[k] = p
  BY <1>7, Zenon
<1>9. place \in [DOMAIN fs -> DOMAIN ds]
  BY <1>5, <1>8
<1>10. \A k \in DOMAIN fs : fs[k] = ds[place[k]].family /\ \A j \in 1 .. place[k] - 1 : ds[j].family # fs[k]
  BY <1>4, <1>5, <1>8, <1>9
<1>11. ASSUME NEW i \in DOMAIN ds PROVE \E k \in DOMAIN fs : place[k] <= i /\ fs[k] = ds[i].family
  <2>1. PICK j \in firsts : j <= i /\ ds[j].family = ds[i].family
    BY <1>6
  <2>2. PICK k \in DOMAIN fs : place[k] = j
    BY <1>8
  <2>3. QED
    BY <1>10, <2>1, <2>2
<1>12. FirstOf(place, fs, ds)
  BY <1>8, <1>10, <1>11, Zenon DEF FirstOf
<1>13. QED
  BY <1>7, <1>9, <1>12, Zenon

(* Each is what the theory's declarations of one family are, after those   *)
(* it depends on; the names of two declarations stay apart.                *)
Distinct(ds) == \A i, j \in DOMAIN ds : i # j => NamesIn(ds[i]) \cap NamesIn(ds[j]) = {}

LEMMA FamilyMembers ==
  ASSUME NEW ds \in Seq(Members), Distinct(ds), NEW f, NEW ms, ms = OfFamily(ds, f)
  PROVE  /\ ms \in Seq(Members) /\ Distinct(ms)
         /\ \A k \in DOMAIN ms : \E p \in DOMAIN ds : ms[k] = ds[p] /\ ds[p].family = f
         /\ \A p \in DOMAIN ds : ds[p].family = f => \E k \in DOMAIN ms : ms[k] = ds[p]
<1> DEFINE S == {i \in DOMAIN ds : ds[i].family = f}
<1>1. S \subseteq DOMAIN ds /\ ms = Kept(ds, S)
  BY DEF OfFamily
<1>2. \A p \in DOMAIN ds : p \in S <=> ds[p].family = f
  OBVIOUS
<1> HIDE DEF S
<1>3. /\ ms \in Seq(Members)
      /\ \A k \in DOMAIN ms : \E p \in S : ms[k] = ds[p]
      /\ \A p \in S : \E k \in DOMAIN ms : ms[k] = ds[p]
      /\ \A k, l \in DOMAIN ms : k # l => \E p, q \in S : p # q /\ ms[k] = ds[p] /\ ms[l] = ds[q]
  BY <1>1, KeptElements
<1>4. Distinct(ms)
  <2> SUFFICES ASSUME NEW k \in DOMAIN ms, NEW l \in DOMAIN ms, k # l
               PROVE  NamesIn(ms[k]) \cap NamesIn(ms[l]) = {}
    BY DEF Distinct
  <2>1. PICK p \in S, q \in S : p # q /\ ms[k] = ds[p] /\ ms[l] = ds[q]
    BY <1>3
  <2>2. NamesIn(ds[p]) \cap NamesIn(ds[q]) = {}
    BY <1>1, <2>1 DEF Distinct
  <2>3. QED
    BY <2>1, <2>2
<1>5. QED
  BY <1>1, <1>2, <1>3, <1>4, ZenonT(40)

GroupsFrom(gs, ds, o) ==
  /\ gs \in Seq(Groups) /\ gs # <<>>
  /\ \A k \in DOMAIN gs :
       /\ gs[k].item = o /\ gs[k].state = "reserved" /\ Distinct(gs[k].members)
       /\ \A i \in DOMAIN gs[k].members : \E p \in DOMAIN ds : gs[k].members[i] = ds[p]
       /\ \A h \in gs[k].dependencies : h \in 1 .. Len(groups) + k - 1
  /\ \A k, l \in DOMAIN gs : k # l => AllNames(gs[k].members) \cap AllNames(gs[l].members) = {}
  /\ AllNames(ds) = UNION {AllNames(gs[k].members) : k \in DOMAIN gs}

LEMMA DependenciesEarlier ==
  ASSUME NEW ds \in Seq(Members), WellOrdered(ds), NEW fs, fs = Families(ds), NEW k \in DOMAIN fs,
         NEW f \in Dependencies(fs[k]) \cap Range(fs)
  PROVE  \E l \in DOMAIN fs : l < k /\ (CHOOSE m \in DOMAIN fs : fs[m] = f) = l
<1>1. fs \in Seq(STRING) /\ DOMAIN fs \subseteq Nat
  <2>1. fs \in Seq(STRING)
    BY FamilyOrder
  <2>2. QED
    BY <2>1
<1>2. PICK place \in [DOMAIN fs -> DOMAIN ds] : FirstOf(place, fs, ds)
  BY FamilyOrder
<1>13. /\ \A m \in DOMAIN fs : fs[m] = ds[place[m]].family /\ \A j \in 1 .. place[m] - 1 : ds[j].family # fs[m]
      /\ \A m, l \in DOMAIN fs : m < l => place[m] < place[l]
  BY <1>2, Zenon DEF FirstOf
<1>3. PICK l \in DOMAIN fs : l = CHOOSE m \in DOMAIN fs : fs[m] = f
  <2>1. \E m \in DOMAIN fs : fs[m] = f
    BY DEF Range
  <2>2. QED
    BY <2>1
<1>4. fs[l] = f
  <2>1. \E m \in DOMAIN fs : fs[m] = f
    BY DEF Range
  <2>2. QED
    BY <1>3, <2>1
<1>5. PICK p \in DOMAIN ds : p = place[k] /\ ds[p].family = fs[k]
  BY <1>13
<1>6. PICK r \in DOMAIN ds : r = place[l] /\ ds[r].family = f
  BY <1>4, <1>13
<1>7. PICK j \in 1 .. p - 1 : ds[j].family = f
  BY <1>5, <1>6 DEF WellOrdered
<1>8. DOMAIN ds \subseteq Nat \ {0}
  <2>1. DOMAIN ds = 1 .. Len(ds) /\ Len(ds) \in Nat
    BY MemberShape
  <2>2. QED
    BY <2>1
<1>9. r <= j
  <2>1. ~ (j \in 1 .. r - 1)
    BY <1>4, <1>6, <1>7, <1>13
  <2>2. QED
    BY <1>7, <1>8, <2>1
<1>10. r < p
  BY <1>7, <1>8, <1>9
<1>11. l < k
  <2>1. l # k
    BY <1>5, <1>6, <1>8, <1>10
  <2>2. ~ (k < l)
    <3>1. k < l => p < r
      BY <1>5, <1>6, <1>13
    <3>2. QED
      BY <1>8, <1>10, <3>1
  <2>3. QED
    BY <1>1, <2>1, <2>2
<1>12. QED
  BY <1>3, <1>11

LEMMA GroupsShape ==
  ASSUME NEW ds \in Seq(Members), ds # <<>>, WellOrdered(ds), Distinct(ds), NEW o \in Nat,
         groups \in Seq(Groups), NEW gs, gs = GroupsOf(ds, o)
  PROVE  GroupsFrom(gs, ds, o)
<1>1. PICK fs : fs = Families(ds)
  OBVIOUS
<1>2. fs \in Seq(STRING) /\ \A i \in DOMAIN ds : \E k \in DOMAIN fs : fs[k] = ds[i].family
  <2>1. fs \in Seq(STRING)
    BY <1>1, FamilyOrder
  <2>2. PICK place \in [DOMAIN fs -> DOMAIN ds] : FirstOf(place, fs, ds)
    BY <1>1, FamilyOrder
  <2>3. QED
    BY <2>1, <2>2, Zenon DEF FirstOf
<1>3. PICK n \in Nat : n = Len(fs) /\ DOMAIN fs = 1 .. n
  BY <1>2
<1>4. \A k, l \in DOMAIN fs : k # l => fs[k] # fs[l]
  <2>0. PICK place \in [DOMAIN fs -> DOMAIN ds] : FirstOf(place, fs, ds)
    BY <1>1, FamilyOrder
  <2>1. /\ \A m \in DOMAIN fs : fs[m] = ds[place[m]].family /\ \A j \in 1 .. place[m] - 1 : ds[j].family # fs[m]
        /\ \A m, l \in DOMAIN fs : m < l => place[m] < place[l]
    BY <2>0, Zenon DEF FirstOf
  <2>2. DOMAIN ds = 1 .. Len(ds) /\ Len(ds) \in Nat
    BY MemberShape
  <2>3. ASSUME NEW k \in DOMAIN fs, NEW l \in DOMAIN fs, k < l PROVE fs[k] # fs[l]
    <3>1. PICK p \in 1 .. Len(ds), r \in 1 .. Len(ds) : p = place[k] /\ r = place[l] /\ p < r
      BY <2>1, <2>2, <2>3
    <3>2. p \in 1 .. r - 1
      BY <2>2, <3>1
    <3>3. ds[p].family # fs[l] /\ fs[k] = ds[p].family
      BY <2>1, <3>1, <3>2
    <3>4. QED
      BY <3>3
  <2>4. QED
    BY <1>3, <2>3
<1>5. PICK base \in Nat : base = Len(groups)
  OBVIOUS
<1> DEFINE at(f) == base + CHOOSE k \in DOMAIN fs : fs[k] = f
           deps(k) == {at(f) : f \in Dependencies(fs[k]) \cap Range(fs)}
<1>6. gs = [k \in 1 .. n |-> [members |-> OfFamily(ds, fs[k]), item |-> o, state |-> "reserved", root |-> NoName,
                              dependencies |-> deps(k)]]
  BY <1>1, <1>3, <1>5 DEF GroupsOf
<1>7. ASSUME NEW k \in 1 .. n PROVE deps(k) \in SUBSET Nat /\ \A h \in deps(k) : h \in 1 .. base + k - 1
  <2> SUFFICES ASSUME NEW f \in Dependencies(fs[k]) \cap Range(fs) PROVE at(f) \in 1 .. base + k - 1
    <3>1. \A h \in 1 .. base + k - 1 : h \in Nat
      BY <1>5
    <3> HIDE DEF at
    <3>2. QED
      BY <3>1
  <2>1. PICK l \in DOMAIN fs : l < k /\ (CHOOSE m \in DOMAIN fs : fs[m] = f) = l
    BY <1>1, <1>3, DependenciesEarlier
  <2>2. at(f) = base + l /\ l \in 1 .. n
    BY <1>3, <2>1
  <2> HIDE DEF at
  <2>3. QED
    BY <2>1, <2>2
<1> HIDE DEF deps
<1>8. /\ DOMAIN gs = 1 .. n
      /\ \A k \in 1 .. n : gs[k] = [members |-> OfFamily(ds, fs[k]), item |-> o, state |-> "reserved", root |-> NoName,
                                    dependencies |-> deps(k)]
  BY <1>6
<1>9. ASSUME NEW k \in 1 .. n
      PROVE  /\ gs[k].members = OfFamily(ds, fs[k]) /\ gs[k].item = o /\ gs[k].state = "reserved"
             /\ gs[k].dependencies = deps(k)
             /\ gs[k] \in Groups
  <2>1. PICK ms \in Seq(Members) : ms = OfFamily(ds, fs[k])
    <3>1. \A f, ms : ms = OfFamily(ds, f) => ms \in Seq(Members)
      BY FamilyMembers, Zenon
    <3>2. QED
      BY <3>1, Zenon
  <2>2. gs[k] = [members |-> ms, item |-> o, state |-> "reserved", root |-> NoName, dependencies |-> deps(k)]
    BY <1>8, <2>1
  <2>3. QED
    BY <1>7, <2>1, <2>2 DEF Groups
<1>10. gs \in Seq(Groups) /\ gs # <<>>
  <2>1. gs \in [1 .. n -> Groups]
    <3>1. gs = [k \in 1 .. n |-> gs[k]]
      BY <1>6, <1>8
    <3>2. QED
      BY <1>9, <3>1
  <2>2. gs \in Seq(Groups) /\ Len(gs) = n
    BY <2>1, FunctionSeq
  <2>3. n # 0
    <3>1. 1 \in DOMAIN ds
      BY MemberShape
    <3>2. QED
      BY <1>2, <1>3, <3>1
  <2>4. QED
    BY <2>2, <2>3
<1>11. ASSUME NEW k \in DOMAIN gs
       PROVE  /\ gs[k].item = o /\ gs[k].state = "reserved" /\ Distinct(gs[k].members)
              /\ \A i \in DOMAIN gs[k].members : \E p \in DOMAIN ds : gs[k].members[i] = ds[p] /\ ds[p].family = fs[k]
              /\ \A p \in DOMAIN ds : ds[p].family = fs[k] => \E i \in DOMAIN gs[k].members : gs[k].members[i] = ds[p]
              /\ \A h \in gs[k].dependencies : h \in 1 .. Len(groups) + k - 1
  <2>1. PICK ms : ms = gs[k].members
    OBVIOUS
  <2>2. k \in 1 .. n /\ ms = OfFamily(ds, fs[k])
    BY <1>8, <1>9, <2>1
  <2>3. /\ Distinct(ms)
        /\ \A i \in DOMAIN ms : \E p \in DOMAIN ds : ms[i] = ds[p] /\ ds[p].family = fs[k]
        /\ \A p \in DOMAIN ds : ds[p].family = fs[k] => \E i \in DOMAIN ms : ms[i] = ds[p]
    BY <2>2, FamilyMembers
  <2>4. gs[k].item = o /\ gs[k].state = "reserved" /\ \A h \in gs[k].dependencies : h \in 1 .. Len(groups) + k - 1
    BY <1>5, <1>7, <1>9, <2>2
  <2>5. QED
    BY <2>1, <2>3, <2>4, Zenon
<1>12. ASSUME NEW k \in DOMAIN gs, NEW l \in DOMAIN gs, k # l
       PROVE  AllNames(gs[k].members) \cap AllNames(gs[l].members) = {}
  <2>1. SUFFICES ASSUME NEW m, m \in AllNames(gs[k].members), m \in AllNames(gs[l].members) PROVE FALSE
    OBVIOUS
  <2>2. PICK i \in DOMAIN gs[k].members : m \in NamesIn(gs[k].members[i])
    BY <2>1, Zenon DEF AllNames
  <2>3. PICK j \in DOMAIN gs[l].members : m \in NamesIn(gs[l].members[j])
    BY <2>1, Zenon DEF AllNames
  <2>4. PICK p \in DOMAIN ds : gs[k].members[i] = ds[p] /\ ds[p].family = fs[k]
    BY <1>11
  <2>5. PICK r \in DOMAIN ds : gs[l].members[j] = ds[r] /\ ds[r].family = fs[l]
    BY <1>11
  <2>6. p # r
    BY <1>3, <1>4, <1>8, <1>12, <2>4, <2>5
  <2>7. NamesIn(ds[p]) \cap NamesIn(ds[r]) = {}
    BY <2>6 DEF Distinct
  <2>8. QED
    BY <2>2, <2>3, <2>4, <2>5, <2>7
<1>13. ASSUME NEW m PROVE m \in AllNames(ds) <=> \E k \in DOMAIN gs : m \in AllNames(gs[k].members)
  <2>1. ASSUME NEW p \in DOMAIN ds, m \in NamesIn(ds[p]) PROVE \E k \in DOMAIN gs : m \in AllNames(gs[k].members)
    <3>1. PICK k \in DOMAIN gs : fs[k] = ds[p].family
      BY <1>2, <1>3, <1>8
    <3>2. PICK i \in DOMAIN gs[k].members : gs[k].members[i] = ds[p]
      BY <1>11, <3>1
    <3>3. QED
      BY <2>1, <3>2 DEF AllNames
  <2>2. ASSUME NEW k \in DOMAIN gs, NEW i \in DOMAIN gs[k].members, m \in NamesIn(gs[k].members[i])
        PROVE  m \in AllNames(ds)
    <3>1. PICK p \in DOMAIN ds : gs[k].members[i] = ds[p]
      BY <1>11
    <3>2. QED
      BY <2>2, <3>1 DEF AllNames
  <2>3. QED
    BY <2>1, <2>2, ZenonT(40) DEF AllNames
<1>14. AllNames(ds) = UNION {AllNames(gs[k].members) : k \in DOMAIN gs}
  BY <1>13
<1>15. QED
  <2>1. \A k \in DOMAIN gs :
          /\ gs[k].item = o /\ gs[k].state = "reserved" /\ Distinct(gs[k].members)
          /\ \A i \in DOMAIN gs[k].members : \E p \in DOMAIN ds : gs[k].members[i] = ds[p]
          /\ \A h \in gs[k].dependencies : h \in 1 .. Len(groups) + k - 1
    BY <1>11, Zenon
  <2>2. QED
    BY <1>10, <1>12, <1>14, <2>1, Zenon DEF GroupsFrom

-----------------------------------------------------------------------------
(* Environments.                                                           *)

LEMMA EnvShape ==
  ASSUME NEW e \in Envs
  PROVE  /\ \A n \in Labels : e.plain[n] \in Values
         /\ \A k \in Keys : e.exact[k] \in Values /\ e.spelled[k] \in Values
BY DEF Envs

(* From e to f, what V's names stand for changes: of those in R, by        *)
(* identity too.                                                           *)
Publishes(e, f, V, R) ==
  /\ \A k \in Keys : f.spelled[k] = e.spelled[k]
  /\ \A n \in Labels : n \notin V => f.plain[n] = e.plain[n]
  /\ \A n \in Labels : n \in V /\ n \in R /\ n \notin Joined => f.exact[<<Module, n>>] = f.plain[n]
  /\ \A k \in Keys : f.exact[k] = e.exact[k] \/ (k[1] = Module /\ k[2] \in V /\ k[2] \in R /\ k[2] \notin Joined)

LEMMA KeyShape ==
  /\ \A n \in Labels : <<Module, n>> \in Keys /\ <<Module, n>>[1] = Module /\ <<Module, n>>[2] = n
  /\ \A k \in Keys : k[1] \in {Module, Library} /\ k[2] \in Labels /\ k = <<k[1], k[2]>>
BY DEF Keys

LEMMA PublishedShape ==
  ASSUME NEW e \in Envs, NEW R, NEW V \in SUBSET Labels, NEW values \in [V -> Values],
         NEW f, f = Published(e, R, values)
  PROVE  f \in Envs /\ Publishes(e, f, V, R) /\ \A n \in V : f.plain[n] = values[n]
<1>1. DOMAIN values = V
  OBVIOUS
<1> DEFINE plain == [n \in Labels |-> IF n \in V THEN values[n] ELSE e.plain[n]]
           exact == [k \in Keys |-> IF k[1] = Module /\ k[2] \in (V \cap R) \ Joined THEN values[k[2]] ELSE e.exact[k]]
<1>2. plain \in [Labels -> Values]
  BY EnvShape
<1>3. exact \in [Keys -> Values]
  <2>1. ASSUME NEW k \in Keys
        PROVE  (IF k[1] = Module /\ k[2] \in (V \cap R) \ Joined THEN values[k[2]] ELSE e.exact[k]) \in Values
    BY EnvShape
  <2>2. QED
    BY <2>1
<1>4. f = [e EXCEPT !.plain = plain, !.exact = exact]
  BY <1>1 DEF Published
<1>5. \A n \in Labels : plain[n] = IF n \in V THEN values[n] ELSE e.plain[n]
  OBVIOUS
<1>6. \A k \in Keys : exact[k] = IF k[1] = Module /\ k[2] \in (V \cap R) \ Joined THEN values[k[2]] ELSE e.exact[k]
  OBVIOUS
<1> HIDE DEF plain, exact
<1>7. f \in Envs /\ f.plain = plain /\ f.exact = exact /\ f.spelled = e.spelled
  <2>1. e \in [plain : [Labels -> Values], exact : [Keys -> Values], spelled : [Keys -> Values]]
    BY DEF Envs
  <2>2. QED
    BY <1>2, <1>3, <1>4, <2>1 DEF Envs
<1>8. ASSUME NEW n \in Labels, n \in V, n \in R, n \notin Joined PROVE f.exact[<<Module, n>>] = f.plain[n]
  <2>1. PICK k \in Keys : k = <<Module, n>> /\ k[1] = Module /\ k[2] = n
    BY KeyShape
  <2>2. exact[k] = values[n]
    BY <1>6, <1>8, <2>1
  <2>3. QED
    BY <1>5, <1>7, <1>8, <2>1, <2>2
<1>9. Publishes(e, f, V, R)
  BY <1>5, <1>6, <1>7, <1>8 DEF Publishes
<1>10. QED
  BY <1>5, <1>7, <1>9

LEMMA PublishesNothing == ASSUME NEW e, NEW R PROVE Publishes(e, e, {}, R)
BY DEF Publishes

(* A publication leaves the environment in order when what it says is      *)
(* grounded, of names that were not owned or still to come, and true of    *)
(* those that are now.                                                     *)
LEMMA Publishing ==
  ASSUME NEW e \in Envs, NEW f \in Envs, NEW V \in SUBSET Labels, NEW R, Publishes(e, f, V, R),
         NEW K, NEW F, NEW o, NEW W, NEW gs, EnvOK(e, K, F, o, W, gs),
         NEW L, NEW G, NEW p, NEW X, NEW hs,
         F \subseteq G, \A k \in K : \E l \in L : l.by = k.by,
         \A k \in L : \A u \in k.uses : \E l \in L : l.by = u,
         \A n \in V : Grounds(f.plain[n], L, G),
         \A n \in V : n \in DOMAIN p /\ n \notin X =>
           f.plain[n].item = p[n] /\ f.plain[n].by = <<Module, n>> /\ n \in R,
         \A n \in DOMAIN p : n \notin X /\ n \notin V => n \in DOMAIN o /\ n \notin W /\ p[n] = o[n],
         \A n \in Labels : n \notin DOMAIN p \/ n \in X => (n \notin DOMAIN o \/ n \in W) /\ ~ (n \in V /\ n \in R),
         \A n \in V : n \in R => n \notin DOMAIN o \/ n \in W,
         DOMAIN p \subseteq Labels,
         \A g \in DOMAIN hs : hs[g].state = "checked" => \A n \in AllNames(hs[g].members) : f.plain[n].tag = "checked"
  PROVE  EnvOK(f, L, G, p, X, hs)
<1>1. ASSUME NEW v, Grounds(v, K, F) PROVE Grounds(v, L, G)
  BY <1>1 DEF Grounds
<1>2. \A n \in Labels : Grounds(e.plain[n], L, G)
  BY <1>1, Zenon DEF EnvOK
<1>3. \A k \in Keys : Grounds(e.exact[k], L, G) /\ Grounds(e.spelled[k], L, G)
  BY <1>1, Zenon DEF EnvOK
<1>4. \A n \in Labels : Grounds(f.plain[n], L, G)
  BY <1>2, Zenon DEF Publishes
<1>5. \A k \in Keys : Grounds(f.exact[k], L, G) /\ Grounds(f.spelled[k], L, G)
  <2> SUFFICES ASSUME NEW k \in Keys PROVE Grounds(f.exact[k], L, G) /\ Grounds(f.spelled[k], L, G)
    OBVIOUS
  <2>1. f.spelled[k] = e.spelled[k]
    BY DEF Publishes
  <2>2. CASE f.exact[k] = e.exact[k]
    BY <1>3, <2>1, <2>2, Zenon
  <2>3. CASE k[1] = Module /\ k[2] \in V /\ k[2] \in R /\ k[2] \notin Joined
    <3>1. PICK n \in Labels : n = k[2] /\ k = <<Module, n>>
      BY <2>3, KeyShape
    <3>2. f.exact[k] = f.plain[n]
      BY <2>3, <3>1 DEF Publishes
    <3>3. QED
      BY <1>3, <1>4, <2>1, <3>2, Zenon
  <2>4. QED
    BY <2>2, <2>3 DEF Publishes
<1>6. ASSUME NEW n \in Labels, n \notin DOMAIN o \/ n \in W \/ n \in Joined PROVE e.exact[<<Module, n>>].tag = "absent"
  BY <1>6, Zenon DEF EnvOK
<1>7. ASSUME NEW n \in Labels, n \notin V \/ n \notin R \/ n \in Joined PROVE f.exact[<<Module, n>>] = e.exact[<<Module, n>>]
  <2>1. PICK k \in Keys : k = <<Module, n>> /\ k[1] = Module /\ k[2] = n
    BY KeyShape
  <2>2. f.exact[k] = e.exact[k]
    BY <1>7, <2>1 DEF Publishes
  <2>3. QED
    BY <2>1, <2>2
<1>8. ASSUME NEW n \in DOMAIN p, n \notin X PROVE Means(f, p, n)
  <2>1. n \in Labels
    OBVIOUS
  <2>2. CASE n \in V
    <3>1. f.plain[n].item = p[n] /\ f.plain[n].by = <<Module, n>> /\ n \in R
      BY <1>8, <2>2
    <3>2. n \notin Joined => f.exact[<<Module, n>>] = f.plain[n]
      BY <2>1, <2>2, <3>1, Zenon DEF Publishes
    <3>3. QED
      BY <3>1, <3>2, Zenon DEF Means
  <2>3. CASE n \notin V
    <3>1. n \in DOMAIN o \ W /\ p[n] = o[n]
      BY <1>8, <2>3
    <3>2. Means(e, o, n)
      BY <3>1, Zenon DEF EnvOK
    <3>3. f.plain[n] = e.plain[n] /\ f.exact[<<Module, n>>] = e.exact[<<Module, n>>]
      BY <1>7, <2>1, <2>3, Zenon DEF Publishes
    <3>4. QED
      BY <3>1, <3>2, <3>3, Zenon DEF Means
  <2>4. QED
    BY <2>2, <2>3
<1>9. ASSUME NEW n \in Labels, n \notin DOMAIN p \/ n \in X \/ n \in Joined PROVE f.exact[<<Module, n>>].tag = "absent"
  <2>1. n \notin V \/ n \notin R \/ n \in Joined
    BY <1>9
  <2>2. n \notin DOMAIN o \/ n \in W \/ n \in Joined
    BY <1>9
  <2>3. f.exact[<<Module, n>>] = e.exact[<<Module, n>>]
    BY <1>7, <2>1, Zenon
  <2>4. QED
    BY <1>6, <2>2, <2>3, Zenon
<1>10. ASSUME NEW k \in Keys, f.spelled[k].tag \notin {"absent", "refused"} PROVE f.spelled[k] = f.exact[k]
  <2>1. f.spelled[k] = e.spelled[k]
    BY DEF Publishes
  <2>2. e.spelled[k].tag \notin {"absent", "refused"} /\ e.spelled[k] = e.exact[k]
    BY <1>10, <2>1 DEF EnvOK
  <2>3. CASE f.exact[k] = e.exact[k]
    BY <2>1, <2>2, <2>3
  <2>4. CASE k[1] = Module /\ k[2] \in V /\ k[2] \in R /\ k[2] \notin Joined
    <3>1. PICK n \in Labels : n = k[2] /\ k = <<Module, n>>
      BY <2>4, KeyShape
    <3>2. n \notin DOMAIN o \/ n \in W
      BY <2>4, <3>1
    <3>3. e.exact[k].tag = "absent"
      BY <1>6, <3>1, <3>2
    <3>4. QED
      BY <2>2, <3>3
  <2>5. QED
    BY <2>3, <2>4 DEF Publishes
<1>11. QED
  BY <1>4, <1>5, <1>8, <1>9, <1>10, Zenon DEF EnvOK

LEMMA Binding ==
  ASSUME NEW e \in Envs, NEW refs, NEW f, f = BindQualified(e, refs)
  PROVE  /\ f \in Envs /\ f.plain = e.plain /\ f.exact = e.exact
         /\ \A K, F, o, W, gs : EnvOK(e, K, F, o, W, gs) => EnvOK(f, K, F, o, W, gs)
<1> DEFINE written == {r \in Range(refs) : r[1] # "" /\ e.spelled[r].tag \in {"absent", "refused"}}
           found(r) == Longest(r[2], e.exact, r[1])
           prefixes == {<<r[1], found(r)>> : r \in written}
           spelled == [k \in Keys |-> IF k \in prefixes THEN e.exact[k]
                                      ELSE IF k \notin written THEN e.spelled[k]
                                      ELSE IF found(k) = NoName THEN Refused ELSE Absent]
<1>1. f = [e EXCEPT !.spelled = spelled]
  BY DEF BindQualified
<1>2. \A k \in Keys : spelled[k] = e.exact[k] \/ spelled[k] = e.spelled[k] \/ spelled[k] = Refused \/ spelled[k] = Absent
  <2>1. ASSUME NEW k \in Keys
        PROVE  spelled[k] = IF k \in prefixes THEN e.exact[k]
                            ELSE IF k \notin written THEN e.spelled[k]
                            ELSE IF found(k) = NoName THEN Refused ELSE Absent
    OBVIOUS
  <2> HIDE DEF spelled, prefixes, written, found
  <2>2. QED
    BY <2>1
<1>3. spelled = [k \in Keys |-> spelled[k]]
  OBVIOUS
<1> HIDE DEF spelled
<1>4. Refused \in Values /\ Absent \in Values /\ Refused.tag = "refused" /\ Absent.tag = "absent"
  BY DEF Refused, Absent, Values
<1>5. spelled \in [Keys -> Values]
  BY <1>2, <1>3, <1>4, EnvShape
<1>6. f \in Envs /\ f.plain = e.plain /\ f.exact = e.exact /\ f.spelled = spelled
  <2>1. e \in [plain : [Labels -> Values], exact : [Keys -> Values], spelled : [Keys -> Values]]
    BY DEF Envs
  <2>2. QED
    BY <1>1, <1>5, <2>1 DEF Envs
<1>7. ASSUME NEW K, NEW F, NEW o, NEW W, NEW gs, EnvOK(e, K, F, o, W, gs) PROVE EnvOK(f, K, F, o, W, gs)
  <2>1. ASSUME NEW k \in Keys PROVE Grounds(f.spelled[k], K, F)
    <3>1. Grounds(e.exact[k], K, F) /\ Grounds(e.spelled[k], K, F)
      BY <1>7, Zenon DEF EnvOK
    <3>2. Grounds(Refused, K, F) /\ Grounds(Absent, K, F)
      BY <1>4 DEF Grounds
    <3>3. QED
      BY <1>2, <1>6, <3>1, <3>2
  <2>2. ASSUME NEW k \in Keys, f.spelled[k].tag \notin {"absent", "refused"} PROVE f.spelled[k] = f.exact[k]
    <3>1. e.spelled[k].tag \notin {"absent", "refused"} => e.spelled[k] = e.exact[k]
      BY <1>7, Zenon DEF EnvOK
    <3>2. QED
      BY <1>2, <1>4, <1>6, <2>2, <3>1
  <2>3. \A n \in DOMAIN o \ W : Means(f, o, n)
    BY <1>6, <1>7, Zenon DEF EnvOK, Means
  <2>4. QED
    BY <1>6, <1>7, <2>1, <2>2, <2>3, ZenonT(40) DEF EnvOK
<1>8. QED
  BY <1>6, <1>7, Zenon

LEMMA Greatest ==
  ASSUME NEW S, S # {}, NEW b \in Nat, NEW f \in [S -> 0 .. b]
  PROVE  \E p \in S : \A q \in S : f[q] <= f[p]
<1> DEFINE T == {b - f[p] : p \in S}
<1>1. \A p \in S : f[p] \in 0 .. b /\ b - f[p] \in Nat
  BY SMT
<1>2. T \in SUBSET Nat /\ T # {} /\ \A t \in T : \E p \in S : t = b - f[p]
  BY <1>1
<1>3. \A p \in S : b - f[p] \in T
  OBVIOUS
<1> HIDE DEF T
<1>4. PICK t \in T : \A u \in T : t <= u
  BY <1>2, LeastNat, Zenon
<1>5. PICK p \in S : t = b - f[p]
  BY <1>2
<1>6. ASSUME NEW q \in S PROVE f[q] <= f[p]
  <2>1. PICK x \in 0 .. b, y \in 0 .. b : x = f[p] /\ y = f[q]
    BY <1>1
  <2>2. b - x <= b - y
    BY <1>3, <1>4, <1>5, <2>1
  <2>3. QED
    BY <2>1, <2>2
<1>7. QED
  BY <1>6

(* What references read.                                                   *)
LEMMA PrefixLabels ==
  ASSUME NEW n \in Labels
  PROVE  Prefixes(n) \ {NoName} \subseteq Labels /\ NoName \notin Labels
         /\ \A p \in Prefixes(n) : Len(p) \in 0 .. Len(n)
<1>1. n \in Seq(STRING) /\ NoName \notin Labels /\ Prefixes(n) \ {NoName} \subseteq Labels
  BY DeclarationAssumption
<1>2. ASSUME NEW p \in Prefixes(n) PROVE Len(p) \in 0 .. Len(n)
  <2>1. PICK l \in 0 .. Len(n) : p = SubSeq(n, 1, l)
    BY DEF Prefixes
  <2>2. IsSeq(n)
    BY <1>1, SeqOfSet
  <2>3. QED
    BY <2>1, <2>2, PrefixShape
<1>3. QED
  BY <1>1, <1>2

LEMMA LongestShape ==
  ASSUME NEW n \in Labels, NEW values, NEW m,
         Longest(n, values, m) # NoName
  PROVE  Longest(n, values, m) \in Labels
<1> DEFINE there == {p \in Prefixes(n) \ {NoName} : values[<<m, p>>].tag \notin {"absent", "refused"}}
<1>1. Longest(n, values, m) = IF there = {} THEN NoName ELSE CHOOSE p \in there : \A q \in there : Len(q) <= Len(p)
  BY DEF Longest
<1>2. there \subseteq Labels /\ \A p \in there : Len(p) \in 0 .. Len(n)
  BY PrefixLabels
<1> HIDE DEF there
<1>3. there # {}
  BY <1>1
<1>4. Len(n) \in Nat
  <2>1. n \in Seq(STRING)
    BY DeclarationAssumption
  <2>2. QED
    BY <2>1
<1>5. \E p \in there : \A q \in there : Len(q) <= Len(p)
  <2> DEFINE len == [p \in there |-> Len(p)]
  <2>1. len \in [there -> 0 .. Len(n)] /\ \A p \in there : len[p] = Len(p)
    BY <1>2
  <2> HIDE DEF len
  <2>2. \E p \in there : \A q \in there : len[q] <= len[p]
    BY <1>3, <1>4, <2>1, Greatest
  <2>3. QED
    BY <2>1, <2>2
<1>6. (CHOOSE p \in there : \A q \in there : Len(q) <= Len(p)) \in there
  BY <1>5
<1>7. QED
  BY <1>1, <1>2, <1>3, <1>6

LEMMA Resolved ==
  ASSUME NEW e \in Envs, NEW ref \in References
  PROVE  /\ Resolve(e, ref) \in Values
         /\ \A K, F : (\A n \in Labels : Grounds(e.plain[n], K, F)) /\ (\A k \in Keys : Grounds(e.spelled[k], K, F))
              => Grounds(Resolve(e, ref), K, F)
<1>1. ref[1] \in {"", Module, Library} /\ ref[2] \in Labels
  BY DEF References
<1> DEFINE values == IF ref[1] = "" THEN [k \in Keys |-> e.plain[k[2]]] ELSE e.spelled
           m == IF ref[1] = "" THEN Module ELSE ref[1]
           found == Longest(ref[2], values, m)
<1>2. Resolve(e, ref) = IF found = NoName THEN Absent ELSE values[<<m, found>>]
  BY DEF Resolve
<1>3. Resolve(e, ref) = Absent \/ (\E n \in Labels : Resolve(e, ref) = e.plain[n])
        \/ (\E k \in Keys : Resolve(e, ref) = e.spelled[k])
  <2>1. CASE found = NoName
    BY <1>2, <2>1
  <2>2. CASE found # NoName
    <3>1. PICK v, mm : v = values /\ mm = m
      OBVIOUS
    <3>2. found = Longest(ref[2], v, mm)
      BY <3>1
    <3>3. found \in Labels
      BY <1>1, <2>2, <3>2, LongestShape
    <3> HIDE DEF found
    <3>4. m \in {Module, Library} /\ <<m, found>> \in Keys /\ <<m, found>>[2] = found
      BY <1>1, <3>3 DEF Keys
    <3>5. CASE ref[1] = ""
      <4>1. values[<<m, found>>] = e.plain[<<m, found>>[2]]
        BY <3>4, <3>5
      <4>2. QED
        BY <1>2, <2>2, <3>3, <3>4, <4>1
    <3>6. CASE ref[1] # ""
      BY <1>2, <2>2, <3>4, <3>6
    <3>7. QED
      BY <3>5, <3>6
  <2>3. QED
    BY <2>1, <2>2
<1>4. Absent \in Values /\ Absent.tag = "absent"
  BY DEF Absent, Values
<1>5. \A K, F : Grounds(Absent, K, F)
  BY <1>4 DEF Grounds
<1>6. Resolve(e, ref) \in Values
  BY <1>3, <1>4, EnvShape, Zenon
<1>7. ASSUME NEW K, NEW F, \A n \in Labels : Grounds(e.plain[n], K, F), \A k \in Keys : Grounds(e.spelled[k], K, F)
      PROVE  Grounds(Resolve(e, ref), K, F)
  <2>1. CASE Resolve(e, ref) = Absent
    BY <1>5, <2>1
  <2>2. CASE \E n \in Labels : Resolve(e, ref) = e.plain[n]
    BY <1>7, <2>2
  <2>3. CASE \E k \in Keys : Resolve(e, ref) = e.spelled[k]
    BY <1>7, <2>3
  <2>4. QED
    BY <1>3, <2>1, <2>2, <2>3
<1>8. QED
  BY <1>6, <1>7, Zenon

LEMMA Blocked ==
  ASSUME NEW e \in Envs, NEW refs \in Seq(References), NEW b, b = Blocker(e, refs)
  PROVE  /\ b.tag = "checked" => \A i \in DOMAIN refs : Resolve(e, refs[i]).tag = "checked"
         /\ b \in Values
         /\ \A K, F : (\A n \in Labels : Grounds(e.plain[n], K, F)) /\ (\A k \in Keys : Grounds(e.spelled[k], K, F))
              => (b.tag = "untranslated" => b.root \in F)
<1> DEFINE I == {j \in 1 .. Len(refs) : Resolve(e, refs[j]).tag # "checked"}
           fine == Standing("checked", NoName, 0, NoName)
<1>1. PICK i : i = IF I # {} THEN Min(I) ELSE 0
  OBVIOUS
<1>2. b = IF i = 0 THEN fine ELSE Resolve(e, refs[i])
  BY <1>1 DEF Blocker, SelectInSeq
<1>3. DOMAIN refs = 1 .. Len(refs) /\ Len(refs) \in Nat /\ \A j \in 1 .. Len(refs) : refs[j] \in References
  OBVIOUS
<1>4. I \in SUBSET Nat /\ \A j \in I : j # 0 /\ j \in 1 .. Len(refs) /\ Resolve(e, refs[j]).tag # "checked"
  BY <1>3
<1>5. I = {} => \A j \in DOMAIN refs : Resolve(e, refs[j]).tag = "checked"
  BY <1>3
<1>6. fine \in Values /\ fine.tag = "checked"
  BY DEF Standing, Values
<1> HIDE DEF I, fine
<1>7. CASE I = {}
  <2>1. b = fine
    BY <1>1, <1>2, <1>7
  <2>2. QED
    BY <1>5, <1>6, <1>7, <2>1
<1>8. CASE I # {}
  <2>0. i \in I
    <3>1. \E m \in I : \A n \in I : m <= n
      BY <1>4, <1>8, LeastNat, Zenon
    <3>2. QED
      BY <1>1, <1>8, <3>1 DEF Min
  <2>1. b = Resolve(e, refs[i]) /\ b.tag # "checked" /\ refs[i] \in References
    BY <1>2, <1>3, <1>4, <2>0
  <2>2. PICK ref \in References : ref = refs[i]
    BY <2>1
  <2>3. b = Resolve(e, ref)
    BY <2>1, <2>2
  <2>4. b \in Values
    BY <2>3, Resolved
  <2>5. ASSUME NEW K, NEW F, \A n \in Labels : Grounds(e.plain[n], K, F), \A k \in Keys : Grounds(e.spelled[k], K, F),
               b.tag = "untranslated"
        PROVE  b.root \in F
    <3>1. Grounds(Resolve(e, ref), K, F)
      BY <2>5, Resolved
    <3>2. QED
      BY <2>3, <2>5, <3>1 DEF Grounds
  <2>6. QED
    BY <2>1, <2>4, <2>5
<1>9. QED
  BY <1>7, <1>8

-----------------------------------------------------------------------------
(* What the steps have in common.                                          *)

LEMMA TypeFacts ==
  ASSUME DeclarationTypeOK
  PROVE  /\ items \in Nat /\ IsSeq(queue) /\ groups \in Seq(Groups) /\ env \in Envs
         /\ Len(groups) \in Nat /\ DOMAIN groups = 1 .. Len(groups) /\ Len(queue) \in Nat /\ DOMAIN queue = 1 .. Len(queue)
         /\ DOMAIN owner \subseteq Labels /\ \A n \in DOMAIN owner : owner[n] \in 1 .. items
         /\ active # NoGroup => /\ active.group \in DOMAIN groups /\ active.env \in Envs
                                /\ active.kernel \in SUBSET Kernels
<1>1. IsSeq(queue) /\ groups \in Seq(Groups)
  BY DEF DeclarationTypeOK
<1>2. Len(queue) \in Nat /\ DOMAIN queue = 1 .. Len(queue)
  BY <1>1, SeqShape
<1>3. Len(groups) \in Nat /\ DOMAIN groups = 1 .. Len(groups)
  BY <1>1
<1>4. QED
  BY <1>1, <1>2, <1>3 DEF DeclarationTypeOK

LEMMA NamesAreLabels ==
  /\ \A ds \in Seq(Members) : AllNames(ds) \subseteq Labels
  /\ \A d \in Sources : NamesIn(d) \subseteq Labels /\ AllNames(<<d>>) = NamesIn(d) /\ d.name \in NamesIn(d)
<1>1. ASSUME NEW ds \in Seq(Members) PROVE AllNames(ds) \subseteq Labels
  <2>1. ASSUME NEW i \in DOMAIN ds PROVE NamesIn(ds[i]) \subseteq Labels
    <3>1. ds[i] \in Members
      BY MemberShape
    <3>2. QED
      BY <3>1 DEF Members, NamesIn
  <2>2. QED
    BY <2>1 DEF AllNames
<1>2. ASSUME NEW d \in Sources
      PROVE  NamesIn(d) \subseteq Labels /\ AllNames(<<d>>) = NamesIn(d) /\ d.name \in NamesIn(d)
  <2>1. NamesIn(d) \subseteq Labels /\ d.name \in NamesIn(d)
    BY DEF Sources, NamesIn
  <2>2. DOMAIN <<d>> = {1} /\ <<d>>[1] = d
    OBVIOUS
  <2>3. AllNames(<<d>>) = NamesIn(d)
    BY <2>2 DEF AllNames
  <2>4. QED
    BY <2>1, <2>3
<1>3. QED
  BY <1>1, <1>2

(* A group's members are its own while others are added or settled.        *)
LEMMA GroupsStay ==
  ASSUME DeclarationTypeOK, GroupInv, groups' = groups, items' \in Nat, items <= items',
         DOMAIN owner \subseteq DOMAIN owner', \A n \in DOMAIN owner : owner'[n] = owner[n],
         declared \subseteq declared', rootFailures \subseteq rootFailures'
  PROVE  GroupInv'
<1>1. items \in Nat
  BY TypeFacts
<1>2. ASSUME NEW g \in DOMAIN groups
      PROVE  /\ groups[g].item \in 1 .. items'
             /\ \A n \in NamesOf(g) : n \in DOMAIN owner' /\ owner'[n] = groups[g].item /\ n \in declared'
             /\ \A h \in DOMAIN groups \ {g} : NamesOf(g) \cap NamesOf(h) = {}
             /\ \A i \in DOMAIN groups[g].members :
                  /\ groups[g].members[i].item = groups[g].item
                  /\ \A j \in DOMAIN groups[g].members \ {i} :
                       NamesIn(groups[g].members[i]) \cap NamesIn(groups[g].members[j]) = {}
             /\ \A h \in groups[g].dependencies : h \in 1 .. g - 1
             /\ groups[g].state \in {"failed", "blocked"} => groups[g].root \in rootFailures'
  <2>1. groups[g].item \in 1 .. items
    BY DEF GroupInv
  <2>2. groups[g].item \in 1 .. items'
    BY <1>1, <2>1
  <2>3. \A n \in NamesOf(g) : n \in DOMAIN owner /\ owner[n] = groups[g].item /\ n \in declared
    BY DEF GroupInv
  <2>4. groups[g].state \in {"failed", "blocked"} => groups[g].root \in rootFailures'
    BY DEF GroupInv
  <2>5. /\ \A h \in DOMAIN groups \ {g} : NamesOf(g) \cap NamesOf(h) = {}
        /\ \A i \in DOMAIN groups[g].members :
             /\ groups[g].members[i].item = groups[g].item
             /\ \A j \in DOMAIN groups[g].members \ {i} :
                  NamesIn(groups[g].members[i]) \cap NamesIn(groups[g].members[j]) = {}
        /\ \A h \in groups[g].dependencies : h \in 1 .. g - 1
    BY DEF GroupInv
  <2>6. \A n \in NamesOf(g) : n \in DOMAIN owner' /\ owner'[n] = groups[g].item /\ n \in declared'
    BY <2>3
  <2>7. QED
    BY <2>2, <2>4, <2>5, <2>6, Zenon
<1>3. \A g : NamesOf(g)' = NamesOf(g)
  BY DEF NamesOf
<1>4. QED
  BY <1>2, <1>3, Zenon DEF GroupInv

LEMMA SettledNames ==
  ASSUME NEW gs, NEW l, Upto(gs, l, l), \A g \in DOMAIN gs : g < l
  PROVE  ToCome(gs) = {}
<1>1. \A g \in DOMAIN gs : gs[g].state \in {"checked", "failed", "blocked"}
  BY DEF Upto, Settled
<1>2. QED
  BY <1>1 DEF ToCome

(* A queue depends on the members and the item of each group only.         *)
SameGroups(gs, hs) ==
  /\ Len(gs) = Len(hs) /\ DOMAIN gs = DOMAIN hs
  /\ \A g \in DOMAIN gs : gs[g].members = hs[g].members /\ gs[g].item = hs[g].item

LEMMA SameChain ==
  ASSUME NEW gs, NEW hs, SameGroups(gs, hs), NEW q
  PROVE  /\ Chain(q, gs) => Chain(q, hs)
         /\ \A g \in DOMAIN gs, i \in Int : BlockAt(q, i, gs, g) => BlockAt(q, i, hs, g)
<1>1. ASSUME NEW g \in DOMAIN gs, NEW i, BlockAt(q, i, gs, g) PROVE BlockAt(q, i, hs, g)
  <2>1. gs[g].members = hs[g].members /\ gs[g].item = hs[g].item /\ Len(gs) = Len(hs)
    BY DEF SameGroups
  <2>2. QED
    BY <1>1, <2>1, Zenon DEF BlockAt
<1>2. ASSUME Chain(q, gs), NEW i \in DOMAIN q, q[i].kind = "start"
      PROVE  q[i].group \in DOMAIN hs /\ q[i].item = hs[q[i].group].item /\ BlockAt(q, i, hs, q[i].group)
  <2>1. q[i].group \in DOMAIN gs /\ q[i].item = gs[q[i].group].item /\ BlockAt(q, i, gs, q[i].group)
    BY <1>2, Zenon DEF Chain
  <2>2. QED
    BY <1>1, <2>1, Zenon DEF SameGroups
<1>3. QED
  BY <1>1, <1>2, Zenon DEF Chain

(* What the queue begins with.                                             *)
Open(g, ds, m) == g = active.group /\ ds = groups[g].members /\ m = Len(ds)

LEMMA BusyHead ==
  ASSUME DeclarationTypeOK, NEW done \in Nat, Busy(done), NEW g, NEW ds, NEW m, Open(g, ds, m)
  PROVE  /\ g \in DOMAIN groups /\ ds \in Seq(Members) /\ m \in Nat /\ DOMAIN ds = 1 .. m /\ done \in 0 .. m
         /\ m - done + 1 \in DOMAIN queue /\ queue[m - done + 1].kind = "end" /\ queue # <<>>
         /\ \A j \in 1 .. m - done : queue[j] = ds[done + j]
         /\ IF m - done + 1 = Len(queue) THEN g = Len(groups)
            ELSE queue[m - done + 2].kind = "start" /\ queue[m - done + 2].group = g + 1
<1>1. g \in DOMAIN groups /\ groups \in Seq(Groups)
  BY TypeFacts DEF Busy, Open
<1>2. ds \in Seq(Members) /\ m \in Nat /\ DOMAIN ds = 1 .. m
  BY <1>1, GroupShape DEF Open
<1>3. done \in 0 .. m
  BY DEF Busy, Open
<1>4. PICK i \in Int : i = - done
  OBVIOUS
<1>5. BlockAt(queue, i, groups, g)
  BY <1>4, Zenon DEF Busy, Open
<1>6. PICK end \in Int : end = i + m + 1
  BY <1>2, <1>4
<1>7. /\ end \in DOMAIN queue /\ queue[end].kind = "end"
      /\ \A j \in 1 .. m : i + j >= 1 => queue[i + j] = ds[j]
      /\ IF end = Len(queue) THEN g = Len(groups) ELSE queue[end + 1].kind = "start" /\ queue[end + 1].group = g + 1
  BY <1>2, <1>5, <1>6 DEF BlockAt, Open
<1>8. end = m - done + 1 /\ end + 1 = m - done + 2
  BY <1>2, <1>3, <1>4, <1>6
<1>9. ASSUME NEW j \in 1 .. m - done PROVE queue[j] = ds[done + j]
  <2>1. PICK k \in 1 .. m : k = done + j /\ i + k = j /\ i + k >= 1
    BY <1>2, <1>3, <1>4
  <2>2. queue[i + k] = ds[k]
    BY <1>7, <2>1
  <2>3. QED
    BY <2>1, <2>2
<1>10. queue # <<>>
  BY <1>7
<1>11. QED
  BY <1>1, <1>2, <1>3, <1>7, <1>8, <1>9, <1>10, Zenon

LEMMA Heads ==
  ASSUME DInv, queue # <<>>
  PROVE  /\ queue[1].kind \in {"theory", "directive"} => Idle /\ Fresh
         /\ queue[1].kind = "start" => Idle /\ Grouped
         /\ queue[1].kind = "end" =>
              \E done \in Nat : Busy(done) /\ done = Len(groups[active.group].members)
         /\ queue[1].kind \in {"def", "inductive"} =>
              \/ Idle /\ Fresh
              \/ \E done \in Nat : /\ Busy(done) /\ done < Len(groups[active.group].members)
                                   /\ queue[1] = groups[active.group].members[done + 1] /\ queue[1] \in Members
<1>1. CASE Idle
  <2>1. CASE Fresh
    <3>1. queue[1].kind \in {"def", "inductive", "theory", "directive"}
      BY <2>1 DEF Fresh, Sources
    <3>2. QED
      BY <1>1, <2>1, <3>1
  <2>2. CASE Grouped
    <3>1. queue[1].kind = "start"
      BY <2>2 DEF Grouped
    <3>2. QED
      BY <1>1, <2>2, <3>1
  <2>3. QED
    BY <1>1, <2>1, <2>2 DEF Idle, Waits
<1>2. CASE \E done \in Nat : Busy(done)
  <2>1. PICK done \in Nat : Busy(done)
    BY <1>2
  <2>2. PICK g, ds, m : Open(g, ds, m)
    BY Zenon DEF Open
  <2>3. /\ g \in DOMAIN groups /\ ds \in Seq(Members) /\ m \in Nat /\ DOMAIN ds = 1 .. m /\ done \in 0 .. m
        /\ m - done + 1 \in DOMAIN queue /\ queue[m - done + 1].kind = "end"
        /\ \A j \in 1 .. m - done : queue[j] = ds[done + j]
    <3>1. DeclarationTypeOK
      BY DEF DInv
    <3>2. QED
      BY <2>1, <2>2, <3>1, BusyHead
  <2>4. CASE done = m
    <3>1. m - done + 1 = 1
      BY <2>3, <2>4
    <3>2. queue[1].kind = "end"
      BY <2>3, <3>1
    <3>3. QED
      BY <2>1, <2>2, <2>4, <3>2 DEF Open
  <2>5. CASE done # m
    <3>1. done < m /\ 1 \in 1 .. m - done /\ done + 1 \in 1 .. m
      BY <2>3, <2>5
    <3>2. queue[1] = ds[done + 1] /\ ds[done + 1] \in Members
      BY <2>3, <3>1, MemberShape
    <3>3. queue[1].kind \in {"def", "inductive"}
      BY <3>2 DEF Members
    <3>4. QED
      BY <2>1, <2>2, <3>1, <3>2, <3>3 DEF Open
  <2>6. QED
    BY <2>4, <2>5
<1>3. QED
  BY <1>1, <1>2 DEF DInv

-----------------------------------------------------------------------------
(* The next item, and a directive.                                         *)

LEMMA NothingSeq == IsSeq(<<>>)
<1>1. <<>> \in Seq({})
  OBVIOUS
<1>2. QED
  BY <1>1 DEF IsSeq

LEMMA EmptyOnly == ASSUME NEW r, IsSeq(r), Len(r) = 0 PROVE r = <<>>
<1>1. PICK S : r \in Seq(S)
  BY DEF IsSeq
<1>2. QED
  BY <1>1

LEMMA OneSeq == \A x : IsSeq(<<x>>) /\ Len(<<x>>) = 1 /\ <<x>>[1] = x
<1>1. ASSUME NEW x PROVE IsSeq(<<x>>) /\ Len(<<x>>) = 1 /\ <<x>>[1] = x
  <2>1. <<x>> \in Seq({x})
    OBVIOUS
  <2>2. QED
    BY <2>1, SeqOfSet
<1>2. QED
  BY <1>1

LEMMA IdleOnly ==
  ASSUME DInv
  PROVE  /\ queue = <<>> => Idle /\ Waits
         /\ active = NoGroup => Idle
<1>1. ASSUME NEW done \in Nat, Busy(done) PROVE queue # <<>> /\ active # NoGroup
  <2>1. PICK g, ds, m : Open(g, ds, m)
    BY Zenon DEF Open
  <2>2. DeclarationTypeOK
    BY DEF DInv
  <2>3. queue # <<>>
    BY <1>1, <2>1, <2>2, BusyHead
  <2>4. QED
    BY <1>1, <2>3 DEF Busy
<1>2. Idle /\ queue = <<>> => Waits
  <2>1. Fresh => queue # <<>>
    BY DEF Fresh
  <2>2. QED
    BY <2>1 DEF Idle, Grouped
<1>3. QED
  BY <1>1, <1>2, Zenon DEF DInv

Numbered(item, k) ==
  [[item EXCEPT !.item = k] EXCEPT
     !.members = [i \in DOMAIN item.members |-> [item.members[i] EXCEPT !.item = k]]]

LEMMA NumberedItem ==
  ASSUME NEW item \in SourceItems, NEW k \in Nat, NEW x, x = Numbered(item, k)
  PROVE  /\ x \in Sources /\ x.item = k
         /\ x.kind = "theory" =>
              /\ x.constructors = {} /\ x.name \in AllNames(x.members)
              /\ WellOrdered(x.members)
              /\ \A i \in DOMAIN x.members : x.members[i].item = k
<1>1. item \in Sources
  BY DeclarationAssumption
<1>2. item.kind = "theory" => item.constructors = {} /\ item.name \in AllNames(item.members) /\ WellOrdered(item.members)
  BY DeclarationAssumption
<1>3. PICK ms \in Seq(Members) : ms = item.members
  BY <1>1 DEF Sources
<1> DEFINE ns == [i \in DOMAIN ms |-> [ms[i] EXCEPT !.item = k]]
<1>4. PICK n \in Nat : n = Len(ms) /\ DOMAIN ms = 1 .. n /\ \A i \in 1 .. n : ms[i] \in Members
  BY MemberShape
<1>5. ASSUME NEW i \in 1 .. n
      PROVE  /\ ns[i] \in Members /\ ns[i].item = k /\ ns[i].family = ms[i].family
             /\ NamesIn(ns[i]) = NamesIn(ms[i])
  <2>1. ms[i] \in Members /\ ns[i] = [ms[i] EXCEPT !.item = k]
    BY <1>4
  <2> HIDE DEF ns
  <2>2. QED
    BY <2>1 DEF Members, NamesIn
<1>6. DOMAIN ns = 1 .. n
  BY <1>4
<1>7. ns \in Seq(Members)
  <2>1. ns \in [1 .. n -> Members]
    BY <1>4, <1>5
  <2>2. QED
    BY <2>1, FunctionSeq
<1> HIDE DEF ns
<1>8. AllNames(ns) = AllNames(ms)
  BY <1>4, <1>5, <1>6 DEF AllNames
<1>9. WellOrdered(ms) => WellOrdered(ns)
  <2> SUFFICES ASSUME WellOrdered(ms), NEW i \in 1 .. n
               PROVE  /\ ns[i].family # ""
                      /\ \A j \in 1 .. n : ns[j].family \in Dependencies(ns[i].family) =>
                           \E l \in 1 .. i - 1 : ns[l].family = ns[j].family
    BY <1>6 DEF WellOrdered
  <2>1. /\ ms[i].family # ""
        /\ \A j \in 1 .. n : ms[j].family \in Dependencies(ms[i].family) =>
             \E l \in 1 .. i - 1 : ms[l].family = ms[j].family
    BY <1>4 DEF WellOrdered
  <2>2. \A l \in 1 .. i - 1 : l \in 1 .. n
    BY <1>4
  <2>3. QED
    BY <1>5, <2>1, <2>2
<1>10. x = [[item EXCEPT !.item = k] EXCEPT !.members = ns]
  BY <1>3 DEF ns, Numbered
<1>11. /\ x \in Sources /\ x.item = k /\ x.members = ns /\ x.kind = item.kind /\ x.name = item.name
       /\ x.constructors = item.constructors
  BY <1>1, <1>7, <1>10 DEF Sources
<1>12. QED
  BY <1>2, <1>3, <1>5, <1>6, <1>8, <1>9, <1>11

LEMMA NextItemKeeps ==
  ASSUME DInv, NEW item \in SourceItems, NextItem(item)
  PROVE  DInv'
<1>1. DeclarationTypeOK /\ GroupInv /\ Idle /\ Waits
  <2>1. queue = <<>>
    BY DEF NextItem
  <2>2. QED
    BY <2>1, IdleOnly DEF DInv
<1>2. PICK k \in Nat : k = items + 1 /\ items \in Nat /\ k # 0
  BY <1>1, TypeFacts
<1>3. PICK x : x = Numbered(item, k)
  OBVIOUS
<1>4. /\ queue' = <<x>> /\ items' = k
      /\ UNCHANGED <<env, owner, declared, groups, active, results, kernel, rootFailures>>
  BY <1>2, <1>3, Zenon DEF NextItem, Numbered
<1>5. /\ x \in Sources /\ x.item = k
      /\ x.kind = "theory" =>
           /\ x.constructors = {} /\ x.name \in AllNames(x.members)
           /\ WellOrdered(x.members)
           /\ \A i \in DOMAIN x.members : x.members[i].item = k
  BY <1>3, NumberedItem
<1>6. IsSeq(<<x>>) /\ Len(<<x>>) = 1 /\ <<x>>[1] = x
  BY OneSeq, Zenon
<1>7. DeclarationTypeOK'
  <2>1. owner \in [DOMAIN owner -> 1 .. k]
    BY <1>1, <1>2 DEF DeclarationTypeOK
  <2>2. /\ groups \in Seq(Groups) /\ env \in Envs /\ kernel \in SUBSET Kernels /\ rootFailures \in SUBSET Keys
        /\ DOMAIN owner \subseteq Labels /\ declared \subseteq DOMAIN owner
        /\ \/ active = NoGroup
           \/ active.group \in DOMAIN groups /\ active.env \in Envs /\ active.kernel \in SUBSET Kernels
    BY <1>1 DEF DeclarationTypeOK
  <2>3. QED
    BY <1>2, <1>4, <1>6, <2>1, <2>2 DEF DeclarationTypeOK
<1>8. GroupInv'
  <2>1. items <= k /\ k \in Nat
    BY <1>2
  <2>2. QED
    BY <1>1, <1>4, <2>1, GroupsStay
<1>9. Idle'
  <2>1. Fresh'
    <3>1. \A n \in DOMAIN owner : owner[n] < k
      BY <1>1, <1>2, TypeFacts
    <3>2. \A g \in DOMAIN groups : groups[g].item < k
      <4>1. \A g \in DOMAIN groups : groups[g].item \in 1 .. items
        BY <1>1 DEF GroupInv
      <4>2. QED
        BY <1>2, <4>1
    <3>3. Upto(groups, Len(groups) + 1, Len(groups) + 1)
      BY <1>1 DEF Waits
    <3>4. QED
      BY <1>2, <1>4, <1>5, <1>6, <3>1, <3>2, <3>3 DEF Fresh
  <2>2. QED
    BY <1>1, <1>4, <2>1, Zenon DEF Idle
<1>10. QED
  BY <1>7, <1>8, <1>9 DEF DInv

(* What follows a single item: nothing.                                    *)
LEMMA AfterItem ==
  ASSUME DeclarationTypeOK, Fresh
  PROVE  /\ queue # <<>> /\ Head(queue) = queue[1] /\ Tail(queue) = <<>>
         /\ Head(queue) \in Sources /\ Head(queue).item = items
         /\ NamesIn(Head(queue)) \subseteq Labels /\ AllNames(<<Head(queue)>>) = NamesIn(Head(queue))
         /\ Head(queue).name \in NamesIn(Head(queue))
         /\ ToCome(groups) = {} /\ \A n \in DOMAIN owner : n \in Labels /\ owner[n] < items /\ owner[n] # items
<1>1. IsSeq(queue) /\ Len(queue) = 1
  BY DEF DeclarationTypeOK, Fresh
<1>2. queue # <<>>
  BY <1>1
<1>3. queue # <<>> /\ Head(queue) = queue[1] /\ Tail(queue) = <<>>
  <2>1. Head(queue) = queue[1] /\ Suffix(Tail(queue), queue, 1)
    BY <1>1, <1>2, TailShape
  <2>2. IsSeq(Tail(queue)) /\ Len(Tail(queue)) = 0
    BY <1>1, <2>1 DEF Suffix
  <2>3. QED
    BY <1>2, <2>1, <2>2, EmptyOnly, Zenon
<1>4. Head(queue) \in Sources /\ Head(queue).item = items
  BY <1>3 DEF Fresh
<1>5. ToCome(groups) = {}
  <2>1. PICK l : l = Len(groups) + 1
    OBVIOUS
  <2>2. Upto(groups, l, l) /\ \A g \in DOMAIN groups : g < l
    BY <2>1, TypeFacts DEF Fresh
  <2>3. QED
    BY <2>2, SettledNames
<1>6. \A n \in DOMAIN owner : n \in Labels /\ owner[n] < items /\ owner[n] # items
  <2>1. items \in Nat /\ DOMAIN owner \subseteq Labels /\ \A n \in DOMAIN owner : owner[n] \in 1 .. items
    BY TypeFacts
  <2>2. \A n \in DOMAIN owner : owner[n] < items
    BY DEF Fresh
  <2>3. QED
    BY <2>1, <2>2
<1>7. QED
  BY <1>3, <1>4, <1>5, <1>6, NamesAreLabels, Zenon

LEMMA DirectiveKeeps ==
  ASSUME DInv, Directive
  PROVE  DInv'
<1>1. queue # <<>> /\ queue[1].kind = "directive"
  BY DEF Directive, IsNext
<1>2. DeclarationTypeOK /\ GroupInv /\ Idle /\ Fresh
  BY <1>1, Heads DEF DInv
<1>3. /\ queue' = <<>> /\ env' = BindQualified(env, Head(queue).refs)
      /\ UNCHANGED <<items, owner, declared, groups, active, results, kernel, rootFailures>>
  BY <1>2, AfterItem DEF Directive
<1>4. env' \in Envs /\ \A K, F, o, W, gs : EnvOK(env, K, F, o, W, gs) => EnvOK(env', K, F, o, W, gs)
  BY <1>2, <1>3, TypeFacts, Binding
<1>5. DeclarationTypeOK'
  <2>1. IsSeq(<<>>)
    BY NothingSeq
  <2>2. QED
    BY <1>2, <1>3, <1>4, <2>1 DEF DeclarationTypeOK
<1>6. GroupInv'
  <2>1. items \in Nat /\ items <= items
    BY <1>2, TypeFacts
  <2>2. QED
    BY <1>2, <1>3, <2>1, GroupsStay
<1>7. Idle'
  <2>1. EnvOK(env', kernel, rootFailures, owner, ToCome(groups), groups)
    BY <1>2, <1>4, Zenon DEF Idle
  <2>2. Waits'
    BY <1>2, <1>3 DEF Waits, Fresh
  <2>3. QED
    BY <1>2, <1>3, <2>1, <2>2, Zenon DEF Idle
<1>8. QED
  BY <1>5, <1>6, <1>7 DEF DInv

-----------------------------------------------------------------------------
(* An item that is the last of the queue publishes names nobody owned.     *)

LEMMA ItemEnds ==
  ASSUME DeclarationTypeOK, GroupInv, Idle, Fresh, NEW e \in Envs,
         EnvOK(e, kernel, rootFailures, owner, ToCome(groups), groups),
         NEW V \in SUBSET Labels, NEW R, Publishes(e, env', V, R), env' \in Envs,
         queue' = <<>>, items' = items, groups' = groups, active' = active,
         DOMAIN owner \subseteq DOMAIN owner', \A n \in DOMAIN owner : owner'[n] = owner[n],
         DOMAIN owner' \subseteq Labels, owner' = [n \in DOMAIN owner' |-> owner'[n]],
         \A n \in DOMAIN owner' : n \notin DOMAIN owner => owner'[n] = items /\ n \in V /\ n \in R,
         \A n \in V : /\ n \notin DOMAIN owner /\ (n \in R => n \in DOMAIN owner')
                      /\ env'.plain[n].item = items /\ env'.plain[n].by = <<Module, n>>
                      /\ Grounds(env'.plain[n], kernel', rootFailures'),
         declared \subseteq declared', declared' \subseteq DOMAIN owner',
         rootFailures \subseteq rootFailures', rootFailures' \in SUBSET Keys,
         kernel \subseteq kernel', kernel' \in SUBSET Kernels,
         \A k \in kernel' : \A u \in k.uses : \E l \in kernel' : l.by = u
  PROVE  DInv'
<1>1. /\ items \in Nat /\ items # 0 /\ ToCome(groups) = {} /\ env \in Envs
      /\ \A n \in DOMAIN owner : n \in Labels /\ owner[n] \in 1 .. items
  BY TypeFacts, AfterItem DEF Fresh
<1>2. DeclarationTypeOK'
  <2>1. \A n \in DOMAIN owner' : owner'[n] \in 1 .. items
    <3>1. items \in 1 .. items
      BY <1>1
    <3>2. QED
      BY <1>1, <3>1
  <2>2. owner' \in [DOMAIN owner' -> 1 .. items]
    BY <2>1
  <2>3. /\ groups \in Seq(Groups)
        /\ \/ active = NoGroup
           \/ active.group \in DOMAIN groups /\ active.env \in Envs /\ active.kernel \in SUBSET Kernels
    BY DEF DeclarationTypeOK
  <2>4. IsSeq(<<>>)
    BY NothingSeq
  <2>5. QED
    BY <1>1, <2>2, <2>3, <2>4 DEF DeclarationTypeOK
<1>3. GroupInv'
  <2>1. items' \in Nat /\ items <= items'
    BY <1>1
  <2>2. QED
    BY <2>1, GroupsStay
<1>4. PICK W : W = ToCome(groups) /\ W = {}
  BY <1>1
<1>5. EnvOK(e, kernel, rootFailures, owner, W, groups)
  BY <1>4, Zenon
<1>6. EnvOK(env', kernel', rootFailures', owner', W, groups)
  <2>1. \A k \in kernel : \E l \in kernel' : l.by = k.by
    OBVIOUS
  <2>2. \A n \in V : Grounds(env'.plain[n], kernel', rootFailures')
    OBVIOUS
  <2>3. \A n \in V : n \in DOMAIN owner' /\ n \notin W =>
          env'.plain[n].item = owner'[n] /\ env'.plain[n].by = <<Module, n>> /\ n \in R
    OBVIOUS
  <2>4. \A n \in DOMAIN owner' : n \notin W /\ n \notin V => n \in DOMAIN owner /\ n \notin W /\ owner'[n] = owner[n]
    BY <1>4
  <2>5. \A n \in Labels : n \notin DOMAIN owner' \/ n \in W => (n \notin DOMAIN owner \/ n \in W) /\ ~ (n \in V /\ n \in R)
    BY <1>4
  <2>6. \A n \in V : n \in R => n \notin DOMAIN owner \/ n \in W
    OBVIOUS
  <2>7. ASSUME NEW g \in DOMAIN groups, groups[g].state = "checked", NEW n \in AllNames(groups[g].members)
        PROVE  env'.plain[n].tag = "checked"
    <3>1. n \in DOMAIN owner
      BY DEF GroupInv, NamesOf
    <3>2. n \in Labels /\ n \notin V
      BY <1>1, <3>1
    <3>3. env'.plain[n] = e.plain[n]
      BY <3>2, Zenon DEF Publishes
    <3>4. e.plain[n].tag = "checked"
      BY <1>5, <2>7, Zenon DEF EnvOK
    <3>5. QED
      BY <3>3, <3>4
  <2>8. PICK f, L, G, p : f \in Envs /\ f = env' /\ L = kernel' /\ G = rootFailures' /\ p = owner'
    OBVIOUS
  <2>9. f \in Envs /\ Publishes(e, f, V, R) /\ rootFailures \subseteq G /\ DOMAIN p \subseteq Labels
    BY <2>8
  <2>10. \A k \in L : \A u \in k.uses : \E l \in L : l.by = u
    BY <2>8
  <2>11. \A g \in DOMAIN groups : groups[g].state = "checked" => \A n \in AllNames(groups[g].members) : f.plain[n].tag = "checked"
    BY <2>7, <2>8, Zenon
  <2>12. /\ \A k \in kernel : \E l \in L : l.by = k.by
         /\ \A n \in V : Grounds(f.plain[n], L, G)
         /\ \A n \in V : n \in DOMAIN p /\ n \notin W => f.plain[n].item = p[n] /\ f.plain[n].by = <<Module, n>> /\ n \in R
         /\ \A n \in DOMAIN p : n \notin W /\ n \notin V => n \in DOMAIN owner /\ n \notin W /\ p[n] = owner[n]
         /\ \A n \in Labels : n \notin DOMAIN p \/ n \in W => (n \notin DOMAIN owner \/ n \in W) /\ ~ (n \in V /\ n \in R)
    BY <2>1, <2>2, <2>3, <2>4, <2>5, <2>8, Zenon
  <2>13. EnvOK(f, L, G, p, W, groups)
    BY <1>5, <2>6, <2>9, <2>10, <2>11, <2>12, Publishing
  <2>14. QED
    BY <2>8, <2>13, Zenon
<1>7. Waits'
  BY DEF Waits, Fresh
<1>8. Idle'
  BY <1>4, <1>6, <1>7, Zenon DEF Idle
<1>9. QED
  BY <1>2, <1>3, <1>8 DEF DInv

Reserves(r, ds, o) ==
  /\ DOMAIN r = DOMAIN owner \cup AllNames(ds) /\ r = [n \in DOMAIN r |-> r[n]]
  /\ \A n \in DOMAIN r : r[n] = IF n \in DOMAIN owner THEN owner[n] ELSE o

LEMMA ReservedShape ==
  ASSUME NEW ds, NEW o, NEW r, r = Reserved(ds, o)
  PROVE  Reserves(r, ds, o)
BY DEF Reserved, Reserves

Refuses(u, V, o, root) ==
  \A n \in V : u[n].tag = "untranslated" /\ u[n].by = <<Module, n>> /\ u[n].item = o /\ u[n].root = root

LEMMA UnavailableShape ==
  ASSUME NEW V \in SUBSET Labels, NEW o \in Nat, NEW root \in Keys, NEW u, u = Unavailable(V, o, root)
  PROVE  u \in [V -> Values] /\ Refuses(u, V, o, root)
<1>1. ASSUME NEW n \in V
      PROVE  /\ Standing("untranslated", <<Module, n>>, o, root) \in Values
             /\ Standing("untranslated", <<Module, n>>, o, root).tag = "untranslated"
             /\ Standing("untranslated", <<Module, n>>, o, root).by = <<Module, n>>
             /\ Standing("untranslated", <<Module, n>>, o, root).item = o
             /\ Standing("untranslated", <<Module, n>>, o, root).root = root
  <2>1. <<Module, n>> \in Keys
    BY KeyShape
  <2>2. PICK k \in Keys : k = <<Module, n>>
    BY <2>1
  <2>3. QED
    BY <2>2 DEF Standing, Values
<1>2. u = [n \in V |-> Standing("untranslated", <<Module, n>>, o, root)]
  BY Zenon DEF Unavailable
<1>3. QED
  BY <1>1, <1>2 DEF Refuses

LEMMA RejectKeeps ==
  ASSUME DeclarationTypeOK, GroupInv, Idle, Fresh, NEW d, d = Head(queue), NEW ds, NEW e \in Envs, NEW registered,
         EnvOK(e, kernel, rootFailures, owner, ToCome(groups), groups),
         declared \subseteq registered, registered \subseteq DOMAIN owner \cup AllNames(ds),
         AllNames(ds) \subseteq registered \cup NamesIn(d), AllNames(ds) \subseteq Labels,
         NamesIn(d) \subseteq AllNames(ds), Reject(d, ds, e, registered)
  PROVE  DInv'
<1>1. /\ d \in Sources /\ d.item = items /\ d.name \in NamesIn(d) /\ Tail(queue) = <<>>
      /\ \A n \in DOMAIN owner : owner[n] # items
  BY AfterItem
<1>2. items \in Nat /\ DOMAIN owner \subseteq Labels
  BY TypeFacts
<1>3. PICK owned : owned = Reserved(ds, items)
  OBVIOUS
<1>4. /\ DOMAIN owned = DOMAIN owner \cup AllNames(ds) /\ owned = [n \in DOMAIN owned |-> owned[n]]
      /\ \A n \in DOMAIN owned : owned[n] = IF n \in DOMAIN owner THEN owner[n] ELSE items
  <2>1. Reserves(owned, ds, items)
    BY <1>3, ReservedShape, Zenon
  <2>2. QED
    BY <2>1, Zenon DEF Reserves
<1>5. PICK V : V = DuplicateNames(d, ds, owned)
  OBVIOUS
<1>6. PICK root \in Keys : root = <<Module, d.name>>
  <2>1. d.name \in Labels
    BY <1>1
  <2>2. QED
    BY <2>1, KeyShape
<1>7. PICK u : u = Unavailable(V, items, root)
  OBVIOUS
<1>8. PICK R : R = registered \cup NamesIn(d)
  OBVIOUS
<1>9. /\ owner' = owned /\ declared' = R /\ env' = Published(e, R, u) /\ rootFailures' = rootFailures \cup {root}
      /\ queue' = <<>> /\ items' = items /\ groups' = groups /\ active' = active /\ kernel' = kernel
  BY <1>1, <1>3, <1>5, <1>6, <1>7, <1>8, Zenon DEF Reject
<1>10. /\ V \in SUBSET Labels
       /\ \A n \in V : n \notin DOMAIN owner
       /\ \A n \in AllNames(ds) : n \notin DOMAIN owner => n \in V
  <2> DEFINE first == {n \in AllNames(ds) : owned[n] = d.item}
             rest == IF d.kind # "theory" THEN {}
                     ELSE {n \in Labels \ DOMAIN owned : IsStrictPrefix(d.name, n) /\ env.plain[n].tag # "absent"}
  <2>1. V = first \cup rest
    BY <1>5 DEF DuplicateNames
  <2>2. rest \subseteq Labels \ DOMAIN owned
    OBVIOUS
  <2> HIDE DEF rest
  <2>3. \A n \in first : n \in Labels /\ n \notin DOMAIN owner
    BY <1>1, <1>4
  <2>4. \A n \in AllNames(ds) : n \notin DOMAIN owner => n \in first
    BY <1>1, <1>4
  <2> HIDE DEF first
  <2>5. QED
    BY <1>4, <2>1, <2>2, <2>3, <2>4
<1>11. /\ u \in [V -> Values]
       /\ \A n \in V : u[n].tag = "untranslated" /\ u[n].by = <<Module, n>> /\ u[n].item = items /\ u[n].root = root
  <2>1. u \in [V -> Values] /\ Refuses(u, V, items, root)
    BY <1>2, <1>7, <1>10, UnavailableShape, Zenon
  <2>2. QED
    BY <2>1, Zenon DEF Refuses
<1>12. env' \in Envs /\ Publishes(e, env', V, R) /\ \A n \in V : env'.plain[n] = u[n]
  BY <1>9, <1>10, <1>11, PublishedShape
<1>13. \A n \in V : Grounds(env'.plain[n], kernel', rootFailures')
  BY <1>9, <1>11, <1>12 DEF Grounds
<1>14. R \subseteq DOMAIN owned /\ declared \subseteq R /\ AllNames(ds) \subseteq R
  BY <1>4, <1>8
<1>15. DOMAIN owned \subseteq Labels
  BY <1>2, <1>4
<1>16. kernel \in SUBSET Kernels /\ \A k \in kernel : \A n \in k.uses : \E l \in kernel : l.by = n
  BY DEF DeclarationTypeOK, EnvOK
<1>17. rootFailures' \in SUBSET Keys /\ rootFailures \subseteq rootFailures'
  BY <1>6, <1>9 DEF DeclarationTypeOK
<1>18. \A n \in V : /\ n \notin DOMAIN owner /\ (n \in R => n \in DOMAIN owner')
                    /\ env'.plain[n].item = items /\ env'.plain[n].by = <<Module, n>>
                    /\ Grounds(env'.plain[n], kernel', rootFailures')
  BY <1>9, <1>10, <1>11, <1>12, <1>13, <1>14
<1>19. \A n \in DOMAIN owner' : n \notin DOMAIN owner => owner'[n] = items /\ n \in V /\ n \in R
  BY <1>4, <1>9, <1>10, <1>14
<1>20. DOMAIN owner \subseteq DOMAIN owner' /\ (\A n \in DOMAIN owner : owner'[n] = owner[n])
       /\ DOMAIN owner' \subseteq Labels /\ owner' = [n \in DOMAIN owner' |-> owner'[n]]
  BY <1>4, <1>9, <1>15
<1>21. declared \subseteq declared' /\ declared' \subseteq DOMAIN owner'
  BY <1>9, <1>14
<1>22. kernel \subseteq kernel' /\ kernel' \in SUBSET Kernels
       /\ \A k \in kernel' : \A n \in k.uses : \E l \in kernel' : l.by = n
  BY <1>9, <1>16
<1>23. QED
  BY <1>9, <1>10, <1>12, <1>17, <1>18, <1>19, <1>20, <1>21, <1>22, ItemEnds

(* An item's own names, when it has no conflict, are nobody's.             *)
LEMMA NoConflict ==
  ASSUME DeclarationTypeOK, Fresh, NEW ds, NEW o, o = items, ~ Conflict(ds, o)
  PROVE  Distinct(ds) /\ \A n \in AllNames(ds) : n \notin DOMAIN owner
<1>1. \A n \in DOMAIN owner : owner[n] # o
  BY AfterItem
<1>2. \A i \in DOMAIN ds : \A n \in NamesIn(ds[i]) :
        /\ ~ (n \in DOMAIN owner /\ owner[n] # o)
        /\ \A j \in DOMAIN ds \ {i} : n \notin NamesIn(ds[j])
  BY Zenon DEF Conflict
<1>3. Distinct(ds)
  BY <1>2 DEF Distinct
<1>4. \A n \in AllNames(ds) : n \notin DOMAIN owner
  BY <1>1, <1>2 DEF AllNames
<1>5. QED
  BY <1>3, <1>4

LEMMA RejectDuplicateKeeps ==
  ASSUME DInv, RejectDuplicate
  PROVE  DInv'
<1>1. queue # <<>> /\ queue[1].kind \in {"def", "inductive", "theory"} /\ active = NoGroup
  BY DEF RejectDuplicate, IsNext
<1>2. DeclarationTypeOK /\ GroupInv /\ Idle /\ Fresh
  <2>1. \A done \in Nat : ~ Busy(done)
    BY <1>1, Zenon DEF Busy
  <2>2. Idle
    BY <2>1 DEF DInv
  <2>3. Fresh
    <3>1. queue[1].kind # "start"
      BY <1>1
    <3>2. QED
      BY <1>1, <2>2, <3>1 DEF Idle, Waits, Grouped
  <2>4. QED
    BY <2>2, <2>3 DEF DInv
<1>3. PICK d : d = Head(queue)
  OBVIOUS
<1>4. d \in Sources /\ NamesIn(d) \subseteq Labels /\ AllNames(<<d>>) = NamesIn(d)
  BY <1>2, <1>3, AfterItem
<1>5. PICK e : e = BindQualified(env, d.refs)
  OBVIOUS
<1>6. e \in Envs /\ EnvOK(e, kernel, rootFailures, owner, ToCome(groups), groups)
  <2>1. EnvOK(env, kernel, rootFailures, owner, ToCome(groups), groups)
    BY <1>2 DEF Idle
  <2>2. QED
    BY <1>2, <1>5, <2>1, TypeFacts, Binding
<1>7. PICK ds : ds = <<d>>
  OBVIOUS
<1>8. Reject(d, ds, e, declared)
  BY <1>3, <1>5, <1>7, Zenon DEF RejectDuplicate
<1>9. declared \subseteq DOMAIN owner
  BY <1>2 DEF DeclarationTypeOK
<1>10. /\ declared \subseteq declared /\ declared \subseteq DOMAIN owner \cup AllNames(ds)
       /\ AllNames(ds) \subseteq declared \cup NamesIn(d) /\ AllNames(ds) \subseteq Labels
       /\ NamesIn(d) \subseteq AllNames(ds)
  BY <1>4, <1>7, <1>9
<1>11. QED
  BY <1>2, <1>3, <1>6, <1>8, <1>10, RejectKeeps

LEMMA FailExpansionKeeps ==
  ASSUME DInv, FailExpansion
  PROVE  DInv'
<1>1. queue # <<>> /\ queue[1].kind = "theory"
  BY DEF FailExpansion, IsNext
<1>2. DeclarationTypeOK /\ GroupInv /\ Idle /\ Fresh
  BY <1>1, Heads DEF DInv
<1>3. PICK d : d = Head(queue)
  OBVIOUS
<1>4. /\ d \in Sources /\ d.item = items /\ NamesIn(d) \subseteq Labels /\ AllNames(<<d>>) = NamesIn(d)
      /\ d.name \in NamesIn(d) /\ Tail(queue) = <<>> /\ d.kind = "theory" /\ d.constructors = {}
  <2>1. Head(queue) = queue[1]
    BY <1>2, AfterItem
  <2>2. QED
    BY <1>1, <1>2, <1>3, <2>1, AfterItem DEF Fresh
<1>5. PICK V : V = {d.name} /\ V = NamesIn(d)
  BY <1>4 DEF NamesIn
<1>6. PICK ds : ds = <<d>>
  OBVIOUS
<1>7. AllNames(ds) = V /\ V \in SUBSET Labels /\ \A n \in V : n \notin DOMAIN owner
  <2>1. ~ Conflict(ds, d.item)
    BY <1>3, <1>6, Zenon DEF FailExpansion
  <2>2. PICK o : o = items /\ ~ Conflict(ds, o)
    BY <1>4, <2>1
  <2>3. \A n \in AllNames(ds) : n \notin DOMAIN owner
    BY <1>2, <2>2, NoConflict
  <2>4. QED
    BY <1>4, <1>5, <1>6, <2>3
<1>8. PICK b : b = Blocker(env, d.refs)
  OBVIOUS
<1>9. PICK R, root, owned, u : /\ R = declared \cup NamesIn(d) /\ root = RootOf(b, d) /\ owned = Reserved(ds, items)
                               /\ u = Unavailable(V, items, root)
  OBVIOUS
<1>10. /\ owner' = owned /\ declared' = R /\ env' = Published(env, R, u)
       /\ rootFailures' = rootFailures \cup OwnRoots(b, d) /\ queue' = <<>>
       /\ items' = items /\ groups' = groups /\ active' = active /\ kernel' = kernel
  <2>1. /\ owner' = Reserved(<<d>>, d.item) /\ declared' = declared \cup NamesIn(d)
        /\ env' = Published(env, declared', Unavailable({d.name}, d.item, RootOf(b, d)))
        /\ rootFailures' = rootFailures \cup OwnRoots(b, d)
        /\ queue' = Tail(queue) /\ items' = items /\ groups' = groups /\ active' = active /\ kernel' = kernel
    BY <1>3, <1>8, Zenon DEF FailExpansion
  <2>2. QED
    BY <1>4, <1>5, <1>6, <1>9, <2>1
<1>11. env \in Envs /\ EnvOK(env, kernel, rootFailures, owner, ToCome(groups), groups) /\ items \in Nat /\ DOMAIN owner \subseteq Labels
  BY <1>2, TypeFacts DEF Idle
<1>12. root \in Keys /\ root \in rootFailures'
  <2>1. d.refs \in Seq(References) /\ d.name \in Labels
    BY <1>4 DEF Sources
  <2>2. \A n \in Labels : Grounds(env.plain[n], kernel, rootFailures)
    BY <1>11, Zenon DEF EnvOK
  <2>3. \A k \in Keys : Grounds(env.spelled[k], kernel, rootFailures)
    BY <1>11, Zenon DEF EnvOK
  <2>4. b \in Values /\ (b.tag = "untranslated" => b.root \in rootFailures)
    <3>1. PICK refs \in Seq(References) : refs = d.refs
      BY <2>1
    <3>2. PICK K, F : K = kernel /\ F = rootFailures
      OBVIOUS
    <3>3. b = Blocker(env, refs)
      BY <1>8, <3>1
    <3>4. b \in Values /\ (b.tag = "untranslated" => b.root \in F)
      BY <1>11, <2>2, <2>3, <3>2, <3>3, Blocked
    <3>5. QED
      BY <3>2, <3>4
  <2>5. CASE b.tag = "untranslated"
    <3>1. root = b.root /\ rootFailures' = rootFailures
      BY <1>9, <1>10, <2>5 DEF RootOf, OwnRoots
    <3>2. rootFailures \subseteq Keys
      BY <1>2 DEF DeclarationTypeOK
    <3>3. QED
      BY <2>4, <2>5, <3>1, <3>2
  <2>6. CASE b.tag # "untranslated"
    <3>1. root = <<Module, d.name>> /\ rootFailures' = rootFailures \cup {<<Module, d.name>>}
      BY <1>9, <1>10, <2>6 DEF RootOf, OwnRoots
    <3>2. QED
      BY <2>1, <3>1, KeyShape
  <2>7. QED
    BY <2>5, <2>6
<1>13. rootFailures \subseteq rootFailures' /\ rootFailures' \in SUBSET Keys
  <2>1. OwnRoots(b, d) \subseteq Keys
    <3>1. d.name \in Labels
      BY <1>4
    <3>2. QED
      BY <3>1, KeyShape DEF OwnRoots
  <2>2. QED
    BY <1>2, <1>10, <2>1 DEF DeclarationTypeOK
<1>14. Reserves(owned, ds, items)
  BY <1>9, ReservedShape, Zenon
<1>15. u \in [V -> Values] /\ Refuses(u, V, items, root)
  BY <1>7, <1>9, <1>11, <1>12, UnavailableShape, Zenon
<1>16. env' \in Envs /\ Publishes(env, env', V, R) /\ \A n \in V : env'.plain[n] = u[n]
  BY <1>7, <1>10, <1>11, <1>15, PublishedShape
<1>17. \A n \in V : /\ env'.plain[n].tag = "untranslated" /\ env'.plain[n].by = <<Module, n>>
                    /\ env'.plain[n].item = items /\ env'.plain[n].root = root
  BY <1>15, <1>16 DEF Refuses
<1>18. \A n \in V : Grounds(env'.plain[n], kernel', rootFailures')
  BY <1>12, <1>17 DEF Grounds
<1>19. /\ DOMAIN owner' = DOMAIN owner \cup V /\ owner' = [n \in DOMAIN owner' |-> owner'[n]]
       /\ \A n \in DOMAIN owner' : owner'[n] = IF n \in DOMAIN owner THEN owner[n] ELSE items
  BY <1>7, <1>10, <1>14, Zenon DEF Reserves
<1>20. V \subseteq R /\ declared \subseteq R /\ R \subseteq DOMAIN owner'
  <2>1. declared \subseteq DOMAIN owner
    BY <1>2 DEF DeclarationTypeOK
  <2>2. QED
    BY <1>5, <1>9, <1>19, <2>1
<1>21. /\ kernel \subseteq kernel' /\ kernel' \in SUBSET Kernels
       /\ \A k \in kernel' : \A n \in k.uses : \E l \in kernel' : l.by = n
  BY <1>2, <1>10, <1>11 DEF DeclarationTypeOK, EnvOK
<1>22. /\ DOMAIN owner \subseteq DOMAIN owner' /\ (\A n \in DOMAIN owner : owner'[n] = owner[n])
       /\ DOMAIN owner' \subseteq Labels
       /\ \A n \in DOMAIN owner' : n \notin DOMAIN owner => owner'[n] = items /\ n \in V /\ n \in R
  BY <1>7, <1>11, <1>19, <1>20
<1>23. \A n \in V : /\ n \notin DOMAIN owner /\ (n \in R => n \in DOMAIN owner')
                    /\ env'.plain[n].item = items /\ env'.plain[n].by = <<Module, n>>
                    /\ Grounds(env'.plain[n], kernel', rootFailures')
  BY <1>7, <1>17, <1>18, <1>19
<1>24. declared \subseteq declared' /\ declared' \subseteq DOMAIN owner'
  BY <1>10, <1>20
<1>25. owner' = [n \in DOMAIN owner' |-> owner'[n]]
  BY <1>19
<1>26. V \in SUBSET Labels /\ Publishes(env, env', V, R) /\ env' \in Envs
  BY <1>7, <1>16
<1>27. /\ queue' = <<>> /\ items' = items /\ groups' = groups /\ active' = active
  BY <1>10
<1>28. QED
  BY <1>2, <1>11, <1>13, <1>21, <1>22, <1>23, <1>24, <1>25, <1>26, <1>27, ItemEnds

-----------------------------------------------------------------------------
(* A theory's groups.                                                      *)

Follows(all, gs, base) ==
  /\ all \in Seq(Groups) /\ base \in Nat /\ base = Len(groups) /\ Len(all) = base + Len(gs)
  /\ \A g \in DOMAIN groups : g \in DOMAIN all /\ all[g] = groups[g]
  /\ \A k \in DOMAIN gs : k \in Nat \ {0} /\ base + k \in DOMAIN all /\ all[base + k] = gs[k]
  /\ \A g \in DOMAIN all : g \in DOMAIN groups \/ \E k \in DOMAIN gs : g = base + k

LEMMA GroupsAfter ==
  ASSUME groups \in Seq(Groups), NEW gs \in Seq(Groups), NEW all, all = groups \o gs, NEW base, base = Len(groups)
  PROVE  Follows(all, gs, base)
<1>1. all \in Seq(Groups)
  BY ConcatIn, Zenon
<1>2. IsSeq(groups) /\ IsSeq(gs)
  BY SeqOfSet, Zenon
<1>3. /\ Extends(groups, all) /\ Len(all) = Len(groups) + Len(gs)
      /\ \A k \in DOMAIN gs : all[Len(groups) + k] = gs[k]
  BY <1>2, ConcatShape, Zenon
<1>4. PICK m \in Nat, n \in Nat : m = Len(groups) /\ n = Len(gs) /\ DOMAIN groups = 1 .. m /\ DOMAIN gs = 1 .. n
  OBVIOUS
<1>5. DOMAIN all = 1 .. m + n
  <2>1. DOMAIN all = 1 .. Len(all)
    BY <1>1
  <2>2. QED
    BY <1>3, <1>4, <2>1
<1>6. \A k \in 1 .. n : m + k \in 1 .. m + n
  OBVIOUS
<1>7. ASSUME NEW g \in 1 .. m + n PROVE g \in 1 .. m \/ \E k \in 1 .. n : g = m + k
  <2>1. CASE g <= m
    BY <2>1
  <2>2. CASE g > m
    <3>1. g - m \in 1 .. n /\ g = m + (g - m)
      BY <2>2
    <3>2. QED
      BY <3>1
  <2>3. QED
    BY <2>1, <2>2
<1>8. \A g \in DOMAIN groups : g \in DOMAIN all /\ all[g] = groups[g]
  BY <1>3 DEF Extends
<1>9. \A k \in DOMAIN gs : Len(groups) + k \in DOMAIN all
  BY <1>4, <1>5, <1>6
<1>10. \A g \in DOMAIN all : g \in DOMAIN groups \/ \E k \in DOMAIN gs : g = Len(groups) + k
  <2>1. \A g \in 1 .. m + n : g \in 1 .. m \/ \E k \in 1 .. n : g = m + k
    BY <1>7, Zenon
  <2>2. QED
    BY <1>4, <1>5, <2>1, ZenonT(40)
<1>11. base = m /\ \A k \in DOMAIN gs : k \in Nat \ {0}
  BY <1>4
<1>12. Len(all) = base + Len(gs) /\ \A k \in DOMAIN gs : all[base + k] = gs[k]
  BY <1>3
<1>13. QED
  BY <1>1, <1>4, <1>8, <1>9, <1>10, <1>11, <1>12 DEF Follows

LEMMA ExpandedGroups ==
  ASSUME DeclarationTypeOK, GroupInv, items # 0, NEW ds, \A p \in DOMAIN ds : ds[p].item = items,
         NEW gs, GroupsFrom(gs, ds, items), groups' = groups \o gs, items' = items,
         \A n \in AllNames(ds) : n \notin DOMAIN owner /\ n \in DOMAIN owner' /\ owner'[n] = items /\ n \in declared',
         DOMAIN owner \subseteq DOMAIN owner', \A n \in DOMAIN owner : owner'[n] = owner[n],
         declared \subseteq declared', rootFailures' = rootFailures
  PROVE  GroupInv'
<1>1. items \in Nat /\ groups \in Seq(Groups) /\ DOMAIN groups = 1 .. Len(groups) /\ Len(groups) \in Nat
  BY TypeFacts
<1>2. gs \in Seq(Groups)
  BY DEF GroupsFrom
<1>3. PICK all, base : all = groups \o gs /\ base = Len(groups)
  OBVIOUS
<1>4. /\ all \in Seq(Groups) /\ base \in Nat /\ \A g \in DOMAIN groups : g \in DOMAIN all /\ all[g] = groups[g]
      /\ \A k \in DOMAIN gs : k \in Nat \ {0} /\ base + k \in DOMAIN all /\ all[base + k] = gs[k]
      /\ \A g \in DOMAIN all : g \in DOMAIN groups \/ \E k \in DOMAIN gs : g = base + k
  <2>1. Follows(all, gs, base)
    BY <1>1, <1>2, <1>3, GroupsAfter, Zenon
  <2>2. QED
    BY <2>1 DEF Follows
<1>5. ASSUME NEW k \in DOMAIN gs
      PROVE  /\ gs[k].item = items /\ gs[k].state = "reserved" /\ Distinct(gs[k].members)
             /\ \A i \in DOMAIN gs[k].members : gs[k].members[i].item = items
             /\ AllNames(gs[k].members) \subseteq AllNames(ds)
             /\ \A h \in gs[k].dependencies : h \in 1 .. base + k - 1
  <2>1. /\ gs[k].item = items /\ gs[k].state = "reserved" /\ Distinct(gs[k].members)
        /\ \A i \in DOMAIN gs[k].members : \E p \in DOMAIN ds : gs[k].members[i] = ds[p]
        /\ \A h \in gs[k].dependencies : h \in 1 .. base + k - 1
    BY <1>3 DEF GroupsFrom
  <2>2. AllNames(gs[k].members) \subseteq AllNames(ds)
    <3>1. SUFFICES ASSUME NEW n, n \in AllNames(gs[k].members) PROVE n \in AllNames(ds)
      OBVIOUS
    <3>2. PICK i \in DOMAIN gs[k].members : n \in NamesIn(gs[k].members[i])
      BY <3>1 DEF AllNames
    <3>3. PICK p \in DOMAIN ds : gs[k].members[i] = ds[p]
      BY <2>1
    <3>4. QED
      BY <3>2, <3>3 DEF AllNames
  <2>3. QED
    BY <2>1, <2>2
<1>6. ASSUME NEW g \in DOMAIN groups
      PROVE  /\ groups[g].item \in 1 .. items
             /\ \A n \in NamesOf(g) : n \in DOMAIN owner' /\ owner'[n] = groups[g].item /\ n \in declared' /\ n \in DOMAIN owner
             /\ \A h \in DOMAIN groups \ {g} : NamesOf(g) \cap NamesOf(h) = {}
             /\ \A i \in DOMAIN groups[g].members :
                  /\ groups[g].members[i].item = groups[g].item
                  /\ \A j \in DOMAIN groups[g].members \ {i} :
                       NamesIn(groups[g].members[i]) \cap NamesIn(groups[g].members[j]) = {}
             /\ \A h \in groups[g].dependencies : h \in 1 .. g - 1
             /\ groups[g].state \in {"failed", "blocked"} => groups[g].root \in rootFailures'
  <2>1. \A n \in NamesOf(g) : n \in DOMAIN owner /\ owner[n] = groups[g].item /\ n \in declared
    BY Zenon DEF GroupInv
  <2>2. \A n \in NamesOf(g) : n \in DOMAIN owner' /\ owner'[n] = groups[g].item /\ n \in declared' /\ n \in DOMAIN owner
    BY <2>1
  <2>3. groups[g].state \in {"failed", "blocked"} => groups[g].root \in rootFailures'
    BY DEF GroupInv
  <2>4. /\ groups[g].item \in 1 .. items
        /\ \A h \in DOMAIN groups \ {g} : NamesOf(g) \cap NamesOf(h) = {}
        /\ \A i \in DOMAIN groups[g].members :
             /\ groups[g].members[i].item = groups[g].item
             /\ \A j \in DOMAIN groups[g].members \ {i} :
                  NamesIn(groups[g].members[i]) \cap NamesIn(groups[g].members[j]) = {}
        /\ \A h \in groups[g].dependencies : h \in 1 .. g - 1
    BY DEF GroupInv
  <2>5. QED
    BY <2>2, <2>3, <2>4, Zenon
<1>7. ASSUME NEW g \in DOMAIN all, NEW h \in DOMAIN all, g # h
      PROVE  AllNames(all[g].members) \cap AllNames(all[h].members) = {}
  <2>1. CASE g \in DOMAIN groups /\ h \in DOMAIN groups
    BY <1>4, <1>6, <1>7, <2>1 DEF NamesOf
  <2>2. CASE \E k, l \in DOMAIN gs : g = base + k /\ h = base + l
    <3>1. PICK k \in DOMAIN gs, l \in DOMAIN gs : g = base + k /\ h = base + l
      BY <2>2
    <3>2. k # l /\ all[g] = gs[k] /\ all[h] = gs[l]
      BY <1>4, <1>7, <3>1
    <3>3. AllNames(gs[k].members) \cap AllNames(gs[l].members) = {}
      BY <3>2, Zenon DEF GroupsFrom
    <3>4. QED
      BY <3>2, <3>3
  <2>3. ASSUME NEW a \in DOMAIN groups, NEW k \in DOMAIN gs
        PROVE  AllNames(groups[a].members) \cap AllNames(gs[k].members) = {}
    <3>1. \A n \in AllNames(groups[a].members) : n \in DOMAIN owner
      BY <1>6 DEF NamesOf
    <3>2. \A n \in AllNames(gs[k].members) : n \notin DOMAIN owner
      BY <1>5
    <3>3. QED
      BY <3>1, <3>2
  <2>4. CASE g \in DOMAIN groups /\ \E k \in DOMAIN gs : h = base + k
    BY <1>4, <2>3, <2>4
  <2>5. CASE h \in DOMAIN groups /\ \E k \in DOMAIN gs : g = base + k
    BY <1>4, <2>3, <2>5
  <2>6. QED
    BY <1>4, <2>1, <2>2, <2>4, <2>5, Zenon
<1>8. ASSUME NEW g \in DOMAIN all
      PROVE  /\ all[g].item \in 1 .. items
             /\ \A n \in AllNames(all[g].members) : n \in DOMAIN owner' /\ owner'[n] = all[g].item /\ n \in declared'
             /\ \A i \in DOMAIN all[g].members :
                  /\ all[g].members[i].item = all[g].item
                  /\ \A j \in DOMAIN all[g].members \ {i} :
                       NamesIn(all[g].members[i]) \cap NamesIn(all[g].members[j]) = {}
             /\ \A h \in all[g].dependencies : h \in 1 .. g - 1
             /\ all[g].state \in {"failed", "blocked"} => all[g].root \in rootFailures'
  <2>1. CASE g \in DOMAIN groups
    <3>1. all[g] = groups[g]
      BY <1>4, <2>1
    <3>2. QED
      BY <1>6, <2>1, <3>1, ZenonT(40) DEF NamesOf
  <2>2. CASE \E k \in DOMAIN gs : g = base + k
    <3>1. PICK k \in DOMAIN gs : g = base + k
      BY <2>2
    <3>2. all[g] = gs[k]
      BY <1>4, <3>1
    <3>3. items \in 1 .. items
      BY <1>1
    <3>4. \A n \in AllNames(gs[k].members) : n \in DOMAIN owner' /\ owner'[n] = items /\ n \in declared'
      BY <1>5
    <3>5. \A i \in DOMAIN gs[k].members : \A j \in DOMAIN gs[k].members \ {i} :
            NamesIn(gs[k].members[i]) \cap NamesIn(gs[k].members[j]) = {}
      BY <1>5 DEF Distinct
    <3>6. gs[k].state \notin {"failed", "blocked"}
      BY <1>5
    <3>7. \A h \in gs[k].dependencies : h \in 1 .. g - 1
      <4>1. g - 1 = base + k - 1
        BY <1>4, <3>1
      <4>2. QED
        BY <1>5, <4>1, Zenon
    <3>8. QED
      BY <1>5, <3>2, <3>3, <3>4, <3>5, <3>6, <3>7, ZenonT(40)
  <2>3. QED
    BY <1>4, <2>1, <2>2
<1>9. groups' = all /\ \A g : NamesOf(g)' = AllNames(all[g].members)
  BY <1>3 DEF NamesOf
<1>10. \A g \in DOMAIN all : \A h \in DOMAIN all \ {g} : AllNames(all[g].members) \cap AllNames(all[h].members) = {}
  BY <1>7
<1>11. GroupInv' = \A g \in DOMAIN groups' :
         /\ groups'[g].item \in 1 .. items'
         /\ \A n \in NamesOf(g)' : n \in DOMAIN owner' /\ owner'[n] = groups'[g].item /\ n \in declared'
         /\ \A h \in DOMAIN groups' \ {g} : NamesOf(g)' \cap NamesOf(h)' = {}
         /\ \A i \in DOMAIN groups'[g].members :
              /\ groups'[g].members[i].item = groups'[g].item
              /\ \A j \in DOMAIN groups'[g].members \ {i} :
                   NamesIn(groups'[g].members[i]) \cap NamesIn(groups'[g].members[j]) = {}
         /\ \A h \in groups'[g].dependencies : h \in 1 .. g - 1
         /\ groups'[g].state \in {"failed", "blocked"} => groups'[g].root \in rootFailures'
  BY DEF GroupInv
<1>12. QED
  BY <1>8, <1>9, <1>10, <1>11, ZenonT(60)

(* A theory's names are to come, and its groups are next.                  *)
LEMMA ExpandedToCome ==
  ASSUME NEW ds, NEW o, NEW gs, GroupsFrom(gs, ds, o), NEW all, NEW base, Follows(all, gs, base),
         ToCome(groups) = {}
  PROVE  ToCome(all) = AllNames(ds)
<1>1. ASSUME NEW n, n \in ToCome(all) PROVE n \in AllNames(ds)
  <2>1. PICK g \in DOMAIN all : all[g].state = "reserved" /\ n \in AllNames(all[g].members)
    BY <1>1 DEF ToCome
  <2>2. CASE g \in DOMAIN groups
    <3>1. n \in ToCome(groups)
      BY <2>1, <2>2 DEF ToCome, Follows
    <3>2. QED
      BY <3>1
  <2>3. CASE \E k \in DOMAIN gs : g = base + k
    <3>1. PICK k \in DOMAIN gs : all[g] = gs[k]
      BY <2>3 DEF Follows
    <3>2. QED
      BY <2>1, <3>1 DEF GroupsFrom
  <2>4. QED
    BY <2>2, <2>3 DEF Follows
<1>2. ASSUME NEW n, n \in AllNames(ds) PROVE n \in ToCome(all)
  <2>1. PICK k \in DOMAIN gs : n \in AllNames(gs[k].members) /\ gs[k].state = "reserved"
    BY <1>2 DEF GroupsFrom
  <2>2. PICK g \in DOMAIN all : all[g] = gs[k]
    BY DEF Follows
  <2>3. QED
    BY <2>1, <2>2 DEF ToCome
<1>3. QED
  BY <1>1, <1>2

LEMMA ExpandKeeps ==
  ASSUME DInv, Expand
  PROVE  DInv'
<1>1. queue # <<>> /\ queue[1].kind = "theory"
  BY DEF Expand, IsNext
<1>2. DeclarationTypeOK /\ GroupInv /\ Idle /\ Fresh
  BY <1>1, Heads DEF DInv
<1>3. PICK d, ds : d = Head(queue) /\ ds = d.members
  OBVIOUS
<1>4. /\ d \in Sources /\ d.item = items /\ NamesIn(d) \subseteq Labels /\ d.name \in NamesIn(d)
      /\ Tail(queue) = <<>> /\ d.kind = "theory" /\ d.constructors = {} /\ NamesIn(d) = {d.name}
  <2>1. Head(queue) = queue[1]
    BY <1>2, AfterItem
  <2>2. /\ d \in Sources /\ d.item = items /\ NamesIn(d) \subseteq Labels /\ d.name \in NamesIn(d)
        /\ Tail(queue) = <<>> /\ d.kind = "theory" /\ d.constructors = {}
    BY <1>1, <1>2, <1>3, <2>1, AfterItem DEF Fresh
  <2>3. QED
    BY <2>2 DEF NamesIn
<1>5. ds \in Seq(Members) /\ d.name \in AllNames(ds) /\ WellOrdered(ds) /\ \A p \in DOMAIN ds : ds[p].item = items
  <2>1. Head(queue) = queue[1]
    BY <1>2, AfterItem
  <2>2. ds \in Seq(Members)
    BY <1>3, <1>4 DEF Sources
  <2>3. QED
    BY <1>1, <1>2, <1>3, <2>1, <2>2 DEF Fresh
<1>6. ds # <<>> /\ AllNames(ds) \subseteq Labels
  <2>1. ds # <<>>
    BY <1>5 DEF AllNames
  <2>2. QED
    BY <1>5, <2>1, NamesAreLabels
<1>7. env \in Envs /\ EnvOK(env, kernel, rootFailures, owner, ToCome(groups), groups) /\ items \in Nat
      /\ DOMAIN owner \subseteq Labels /\ groups \in Seq(Groups) /\ declared \subseteq DOMAIN owner
  BY <1>2, TypeFacts DEF Idle, DeclarationTypeOK
<1>8. PICK gs, registered, owned :
        gs = GroupsOf(ds, items) /\ registered = declared \cup AllNames(ds) /\ owned = Reserved(ds, items)
  OBVIOUS
<1>9. IF Conflict(ds, items) THEN Reject(d, ds, env, registered)
      ELSE /\ owner' = owned /\ declared' = registered /\ groups' = groups \o gs
           /\ queue' = Marked(gs) \o <<>>
           /\ items' = items /\ env' = env /\ active' = active /\ kernel' = kernel /\ rootFailures' = rootFailures
  <2>1. IF Conflict(Head(queue).members, Head(queue).item)
        THEN Reject(Head(queue), Head(queue).members, env, declared \union AllNames(Head(queue).members))
        ELSE /\ owner' = Reserved(Head(queue).members, Head(queue).item)
             /\ declared' = declared \union AllNames(Head(queue).members)
             /\ groups' = groups \o GroupsOf(Head(queue).members, Head(queue).item)
             /\ queue' = Marked(GroupsOf(Head(queue).members, Head(queue).item)) \o Tail(queue)
             /\ items' = items /\ env' = env /\ active' = active /\ kernel' = kernel /\ rootFailures' = rootFailures
    BY Zenon DEF Expand
  <2>2. Head(queue) = d /\ Head(queue).members = ds /\ Head(queue).item = items /\ Tail(queue) = <<>>
    BY <1>3, <1>4
  <2>3. QED
    BY <1>8, <2>1, <2>2, Zenon
<1>10. CASE Conflict(ds, items)
  <2>1. Reject(d, ds, env, registered)
    BY <1>9, <1>10
  <2>2. declared \subseteq registered /\ registered \subseteq DOMAIN owner \cup AllNames(ds)
        /\ AllNames(ds) \subseteq registered \cup NamesIn(d) /\ NamesIn(d) \subseteq AllNames(ds)
    BY <1>4, <1>5, <1>7, <1>8
  <2>3. QED
    BY <1>2, <1>3, <1>6, <1>7, <2>1, <2>2, RejectKeeps
<1>11. CASE ~ Conflict(ds, items)
  <2>1. /\ owner' = owned /\ declared' = registered /\ groups' = groups \o gs /\ queue' = Marked(gs) \o <<>>
        /\ items' = items /\ env' = env /\ active' = active /\ kernel' = kernel /\ rootFailures' = rootFailures
    BY <1>9, <1>11
  <2>2. Distinct(ds) /\ \A n \in AllNames(ds) : n \notin DOMAIN owner
    BY <1>2, <1>11, NoConflict
  <2>3. GroupsFrom(gs, ds, items)
    BY <1>5, <1>6, <1>7, <1>8, <2>2, GroupsShape
  <2>4. /\ DOMAIN owner' = DOMAIN owner \cup AllNames(ds) /\ owner' = [n \in DOMAIN owner' |-> owner'[n]]
        /\ \A n \in DOMAIN owner' : owner'[n] = IF n \in DOMAIN owner THEN owner[n] ELSE items
    <3>1. Reserves(owned, ds, items)
      BY <1>8, ReservedShape, Zenon
    <3>2. QED
      BY <2>1, <3>1, Zenon DEF Reserves
  <2>5. items # 0
    BY <1>2 DEF Fresh
  <2>6. /\ \A n \in AllNames(ds) : n \notin DOMAIN owner /\ n \in DOMAIN owner' /\ owner'[n] = items /\ n \in declared'
        /\ DOMAIN owner \subseteq DOMAIN owner' /\ \A n \in DOMAIN owner : owner'[n] = owner[n]
        /\ declared \subseteq declared' /\ rootFailures' = rootFailures
    BY <1>8, <2>1, <2>2, <2>4
  <2>7. GroupInv'
    BY <1>2, <1>5, <2>1, <2>3, <2>5, <2>6, ExpandedGroups
  <2>8. PICK all, base : all = groups \o gs /\ base = Len(groups)
    OBVIOUS
  <2>9. gs \in Seq(Groups) /\ gs # <<>>
    BY <2>3 DEF GroupsFrom
  <2>10. Follows(all, gs, base)
    BY <1>7, <2>8, <2>9, GroupsAfter, Zenon
  <2>11. PICK q : q = Marked(gs)
    OBVIOUS
  <2>12. IsSeq(q) /\ q # <<>> /\ q[1] = Mark("start", base + 1, gs[1].item) /\ Chain(q, all)
    BY <1>7, <2>8, <2>9, <2>11, MarkedChain
  <2>13. queue' = q
    <3>1. PICK S : q \in Seq(S)
      BY <2>12 DEF IsSeq
    <3>2. q \o <<>> = q
      BY <3>1
    <3>3. QED
      BY <2>1, <2>11, <3>2
  <2>14. groups' = all
    BY <2>1, <2>8
  <2>15. ToCome(groups) = {} /\ Upto(groups, base + 1, base + 1) /\ active = NoGroup
    BY <1>2, <2>8, AfterItem DEF Fresh, Idle
  <2>16. ToCome(all) = AllNames(ds)
    BY <2>3, <2>10, <2>15, ExpandedToCome
  <2>17. DeclarationTypeOK'
    <3>1. items' \in Nat /\ IsSeq(queue') /\ groups' \in Seq(Groups)
      BY <1>7, <2>1, <2>10, <2>12, <2>13, <2>14 DEF Follows
    <3>2. env' \in Envs /\ kernel' \in SUBSET Kernels /\ rootFailures' \in SUBSET Keys
      BY <1>2, <2>1 DEF DeclarationTypeOK
    <3>3. DOMAIN owner' \subseteq Labels
      BY <1>6, <1>7, <2>4
    <3>4. owner' \in [DOMAIN owner' -> 1 .. items']
      <4>1. \A n \in DOMAIN owner : owner[n] \in 1 .. items
        BY <1>2, TypeFacts
      <4>2. items \in 1 .. items
        BY <1>7, <2>5
      <4>3. \A n \in DOMAIN owner' : owner'[n] \in 1 .. items
        BY <2>4, <4>1, <4>2
      <4>4. QED
        BY <2>1, <2>4, <4>3
    <3>5. declared' \subseteq DOMAIN owner'
      BY <1>7, <1>8, <2>1, <2>4
    <3>6. active' = NoGroup
      BY <2>1, <2>15
    <3>7. QED
      BY <3>1, <3>2, <3>3, <3>4, <3>5, <3>6 DEF DeclarationTypeOK, NoGroup
  <2>18. EnvOK(env, kernel, rootFailures, owner', AllNames(ds), all)
    <3>1. PICK V \in SUBSET Labels : V = {}
      <4>1. {} \in SUBSET Labels
        OBVIOUS
      <4>2. QED
        BY <4>1, Zenon
    <3>2. Publishes(env, env, V, {})
      BY <3>1, PublishesNothing
    <3>3. PICK p, X, W : p = owner' /\ X = AllNames(ds) /\ W = ToCome(groups)
      OBVIOUS
    <3>4. \A k \in kernel : \A u \in k.uses : \E l \in kernel : l.by = u
      BY <1>7 DEF EnvOK
    <3>5. \A k \in kernel : \E l \in kernel : l.by = k.by
      BY Zenon
    <3>6. \A g \in DOMAIN all : all[g].state = "checked" => \A n \in AllNames(all[g].members) : env.plain[n].tag = "checked"
      <4>1. \A g \in DOMAIN groups : groups[g].state = "checked" => \A n \in AllNames(groups[g].members) : env.plain[n].tag = "checked"
        BY <1>7, Zenon DEF EnvOK
      <4>2. \A k \in DOMAIN gs : gs[k].state = "reserved"
        BY <2>3 DEF GroupsFrom
      <4>3. ASSUME NEW g \in DOMAIN all, all[g].state = "checked"
            PROVE  \A n \in AllNames(all[g].members) : env.plain[n].tag = "checked"
        <5>1. g \in DOMAIN groups /\ all[g] = groups[g]
          BY <2>10, <4>2, <4>3 DEF Follows
        <5>2. QED
          BY <4>1, <4>3, <5>1
      <4>4. QED
        BY <4>3
    <3>7. \A n \in DOMAIN p : n \notin X /\ n \notin V => n \in DOMAIN owner /\ n \notin W /\ p[n] = owner[n]
      BY <2>4, <2>15, <3>3
    <3>8. \A n \in Labels : n \notin DOMAIN p \/ n \in X => (n \notin DOMAIN owner \/ n \in W) /\ ~ (n \in V /\ n \in {})
      BY <2>2, <2>4, <3>3
    <3>9. DOMAIN p \subseteq Labels
      BY <1>6, <1>7, <2>4, <3>3
    <3>10. /\ \A n \in V : Grounds(env.plain[n], kernel, rootFailures)
           /\ \A n \in V : n \in DOMAIN p /\ n \notin X => env.plain[n].item = p[n] /\ env.plain[n].by = <<Module, n>> /\ n \in {}
           /\ \A n \in V : n \in {} => n \notin DOMAIN owner \/ n \in W
      BY <3>1
    <3>11. EnvOK(env, kernel, rootFailures, owner, W, groups)
      BY <1>7, <3>3
    <3>12. EnvOK(env, kernel, rootFailures, p, X, all)
      BY <1>7, <3>1, <3>2, <3>4, <3>5, <3>6, <3>7, <3>8, <3>9, <3>10, <3>11, Publishing
    <3>13. QED
      BY <3>3, <3>12
  <2>19. EnvOK(env', kernel', rootFailures', owner', ToCome(groups)', groups')
    <3>1. ToCome(groups)' = AllNames(ds)
      BY <2>14, <2>16
    <3>2. QED
      BY <2>1, <2>14, <2>18, <3>1
  <2>20. Grouped'
    <3>1. queue' # <<>> /\ queue'[1].kind = "start" /\ queue'[1].group = base + 1
      BY <2>12, <2>13 DEF Mark
    <3>2. Chain(queue, groups)'
      BY <2>12, <2>13, <2>14
    <3>3. base \in Nat /\ DOMAIN groups = 1 .. base
      BY <1>7, <2>8
    <3>4. ASSUME NEW g \in DOMAIN all
          PROVE  /\ g < base + 1 => all[g].state \in Settled
                 /\ g >= base + 1 => all[g].state = "reserved" /\ all[g].item = items
      <4>1. CASE g \in DOMAIN groups
        <5>1. g < base + 1 /\ ~ g >= base + 1
          BY <3>3, <4>1
        <5>2. all[g] = groups[g]
          BY <2>10, <4>1 DEF Follows
        <5>3. groups[g].state \in Settled
          BY <2>15, <4>1, <5>1 DEF Upto
        <5>4. QED
          BY <5>1, <5>2, <5>3
      <4>2. CASE \E k \in DOMAIN gs : g = base + k
        <5>1. PICK k \in DOMAIN gs : g = base + k /\ all[g] = gs[k] /\ k \in Nat \ {0}
          BY <2>10, <4>2 DEF Follows
        <5>2. ~ g < base + 1
          BY <3>3, <5>1
        <5>3. gs[k].state = "reserved" /\ gs[k].item = items
          BY <2>3 DEF GroupsFrom
        <5>4. QED
          BY <5>1, <5>2, <5>3
      <4>3. QED
        BY <2>10, <4>1, <4>2 DEF Follows
    <3>5. Upto(all, base + 1, base + 1)
      BY <3>4 DEF Upto
    <3>6. \A g \in DOMAIN groups' : g >= queue'[1].group => groups'[g].item = items'
      BY <2>1, <2>14, <3>1, <3>4
    <3>7. Upto(groups', queue'[1].group, queue'[1].group)
      BY <2>14, <3>1, <3>5
    <3>8. QED
      BY <3>1, <3>2, <3>6, <3>7 DEF Grouped
  <2>21. Idle'
    <3>1. active' = NoGroup
      BY <2>1, <2>15
    <3>2. QED
      BY <2>19, <2>20, <3>1 DEF Idle
  <2>22. QED
    BY <2>7, <2>17, <2>21 DEF DInv
<1>12. QED
  BY <1>10, <1>11

-----------------------------------------------------------------------------
(* A group is started, refused or published.                               *)
Becomes(gs, hs, g, state, root) ==
  /\ hs \in Seq(Groups) /\ SameGroups(gs, hs) /\ g \in DOMAIN hs
  /\ \A h \in DOMAIN gs \ {g} : hs[h] = gs[h]
  /\ hs[g].dependencies = gs[g].dependencies /\ hs[g].state = state /\ hs[g].root = root

LEMMA GroupBecomes ==
  ASSUME NEW gs \in Seq(Groups), NEW g \in DOMAIN gs,
         NEW state \in {"reserved", "checking", "checked", "failed", "blocked"}, NEW root \in Keys \cup {NoName}
  PROVE  /\ Becomes(gs, [gs EXCEPT ![g].state = state, ![g].root = root], g, state, root)
         /\ Becomes(gs, [gs EXCEPT ![g].state = state], g, state, gs[g].root)
<1>1. gs[g] \in Groups /\ Len(gs) \in Nat /\ DOMAIN gs = 1 .. Len(gs) /\ gs \in [1 .. Len(gs) -> Groups]
  OBVIOUS
<1>2. PICK x, y : x = [gs[g] EXCEPT !.state = state, !.root = root] /\ y = [gs[g] EXCEPT !.state = state]
  OBVIOUS
<1>3. x \in Groups /\ x.state = state /\ x.root = root /\ x.dependencies = gs[g].dependencies
      /\ x.members = gs[g].members /\ x.item = gs[g].item
  BY <1>1, <1>2 DEF Groups
<1>4. y \in Groups /\ y.state = state /\ y.root = gs[g].root /\ y.dependencies = gs[g].dependencies
      /\ y.members = gs[g].members /\ y.item = gs[g].item
  BY <1>1, <1>2 DEF Groups
<1>5. ASSUME NEW z \in Groups, z.members = gs[g].members, z.item = gs[g].item,
             z.dependencies = gs[g].dependencies, NEW hs, hs = [gs EXCEPT ![g] = z]
      PROVE  Becomes(gs, hs, g, z.state, z.root)
  <2>1. hs \in [1 .. Len(gs) -> Groups] /\ hs[g] = z /\ \A h \in DOMAIN gs \ {g} : hs[h] = gs[h]
    BY <1>1, <1>5
  <2>2. hs \in Seq(Groups) /\ Len(hs) = Len(gs)
    BY <1>1, <2>1, FunctionSeq, Zenon
  <2>3. DOMAIN hs = DOMAIN gs
    BY <1>1, <2>1
  <2>4. \A h \in DOMAIN gs : gs[h].members = hs[h].members /\ gs[h].item = hs[h].item
    BY <1>5, <2>1
  <2>5. SameGroups(gs, hs)
    BY <2>2, <2>3, <2>4 DEF SameGroups
  <2>6. QED
    BY <1>5, <2>1, <2>2, <2>3, <2>5 DEF Becomes
<1>6. [gs EXCEPT ![g].state = state, ![g].root = root] = [gs EXCEPT ![g] = x]
  BY <1>1, <1>2
<1>7. [gs EXCEPT ![g].state = state] = [gs EXCEPT ![g] = y]
  BY <1>1, <1>2
<1>8. Becomes(gs, [gs EXCEPT ![g] = x], g, state, root)
  BY <1>3, <1>5
<1>9. Becomes(gs, [gs EXCEPT ![g] = y], g, state, gs[g].root)
  BY <1>4, <1>5
<1>10. QED
  BY <1>6, <1>7, <1>8, <1>9

LEMMA BecomesInv ==
  ASSUME DeclarationTypeOK, GroupInv, NEW g \in DOMAIN groups, NEW state, NEW root,
         Becomes(groups, groups', g, state, root), state \in {"failed", "blocked"} => root \in rootFailures',
         items' = items, owner' = owner, declared \subseteq declared', rootFailures \subseteq rootFailures'
  PROVE  GroupInv'
<1>1. ASSUME NEW h \in DOMAIN groups
      PROVE  /\ groups'[h].members = groups[h].members /\ groups'[h].item = groups[h].item
             /\ groups'[h].dependencies = groups[h].dependencies /\ NamesOf(h)' = NamesOf(h)
             /\ groups'[h].state \in {"failed", "blocked"} => groups'[h].root \in rootFailures'
  <2>1. groups'[h].members = groups[h].members /\ groups'[h].item = groups[h].item
    BY DEF Becomes, SameGroups
  <2>2. NamesOf(h)' = NamesOf(h)
    BY <2>1 DEF NamesOf
  <2>3. CASE h = g
    BY <2>1, <2>2, <2>3 DEF Becomes
  <2>4. CASE h # g
    <3>1. groups'[h] = groups[h]
      BY <2>4 DEF Becomes
    <3>2. groups[h].state \in {"failed", "blocked"} => groups[h].root \in rootFailures
      BY DEF GroupInv
    <3>3. QED
      BY <2>2, <3>1, <3>2
  <2>5. QED
    BY <2>3, <2>4
<1>2. ASSUME NEW h \in DOMAIN groups
      PROVE  /\ groups'[h].item \in 1 .. items'
             /\ \A n \in NamesOf(h)' : n \in DOMAIN owner' /\ owner'[n] = groups'[h].item /\ n \in declared'
             /\ \A l \in DOMAIN groups \ {h} : NamesOf(h)' \cap NamesOf(l)' = {}
             /\ \A i \in DOMAIN groups'[h].members :
                  /\ groups'[h].members[i].item = groups'[h].item
                  /\ \A j \in DOMAIN groups'[h].members \ {i} :
                       NamesIn(groups'[h].members[i]) \cap NamesIn(groups'[h].members[j]) = {}
             /\ \A l \in groups'[h].dependencies : l \in 1 .. h - 1
  <2>1. groups'[h].item \in 1 .. items'
    BY <1>1 DEF GroupInv
  <2>2. \A n \in NamesOf(h)' : n \in DOMAIN owner' /\ owner'[n] = groups'[h].item /\ n \in declared'
    <3>1. \A n \in NamesOf(h) : n \in DOMAIN owner /\ owner[n] = groups[h].item /\ n \in declared
      BY Zenon DEF GroupInv
    <3>2. QED
      BY <1>1, <3>1
  <2>3. \A l \in DOMAIN groups \ {h} : NamesOf(h)' \cap NamesOf(l)' = {}
    BY <1>1 DEF GroupInv
  <2>4. \A i \in DOMAIN groups'[h].members :
          /\ groups'[h].members[i].item = groups'[h].item
          /\ \A j \in DOMAIN groups'[h].members \ {i} :
               NamesIn(groups'[h].members[i]) \cap NamesIn(groups'[h].members[j]) = {}
    BY <1>1 DEF GroupInv
  <2>5. \A l \in groups'[h].dependencies : l \in 1 .. h - 1
    BY <1>1 DEF GroupInv
  <2>6. QED
    BY <2>1, <2>2, <2>3, <2>4, <2>5
<1>3. DOMAIN groups' = DOMAIN groups
  BY DEF Becomes, SameGroups
<1>4. GroupInv' = \A h \in DOMAIN groups' :
         /\ groups'[h].item \in 1 .. items'
         /\ \A n \in NamesOf(h)' : n \in DOMAIN owner' /\ owner'[n] = groups'[h].item /\ n \in declared'
         /\ \A l \in DOMAIN groups' \ {h} : NamesOf(h)' \cap NamesOf(l)' = {}
         /\ \A i \in DOMAIN groups'[h].members :
              /\ groups'[h].members[i].item = groups'[h].item
              /\ \A j \in DOMAIN groups'[h].members \ {i} :
                   NamesIn(groups'[h].members[i]) \cap NamesIn(groups'[h].members[j]) = {}
         /\ \A l \in groups'[h].dependencies : l \in 1 .. h - 1
         /\ groups'[h].state \in {"failed", "blocked"} => groups'[h].root \in rootFailures'
  BY DEF GroupInv
<1>5. QED
  BY <1>1, <1>2, <1>3, <1>4, Zenon

(* Its names are to come until it is started or refused.                   *)
LEMMA BecomesToCome ==
  ASSUME DeclarationTypeOK, GroupInv, NEW g \in DOMAIN groups, NEW hs, NEW state, NEW root,
         Becomes(groups, hs, g, state, root), state # "reserved"
  PROVE  /\ ToCome(hs) \cap NamesOf(g) = {}
         /\ groups[g].state = "reserved" => ToCome(groups) = ToCome(hs) \cup NamesOf(g)
         /\ groups[g].state # "reserved" => ToCome(groups) = ToCome(hs)
<1>1. DOMAIN hs = DOMAIN groups /\ hs[g].state = state /\ \A h \in DOMAIN groups \ {g} : hs[h] = groups[h]
  BY DEF Becomes, SameGroups
<1>2. \A n : n \in ToCome(hs) <=> \E h \in DOMAIN groups \ {g} : groups[h].state = "reserved" /\ n \in NamesOf(h)
  BY <1>1 DEF ToCome, NamesOf
<1>3. \A n : n \in ToCome(groups) <=> \E h \in DOMAIN groups : groups[h].state = "reserved" /\ n \in NamesOf(h)
  BY DEF ToCome, NamesOf
<1>4. \A h \in DOMAIN groups \ {g} : NamesOf(g) \cap NamesOf(h) = {}
  BY DEF GroupInv
<1>5. ToCome(hs) \cap NamesOf(g) = {}
  BY <1>2, <1>4
<1>6. ASSUME groups[g].state = "reserved" PROVE ToCome(groups) = ToCome(hs) \cup NamesOf(g)
  BY <1>2, <1>3, <1>6
<1>7. ASSUME groups[g].state # "reserved" PROVE ToCome(groups) = ToCome(hs)
  BY <1>2, <1>3, <1>7
<1>8. QED
  BY <1>5, <1>6, <1>7

(* After a group's end comes the next group, or nothing.                   *)
LEMMA GroupLeft ==
  ASSUME DeclarationTypeOK, NEW g \in DOMAIN groups, NEW i \in Int, BlockAt(queue, i, groups, g),
         Chain(queue, groups), NEW end, end = i + Len(groups[g].members) + 1, end \in 0 .. Len(queue),
         Suffix(queue', queue, end), groups' \in Seq(Groups), SameGroups(groups, groups'), items' = items,
         \A h \in DOMAIN groups : h >= g => groups[h].item = items, Upto(groups', g + 1, g + 1)
  PROVE  Waits' \/ Grouped'
<1>1. groups \in Seq(Groups) /\ IsSeq(queue) /\ Len(groups) \in Nat /\ DOMAIN groups = 1 .. Len(groups)
      /\ DOMAIN queue = 1 .. Len(queue) /\ Len(queue) \in Nat
  BY TypeFacts
<1>2. PICK n \in Nat, e \in Nat : n = Len(queue) /\ e = end /\ e \in 0 .. n
  <2>1. PICK n \in Nat : n = Len(queue)
    BY <1>1, Zenon
  <2>2. PICK e : e = end
    OBVIOUS
  <2>3. e \in 0 .. n
    BY <2>1, <2>2, Zenon
  <2>4. e \in Nat
    BY <2>3
  <2>5. QED
    BY <2>1, <2>2, <2>3, <2>4, Zenon
<1>3. IF e = n THEN g = Len(groups) ELSE queue[e + 1].kind = "start" /\ queue[e + 1].group = g + 1
  BY <1>2, Zenon DEF BlockAt
<1>4. IsSeq(queue') /\ Len(queue') = n - e /\ \A k \in 1 .. n - e : queue'[k] = queue[k + e]
  BY <1>2 DEF Suffix
<1>5. CASE e = n
  <2>1. queue' = <<>>
    <3>1. Len(queue') = 0
      BY <1>4, <1>5
    <3>2. QED
      BY <1>4, <3>1, EmptyOnly
  <2>2. Upto(groups', Len(groups') + 1, Len(groups') + 1)
    <3>1. Len(groups') = g
      BY <1>3, <1>5 DEF SameGroups
    <3>2. QED
      BY <3>1
  <2>3. QED
    BY <2>1, <2>2 DEF Waits
<1>6. CASE e # n
  <2>1. 1 \in 1 .. n - e /\ 1 + e = e + 1
    BY <1>2, <1>6
  <2>2. queue'[1] = queue[e + 1]
    BY <1>4, <2>1
  <2>3. queue' # <<>>
    BY <1>4, <1>6
  <2>4. queue'[1].kind = "start" /\ queue'[1].group = g + 1
    BY <1>3, <1>6, <2>2
  <2>5. Chain(queue', groups')
    BY <1>1, SuffixChain, SameChain
  <2>6. \A h \in DOMAIN groups' : h >= queue'[1].group => groups'[h].item = items'
    <3>1. ASSUME NEW h \in DOMAIN groups, h >= g + 1 PROVE groups'[h].item = items
      <4>1. h >= g
        BY <1>1, <3>1
      <4>2. QED
        BY <4>1 DEF SameGroups
    <3>2. DOMAIN groups' = DOMAIN groups
      BY DEF SameGroups
    <3>3. QED
      BY <2>4, <3>1, <3>2
  <2>7. QED
    BY <2>3, <2>4, <2>5, <2>6 DEF Grouped
<1>7. QED
  BY <1>5, <1>6

(* A group that is refused takes its names from what was still to come.    *)
Refusing(e, K, F, W, g, G, root, R, hs, state, f) ==
  /\ e \in Envs /\ EnvOK(e, K, F, owner, W, groups) /\ g \in DOMAIN groups /\ NamesOf(g) \subseteq W
  /\ F \subseteq G /\ root \in Keys /\ root \in G /\ declared \subseteq R
  /\ state \in {"failed", "blocked"} /\ Becomes(groups, hs, g, state, root)
  /\ f = Published(e, R, Unavailable(AllNames(groups[g].members), groups[g].item, root))

LEMMA GroupRefused ==
  ASSUME DeclarationTypeOK, GroupInv, NEW e, NEW K, NEW F, NEW W, NEW g, NEW G, NEW root, NEW R, NEW hs, NEW state, NEW f,
         Refusing(e, K, F, W, g, G, root, R, hs, state, f)
  PROVE  f \in Envs /\ EnvOK(f, K, G, owner, W \ NamesOf(g), hs)
<1> PICK u : u = Unavailable(AllNames(groups[g].members), groups[g].item, root)
  OBVIOUS
<1>0. /\ e \in Envs /\ EnvOK(e, K, F, owner, W, groups) /\ g \in DOMAIN groups /\ NamesOf(g) \subseteq W
      /\ F \subseteq G /\ root \in Keys /\ root \in G /\ declared \subseteq R
      /\ state \in {"failed", "blocked"} /\ Becomes(groups, hs, g, state, root) /\ f = Published(e, R, u)
  BY Zenon DEF Refusing
<1> USE <1>0
<1>1. groups \in Seq(Groups) /\ DOMAIN owner \subseteq Labels
  BY TypeFacts
<1>2. groups[g].members \in Seq(Members) /\ groups[g].item \in Nat
  <2>1. groups[g] \in Groups
    BY <1>1
  <2>2. QED
    BY <2>1 DEF Groups
<1>3. PICK V, o : V = NamesOf(g) /\ o = groups[g].item
  OBVIOUS
<1>4. V \in SUBSET Labels /\ o \in Nat
  BY <1>2, <1>3, NamesAreLabels DEF NamesOf
<1>5. u \in [V -> Values] /\ Refuses(u, V, o, root)
  <2>1. u = Unavailable(V, o, root)
    BY <1>3, Zenon DEF NamesOf
  <2>2. QED
    BY <1>4, <2>1, UnavailableShape, Zenon
<1>6. f \in Envs /\ Publishes(e, f, V, R) /\ \A n \in V : f.plain[n] = u[n]
  BY <1>4, <1>5, PublishedShape
<1>7. \A n \in V : /\ f.plain[n].tag = "untranslated" /\ f.plain[n].by = <<Module, n>>
                   /\ f.plain[n].item = o /\ f.plain[n].root = root
  BY <1>5, <1>6 DEF Refuses
<1>8. \A n \in V : n \in DOMAIN owner /\ owner[n] = o /\ n \in R /\ n \in W
  BY <1>3 DEF GroupInv
<1>9. PICK X : X = W \ V
  OBVIOUS
<1>10. \A n \in V : Grounds(f.plain[n], K, G)
  BY <1>7 DEF Grounds
<1>11. \A k \in K : \A n \in k.uses : \E l \in K : l.by = n
  BY DEF EnvOK
<1>12. \A k \in K : \E l \in K : l.by = k.by
  BY Zenon
<1>13. \A n \in V : n \in DOMAIN owner /\ n \notin X =>
         f.plain[n].item = owner[n] /\ f.plain[n].by = <<Module, n>> /\ n \in R
  BY <1>7, <1>8
<1>14. \A n \in DOMAIN owner : n \notin X /\ n \notin V => n \in DOMAIN owner /\ n \notin W /\ owner[n] = owner[n]
  BY <1>9
<1>15. \A n \in Labels : n \notin DOMAIN owner \/ n \in X => (n \notin DOMAIN owner \/ n \in W) /\ ~ (n \in V /\ n \in R)
  BY <1>8, <1>9
<1>16. \A n \in V : n \in R => n \notin DOMAIN owner \/ n \in W
  BY <1>8
<1>17. \A h \in DOMAIN hs : hs[h].state = "checked" => \A n \in AllNames(hs[h].members) : f.plain[n].tag = "checked"
  <2>1. SUFFICES ASSUME NEW h \in DOMAIN hs, hs[h].state = "checked", NEW n \in AllNames(hs[h].members)
                 PROVE  f.plain[n].tag = "checked"
    OBVIOUS
  <2>2. h \in DOMAIN groups /\ h # g /\ hs[h] = groups[h]
    BY <2>1 DEF Becomes, SameGroups
  <2>3. n \in NamesOf(h) /\ n \notin V
    <3>1. n \in NamesOf(h)
      BY <2>2 DEF NamesOf
    <3>2. NamesOf(g) \cap NamesOf(h) = {}
      BY <2>2 DEF GroupInv
    <3>3. QED
      BY <1>3, <3>1, <3>2
  <2>4. e.plain[n].tag = "checked"
    <3>1. \A l \in DOMAIN groups : groups[l].state = "checked" => \A m \in AllNames(groups[l].members) : e.plain[m].tag = "checked"
      BY Zenon DEF EnvOK
    <3>2. QED
      BY <2>1, <2>2, <3>1
  <2>5. n \in Labels
    <3>1. n \in DOMAIN owner
      BY <2>2, <2>3 DEF GroupInv
    <3>2. QED
      BY <1>1, <3>1
  <2>6. f.plain[n] = e.plain[n]
    BY <1>6, <2>3, <2>5 DEF Publishes
  <2>7. QED
    BY <2>4, <2>6
<1>18. EnvOK(f, K, G, owner, X, hs)
  BY <1>1, <1>4, <1>6, <1>10, <1>11, <1>12, <1>13, <1>14, <1>15, <1>16, <1>17, Publishing
<1>19. QED
  BY <1>3, <1>6, <1>9, <1>18

LEMMA SameEnv ==
  ASSUME NEW e, NEW K, NEW F, NEW o, NEW W, NEW gs, EnvOK(e, K, F, o, W, gs), NEW hs,
         \A g \in DOMAIN hs : hs[g].state = "checked" => \A n \in AllNames(hs[g].members) : e.plain[n].tag = "checked"
  PROVE  EnvOK(e, K, F, o, W, hs)
BY Zenon DEF EnvOK

(* The facts of the group that the queue starts with.                      *)
LEMMA StartHead ==
  ASSUME DeclarationTypeOK, Grouped, NEW g, g = queue[1].group, NEW ds, ds = groups[g].members, NEW m, m = Len(ds)
  PROVE  /\ g \in DOMAIN groups /\ ds \in Seq(Members) /\ m \in Nat /\ DOMAIN ds = 1 .. m
         /\ BlockAt(queue, 1, groups, g) /\ m + 2 \in 1 .. Len(queue) /\ groups[g].state = "reserved"
         /\ Head(queue) = queue[1] /\ Suffix(Tail(queue), queue, 1) /\ Len(queue) \in Nat
<1>1. groups \in Seq(Groups) /\ IsSeq(queue) /\ DOMAIN queue = 1 .. Len(queue) /\ DOMAIN groups = 1 .. Len(groups)
  BY TypeFacts
<1>2. queue # <<>> /\ queue[1].kind = "start" /\ Chain(queue, groups) /\ Upto(groups, g, g)
  BY DEF Grouped
<1>3. Head(queue) = queue[1] /\ 1 \in DOMAIN queue /\ Suffix(Tail(queue), queue, 1) /\ Len(queue) \in Nat
  BY <1>1, <1>2, TailShape
<1>4. g \in DOMAIN groups /\ BlockAt(queue, 1, groups, g)
  BY <1>2, <1>3 DEF Chain
<1>5. ds \in Seq(Members) /\ m \in Nat /\ DOMAIN ds = 1 .. m
  BY <1>1, <1>4, GroupShape
<1>6. m + 2 \in 1 .. Len(queue)
  <2>1. 1 + m + 1 \in DOMAIN queue
    BY <1>4, Zenon DEF BlockAt
  <2>2. 1 + m + 1 = m + 2
    BY <1>5
  <2>3. QED
    BY <1>1, <2>1, <2>2
<1>7. groups[g].state = "reserved"
  BY <1>1, <1>2, <1>4 DEF Upto
<1>8. QED
  BY <1>1, <1>3, <1>4, <1>5, <1>6, <1>7

LEMMA AfterShape ==
  ASSUME NEW ds, NEW m \in Nat, DOMAIN ds = 1 .. m
  PROVE  /\ After(ds, 0) = AllNames(ds) /\ After(ds, m) = {}
         /\ \A k \in 0 .. m : After(ds, k) \subseteq AllNames(ds)
         /\ \A k \in 0 .. m - 1 : After(ds, k) = After(ds, k + 1) \cup NamesIn(ds[k + 1])
<1>1. \A k, n : n \in After(ds, k) <=> \E j \in 1 .. m : j > k /\ n \in NamesIn(ds[j])
  BY DEF After
<1>2. \A n : n \in AllNames(ds) <=> \E j \in 1 .. m : n \in NamesIn(ds[j])
  BY DEF AllNames
<1>3. (\A j \in 1 .. m : j > 0) /\ (\A j \in 1 .. m : ~ j > m)
  OBVIOUS
<1>4. ASSUME NEW k \in 0 .. m - 1
      PROVE  After(ds, k) = After(ds, k + 1) \cup NamesIn(ds[k + 1])
  <2>1. \A j \in 1 .. m : j > k <=> j > k + 1 \/ j = k + 1
    OBVIOUS
  <2>2. k + 1 \in 1 .. m
    OBVIOUS
  <2>3. PICK l : l = k + 1
    OBVIOUS
  <2>4. \A n : n \in After(ds, k) <=> n \in After(ds, l) \/ n \in NamesIn(ds[l])
    <3>1. \A j \in 1 .. m : j > k <=> j > l \/ j = l
      BY <2>1, <2>3
    <3>2. l \in 1 .. m
      BY <2>2, <2>3
    <3>3. QED
      BY <1>1, <3>1, <3>2, Zenon
  <2>5. QED
    BY <2>3, <2>4
<1>5. After(ds, 0) = AllNames(ds)
  BY <1>1, <1>2, <1>3
<1>6. After(ds, m) = {}
  BY <1>1, <1>3
<1>7. \A k \in 0 .. m : After(ds, k) \subseteq AllNames(ds)
  BY <1>1, <1>2
<1>8. QED
  BY <1>4, <1>5, <1>6, <1>7

(* A group that waits does so for one before it that was not published.    *)
LEMMA WaitingRoot ==
  ASSUME DeclarationTypeOK, GroupInv, NEW g \in DOMAIN groups, Upto(groups, g, g), Waiting(g) # {}
  PROVE  groups[Min(Waiting(g))].root \in rootFailures
<1>1. DOMAIN groups = 1 .. Len(groups) /\ Len(groups) \in Nat
  BY TypeFacts
<1>2. PICK T : T = Waiting(g)
  OBVIOUS
<1>3. \A h \in T : h \in 1 .. g - 1 /\ groups[h].state # "checked"
  BY <1>2 DEF Waiting, GroupInv
<1>4. T \in SUBSET Nat /\ T # {}
  BY <1>1, <1>2, <1>3
<1>5. PICK h \in T : \A k \in T : h <= k
  BY <1>4, LeastNat
<1>6. Min(T) \in T
  BY <1>5, Zenon DEF Min
<1>7. PICK l \in T : l = Min(T)
  BY <1>6
<1>8. l \in DOMAIN groups /\ l < g /\ groups[l].state # "checked"
  BY <1>1, <1>3
<1>9. groups[l].state \in {"failed", "blocked"}
  BY <1>8 DEF Upto, Settled
<1>10. groups[l].root \in rootFailures
  BY <1>8, <1>9 DEF GroupInv
<1>11. QED
  BY <1>2, <1>7, <1>10

LEMMA StartGroupKeeps ==
  ASSUME DInv, StartGroup
  PROVE  DInv'
<1>1. queue # <<>> /\ queue[1].kind = "start"
  BY DEF StartGroup, IsNext
<1>2. DeclarationTypeOK /\ GroupInv /\ Idle /\ Grouped
  BY <1>1, Heads DEF DInv
<1>3. PICK g, ds, m : g = queue[1].group /\ ds = groups[g].members /\ m = Len(ds)
  OBVIOUS
<1>4. /\ g \in DOMAIN groups /\ ds \in Seq(Members) /\ m \in Nat /\ DOMAIN ds = 1 .. m
      /\ BlockAt(queue, 1, groups, g) /\ m + 2 \in 1 .. Len(queue) /\ groups[g].state = "reserved"
      /\ Head(queue) = queue[1] /\ Suffix(Tail(queue), queue, 1) /\ Len(queue) \in Nat
  BY <1>2, <1>3, StartHead
<1>5. /\ items' = items /\ owner' = owner /\ declared' = declared /\ kernel' = kernel /\ rootFailures' = rootFailures
  BY DEF StartGroup
<1>6. IF Waiting(g) = {}
      THEN /\ active' = [group |-> g, env |-> env, results |-> Len(results), kernel |-> kernel]
           /\ groups' = [groups EXCEPT ![g].state = "checking"]
           /\ queue' = Tail(queue) /\ env' = env
      ELSE LET root == groups[Min(Waiting(g))].root IN
           /\ groups' = [groups EXCEPT ![g].state = "blocked", ![g].root = root]
           /\ env' = Published(env, declared, Unavailable(AllNames(ds), groups[g].item, root))
           /\ queue' = SubSeq(queue, m + 3, Len(queue))
           /\ active' = active
  <2>1. Head(queue).group = g
    BY <1>3, <1>4
  <2>2. IF Waiting(Head(queue).group) = {}
        THEN /\ active' = [group |-> Head(queue).group, env |-> env, results |-> Len(results), kernel |-> kernel]
             /\ groups' = [groups EXCEPT ![Head(queue).group].state = "checking"]
             /\ queue' = Tail(queue) /\ env' = env
        ELSE LET root == groups[Min(Waiting(Head(queue).group))].root IN
             /\ groups' = [groups EXCEPT ![Head(queue).group].state = "blocked", ![Head(queue).group].root = root]
             /\ env' = Published(env, declared, Unavailable(AllNames(groups[Head(queue).group].members), groups[Head(queue).group].item, root))
             /\ queue' = SubSeq(queue, Len(groups[Head(queue).group].members) + 3, Len(queue))
             /\ active' = active
    BY Zenon DEF StartGroup
  <2>3. QED
    BY <1>3, <2>1, <2>2, Zenon
<1>7. /\ groups \in Seq(Groups) /\ IsSeq(queue) /\ env \in Envs /\ items \in Nat
      /\ DOMAIN groups = 1 .. Len(groups) /\ Len(groups) \in Nat
  BY <1>2, TypeFacts
<1>8. /\ active = NoGroup /\ EnvOK(env, kernel, rootFailures, owner, ToCome(groups), groups)
      /\ Chain(queue, groups) /\ Upto(groups, g, g) /\ \A h \in DOMAIN groups : h >= g => groups[h].item = items
  BY <1>2, <1>3 DEF Idle, Grouped
<1>9. ASSUME NEW state \in {"checking", "blocked"}, NEW root, Becomes(groups, groups', g, state, root)
      PROVE  Upto(groups', g, g + 1) /\ (state = "blocked" => Upto(groups', g + 1, g + 1))
  <2>1. DOMAIN groups' = DOMAIN groups /\ groups'[g].state = state
        /\ \A h \in DOMAIN groups : h # g => groups'[h] = groups[h]
    BY <1>9 DEF Becomes, SameGroups
  <2>2. ASSUME NEW h \in DOMAIN groups
        PROVE  /\ h < g => groups'[h].state \in Settled
               /\ h >= g + 1 => groups'[h].state = "reserved"
               /\ (state = "blocked" /\ h < g + 1) => groups'[h].state \in Settled
    <3>1. h < g => groups[h].state \in Settled
      BY <1>8 DEF Upto
    <3>2. h >= g => groups[h].state = "reserved"
      BY <1>8 DEF Upto
    <3>3. (h < g => h # g) /\ (h >= g + 1 => h # g /\ h >= g) /\ (h < g + 1 => h < g \/ h = g)
      BY <1>4, <1>7
    <3>4. "blocked" \in Settled
      BY DEF Settled
    <3>5. QED
      BY <2>1, <3>1, <3>2, <3>3, <3>4
  <2>3. QED
    BY <2>1, <2>2 DEF Upto
<1>10. CASE Waiting(g) = {}
  <2>1. /\ active' = [group |-> g, env |-> env, results |-> Len(results), kernel |-> kernel]
        /\ groups' = [groups EXCEPT ![g].state = "checking"] /\ queue' = Tail(queue) /\ env' = env
    BY <1>6, <1>10, Zenon
  <2>2. PICK root : Becomes(groups, groups', g, "checking", root)
    <3>1. "checking" \in {"reserved", "checking", "checked", "failed", "blocked"} /\ NoName \in Keys \cup {NoName}
      OBVIOUS
    <3>2. QED
      BY <1>4, <1>7, <2>1, <3>1, GroupBecomes, Zenon
  <2>3. /\ groups' \in Seq(Groups) /\ SameGroups(groups, groups') /\ DOMAIN groups' = DOMAIN groups
        /\ groups'[g].state = "checking" /\ groups'[g].members = ds
        /\ \A h \in DOMAIN groups \ {g} : groups'[h] = groups[h]
    BY <1>3, <1>4, <2>2 DEF Becomes, SameGroups
  <2>4. active'.group = g /\ active'.env = env /\ active'.kernel = kernel /\ active' # NoGroup
    <3>1. g # 0
      BY <1>4, <1>7
    <3>2. active'.group = g /\ active'.env = env /\ active'.kernel = kernel
      BY <2>1
    <3>3. NoGroup.group = 0
      BY DEF NoGroup
    <3>4. QED
      BY <3>1, <3>2, <3>3
  <2>5. GroupInv'
    BY <1>2, <1>4, <1>5, <2>2, BecomesInv
  <2>6. DeclarationTypeOK'
    <3>1. IsSeq(queue')
      BY <1>4, <2>1 DEF Suffix
    <3>2. QED
      BY <1>2, <1>4, <1>5, <2>1, <2>3, <2>4, <3>1 DEF DeclarationTypeOK
  <2>7. ToCome(groups) = ToCome(groups') \cup NamesOf(g)
    BY <1>2, <1>4, <2>2, BecomesToCome
  <2>8. After(ds, 0) = NamesOf(g) /\ NamesOf(g)' = NamesOf(g)
    <3>1. After(ds, 0) = AllNames(ds)
      BY <1>4, AfterShape, SMTT(30)
    <3>2. NamesOf(g) = AllNames(ds) /\ NamesOf(g)' = AllNames(ds)
      BY <1>3, <2>3 DEF NamesOf
    <3>3. QED
      BY <3>1, <3>2
  <2>9. \A h \in DOMAIN groups' : groups'[h].state = "checked" => \A n \in AllNames(groups'[h].members) : env.plain[n].tag = "checked"
    <3>1. \A h \in DOMAIN groups : groups[h].state = "checked" => \A n \in AllNames(groups[h].members) : env.plain[n].tag = "checked"
      BY <1>8, Zenon DEF EnvOK
    <3>2. QED
      BY <2>3, <3>1
  <2>10. EnvOK(env, kernel, rootFailures, owner, ToCome(groups') \cup NamesOf(g), groups')
    <3>1. EnvOK(env, kernel, rootFailures, owner, ToCome(groups), groups')
      BY <1>8, <2>9, SameEnv
    <3>2. QED
      BY <2>7, <3>1
  <2>11. ToCome(groups)' = ToCome(groups') /\ After(groups[active.group].members, 0)' = NamesOf(g)
         /\ NamesOf(active.group)' = NamesOf(g)
    <3>1. groups'[active'.group].members = ds
      BY <2>3, <2>4
    <3>2. QED
      BY <1>3, <2>8, <3>1 DEF NamesOf
  <2>12. EnvOK(env, kernel, rootFailures, owner, ToCome(groups) \cup After(groups[active.group].members, 0), groups)'
    BY <1>5, <2>1, <2>10, <2>11
  <2>13. EnvOK(active.env, active.kernel, rootFailures, owner, ToCome(groups) \cup NamesOf(active.group), groups)'
    BY <1>5, <2>4, <2>10, <2>11
  <2>14. BlockAt(queue', 1 - 1, groups, g) /\ Chain(queue', groups)
    <3>1. 1 + Len(groups[g].members) + 1 > 1
      BY <1>3, <1>4
    <3>2. 1 \in 0 .. Len(queue)
      BY <1>4
    <3>3. BlockAt(queue', 1 - 1, groups, g)
      <4>1. PICK i, k : i = 1 /\ k = 1
        OBVIOUS
      <4>2. i \in Int /\ k \in 0 .. Len(queue)
        BY <3>2, <4>1
      <4>3. BlockAt(queue, i, groups, g) /\ Suffix(queue', queue, k) /\ i + Len(groups[g].members) + 1 > k
        BY <1>4, <2>1, <3>1, <4>1, Zenon
      <4>4. BlockAt(queue', i - k, groups, g)
        BY <1>4, <1>7, <4>2, <4>3, SuffixBlock, Zenon
      <4>5. QED
        BY <4>1, <4>4
    <3>4. Chain(queue', groups)
      BY <1>4, <1>7, <1>8, <2>1, <3>2, SuffixChain
    <3>5. QED
      BY <3>3, <3>4
  <2>15. BlockAt(queue', - 0, groups', g) /\ Chain(queue', groups')
    <3>1. PICK i \in Int : i = 1 - 1 /\ i = - 0
      OBVIOUS
    <3>2. BlockAt(queue', i, groups, g)
      BY <2>14, <3>1
    <3>3. BlockAt(queue', i, groups', g) /\ Chain(queue', groups')
      BY <1>4, <2>3, <2>14, <3>2, SameChain
    <3>4. QED
      BY <3>1, <3>3
  <2>16. Upto(groups', g, g + 1)
    BY <1>9, <2>2
  <2>17. \A h \in DOMAIN groups' : h >= g => groups'[h].item = items'
    BY <1>5, <1>8, <2>3 DEF SameGroups
  <2>18. \A n \in NamesOf(active.group)' \ After(groups[active.group].members, 0)' : env'.plain[n].tag = "checked"
    BY <2>11
  <2>19. 0 \in 0 .. Len(groups'[active'.group].members)
    BY <1>3, <1>4, <2>3, <2>4
  <2>20. Busy(0)'
    <3>1. BlockAt(queue', - 0, groups', active'.group) /\ Upto(groups', active'.group, active'.group + 1)
          /\ groups'[active'.group].state = "checking"
      BY <2>3, <2>4, <2>15, <2>16
    <3>2. \A h \in DOMAIN groups' : h >= active'.group => groups'[h].item = items'
      BY <2>4, <2>17
    <3>3. QED
      BY <2>4, <2>12, <2>13, <2>15, <2>18, <2>19, <3>1, <3>2 DEF Busy
  <2>21. QED
    BY <2>5, <2>6, <2>20 DEF DInv
<1>11. CASE Waiting(g) # {}
  <2>1. PICK root : root = groups[Min(Waiting(g))].root
    OBVIOUS
  <2>2. /\ groups' = [groups EXCEPT ![g].state = "blocked", ![g].root = root]
        /\ env' = Published(env, declared, Unavailable(AllNames(ds), groups[g].item, root))
        /\ queue' = SubSeq(queue, m + 3, Len(queue)) /\ active' = active
    BY <1>6, <1>11, <2>1, Zenon
  <2>3. root \in rootFailures /\ root \in Keys
    BY <1>2, <1>4, <1>8, <1>11, <2>1, WaitingRoot DEF DeclarationTypeOK
  <2>4. Becomes(groups, groups', g, "blocked", root)
    <3>1. "blocked" \in {"reserved", "checking", "checked", "failed", "blocked"} /\ root \in Keys \cup {NoName}
      BY <2>3
    <3>2. QED
      BY <1>4, <1>7, <2>2, <3>1, GroupBecomes, Zenon
  <2>5. groups' \in Seq(Groups) /\ SameGroups(groups, groups')
    BY <2>4 DEF Becomes
  <2>6. GroupInv'
    BY <1>2, <1>4, <1>5, <2>3, <2>4, BecomesInv
  <2>7. ToCome(groups) = ToCome(groups') \cup NamesOf(g) /\ ToCome(groups') \cap NamesOf(g) = {}
    BY <1>2, <1>4, <2>4, BecomesToCome
  <2>8. PICK W, u : W = ToCome(groups) /\ u = Unavailable(AllNames(groups[g].members), groups[g].item, root)
    OBVIOUS
  <2>9. env' = Published(env, declared, u)
    BY <1>3, <2>2, <2>8
  <2>10. env' \in Envs /\ EnvOK(env', kernel, rootFailures, owner, W \ NamesOf(g), groups')
    <3>1. EnvOK(env, kernel, rootFailures, owner, W, groups) /\ NamesOf(g) \subseteq W
      BY <1>8, <2>7, <2>8
    <3>2. "blocked" \in {"failed", "blocked"}
      OBVIOUS
    <3>3. Refusing(env, kernel, rootFailures, W, g, rootFailures, root, declared, groups', "blocked", env')
      BY <1>4, <1>7, <2>3, <2>4, <2>8, <2>9, <3>1, <3>2 DEF Refusing
    <3>4. QED
      BY <1>2, <3>3, GroupRefused, Zenon
  <2>11. EnvOK(env, kernel, rootFailures, owner, ToCome(groups), groups)'
    <3>1. W \ NamesOf(g) = ToCome(groups')
      BY <2>7, <2>8
    <3>2. QED
      BY <1>5, <2>10, <3>1
  <2>12. Upto(groups', g + 1, g + 1)
    BY <1>9, <2>4
  <2>13. Suffix(queue', queue, m + 2)
    <3>1. m + 2 \in 0 .. Len(queue) /\ m + 3 = (m + 2) + 1
      BY <1>4
    <3>2. Suffix(SubSeq(queue, (m + 2) + 1, Len(queue)), queue, m + 2)
      BY <1>7, <3>1, SuffixShape
    <3>3. QED
      BY <2>2, <3>1, <3>2
  <2>14. Waits' \/ Grouped'
    <3>1. PICK end : end = m + 2
      OBVIOUS
    <3>2. end = 1 + Len(groups[g].members) + 1 /\ end \in 0 .. Len(queue) /\ Suffix(queue', queue, end)
      BY <1>3, <1>4, <2>13, <3>1
    <3>3. 1 \in Int
      OBVIOUS
    <3>4. QED
      BY <1>2, <1>4, <1>5, <1>8, <2>5, <2>12, <3>2, <3>3, GroupLeft
  <2>15. active' = NoGroup
    BY <1>8, <2>2
  <2>16. Idle'
    BY <2>11, <2>14, <2>15 DEF Idle
  <2>17. DeclarationTypeOK'
    <3>1. IsSeq(queue')
      BY <2>13 DEF Suffix
    <3>2. QED
      BY <1>2, <1>5, <2>5, <2>10, <2>15, <3>1 DEF DeclarationTypeOK
  <2>18. QED
    BY <2>6, <2>16, <2>17 DEF DInv
<1>12. QED
  BY <1>10, <1>11

(* The facts of the open group.                                            *)
LEMMA BusyFacts ==
  ASSUME NEW done \in Nat, Busy(done), NEW g, NEW ds, NEW m, Open(g, ds, m)
  PROVE  /\ active # NoGroup /\ BlockAt(queue, - done, groups, g) /\ Chain(queue, groups)
         /\ groups[g].state = "checking" /\ Upto(groups, g, g + 1)
         /\ \A h \in DOMAIN groups : h >= g => groups[h].item = items
         /\ EnvOK(env, kernel, rootFailures, owner, ToCome(groups) \cup After(ds, done), groups)
         /\ \A n \in NamesOf(g) \ After(ds, done) : env.plain[n].tag = "checked"
         /\ EnvOK(active.env, active.kernel, rootFailures, owner, ToCome(groups) \cup NamesOf(g), groups)
BY Zenon DEF Busy, Open

LEMMA SettledUpto ==
  ASSUME DeclarationTypeOK, NEW g \in DOMAIN groups, NEW state \in Settled, NEW root, NEW hs,
         Becomes(groups, hs, g, state, root), Upto(groups, g, g + 1)
  PROVE  Upto(hs, g + 1, g + 1)
<1>1. DOMAIN hs = DOMAIN groups /\ hs[g].state = state /\ \A h \in DOMAIN groups : h # g => hs[h] = groups[h]
  BY DEF Becomes, SameGroups
<1>2. ASSUME NEW h \in DOMAIN groups
      PROVE  (h < g + 1 => hs[h].state \in Settled) /\ (h >= g + 1 => hs[h].state = "reserved")
  <2>1. h < g => groups[h].state \in Settled
    BY DEF Upto
  <2>2. h >= g + 1 => groups[h].state = "reserved"
    BY DEF Upto
  <2>3. (h < g + 1 => h = g \/ (h < g /\ h # g)) /\ (h >= g + 1 => h # g)
    BY TypeFacts
  <2>4. QED
    BY <1>1, <2>1, <2>2, <2>3
<1>3. QED
  BY <1>1, <1>2 DEF Upto

LEMMA EndGroupKeeps ==
  ASSUME DInv, EndGroup
  PROVE  DInv'
<1>1. queue # <<>> /\ queue[1].kind = "end"
  BY DEF EndGroup, IsNext
<1>2. DeclarationTypeOK /\ GroupInv
  BY DEF DInv
<1>3. PICK done \in Nat : Busy(done) /\ done = Len(groups[active.group].members)
  BY <1>1, Heads, Zenon
<1>4. PICK g, ds, m : Open(g, ds, m)
  BY Zenon DEF Open
<1>5. /\ g \in DOMAIN groups /\ ds \in Seq(Members) /\ m \in Nat /\ DOMAIN ds = 1 .. m
  BY <1>2, <1>3, <1>4, BusyHead
<1>6. /\ active # NoGroup /\ BlockAt(queue, - done, groups, g) /\ Chain(queue, groups)
      /\ groups[g].state = "checking" /\ Upto(groups, g, g + 1)
      /\ \A h \in DOMAIN groups : h >= g => groups[h].item = items
      /\ EnvOK(env, kernel, rootFailures, owner, ToCome(groups) \cup After(ds, done), groups)
      /\ \A n \in NamesOf(g) \ After(ds, done) : env.plain[n].tag = "checked"
  BY <1>3, <1>4, BusyFacts
<1>7. done = m /\ ds = groups[g].members
  BY <1>3, <1>4 DEF Open
<1>8. /\ groups' = [groups EXCEPT ![g].state = "checked"] /\ active' = NoGroup /\ queue' = Tail(queue)
      /\ items' = items /\ env' = env /\ owner' = owner /\ declared' = declared /\ kernel' = kernel
      /\ rootFailures' = rootFailures
  BY <1>4, Zenon DEF EndGroup, Open
<1>9. groups \in Seq(Groups) /\ IsSeq(queue) /\ Len(queue) \in Nat
  BY <1>2, TypeFacts
<1>10. PICK root : Becomes(groups, groups', g, "checked", root)
  <2>1. "checked" \in {"reserved", "checking", "checked", "failed", "blocked"} /\ NoName \in Keys \cup {NoName}
    OBVIOUS
  <2>2. QED
    BY <1>5, <1>8, <1>9, <2>1, GroupBecomes, Zenon
<1>11. /\ groups' \in Seq(Groups) /\ SameGroups(groups, groups') /\ DOMAIN groups' = DOMAIN groups
       /\ groups'[g].members = ds /\ \A h \in DOMAIN groups \ {g} : groups'[h] = groups[h]
  BY <1>5, <1>7, <1>10 DEF Becomes, SameGroups
<1>12. GroupInv'
  <2>1. "checked" \notin {"failed", "blocked"}
    OBVIOUS
  <2>2. QED
    BY <1>2, <1>5, <1>8, <1>10, <2>1, BecomesInv
<1>13. ToCome(groups) = ToCome(groups')
  BY <1>2, <1>5, <1>6, <1>10, BecomesToCome
<1>14. After(ds, done) = {}
  BY <1>5, <1>7, AfterShape
<1>15. \A h \in DOMAIN groups' : groups'[h].state = "checked" => \A n \in AllNames(groups'[h].members) : env.plain[n].tag = "checked"
  <2>1. \A h \in DOMAIN groups : groups[h].state = "checked" => \A n \in AllNames(groups[h].members) : env.plain[n].tag = "checked"
    BY <1>6, Zenon DEF EnvOK
  <2>2. \A n \in AllNames(ds) : env.plain[n].tag = "checked"
    BY <1>6, <1>7, <1>14 DEF NamesOf
  <2>3. QED
    BY <1>11, <2>1, <2>2
<1>16. EnvOK(env, kernel, rootFailures, owner, ToCome(groups), groups)'
  <2>1. EnvOK(env, kernel, rootFailures, owner, ToCome(groups'), groups)
    BY <1>6, <1>13, <1>14
  <2>2. EnvOK(env, kernel, rootFailures, owner, ToCome(groups'), groups')
    BY <1>15, <2>1, SameEnv
  <2>3. QED
    BY <1>8, <2>2
<1>17. Suffix(queue', queue, 1)
  BY <1>1, <1>8, <1>9, TailShape
<1>18. Waits' \/ Grouped'
  <2>1. "checked" \in Settled
    BY DEF Settled
  <2>2. Upto(groups', g + 1, g + 1)
    BY <1>2, <1>5, <1>6, <1>10, <2>1, SettledUpto
  <2>3. PICK i \in Int, end \in Nat : i = - done /\ end = 1
    OBVIOUS
  <2>4. end = i + Len(groups[g].members) + 1
    BY <1>4, <1>5, <1>7, <2>3 DEF Open
  <2>5. Len(queue) # 0
    BY <1>1, <1>9, TailShape
  <2>6. end \in 0 .. Len(queue)
    BY <1>9, <2>3, <2>5
  <2>7. BlockAt(queue, i, groups, g) /\ Suffix(queue', queue, end)
    BY <1>6, <1>17, <2>3
  <2>8. QED
    BY <1>2, <1>5, <1>6, <1>8, <1>11, <2>2, <2>4, <2>6, <2>7, GroupLeft
<1>19. Idle'
  BY <1>8, <1>16, <1>18 DEF Idle
<1>20. DeclarationTypeOK'
  <2>1. IsSeq(queue')
    BY <1>17 DEF Suffix
  <2>2. QED
    BY <1>2, <1>8, <1>11, <2>1 DEF DeclarationTypeOK
<1>21. QED
  BY <1>12, <1>19, <1>20 DEF DInv

-----------------------------------------------------------------------------
(* A definition or an inductive type.                                      *)
Blocking(d) == IF NamesIn(d) \cap Joined # {} THEN Absent ELSE Blocker(BindQualified(env, d.refs), d.refs)
Accepted(d, outcome) == outcome = "checked" /\ Blocking(d).tag = "checked"
Cause(d, outcome) == IF Accepted(d, outcome) THEN NoName ELSE RootOf(Blocking(d), d)
Definitions(d) ==
  {[by |-> <<Module, n>>, uses |-> {Resolve(BindQualified(env, d.refs), d.refs[i]).by : i \in DOMAIN d.refs}] : n \in NamesIn(d)}

LEMMA CheckShape ==
  ASSUME NEW outcome, CheckDeclaration(outcome), NEW d, d = Head(queue)
  PROVE  /\ IsNext({"def", "inductive"})
         /\ active = NoGroup => ~ Conflict(<<d>>, d.item)
         /\ Blocking(d).tag # "checked" => outcome = "refused"
         /\ items' = items /\ declared' = declared \cup NamesIn(d)
         /\ owner' = IF active = NoGroup THEN Reserved(<<d>>, d.item) ELSE owner
         /\ rootFailures' = IF Accepted(d, outcome) THEN rootFailures ELSE rootFailures \cup OwnRoots(Blocking(d), d)
         /\ IF active # NoGroup /\ ~ Accepted(d, outcome)
            THEN Rollback([name |-> d.name, ok |-> Accepted(d, outcome), root |-> Cause(d, outcome)])
            ELSE /\ env' = Published(BindQualified(env, d.refs), declared',
                                     LastValues(d, outcome, Accepted(d, outcome), Cause(d, outcome)))
                 /\ kernel' = IF Accepted(d, outcome) \/ (outcome \in {"overdue", "late"} /\ ~ Managed)
                              THEN kernel \cup Definitions(d) ELSE kernel
                 /\ queue' = Tail(queue) /\ groups' = groups /\ active' = active
<1>1. IsNext({"def", "inductive"}) /\ (active # NoGroup \/ ~ Conflict(<<d>>, d.item)) /\ items' = items
  BY Zenon DEF CheckDeclaration
<1>2. /\ Blocking(d).tag # "checked" => outcome = "refused"
      /\ declared' = declared \cup NamesIn(d)
      /\ owner' = IF active = NoGroup THEN Reserved(<<d>>, d.item) ELSE owner
  BY Zenon DEF CheckDeclaration, Blocking
<1>3. rootFailures' = IF Accepted(d, outcome) THEN rootFailures ELSE rootFailures \cup OwnRoots(Blocking(d), d)
  BY Zenon DEF CheckDeclaration, Blocking, Accepted
<1>4. ASSUME active # NoGroup, ~ Accepted(d, outcome)
      PROVE  Rollback([name |-> d.name, ok |-> Accepted(d, outcome), root |-> Cause(d, outcome)])
  BY <1>4, Zenon DEF CheckDeclaration, Blocking, Accepted, Cause
<1>5. ASSUME ~ (active # NoGroup /\ ~ Accepted(d, outcome))
      PROVE  env' = Published(BindQualified(env, d.refs), declared',
                              LastValues(d, outcome, Accepted(d, outcome), Cause(d, outcome)))
  BY <1>5, Zenon DEF CheckDeclaration, Blocking, Accepted, Cause
<1>6. ASSUME ~ (active # NoGroup /\ ~ Accepted(d, outcome))
      PROVE  kernel' = IF Accepted(d, outcome) \/ (outcome \in {"overdue", "late"} /\ ~ Managed)
                       THEN kernel \cup Definitions(d) ELSE kernel
  <2>1. ~ (active # NoGroup /\ ~ Accepted(Head(queue), outcome))
    BY <1>6
  <2>2. kernel' = IF Accepted(Head(queue), outcome) \/ (outcome \in {"overdue", "late"} /\ ~ Managed)
                  THEN kernel \cup Definitions(Head(queue)) ELSE kernel
    BY <2>1, Zenon DEF CheckDeclaration, Blocking, Accepted, Definitions
  <2>3. QED
    BY <2>2, Zenon
<1>7. ASSUME ~ (active # NoGroup /\ ~ Accepted(d, outcome))
      PROVE  queue' = Tail(queue) /\ groups' = groups /\ active' = active
  BY <1>7, Zenon DEF CheckDeclaration, Blocking, Accepted
<1>8. QED
  BY <1>1, <1>2, <1>3, <1>4, <1>5, <1>6, <1>7, Zenon

(* What a check may make of a declaration.                                 *)
Checkable(d) ==
  /\ d.refs \in Seq(References) /\ d.name \in Labels /\ NamesIn(d) \in SUBSET Labels /\ d.item \in Nat
Judged(d, outcome, K, F) ==
  /\ Blocking(d).tag # "checked" => outcome = "refused"
  /\ F = IF Accepted(d, outcome) THEN rootFailures ELSE rootFailures \cup OwnRoots(Blocking(d), d)
  /\ K = IF Accepted(d, outcome) \/ (outcome \in {"overdue", "late"} /\ ~ Managed)
         THEN kernel \cup Definitions(d) ELSE kernel
Caused(d, outcome, F) ==
  /\ rootFailures \subseteq F /\ F \in SUBSET Keys
  /\ ~ Accepted(d, outcome) => Cause(d, outcome) \in F /\ Cause(d, outcome) \in Keys
  /\ Accepted(d, outcome) => F = rootFailures
Deepens(K) ==
  /\ kernel \subseteq K /\ K \in SUBSET Kernels
  /\ \A k \in K : \A u \in k.uses : \E l \in K : l.by = u

LEMMA BlockingShape ==
  ASSUME DeclarationTypeOK, NEW d, Checkable(d), NEW W, EnvOK(env, kernel, rootFailures, owner, W, groups)
  PROVE  /\ Blocking(d).tag = "untranslated" => Blocking(d).root \in rootFailures
         /\ Blocking(d).tag = "checked" =>
              \A i \in DOMAIN d.refs : LET v == Resolve(BindQualified(env, d.refs), d.refs[i])
                                       IN v \in Values /\ \E k \in kernel : k.by = v.by
<1>1. PICK refs, e : refs = d.refs /\ e = BindQualified(env, refs)
  OBVIOUS
<1>2. refs \in Seq(References) /\ env \in Envs
  BY <1>1, TypeFacts DEF Checkable
<1>3. e \in Envs /\ EnvOK(e, kernel, rootFailures, owner, W, groups)
  BY <1>1, <1>2, Binding
<1>4. PICK K, F : K = kernel /\ F = rootFailures
  OBVIOUS
<1>5. (\A n \in Labels : Grounds(e.plain[n], K, F)) /\ \A k \in Keys : Grounds(e.spelled[k], K, F)
  BY <1>3, <1>4, Zenon DEF EnvOK
<1>6. PICK b : b = Blocker(e, refs)
  OBVIOUS
<1>7. /\ b.tag = "checked" => \A i \in DOMAIN refs : Resolve(e, refs[i]).tag = "checked"
      /\ b.tag = "untranslated" => b.root \in F
  BY <1>2, <1>3, <1>5, <1>6, Blocked, Zenon
<1>8. \A i \in DOMAIN refs : Resolve(e, refs[i]) \in Values /\ Grounds(Resolve(e, refs[i]), K, F)
  <2>1. SUFFICES ASSUME NEW i \in DOMAIN refs PROVE Resolve(e, refs[i]) \in Values /\ Grounds(Resolve(e, refs[i]), K, F)
    OBVIOUS
  <2>2. PICK r \in References : r = refs[i]
    BY <1>2
  <2>3. Resolve(e, r) \in Values /\ Grounds(Resolve(e, r), K, F)
    BY <1>3, <1>5, Resolved, Zenon
  <2>4. QED
    BY <2>2, <2>3
<1>9. CASE NamesIn(d) \cap Joined # {}
  <2>1. Blocking(d) = Absent
    BY <1>9 DEF Blocking
  <2>2. Blocking(d).tag = "absent"
    BY <2>1 DEF Absent
  <2>3. QED
    BY <2>2
<1>10. CASE NamesIn(d) \cap Joined = {}
  <2>1. Blocking(d) = b
    BY <1>1, <1>6, <1>10, Zenon DEF Blocking
  <2>2. b.tag = "checked" => \A i \in DOMAIN refs : Resolve(e, refs[i]) \in Values /\ \E k \in K : k.by = Resolve(e, refs[i]).by
    BY <1>7, <1>8, Zenon DEF Grounds
  <2>3. QED
    BY <1>1, <1>4, <1>7, <2>1, <2>2, Zenon
<1>11. QED
  BY <1>9, <1>10

LEMMA JudgedCause ==
  ASSUME DeclarationTypeOK, NEW d, Checkable(d), NEW W, EnvOK(env, kernel, rootFailures, owner, W, groups),
         NEW outcome, NEW K, NEW F, Judged(d, outcome, K, F)
  PROVE  Caused(d, outcome, F)
<1>1. rootFailures \in SUBSET Keys
  BY DEF DeclarationTypeOK
<1>2. PICK own : own = <<Module, d.name>> /\ own \in Keys
  BY KeyShape DEF Checkable
<1>3. CASE Accepted(d, outcome)
  <2>1. F = rootFailures
    BY <1>3 DEF Judged
  <2>2. QED
    BY <1>1, <1>3, <2>1 DEF Caused
<1>4. CASE ~ Accepted(d, outcome)
  <2>1. F = rootFailures \cup OwnRoots(Blocking(d), d) /\ Cause(d, outcome) = RootOf(Blocking(d), d)
    BY <1>4 DEF Judged, Cause
  <2>2. CASE Blocking(d).tag = "untranslated"
    <3>1. F = rootFailures /\ Cause(d, outcome) = Blocking(d).root
      BY <2>1, <2>2 DEF OwnRoots, RootOf
    <3>2. Blocking(d).root \in rootFailures
      BY <2>2, BlockingShape
    <3>3. QED
      BY <1>1, <1>4, <3>1, <3>2 DEF Caused
  <2>3. CASE Blocking(d).tag # "untranslated"
    <3>1. F = rootFailures \cup {own} /\ Cause(d, outcome) = own
      BY <1>2, <2>1, <2>3 DEF OwnRoots, RootOf
    <3>2. QED
      BY <1>1, <1>2, <1>4, <3>1 DEF Caused
  <2>4. QED
    BY <2>2, <2>3
<1>5. QED
  BY <1>3, <1>4

LEMMA JudgedKernel ==
  ASSUME DeclarationTypeOK, NEW d, Checkable(d), NEW W, EnvOK(env, kernel, rootFailures, owner, W, groups),
         NEW outcome, NEW K, NEW F, Judged(d, outcome, K, F)
  PROVE  Deepens(K) /\ (Accepted(d, outcome) => \A n \in NamesIn(d) : \E k \in K : k.by = <<Module, n>>)
<1>1. kernel \in SUBSET Kernels /\ \A k \in kernel : \A u \in k.uses : \E l \in kernel : l.by = u
  BY DEF DeclarationTypeOK, EnvOK
<1>2. CASE Blocking(d).tag = "checked"
  <2>1. PICK uses : uses = {Resolve(BindQualified(env, d.refs), d.refs[i]).by : i \in DOMAIN d.refs}
    OBVIOUS
  <2>2. ASSUME NEW u \in uses PROVE u \in Keys \cup {NoName} /\ \E k \in kernel : k.by = u
    <3>1. PICK i \in DOMAIN d.refs : u = Resolve(BindQualified(env, d.refs), d.refs[i]).by
      BY <2>1
    <3>2. PICK v : v = Resolve(BindQualified(env, d.refs), d.refs[i])
      OBVIOUS
    <3>3. v \in Values /\ \E k \in kernel : k.by = v.by
      BY <1>2, <3>2, BlockingShape, Zenon
    <3>4. v.by \in Keys \cup {NoName}
      BY <3>3 DEF Values
    <3>5. QED
      BY <3>1, <3>2, <3>3, <3>4
  <2>3. Definitions(d) = {[by |-> <<Module, n>>, uses |-> uses] : n \in NamesIn(d)}
    BY <2>1, Zenon DEF Definitions
  <2>4. \A k \in Definitions(d) : k \in Kernels /\ k.uses = uses
    <3>1. SUFFICES ASSUME NEW k \in Definitions(d) PROVE k \in Kernels /\ k.uses = uses
      OBVIOUS
    <3>2. PICK n \in NamesIn(d) : k = [by |-> <<Module, n>>, uses |-> uses]
      BY <2>3
    <3>3. n \in Labels
      BY DEF Checkable
    <3>4. PICK key \in Keys : key = <<Module, n>>
      BY <3>3, KeyShape
    <3>5. k = [by |-> key, uses |-> uses]
      BY <3>2, <3>4
    <3>6. uses \in SUBSET (Keys \cup {NoName})
      BY <2>2
    <3>7. QED
      BY <3>5, <3>6 DEF Kernels
  <2>5. \A n \in NamesIn(d) : \E k \in Definitions(d) : k.by = <<Module, n>>
    <3>1. SUFFICES ASSUME NEW n \in NamesIn(d) PROVE \E k \in Definitions(d) : k.by = <<Module, n>>
      OBVIOUS
    <3>2. PICK k : k = [by |-> <<Module, n>>, uses |-> uses]
      OBVIOUS
    <3>3. k \in Definitions(d) /\ k.by = <<Module, n>>
      BY <2>3, <3>2
    <3>4. QED
      BY <3>3
  <2>6. CASE K = kernel \cup Definitions(d)
    <3>1. \A k \in K : \A u \in k.uses : \E l \in K : l.by = u
      BY <1>1, <2>2, <2>4, <2>6
    <3>2. kernel \subseteq K /\ K \in SUBSET Kernels
      BY <1>1, <2>4, <2>6
    <3>3. QED
      BY <2>5, <2>6, <3>1, <3>2 DEF Deepens
  <2>7. CASE K = kernel /\ ~ Accepted(d, outcome)
    BY <1>1, <2>7 DEF Deepens
  <2>8. QED
    BY <2>6, <2>7, Zenon DEF Judged
<1>3. CASE Blocking(d).tag # "checked"
  <2>1. outcome = "refused" /\ ~ Accepted(d, outcome)
    BY <1>3 DEF Judged, Accepted
  <2>2. outcome \notin {"overdue", "late"}
    BY <2>1
  <2>3. K = kernel
    BY <2>1, <2>2, Zenon DEF Judged
  <2>4. QED
    BY <1>1, <2>1, <2>3 DEF Deepens
<1>4. QED
  BY <1>2, <1>3

(* What a check publishes is the declaration's, and has its grounds.       *)
Gives(u, d, outcome, K, F) ==
  \A n \in NamesIn(d) : /\ u[n].by = <<Module, n>> /\ u[n].item = d.item /\ Grounds(u[n], K, F)
                        /\ Accepted(d, outcome) => u[n].tag = "checked"

LEMMA ValuesShape ==
  ASSUME NEW d, Checkable(d), NEW outcome, NEW K, NEW F, Caused(d, outcome, F),
         Accepted(d, outcome) => \A n \in NamesIn(d) : \E k \in K : k.by = <<Module, n>>,
         NEW u, u = LastValues(d, outcome, Accepted(d, outcome), Cause(d, outcome))
  PROVE  u \in [NamesIn(d) -> Values] /\ Gives(u, d, outcome, K, F)
<1>1. PICK V, o : V = NamesIn(d) /\ o = d.item
  OBVIOUS
<1>2. V \in SUBSET Labels /\ o \in Nat
  BY <1>1 DEF Checkable
<1>3. CASE Accepted(d, outcome)
  <2>1. u = Available(d)
    BY <1>3, Zenon DEF LastValues
  <2>2. u = [n \in V |-> Standing("checked", <<Module, n>>, o, NoName)]
    BY <1>1, <2>1, Zenon DEF Available
  <2>3. \A n \in V : /\ u[n].tag = "checked" /\ u[n].by = <<Module, n>> /\ u[n].item = o /\ u[n].root = NoName
                     /\ u[n] = [tag |-> "checked", by |-> <<Module, n>>, item |-> o, root |-> NoName]
    BY <2>2 DEF Standing
  <2>4. \A n \in V : u[n] \in Values
    <3>1. SUFFICES ASSUME NEW n \in V PROVE u[n] \in Values
      OBVIOUS
    <3>2. PICK key \in Keys : key = <<Module, n>>
      BY <1>2, KeyShape
    <3>3. u[n] = [tag |-> "checked", by |-> key, item |-> o, root |-> NoName]
      BY <2>3, <3>2
    <3>4. QED
      BY <1>2, <3>3 DEF Values
  <2>5. u \in [V -> Values]
    BY <2>2, <2>4
  <2>6. \A n \in V : Grounds(u[n], K, F)
    BY <1>1, <1>3, <2>3 DEF Grounds
  <2>7. QED
    BY <1>1, <2>3, <2>5, <2>6 DEF Gives
<1>4. CASE ~ Accepted(d, outcome)
  <2>1. PICK root : root = Cause(d, outcome)
    OBVIOUS
  <2>2. root \in F /\ root \in Keys
    BY <1>4, <2>1 DEF Caused
  <2>3. u = Unavailable(V, o, root)
    BY <1>1, <1>4, <2>1, Zenon DEF LastValues
  <2>4. u \in [V -> Values] /\ Refuses(u, V, o, root)
    BY <1>2, <2>2, <2>3, UnavailableShape, Zenon
  <2>5. \A n \in V : u[n].tag = "untranslated" /\ u[n].by = <<Module, n>> /\ u[n].item = o /\ u[n].root = root
    BY <2>4, Zenon DEF Refuses
  <2>6. \A n \in V : Grounds(u[n], K, F)
    BY <2>2, <2>5 DEF Grounds
  <2>7. QED
    BY <1>1, <1>4, <2>4, <2>5, <2>6 DEF Gives
<1>5. QED
  BY <1>3, <1>4

(* The facts of a check, wherever it is.                                   *)
LEMMA CheckFacts ==
  ASSUME DeclarationTypeOK, NEW d, Checkable(d), NEW W, EnvOK(env, kernel, rootFailures, owner, W, groups),
         NEW outcome, NEW K, NEW F, Judged(d, outcome, K, F), NEW e, e = BindQualified(env, d.refs),
         NEW R, NEW u, u = LastValues(d, outcome, Accepted(d, outcome), Cause(d, outcome)), NEW f, f = Published(e, R, u)
  PROVE  /\ e \in Envs /\ e.plain = env.plain /\ EnvOK(e, kernel, rootFailures, owner, W, groups)
         /\ f \in Envs /\ Publishes(e, f, NamesIn(d), R) /\ Gives(f.plain, d, outcome, K, F)
         /\ Caused(d, outcome, F) /\ Deepens(K)
<1>1. env \in Envs
  BY TypeFacts
<1>2. e \in Envs /\ e.plain = env.plain /\ EnvOK(e, kernel, rootFailures, owner, W, groups)
  BY <1>1, Binding
<1>3. Caused(d, outcome, F) /\ Deepens(K)
      /\ (Accepted(d, outcome) => \A n \in NamesIn(d) : \E k \in K : k.by = <<Module, n>>)
  BY JudgedCause, JudgedKernel, Zenon
<1>4. u \in [NamesIn(d) -> Values] /\ Gives(u, d, outcome, K, F)
  BY <1>3, ValuesShape, Zenon
<1>5. PICK V \in SUBSET Labels : V = NamesIn(d)
  BY DEF Checkable
<1>6. u \in [V -> Values]
  BY <1>4, <1>5
<1>7. f \in Envs /\ Publishes(e, f, V, R) /\ \A n \in V : f.plain[n] = u[n]
  BY <1>2, <1>6, PublishedShape
<1>8. Gives(f.plain, d, outcome, K, F)
  BY <1>4, <1>5, <1>7 DEF Gives
<1>9. QED
  BY <1>2, <1>3, <1>5, <1>7, <1>8

LEMMA CheckItemKeeps ==
  ASSUME DeclarationTypeOK, GroupInv, Idle, Fresh, NEW outcome, CheckDeclaration(outcome)
  PROVE  DInv'
<1>1. PICK d, ds : d = Head(queue) /\ ds = <<d>>
  OBVIOUS
<1>2. /\ queue # <<>> /\ Tail(queue) = <<>> /\ d \in Sources /\ d.item = items
      /\ NamesIn(d) \subseteq Labels /\ AllNames(ds) = NamesIn(d)
  BY <1>1, AfterItem
<1>3. active = NoGroup /\ EnvOK(env, kernel, rootFailures, owner, ToCome(groups), groups) /\ items \in Nat
      /\ DOMAIN owner \subseteq Labels
  BY TypeFacts DEF Idle
<1>4. /\ ~ Conflict(ds, items)
      /\ Blocking(d).tag # "checked" => outcome = "refused"
      /\ items' = items /\ declared' = declared \cup NamesIn(d) /\ owner' = Reserved(ds, items)
      /\ rootFailures' = IF Accepted(d, outcome) THEN rootFailures ELSE rootFailures \cup OwnRoots(Blocking(d), d)
      /\ env' = Published(BindQualified(env, d.refs), declared',
                          LastValues(d, outcome, Accepted(d, outcome), Cause(d, outcome)))
      /\ kernel' = IF Accepted(d, outcome) \/ (outcome \in {"overdue", "late"} /\ ~ Managed)
                   THEN kernel \cup Definitions(d) ELSE kernel
      /\ queue' = <<>> /\ groups' = groups /\ active' = active
  <2>1. /\ active = NoGroup => ~ Conflict(<<d>>, d.item)
        /\ Blocking(d).tag # "checked" => outcome = "refused"
        /\ items' = items /\ declared' = declared \cup NamesIn(d)
        /\ owner' = IF active = NoGroup THEN Reserved(<<d>>, d.item) ELSE owner
        /\ rootFailures' = IF Accepted(d, outcome) THEN rootFailures ELSE rootFailures \cup OwnRoots(Blocking(d), d)
        /\ IF active # NoGroup /\ ~ Accepted(d, outcome)
           THEN Rollback([name |-> d.name, ok |-> Accepted(d, outcome), root |-> Cause(d, outcome)])
           ELSE /\ env' = Published(BindQualified(env, d.refs), declared',
                                    LastValues(d, outcome, Accepted(d, outcome), Cause(d, outcome)))
                /\ kernel' = IF Accepted(d, outcome) \/ (outcome \in {"overdue", "late"} /\ ~ Managed)
                             THEN kernel \cup Definitions(d) ELSE kernel
                /\ queue' = Tail(queue) /\ groups' = groups /\ active' = active
    BY <1>1, CheckShape, Zenon
  <2>2. QED
    BY <1>1, <1>2, <1>3, <2>1, Zenon
<1>5. Checkable(d)
  <2>1. d.refs \in Seq(References) /\ d.name \in Labels
    BY <1>2 DEF Sources
  <2>2. QED
    BY <1>2, <1>3, <2>1 DEF Checkable
<1>6. PICK V, e, u : /\ V = NamesIn(d) /\ e = BindQualified(env, d.refs)
                     /\ u = LastValues(d, outcome, Accepted(d, outcome), Cause(d, outcome))
  OBVIOUS
<1>7. Judged(d, outcome, kernel', rootFailures') /\ env' = Published(e, declared', u)
  BY <1>4, <1>6, Zenon DEF Judged
<1>8. /\ e \in Envs /\ EnvOK(e, kernel, rootFailures, owner, ToCome(groups), groups)
      /\ env' \in Envs /\ Publishes(e, env', V, declared') /\ Gives(env'.plain, d, outcome, kernel', rootFailures')
      /\ Caused(d, outcome, rootFailures') /\ Deepens(kernel')
  BY <1>3, <1>5, <1>6, <1>7, CheckFacts, Zenon
<1>9. V \in SUBSET Labels /\ AllNames(ds) = V /\ \A n \in V : n \notin DOMAIN owner
  <2>1. \A n \in AllNames(ds) : n \notin DOMAIN owner
    BY <1>4, NoConflict
  <2>2. QED
    BY <1>2, <1>6, <2>1
<1>10. /\ DOMAIN owner' = DOMAIN owner \cup V /\ owner' = [n \in DOMAIN owner' |-> owner'[n]]
       /\ \A n \in DOMAIN owner' : owner'[n] = IF n \in DOMAIN owner THEN owner[n] ELSE items
  <2>1. Reserves(owner', ds, items)
    BY <1>4, ReservedShape, Zenon
  <2>2. QED
    BY <1>9, <2>1, Zenon DEF Reserves
<1>11. V \subseteq declared' /\ declared \subseteq declared' /\ declared' \subseteq DOMAIN owner'
  <2>1. declared \subseteq DOMAIN owner
    BY DEF DeclarationTypeOK
  <2>2. QED
    BY <1>4, <1>6, <1>10, <2>1
<1>12. \A n \in V : /\ env'.plain[n].item = items /\ env'.plain[n].by = <<Module, n>>
                    /\ Grounds(env'.plain[n], kernel', rootFailures')
  BY <1>2, <1>6, <1>8, Zenon DEF Gives
<1>13. \A n \in V : /\ n \notin DOMAIN owner /\ (n \in declared' => n \in DOMAIN owner')
                    /\ env'.plain[n].item = items /\ env'.plain[n].by = <<Module, n>>
                    /\ Grounds(env'.plain[n], kernel', rootFailures')
  BY <1>9, <1>10, <1>12
<1>14. /\ DOMAIN owner \subseteq DOMAIN owner' /\ (\A n \in DOMAIN owner : owner'[n] = owner[n])
       /\ DOMAIN owner' \subseteq Labels
       /\ \A n \in DOMAIN owner' : n \notin DOMAIN owner => owner'[n] = items /\ n \in V /\ n \in declared'
  BY <1>3, <1>9, <1>10, <1>11
<1>15. rootFailures \subseteq rootFailures' /\ rootFailures' \in SUBSET Keys
  BY <1>8, Zenon DEF Caused
<1>16. kernel \subseteq kernel' /\ kernel' \in SUBSET Kernels
       /\ \A k \in kernel' : \A n \in k.uses : \E l \in kernel' : l.by = n
  BY <1>8, Zenon DEF Deepens
<1>17. owner' = [n \in DOMAIN owner' |-> owner'[n]] /\ declared \subseteq declared' /\ declared' \subseteq DOMAIN owner'
  BY <1>10, <1>11
<1>18. /\ queue' = <<>> /\ items' = items /\ groups' = groups /\ active' = active
  BY <1>4
<1>19. V \in SUBSET Labels /\ Publishes(e, env', V, declared') /\ env' \in Envs /\ e \in Envs
       /\ EnvOK(e, kernel, rootFailures, owner, ToCome(groups), groups)
  BY <1>8, <1>9
<1>20. QED
  BY <1>13, <1>14, <1>15, <1>16, <1>17, <1>18, <1>19, ItemEnds

(* The member that is checked, and what its group still has to come.       *)
Member(done, g, ds, m, d) ==
  /\ Open(g, ds, m) /\ Busy(done) /\ done < m /\ queue[1] = ds[done + 1] /\ d = queue[1]

LEMMA MemberFacts ==
  ASSUME DeclarationTypeOK, GroupInv, NEW done \in Nat, NEW g, NEW ds, NEW m, NEW d, Member(done, g, ds, m, d)
  PROVE  /\ Checkable(d) /\ d.item = groups[g].item
         /\ NamesIn(d) \subseteq NamesOf(g) /\ NamesIn(d) \cap ToCome(groups) = {}
         /\ NamesIn(d) \cap After(ds, done + 1) = {}
         /\ After(ds, done) = After(ds, done + 1) \cup NamesIn(d)
         /\ After(ds, done) \subseteq NamesOf(g)
<1>1. /\ g \in DOMAIN groups /\ ds \in Seq(Members) /\ m \in Nat /\ DOMAIN ds = 1 .. m /\ done \in 0 .. m
  BY BusyHead DEF Member
<1>2. ds = groups[g].members /\ d = ds[done + 1] /\ done < m /\ groups[g].state = "checking"
  BY BusyFacts DEF Member, Open
<1>3. PICK k \in 1 .. m : k = done + 1
  BY <1>1, <1>2
<1>4. d = ds[k] /\ d \in Members
  BY <1>1, <1>2, <1>3, MemberShape
<1>5. d.item = groups[g].item
  BY <1>1, <1>2, <1>4 DEF GroupInv
<1>6. groups[g].item \in Nat
  <2>1. groups[g].item \in 1 .. items
    BY <1>1 DEF GroupInv
  <2>2. QED
    BY <2>1, TypeFacts
<1>7. d.refs \in Seq(References) /\ d.name \in Labels /\ NamesIn(d) \in SUBSET Labels
  BY <1>4 DEF Members, NamesIn
<1>8. NamesIn(d) \subseteq NamesOf(g)
  BY <1>1, <1>2, <1>4 DEF NamesOf, AllNames
<1>9. NamesIn(d) \cap ToCome(groups) = {}
  <2>1. ASSUME NEW n \in NamesIn(d), n \in ToCome(groups) PROVE FALSE
    <3>1. PICK h \in DOMAIN groups : groups[h].state = "reserved" /\ n \in NamesOf(h)
      BY <2>1 DEF ToCome, NamesOf
    <3>2. h # g
      BY <1>2, <3>1
    <3>3. NamesOf(g) \cap NamesOf(h) = {}
      BY <1>1, <3>2 DEF GroupInv
    <3>4. QED
      BY <1>8, <3>1, <3>3
  <2>2. QED
    BY <2>1
<1>10. NamesIn(d) \cap After(ds, k) = {}
  <2>1. ASSUME NEW n \in NamesIn(d), n \in After(ds, k) PROVE FALSE
    <3>1. PICK j \in DOMAIN ds : j > k /\ n \in NamesIn(ds[j])
      BY <2>1 DEF After
    <3>2. j # k
      BY <1>1, <3>1
    <3>3. NamesIn(ds[k]) \cap NamesIn(ds[j]) = {}
      BY <1>1, <1>2, <3>2 DEF GroupInv
    <3>4. QED
      BY <1>4, <3>1, <3>3
  <2>2. QED
    BY <2>1
<1>11. After(ds, done) = After(ds, done + 1) \cup NamesIn(ds[done + 1])
  <2>1. done \in 0 .. m - 1
    BY <1>1, <1>2
  <2>2. QED
    BY <1>1, <2>1, AfterShape
<1>12. After(ds, done) \subseteq NamesOf(g)
  BY <1>1, <1>2, AfterShape DEF NamesOf
<1>13. QED
  BY <1>2, <1>3, <1>5, <1>6, <1>7, <1>8, <1>9, <1>10, <1>11, <1>12 DEF Checkable

LEMMA CheckMemberKeeps ==
  ASSUME DeclarationTypeOK, GroupInv, NEW done \in Nat, NEW g, NEW ds, NEW m, NEW d, Member(done, g, ds, m, d),
         NEW outcome, CheckDeclaration(outcome), Accepted(d, outcome)
  PROVE  DInv'
<1>1. /\ Checkable(d) /\ d.item = groups[g].item
      /\ NamesIn(d) \subseteq NamesOf(g) /\ NamesIn(d) \cap ToCome(groups) = {}
      /\ NamesIn(d) \cap After(ds, done + 1) = {}
      /\ After(ds, done) = After(ds, done + 1) \cup NamesIn(d)
      /\ After(ds, done) \subseteq NamesOf(g)
  BY MemberFacts
<1>2. Open(g, ds, m) /\ Busy(done) /\ done < m
  BY DEF Member
<1>3. /\ g \in DOMAIN groups /\ ds \in Seq(Members) /\ m \in Nat /\ DOMAIN ds = 1 .. m /\ done \in 0 .. m /\ queue # <<>>
  BY <1>2, BusyHead
<1>4. /\ active # NoGroup /\ BlockAt(queue, - done, groups, g) /\ Chain(queue, groups)
      /\ groups[g].state = "checking" /\ Upto(groups, g, g + 1)
      /\ \A h \in DOMAIN groups : h >= g => groups[h].item = items
      /\ EnvOK(env, kernel, rootFailures, owner, ToCome(groups) \cup After(ds, done), groups)
      /\ \A n \in NamesOf(g) \ After(ds, done) : env.plain[n].tag = "checked"
      /\ EnvOK(active.env, active.kernel, rootFailures, owner, ToCome(groups) \cup NamesOf(g), groups)
  BY <1>2, BusyFacts
<1>5. /\ g = active.group /\ ds = groups[g].members /\ m = Len(ds)
  BY <1>2 DEF Open
<1>6. groups \in Seq(Groups) /\ IsSeq(queue) /\ Len(queue) \in Nat /\ env \in Envs /\ items \in Nat
      /\ DOMAIN owner \subseteq Labels
  BY TypeFacts
<1>7. d = Head(queue) /\ Suffix(Tail(queue), queue, 1) /\ Len(queue) # 0
  BY <1>3, <1>6, TailShape DEF Member
<1>8. PICK e, u : e = BindQualified(env, d.refs) /\ u = LastValues(d, outcome, Accepted(d, outcome), Cause(d, outcome))
  OBVIOUS
<1>9. /\ items' = items /\ declared' = declared \cup NamesIn(d) /\ owner' = owner /\ rootFailures' = rootFailures
      /\ env' = Published(e, declared', u) /\ queue' = Tail(queue) /\ groups' = groups /\ active' = active
      /\ Judged(d, outcome, kernel', rootFailures')
  <2>1. /\ Blocking(d).tag # "checked" => outcome = "refused"
        /\ items' = items /\ declared' = declared \cup NamesIn(d)
        /\ owner' = IF active = NoGroup THEN Reserved(<<d>>, d.item) ELSE owner
        /\ rootFailures' = IF Accepted(d, outcome) THEN rootFailures ELSE rootFailures \cup OwnRoots(Blocking(d), d)
        /\ IF active # NoGroup /\ ~ Accepted(d, outcome)
           THEN Rollback([name |-> d.name, ok |-> Accepted(d, outcome), root |-> Cause(d, outcome)])
           ELSE /\ env' = Published(BindQualified(env, d.refs), declared',
                                    LastValues(d, outcome, Accepted(d, outcome), Cause(d, outcome)))
                /\ kernel' = IF Accepted(d, outcome) \/ (outcome \in {"overdue", "late"} /\ ~ Managed)
                             THEN kernel \cup Definitions(d) ELSE kernel
                /\ queue' = Tail(queue) /\ groups' = groups /\ active' = active
    BY <1>7, CheckShape, Zenon
  <2>2. Judged(d, outcome, kernel', rootFailures')
    BY <2>1, Zenon DEF Judged
  <2>3. QED
    BY <1>4, <1>8, <2>1, <2>2, Zenon
<1>10. PICK W, V, X : W = ToCome(groups) \cup After(ds, done) /\ V = NamesIn(d) /\ X = ToCome(groups) \cup After(ds, done + 1)
  OBVIOUS
<1>11. /\ e \in Envs /\ e.plain = env.plain /\ EnvOK(e, kernel, rootFailures, owner, W, groups)
       /\ env' \in Envs /\ Publishes(e, env', V, declared') /\ Gives(env'.plain, d, outcome, kernel', rootFailures')
       /\ Deepens(kernel')
  <2>1. EnvOK(env, kernel, rootFailures, owner, W, groups)
    BY <1>4, <1>10
  <2>2. /\ e \in Envs /\ e.plain = env.plain /\ EnvOK(e, kernel, rootFailures, owner, W, groups)
        /\ env' \in Envs /\ Publishes(e, env', NamesIn(d), declared') /\ Gives(env'.plain, d, outcome, kernel', rootFailures')
        /\ Deepens(kernel')
    BY <1>1, <1>8, <1>9, <2>1, CheckFacts, Zenon
  <2>3. QED
    BY <1>10, <2>2
<1>12. V \in SUBSET Labels /\ V \subseteq NamesOf(g) /\ V \cap X = {} /\ W = X \cup V /\ V \subseteq declared'
  BY <1>1, <1>9, <1>10 DEF Checkable
<1>13. \A n \in V : n \in DOMAIN owner /\ owner[n] = d.item
  <2>1. \A n \in NamesOf(g) : n \in DOMAIN owner /\ owner[n] = groups[g].item
    BY <1>3, Zenon DEF GroupInv
  <2>2. QED
    BY <1>1, <1>12, <2>1
<1>14. \A n \in V : /\ env'.plain[n].by = <<Module, n>> /\ env'.plain[n].item = d.item /\ env'.plain[n].tag = "checked"
                    /\ Grounds(env'.plain[n], kernel', rootFailures')
  BY <1>10, <1>11, Zenon DEF Gives
<1>15. \A n \in Labels : n \notin V => env'.plain[n] = env.plain[n]
  BY <1>11 DEF Publishes
<1>16. EnvOK(env', kernel', rootFailures', owner, X, groups)
  <2>1. \A k \in kernel : \E l \in kernel' : l.by = k.by
    BY <1>11, Zenon DEF Deepens
  <2>2. \A k \in kernel' : \A n \in k.uses : \E l \in kernel' : l.by = n
    BY <1>11, Zenon DEF Deepens
  <2>3. \A n \in V : Grounds(env'.plain[n], kernel', rootFailures')
    BY <1>14
  <2>4. \A n \in V : n \in DOMAIN owner /\ n \notin X =>
          env'.plain[n].item = owner[n] /\ env'.plain[n].by = <<Module, n>> /\ n \in declared'
    BY <1>12, <1>13, <1>14
  <2>5. \A n \in DOMAIN owner : n \notin X /\ n \notin V => n \in DOMAIN owner /\ n \notin W /\ owner[n] = owner[n]
    BY <1>12
  <2>6. \A n \in Labels : n \notin DOMAIN owner \/ n \in X => (n \notin DOMAIN owner \/ n \in W) /\ ~ (n \in V /\ n \in declared')
    BY <1>12, <1>13
  <2>7. \A n \in V : n \in declared' => n \notin DOMAIN owner \/ n \in W
    BY <1>12
  <2>8. \A h \in DOMAIN groups : groups[h].state = "checked" => \A n \in AllNames(groups[h].members) : env'.plain[n].tag = "checked"
    <3>1. SUFFICES ASSUME NEW h \in DOMAIN groups, groups[h].state = "checked", NEW n \in AllNames(groups[h].members)
                   PROVE  env'.plain[n].tag = "checked"
      OBVIOUS
    <3>2. h # g /\ n \in NamesOf(h)
      BY <1>4, <3>1 DEF NamesOf
    <3>3. NamesOf(g) \cap NamesOf(h) = {} /\ n \in DOMAIN owner
      BY <1>3, <3>2 DEF GroupInv
    <3>4. n \notin V /\ n \in Labels
      BY <1>6, <1>12, <3>2, <3>3
    <3>5. \A l \in DOMAIN groups : groups[l].state = "checked" => \A p \in AllNames(groups[l].members) : env.plain[p].tag = "checked"
      BY <1>4, Zenon DEF EnvOK
    <3>6. QED
      BY <1>15, <3>1, <3>4, <3>5
  <2>9. rootFailures \subseteq rootFailures'
    BY <1>9
  <2>10. QED
    BY <1>6, <1>11, <1>12, <2>1, <2>2, <2>3, <2>4, <2>5, <2>6, <2>7, <2>8, <2>9, Publishing
<1>17. PICK next \in Nat : next = done + 1
  OBVIOUS
<1>18. next \in 0 .. m
  BY <1>2, <1>3, <1>17
<1>19. BlockAt(queue', - next, groups, g) /\ Chain(queue', groups)
  <2>1. PICK i \in Int, k \in Nat : i = - done /\ k = 1
    OBVIOUS
  <2>2. k \in 0 .. Len(queue)
    BY <1>6, <1>7, <2>1
  <2>3. Suffix(queue', queue, k)
    BY <1>7, <1>9, <2>1
  <2>4. BlockAt(queue, i, groups, g)
    BY <1>4, <2>1
  <2>5. i + Len(groups[g].members) + 1 > k
    <3>1. Len(groups[g].members) = m
      BY <1>5
    <3>2. i + m + 1 > k
      BY <1>2, <1>3, <2>1
    <3>3. QED
      BY <3>1, <3>2
  <2>6. BlockAt(queue', i - k, groups, g)
    BY <1>3, <1>6, <2>2, <2>3, <2>4, <2>5, SuffixBlock, Zenon
  <2>7. i - k = - next
    BY <1>17, <2>1
  <2>8. Chain(queue', groups)
    BY <1>4, <1>6, <2>2, <2>3, SuffixChain, Zenon
  <2>9. QED
    BY <2>6, <2>7, <2>8
<1>20. \A n \in NamesOf(g) \ After(ds, next) : env'.plain[n].tag = "checked"
  <2>1. SUFFICES ASSUME NEW n \in NamesOf(g), n \notin After(ds, next) PROVE env'.plain[n].tag = "checked"
    OBVIOUS
  <2>2. n \in Labels
    BY <1>3, <1>6 DEF GroupInv
  <2>3. CASE n \in V
    BY <1>14, <2>3
  <2>4. CASE n \notin V
    <3>1. n \notin After(ds, done)
      BY <1>1, <1>10, <1>17, <2>1, <2>4
    <3>2. QED
      BY <1>4, <1>15, <2>1, <2>2, <2>4, <3>1
  <2>5. QED
    BY <2>3, <2>4
<1>21. Busy(next)'
  <2>1. NamesOf(active.group)' = NamesOf(g) /\ ToCome(groups)' = ToCome(groups)
        /\ After(groups[active.group].members, next)' = After(ds, next)
    BY <1>5, <1>9 DEF NamesOf
  <2>2. EnvOK(env, kernel, rootFailures, owner, ToCome(groups) \cup After(groups[active.group].members, next), groups)'
    BY <1>9, <1>10, <1>16, <1>17, <2>1
  <2>3. EnvOK(active.env, active.kernel, rootFailures, owner, ToCome(groups) \cup NamesOf(active.group), groups)'
    BY <1>4, <1>9, <2>1
  <2>4. \A n \in NamesOf(active.group)' \ After(groups[active.group].members, next)' : env'.plain[n].tag = "checked"
    BY <1>20, <2>1
  <2>5. active' # NoGroup /\ next \in 0 .. Len(groups'[active'.group].members)
    BY <1>4, <1>5, <1>9, <1>18
  <2>6. /\ BlockAt(queue', - next, groups', active'.group) /\ Chain(queue', groups')
        /\ groups'[active'.group].state = "checking" /\ Upto(groups', active'.group, active'.group + 1)
        /\ \A h \in DOMAIN groups' : h >= active'.group => groups'[h].item = items'
    BY <1>4, <1>5, <1>9, <1>19
  <2>7. QED
    BY <2>2, <2>3, <2>4, <2>5, <2>6 DEF Busy
<1>22. GroupInv'
  <2>1. declared \subseteq declared' /\ rootFailures \subseteq rootFailures' /\ items <= items' /\ items' \in Nat
    BY <1>6, <1>9
  <2>2. DOMAIN owner \subseteq DOMAIN owner' /\ \A n \in DOMAIN owner : owner'[n] = owner[n]
    BY <1>9
  <2>3. QED
    BY <1>9, <2>1, <2>2, GroupsStay
<1>23. DeclarationTypeOK'
  <2>1. IsSeq(queue') /\ kernel' \in SUBSET Kernels
    BY <1>7, <1>9, <1>11 DEF Suffix, Deepens
  <2>2. declared' \subseteq DOMAIN owner
    BY <1>9, <1>10, <1>13 DEF DeclarationTypeOK
  <2>3. QED
    BY <1>9, <1>11, <2>1, <2>2 DEF DeclarationTypeOK
<1>24. QED
  BY <1>21, <1>22, <1>23 DEF DInv

(* The first end in the queue is the open group's.                         *)
LEMMA FirstEnd ==
  ASSUME DeclarationTypeOK, NEW done \in Nat, Busy(done), NEW g, NEW ds, NEW m, Open(g, ds, m)
  PROVE  SelectInSeq(queue, LAMBDA q : q.kind = "end") = m - done + 1
<1>1. /\ ds \in Seq(Members) /\ m \in Nat /\ DOMAIN ds = 1 .. m /\ done \in 0 .. m
      /\ m - done + 1 \in DOMAIN queue /\ queue[m - done + 1].kind = "end"
      /\ \A j \in 1 .. m - done : queue[j] = ds[done + j]
  BY BusyHead
<1>2. PICK n \in Nat : n = Len(queue) /\ DOMAIN queue = 1 .. n
  BY TypeFacts
<1>3. PICK end \in Nat : end = m - done + 1
  BY <1>1
<1>4. end \in 1 .. n /\ queue[end].kind = "end"
  BY <1>1, <1>2, <1>3
<1>5. ASSUME NEW j \in 1 .. n, j < end PROVE queue[j].kind # "end"
  <2>1. j \in 1 .. m - done /\ done + j \in 1 .. m
    BY <1>1, <1>3, <1>5
  <2>2. queue[j] = ds[done + j] /\ ds[done + j] \in Members
    BY <1>1, <2>1, MemberShape
  <2>3. QED
    BY <2>2 DEF Members
<1>6. PICK S : S = {i \in 1 .. n : queue[i].kind = "end"}
  OBVIOUS
<1>7. end \in S /\ \A j \in S : end <= j
  BY <1>4, <1>5, <1>6
<1>8. \A x \in S : (\A j \in S : x <= j) => x = end
  BY <1>3, <1>6, <1>7
<1>9. Min(S) = end
  BY <1>7, <1>8, Zenon DEF Min
<1>10. SelectInSeq(queue, LAMBDA q : q.kind = "end") = IF S # {} THEN Min(S) ELSE 0
  BY <1>2, <1>6 DEF SelectInSeq
<1>11. QED
  BY <1>3, <1>7, <1>9, <1>10

LEMMA RollbackKeeps ==
  ASSUME DeclarationTypeOK, GroupInv, NEW done \in Nat, NEW g, NEW ds, NEW m, NEW d, Member(done, g, ds, m, d),
         NEW outcome, CheckDeclaration(outcome), ~ Accepted(d, outcome)
  PROVE  DInv'
<1>1. /\ Checkable(d) /\ NamesIn(d) \subseteq NamesOf(g) /\ After(ds, done) \subseteq NamesOf(g)
  BY MemberFacts
<1>2. Open(g, ds, m) /\ Busy(done) /\ done < m
  BY DEF Member
<1>3. /\ g \in DOMAIN groups /\ ds \in Seq(Members) /\ m \in Nat /\ DOMAIN ds = 1 .. m /\ done \in 0 .. m
      /\ queue # <<>> /\ m - done + 1 \in DOMAIN queue
  BY <1>2, BusyHead
<1>4. /\ active # NoGroup /\ BlockAt(queue, - done, groups, g) /\ Chain(queue, groups)
      /\ groups[g].state = "checking" /\ Upto(groups, g, g + 1)
      /\ \A h \in DOMAIN groups : h >= g => groups[h].item = items
      /\ EnvOK(env, kernel, rootFailures, owner, ToCome(groups) \cup After(ds, done), groups)
      /\ EnvOK(active.env, active.kernel, rootFailures, owner, ToCome(groups) \cup NamesOf(g), groups)
  BY <1>2, BusyFacts
<1>5. /\ g = active.group /\ ds = groups[g].members /\ m = Len(ds)
  BY <1>2 DEF Open
<1>6. /\ groups \in Seq(Groups) /\ IsSeq(queue) /\ Len(queue) \in Nat /\ items \in Nat
      /\ active.env \in Envs /\ active.kernel \in SUBSET Kernels /\ DOMAIN queue = 1 .. Len(queue)
  BY <1>4, TypeFacts
<1>7. d = Head(queue)
  BY <1>3, <1>6, TailShape DEF Member
<1>8. PICK root, rest : root = Cause(d, outcome) /\ rest = m - done + 1
  OBVIOUS
<1>9. /\ items' = items /\ declared' = declared \cup NamesIn(d) /\ owner' = owner
      /\ Blocking(d).tag # "checked" => outcome = "refused"
      /\ rootFailures' = IF Accepted(d, outcome) THEN rootFailures ELSE rootFailures \cup OwnRoots(Blocking(d), d)
      /\ Rollback([name |-> d.name, ok |-> Accepted(d, outcome), root |-> Cause(d, outcome)])
  <2>1. /\ Blocking(d).tag # "checked" => outcome = "refused"
        /\ items' = items /\ declared' = declared \cup NamesIn(d)
        /\ owner' = IF active = NoGroup THEN Reserved(<<d>>, d.item) ELSE owner
        /\ rootFailures' = IF Accepted(d, outcome) THEN rootFailures ELSE rootFailures \cup OwnRoots(Blocking(d), d)
        /\ IF active # NoGroup /\ ~ Accepted(d, outcome)
           THEN Rollback([name |-> d.name, ok |-> Accepted(d, outcome), root |-> Cause(d, outcome)])
           ELSE /\ env' = Published(BindQualified(env, d.refs), declared',
                                    LastValues(d, outcome, Accepted(d, outcome), Cause(d, outcome)))
                /\ kernel' = IF Accepted(d, outcome) \/ (outcome \in {"overdue", "late"} /\ ~ Managed)
                             THEN kernel \cup Definitions(d) ELSE kernel
                /\ queue' = Tail(queue) /\ groups' = groups /\ active' = active
    BY <1>7, CheckShape, Zenon
  <2>2. QED
    BY <1>4, <2>1, Zenon
<1>10. /\ env' = Published(active.env, declared', Unavailable(AllNames(groups[g].members), groups[g].item, root))
       /\ groups' = [groups EXCEPT ![g].state = "failed", ![g].root = root]
       /\ kernel' = active.kernel /\ active' = NoGroup
       /\ queue' = SubSeq(queue, rest + 1, Len(queue))
  <2>1. PICK failed : failed = [name |-> d.name, ok |-> Accepted(d, outcome), root |-> Cause(d, outcome)]
    OBVIOUS
  <2>2. failed.root = root
    BY <1>8, <2>1
  <2>3. Rollback(failed)
    BY <1>9, <2>1
  <2>4. SelectInSeq(queue, LAMBDA q : q.kind = "end") = rest
    BY <1>2, <1>8, FirstEnd
  <2>5. /\ env' = Published(active.env, declared', Unavailable(AllNames(groups[active.group].members), groups[active.group].item, failed.root))
        /\ groups' = [groups EXCEPT ![active.group].state = "failed", ![active.group].root = failed.root]
        /\ kernel' = active.kernel /\ active' = NoGroup
        /\ queue' = SubSeq(queue, SelectInSeq(queue, LAMBDA q : q.kind = "end") + 1, Len(queue))
    BY <2>3, Zenon DEF Rollback
  <2>6. QED
    BY <1>5, <2>2, <2>4, <2>5, Zenon
<1>11. Caused(d, outcome, rootFailures')
  <2>1. PICK K, W : /\ K = IF Accepted(d, outcome) \/ (outcome \in {"overdue", "late"} /\ ~ Managed)
                           THEN kernel \cup Definitions(d) ELSE kernel
                    /\ W = ToCome(groups) \cup After(ds, done)
    OBVIOUS
  <2>2. Judged(d, outcome, K, rootFailures')
    BY <1>9, <2>1, Zenon DEF Judged
  <2>3. EnvOK(env, kernel, rootFailures, owner, W, groups)
    BY <1>4, <2>1
  <2>4. QED
    BY <1>1, <2>2, <2>3, JudgedCause, Zenon
<1>12. rootFailures \subseteq rootFailures' /\ rootFailures' \in SUBSET Keys /\ root \in rootFailures' /\ root \in Keys
  BY <1>8, <1>11 DEF Caused
<1>13. Becomes(groups, groups', g, "failed", root)
  <2>1. "failed" \in {"reserved", "checking", "checked", "failed", "blocked"} /\ root \in Keys \cup {NoName}
    BY <1>12
  <2>2. QED
    BY <1>3, <1>6, <1>10, <2>1, GroupBecomes, Zenon
<1>14. groups' \in Seq(Groups) /\ SameGroups(groups, groups')
  BY <1>13 DEF Becomes
<1>15. declared \subseteq declared'
  BY <1>9
<1>16. GroupInv'
  BY <1>3, <1>9, <1>12, <1>13, <1>15, BecomesInv
<1>17. ToCome(groups) = ToCome(groups') /\ ToCome(groups') \cap NamesOf(g) = {}
  BY <1>3, <1>4, <1>13, BecomesToCome
<1>18. PICK W : W = ToCome(groups) \cup NamesOf(g)
  OBVIOUS
<1>19. env' \in Envs /\ EnvOK(env', active.kernel, rootFailures', owner, W \ NamesOf(g), groups')
  <2>1. NamesOf(g) \subseteq W
    BY <1>18
  <2>2. Refusing(active.env, active.kernel, rootFailures, W, g, rootFailures', root, declared', groups', "failed", env')
    BY <1>3, <1>4, <1>6, <1>10, <1>12, <1>13, <1>15, <1>18, <2>1 DEF Refusing
  <2>3. QED
    BY <2>2, GroupRefused, Zenon
<1>20. EnvOK(env, kernel, rootFailures, owner, ToCome(groups), groups)'
  <2>1. W \ NamesOf(g) = ToCome(groups')
    BY <1>17, <1>18
  <2>2. QED
    BY <1>9, <1>10, <1>19, <2>1
<1>21. rest \in 0 .. Len(queue) /\ rest \in Nat
  BY <1>3, <1>6, <1>8
<1>22. Suffix(queue', queue, rest)
  BY <1>6, <1>10, <1>21, SuffixShape, Zenon
<1>23. Waits' \/ Grouped'
  <2>1. "failed" \in Settled
    BY DEF Settled
  <2>2. Upto(groups', g + 1, g + 1)
    BY <1>3, <1>4, <1>13, <2>1, SettledUpto
  <2>3. PICK i \in Int : i = - done
    OBVIOUS
  <2>4. rest = i + Len(groups[g].members) + 1
    BY <1>3, <1>5, <1>8, <2>3
  <2>5. BlockAt(queue, i, groups, g)
    BY <1>4, <2>3
  <2>6. QED
    BY <1>3, <1>4, <1>9, <1>14, <1>21, <1>22, <2>2, <2>4, <2>5, GroupLeft
<1>24. Idle'
  BY <1>10, <1>20, <1>23 DEF Idle
<1>25. DeclarationTypeOK'
  <2>1. IsSeq(queue')
    BY <1>22 DEF Suffix
  <2>2. declared' \subseteq DOMAIN owner
    <3>1. \A n \in NamesOf(g) : n \in DOMAIN owner
      BY <1>3, Zenon DEF GroupInv
    <3>2. QED
      BY <1>1, <1>9, <3>1 DEF DeclarationTypeOK
  <2>3. QED
    BY <1>6, <1>9, <1>10, <1>12, <1>14, <1>19, <2>1, <2>2 DEF DeclarationTypeOK
<1>26. QED
  BY <1>16, <1>24, <1>25 DEF DInv

LEMMA CheckDeclarationKeeps ==
  ASSUME DInv, NEW outcome, CheckDeclaration(outcome)
  PROVE  DInv'
<1>1. queue # <<>> /\ queue[1].kind \in {"def", "inductive"}
  BY DEF CheckDeclaration, IsNext
<1>2. DeclarationTypeOK /\ GroupInv
  BY DEF DInv
<1>3. \/ Idle /\ Fresh
      \/ \E done \in Nat : /\ Busy(done) /\ done < Len(groups[active.group].members)
                           /\ queue[1] = groups[active.group].members[done + 1]
  BY <1>1, Heads, Zenon
<1>4. CASE Idle /\ Fresh
  BY <1>2, <1>4, CheckItemKeeps
<1>5. CASE \E done \in Nat : /\ Busy(done) /\ done < Len(groups[active.group].members)
                             /\ queue[1] = groups[active.group].members[done + 1]
  <2>1. PICK done \in Nat : /\ Busy(done) /\ done < Len(groups[active.group].members)
                            /\ queue[1] = groups[active.group].members[done + 1]
    BY <1>5
  <2>2. PICK g, ds, m, d : Open(g, ds, m) /\ d = queue[1]
    BY Zenon DEF Open
  <2>3. Member(done, g, ds, m, d)
    BY <2>1, <2>2, Zenon DEF Member, Open
  <2>4. QED
    BY <1>2, <2>3, CheckMemberKeeps, RollbackKeeps, Zenon
<1>6. QED
  BY <1>3, <1>4, <1>5

-----------------------------------------------------------------------------
(* The invariant holds at first, and gives the properties.                 *)
Imported(library, n) ==
  IF n \notin DOMAIN library THEN Absent
  ELSE Standing(IF library[n] THEN "checked" ELSE "untranslated", <<Library, n>>, 0,
                IF library[n] THEN NoName ELSE <<Library, n>>)
Offers(library, K, F) ==
  /\ K = {[by |-> <<Library, n>>, uses |-> {}] : n \in {n \in DOMAIN library : library[n]}}
  /\ F = {<<Library, n>> : n \in {n \in DOMAIN library : ~ library[n]}}

LEMMA ImportedShape ==
  ASSUME NEW library \in Imports, NEW K, NEW F, Offers(library, K, F)
  PROVE  /\ K \in SUBSET Kernels /\ F \in SUBSET Keys /\ \A k \in K : k.uses = {}
         /\ \A n \in Labels : Imported(library, n) \in Values /\ Grounds(Imported(library, n), K, F)
<1>1. DOMAIN library \subseteq Labels /\ library \in [DOMAIN library -> BOOLEAN]
  BY DeclarationAssumption
<1>2. \A n \in Labels : <<Library, n>> \in Keys
  BY DEF Keys
<1>3. \A n \in DOMAIN library : library[n] => \E k \in K : k.by = <<Library, n>>
  <2>1. SUFFICES ASSUME NEW n \in DOMAIN library, library[n] PROVE \E k \in K : k.by = <<Library, n>>
    OBVIOUS
  <2>2. PICK k : k = [by |-> <<Library, n>>, uses |-> {}]
    OBVIOUS
  <2>3. k \in K
    BY <2>1, <2>2, Zenon DEF Offers
  <2>4. QED
    BY <2>2, <2>3
<1>4. \A n \in DOMAIN library : ~ library[n] => <<Library, n>> \in F
  BY Zenon DEF Offers
<1>5. ASSUME NEW k \in K PROVE k \in Kernels /\ k.uses = {}
  <2>1. PICK n \in DOMAIN library : k = [by |-> <<Library, n>>, uses |-> {}]
    BY Zenon DEF Offers
  <2>2. PICK key \in Keys : key = <<Library, n>>
    BY <1>1, <1>2
  <2>3. k = [by |-> key, uses |-> {}]
    BY <2>1, <2>2
  <2>4. QED
    BY <2>3 DEF Kernels
<1>6. F \in SUBSET Keys
  BY <1>1, <1>2 DEF Offers
<1>7. ASSUME NEW n \in Labels PROVE Imported(library, n) \in Values /\ Grounds(Imported(library, n), K, F)
  <2>1. PICK key \in Keys : key = <<Library, n>>
    BY <1>2
  <2>2. CASE n \notin DOMAIN library
    <3>1. Imported(library, n) = [tag |-> "absent", by |-> NoName, item |-> 0, root |-> NoName]
      BY <2>2, Zenon DEF Imported, Absent
    <3>2. QED
      BY <3>1 DEF Values, Grounds
  <2>3. CASE n \in DOMAIN library /\ library[n]
    <3>1. Imported(library, n) = [tag |-> "checked", by |-> key, item |-> 0, root |-> NoName]
      BY <2>1, <2>3, Zenon DEF Imported, Standing
    <3>2. \E k \in K : k.by = key
      BY <1>3, <2>1, <2>3
    <3>3. QED
      BY <3>1, <3>2 DEF Values, Grounds
  <2>4. CASE n \in DOMAIN library /\ ~ library[n]
    <3>1. Imported(library, n) = [tag |-> "untranslated", by |-> key, item |-> 0, root |-> key]
      BY <2>1, <2>4, Zenon DEF Imported, Standing
    <3>2. key \in F
      BY <1>4, <2>1, <2>4
    <3>3. QED
      BY <3>1, <3>2 DEF Values, Grounds
  <2>5. QED
    BY <2>2, <2>3, <2>4
<1>8. QED
  BY <1>5, <1>6, <1>7

LEMMA InitInv == ASSUME DeclarationInit PROVE DInv
<1>1. Module # Library
  BY DeclarationAssumption
<1>2. queue = <<>> /\ items = 0 /\ owner = <<>> /\ declared = {} /\ groups = <<>> /\ active = NoGroup
  BY DEF DeclarationInit
<1>3. PICK library \in Imports :
        /\ env = [plain |-> [n \in Labels |-> Imported(library, n)],
                  exact |-> [k \in Keys |-> IF k[1] = Library THEN Imported(library, k[2]) ELSE Absent],
                  spelled |-> [k \in Keys |-> Absent]]
        /\ Offers(library, kernel, rootFailures)
  BY Zenon DEF DeclarationInit, Imported, Offers
<1>4. PICK K, F : K = kernel /\ F = rootFailures
  OBVIOUS
<1>5. /\ K \in SUBSET Kernels /\ F \in SUBSET Keys /\ \A k \in K : k.uses = {}
      /\ \A n \in Labels : Imported(library, n) \in Values /\ Grounds(Imported(library, n), K, F)
  BY <1>3, <1>4, ImportedShape, Zenon
<1>6. Absent \in Values /\ Absent.tag = "absent" /\ Grounds(Absent, K, F)
  BY DEF Absent, Values, Grounds
<1>7. /\ \A n \in Labels : env.plain[n] = Imported(library, n)
      /\ \A k \in Keys : env.exact[k] = (IF k[1] = Library THEN Imported(library, k[2]) ELSE Absent)
      /\ \A k \in Keys : env.spelled[k] = Absent
  BY <1>3
<1>8. env \in Envs
  <2>1. PICK p, x, s : /\ p = [n \in Labels |-> Imported(library, n)]
                       /\ x = [k \in Keys |-> IF k[1] = Library THEN Imported(library, k[2]) ELSE Absent]
                       /\ s = [k \in Keys |-> Absent]
    OBVIOUS
  <2>2. p \in [Labels -> Values] /\ s \in [Keys -> Values]
    BY <1>5, <1>6, <2>1
  <2>3. x \in [Keys -> Values]
    BY <1>5, <1>6, <2>1, KeyShape
  <2>4. env = [plain |-> p, exact |-> x, spelled |-> s]
    BY <1>3, <2>1
  <2>5. QED
    BY <2>2, <2>3, <2>4 DEF Envs
<1>9. /\ \A n \in Labels : Grounds(env.plain[n], K, F)
      /\ \A k \in Keys : Grounds(env.exact[k], K, F) /\ Grounds(env.spelled[k], K, F)
  BY <1>5, <1>6, <1>7, KeyShape
<1>10. \A n \in Labels : env.exact[<<Module, n>>].tag = "absent"
  BY <1>1, <1>6, <1>7, KeyShape
<1>11. \A k \in Keys : env.spelled[k].tag \notin {"absent", "refused"} => env.spelled[k] = env.exact[k]
  BY <1>6, <1>7
<1>12. DOMAIN owner = {} /\ DOMAIN groups = {} /\ Len(groups) = 0
  BY <1>2
<1>13. EnvOK(env, K, F, owner, ToCome(groups), groups)
  <2>1. \A k \in K : \A u \in k.uses : \E l \in K : l.by = u
    BY <1>5
  <2>2. QED
    BY <1>9, <1>10, <1>11, <1>12, <2>1 DEF EnvOK
<1>14. GroupInv
  BY <1>12 DEF GroupInv
<1>15. Waits
  BY <1>2, <1>12 DEF Waits, Upto
<1>16. DeclarationTypeOK
  <2>1. IsSeq(queue)
    BY <1>2, NothingSeq
  <2>2. groups \in Seq(Groups)
    BY <1>2
  <2>3. DOMAIN owner \subseteq Labels /\ owner \in [DOMAIN owner -> 1 .. items] /\ declared \subseteq DOMAIN owner
    BY <1>2
  <2>4. QED
    BY <1>2, <1>4, <1>5, <1>8, <2>1, <2>2, <2>3 DEF DeclarationTypeOK
<1>17. Idle
  BY <1>2, <1>4, <1>13, <1>15 DEF Idle
<1>18. QED
  BY <1>14, <1>16, <1>17 DEF DInv

LEMMA StutterKeeps == ASSUME DInv, UNCHANGED declarationVars PROVE DInv'
<1>1. /\ queue' = queue /\ items' = items /\ env' = env /\ owner' = owner /\ declared' = declared
      /\ groups' = groups /\ active' = active /\ kernel' = kernel /\ rootFailures' = rootFailures
  BY DEF declarationVars
<1>2. DeclarationTypeOK' = DeclarationTypeOK
  BY <1>1 DEF DeclarationTypeOK
<1>3. GroupInv' = GroupInv /\ \A g : NamesOf(g)' = NamesOf(g)
  BY <1>1 DEF GroupInv, NamesOf
<1>4. Idle' = Idle
  BY <1>1 DEF Idle, Waits, Fresh, Grouped
<1>5. \A done : Busy(done)' = Busy(done)
  BY <1>1 DEF Busy, NamesOf
<1>6. QED
  BY <1>2, <1>3, <1>4, <1>5 DEF DInv

LEMMA NextKeeps == ASSUME DInv, [DeclarationNext]_declarationVars PROVE DInv'
<1>1. CASE \E item \in SourceItems : NextItem(item)
  BY <1>1, NextItemKeeps
<1>2. CASE Directive
  BY <1>2, DirectiveKeeps
<1>3. CASE RejectDuplicate
  BY <1>3, RejectDuplicateKeeps
<1>4. CASE FailExpansion
  BY <1>4, FailExpansionKeeps
<1>5. CASE Expand
  BY <1>5, ExpandKeeps
<1>6. CASE StartGroup
  BY <1>6, StartGroupKeeps
<1>7. CASE EndGroup
  BY <1>7, EndGroupKeeps
<1>8. CASE \E outcome \in Outcomes : CheckDeclaration(outcome)
  BY <1>8, CheckDeclarationKeeps
<1>9. CASE UNCHANGED declarationVars
  BY <1>9, StutterKeeps
<1>10. QED
  BY <1>1, <1>2, <1>3, <1>4, <1>5, <1>6, <1>7, <1>8, <1>9 DEF DeclarationNext

(* What is to come is the item's that is being handled.                    *)
LEMMA EnvStands ==
  ASSUME DInv
  PROVE  \E W : /\ EnvOK(env, kernel, rootFailures, owner, W, groups)
                /\ \A n \in W : n \in DOMAIN owner => ~ Handled(owner[n])
<1>1. DeclarationTypeOK /\ GroupInv /\ groups \in Seq(Groups) /\ DOMAIN groups = 1 .. Len(groups) /\ Len(groups) \in Nat
  BY TypeFacts DEF DInv
<1>2. \A g \in DOMAIN groups : \A n \in NamesOf(g) : n \in DOMAIN owner /\ owner[n] = groups[g].item
  BY <1>1, Zenon DEF GroupInv
<1>3. CASE Idle
  <2>1. EnvOK(env, kernel, rootFailures, owner, ToCome(groups), groups)
    BY <1>3 DEF Idle
  <2>2. ASSUME NEW n \in ToCome(groups) PROVE ~ Handled(owner[n])
    <3>1. PICK g \in DOMAIN groups : groups[g].state = "reserved" /\ n \in NamesOf(g)
      BY <2>2 DEF ToCome, NamesOf
    <3>2. owner[n] = groups[g].item
      BY <1>2, <3>1
    <3>3. CASE Waits \/ Fresh
      <4>1. Upto(groups, Len(groups) + 1, Len(groups) + 1)
        BY <3>3 DEF Waits, Fresh
      <4>2. g < Len(groups) + 1
        BY <1>1
      <4>3. groups[g].state \in Settled
        BY <4>1, <4>2 DEF Upto
      <4>4. QED
        BY <3>1, <4>3 DEF Settled
    <3>4. CASE Grouped
      <4>1. PICK f : f = queue[1].group
        OBVIOUS
      <4>2. queue # <<>> /\ queue[1].kind = "start" /\ Chain(queue, groups) /\ Upto(groups, f, f)
            /\ \A h \in DOMAIN groups : h >= f => groups[h].item = items
        BY <3>4, <4>1 DEF Grouped
      <4>3. 1 \in DOMAIN queue
        BY <1>1, <4>2, TypeFacts, TailShape
      <4>4. f \in DOMAIN groups /\ queue[1].item = groups[f].item
        BY <4>1, <4>2, <4>3 DEF Chain
      <4>5. g >= f
        <5>1. ~ g < f
          BY <3>1, <4>2 DEF Upto, Settled
        <5>2. QED
          BY <1>1, <4>4, <5>1
      <4>6. groups[g].item = items /\ groups[f].item = items
        BY <1>1, <4>2, <4>4, <4>5
      <4>7. queue[1].item = owner[n]
        BY <3>2, <4>4, <4>6
      <4>8. QED
        BY <4>3, <4>7 DEF Handled
    <3>5. QED
      BY <1>3, <3>3, <3>4 DEF Idle
  <2>3. QED
    BY <2>1, <2>2, Zenon
<1>4. CASE \E done \in Nat : Busy(done)
  <2>1. PICK done \in Nat : Busy(done)
    BY <1>4
  <2>2. PICK g, ds, m : Open(g, ds, m)
    BY Zenon DEF Open
  <2>3. /\ active # NoGroup /\ groups[g].state = "checking" /\ Upto(groups, g, g + 1)
        /\ \A h \in DOMAIN groups : h >= g => groups[h].item = items
        /\ EnvOK(env, kernel, rootFailures, owner, ToCome(groups) \cup After(ds, done), groups)
    BY <2>1, <2>2, BusyFacts
  <2>4. /\ g \in DOMAIN groups /\ m \in Nat /\ DOMAIN ds = 1 .. m /\ done \in 0 .. m
    BY <1>1, <2>1, <2>2, BusyHead
  <2>5. g = active.group /\ ds = groups[g].members
    BY <2>2 DEF Open
  <2>6. groups[g].item = items
    BY <1>1, <2>3, <2>4
  <2>7. ASSUME NEW n \in ToCome(groups) \cup After(ds, done) PROVE ~ Handled(owner[n])
    <3>1. owner[n] = items
      <4>1. CASE n \in ToCome(groups)
        <5>1. PICK h \in DOMAIN groups : groups[h].state = "reserved" /\ n \in NamesOf(h)
          BY <4>1 DEF ToCome, NamesOf
        <5>2. ~ h < g
          BY <2>3, <5>1 DEF Upto, Settled
        <5>3. h >= g
          BY <1>1, <2>4, <5>2
        <5>4. QED
          BY <1>2, <2>3, <5>1, <5>3
      <4>2. CASE n \in After(ds, done)
        <5>1. n \in NamesOf(g)
          BY <2>4, <2>5, <4>2, AfterShape DEF NamesOf
        <5>2. QED
          BY <1>2, <2>4, <2>6, <5>1
      <4>3. QED
        BY <2>7, <4>1, <4>2
    <3>2. active # NoGroup /\ groups[active.group].item = owner[n]
      BY <2>3, <2>5, <2>6, <3>1
    <3>3. QED
      BY <3>2 DEF Handled
  <2>8. QED
    BY <2>3, <2>7, Zenon
<1>5. QED
  BY <1>3, <1>4 DEF DInv

LEMMA GivesAvailable == ASSUME DInv PROVE AvailableIsDefined
<1>1. PICK W : EnvOK(env, kernel, rootFailures, owner, W, groups)
  BY EnvStands, Zenon
<1>2. PICK K, F : K = kernel /\ F = rootFailures
  OBVIOUS
<1>3. /\ \A n \in Labels : Grounds(env.plain[n], K, F)
      /\ \A k \in Keys : Grounds(env.exact[k], K, F) /\ Grounds(env.spelled[k], K, F)
      /\ \A k \in K : \A u \in k.uses : \E l \in K : l.by = u
      /\ \A g \in DOMAIN groups : groups[g].state = "checked" =>
           \A n \in AllNames(groups[g].members) : env.plain[n].tag = "checked"
  BY <1>1, <1>2, Zenon DEF EnvOK
<1>4. env \in Envs
  BY TypeFacts DEF DInv
<1>5. DOMAIN env.plain = Labels /\ DOMAIN env.exact = Keys /\ DOMAIN env.spelled = Keys
  BY <1>4 DEF Envs
<1>6. \A v \in ValuesOf(env) : Grounds(v, K, F)
  <2>1. SUFFICES ASSUME NEW v \in ValuesOf(env) PROVE Grounds(v, K, F)
    OBVIOUS
  <2>2. \/ \E n \in Labels : v = env.plain[n]
        \/ \E k \in Keys : v = env.exact[k]
        \/ \E k \in Keys : v = env.spelled[k]
    BY <1>5 DEF ValuesOf, Range
  <2>3. QED
    BY <1>3, <2>2
<1>7. \A x : (\E k \in K : k.by = x) <=> x \in Defined
  BY <1>2 DEF Defined
<1>8. \A v \in ValuesOf(env) : (v.tag = "checked" => v.by \in Defined) /\ (v.tag = "untranslated" => v.root \in rootFailures)
  BY <1>2, <1>6, <1>7 DEF Grounds
<1>9. \A k \in kernel : k.uses \subseteq Defined
  BY <1>2, <1>3, <1>7
<1>10. QED
  BY <1>3, <1>8, <1>9, Zenon DEF AvailableIsDefined

LEMMA GivesOneMeaning == ASSUME DInv PROVE OneMeaning
<1>1. PICK W : /\ EnvOK(env, kernel, rootFailures, owner, W, groups)
               /\ \A n \in W : n \in DOMAIN owner => ~ Handled(owner[n])
  BY EnvStands, Zenon
<1>2. /\ \A n \in DOMAIN owner \ W : Means(env, owner, n)
      /\ \A k \in Keys : env.spelled[k].tag \notin {"absent", "refused"} => env.spelled[k] = env.exact[k]
  BY <1>1, Zenon DEF EnvOK
<1>3. ASSUME NEW n \in DOMAIN owner, Handled(owner[n])
      PROVE  /\ env.plain[n].item = owner[n] /\ env.plain[n].by = <<Module, n>>
             /\ n \notin Joined => env.exact[<<Module, n>>] = env.plain[n]
  <2>1. n \notin W
    BY <1>1, <1>3
  <2>2. QED
    BY <1>2, <2>1, Zenon DEF Means
<1>4. QED
  BY <1>2, <1>3, Zenon DEF OneMeaning

-----------------------------------------------------------------------------
(* In every state of a run of translateModule, whatever the source has and *)
(* however its checks turn out, the queue, the groups and the three tables *)
(* of names agree as the invariant says.                                   *)
THEOREM DeclarationInvariant == DeclarationSpec => []DInv
<1>1. DeclarationInit => DInv
  BY InitInv
<1>2. DInv /\ [DeclarationNext]_declarationVars => DInv'
  BY NextKeeps
<1>3. QED
  BY <1>1, <1>2, PTL DEF DeclarationSpec

(* Whatever a name, an identity or a qualified name stands for as checked  *)
(* is in the kernel with all it refers to, a published group's names stay  *)
(* available, and every failure names a declaration that failed on its own *)
(* (publishDeclaration, the rollback of a group, failureRoot).             *)
THEOREM AvailableDefined == DeclarationSpec => []AvailableIsDefined
<1>1. DInv => AvailableIsDefined
  BY GivesAvailable
<1>2. QED
  BY <1>1, DeclarationInvariant, PTL

(* Once its owner's item was handled, a name stands for what that item     *)
(* made of it, by spelling, by identity and by qualified name (reserve,    *)
(* rejectDuplicate, bindQualifiedNames).                                   *)
THEOREM MeaningIsOne == DeclarationSpec => []OneMeaning
<1>1. DInv => OneMeaning
  BY GivesOneMeaning
<1>2. QED
  BY <1>1, DeclarationInvariant, PTL
=============================================================================
