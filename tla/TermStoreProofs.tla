--------------------------- MODULE TermStoreProofs ---------------------------
(***************************************************************************)
(* The store, for any bounds, kinds, symbols and hash: its index finds     *)
(* every live node, nothing it records dangles or names what is not        *)
(* registered, caches and fresh symbols stay true, and a commit moves      *)
(* syntax to what stands for the same.                                     *)
(*                                                                         *)
(* The invariant StoreIInv has four parts.  ShapeInv types the tables and  *)
(* says of the arena that an index reaches every node before an empty      *)
(* slot and, from the checkpoint on, is at most half used: that is what    *)
(* leaves a commit room to index what it moved, on top of the entries it   *)
(* abandons.  StoreInv says what the tables name is live and registered,   *)
(* twice: as the tables are, and as a rollback would leave them.  WeakInv  *)
(* and CacheInv say that a cached head is live, is no reference, and is    *)
(* shared by a reference and the value it was defined as.                  *)
(*                                                                         *)
(* First the operators (the index, the arena, a commit's moves), then what *)
(* each call keeps, then what the invariant says, then the action          *)
(* properties, by comparing the trees that handles stand for.              *)
(***************************************************************************)
EXTENDS TermStore, SequenceProofs

-----------------------------------------------------------------------------
(* Numbers, and recursion up to a bound.                                   *)

(* What holds of 0 and of the successors of what it holds of, up to n,     *)
(* holds of all up to n.                                                   *)
LEMMA UpTo ==
  ASSUME NEW n \in Nat, NEW G \in SUBSET Nat, 0 \in G,
         \A i \in Nat : i < n /\ i \in G => i + 1 \in G
  PROVE  \A i \in 0 .. n : i \in G
<1> DEFINE Bad == {i \in 0 .. n : i \notin G}
<1>1. SUFFICES ASSUME Bad # {} PROVE FALSE
  OBVIOUS
<1>2. PICK m \in Bad : \A k \in Bad : m <= k
  <2>1. Bad \in SUBSET Nat
    OBVIOUS
  <2>2. QED
    BY <1>1, <2>1, LeastNat, Zenon
<1>3. m # 0 /\ m - 1 \in Nat /\ m - 1 < n /\ m - 1 \notin Bad
  BY <1>2
<1>4. m - 1 \in G
  BY <1>3
<1>5. m - 1 + 1 = m
  BY <1>2
<1> QED
  BY <1>2, <1>3, <1>4, <1>5

(* A function that repeats a step, from the first number it applies to.    *)
Repeating(f, n, S, b, first, step) ==
  f \in [0 .. n -> S] /\ \A t \in 0 .. n : f[t] = IF t < first THEN b ELSE step[<<f[t - 1], t>>]

LEMMA Repeats ==
  ASSUME NEW n \in Nat, NEW S, NEW b \in S, NEW first \in Nat \ {0}, NEW step \in [S \X Nat -> S]
  PROVE  \E f : Repeating(f, n, S, b, first, step)
<1> DEFINE Good(m) == \E f \in [0 .. m -> S] :
                        \A t \in 0 .. m : f[t] = IF t < first THEN b ELSE step[<<f[t - 1], t>>]
           G == {m \in Nat : Good(m)}
<1>1. 0 \in G
  <2> DEFINE f == [t \in 0 .. 0 |-> b]
  <2>1. f \in [0 .. 0 -> S] /\ \A t \in 0 .. 0 : f[t] = b /\ t < first
    OBVIOUS
  <2>2. QED
    BY <2>1
<1>2. ASSUME NEW i \in Nat, Good(i) PROVE Good(i + 1)
  <2>1. PICK f \in [0 .. i -> S] : \A t \in 0 .. i : f[t] = IF t < first THEN b ELSE step[<<f[t - 1], t>>]
    BY <1>2
  <2>2. PICK x \in S : x = IF i + 1 < first THEN b ELSE step[<<f[i], i + 1>>]
    <3>1. f[i] \in S
      BY <2>1
    <3>2. step[<<f[i], i + 1>>] \in S
      BY <3>1
    <3>3. QED
      BY <3>2
  <2> DEFINE g == [t \in 0 .. i + 1 |-> IF t = i + 1 THEN x ELSE f[t]]
  <2>3. g \in [0 .. i + 1 -> S]
    BY <2>2
  <2>4. ASSUME NEW t \in 0 .. i + 1 PROVE g[t] = IF t < first THEN b ELSE step[<<g[t - 1], t>>]
    <3>1. CASE t = i + 1
      <4>1. g[t] = x /\ t - 1 = i /\ i \in 0 .. i + 1 /\ i # i + 1
        BY <3>1
      <4>2. g[i] = f[i]
        BY <4>1
      <4>3. QED
        BY <2>2, <3>1, <4>1, <4>2
    <3>2. CASE t # i + 1
      <4>1. t \in 0 .. i /\ g[t] = f[t]
        BY <3>2
      <4>2. t - 1 \in 0 .. i => g[t - 1] = f[t - 1]
        OBVIOUS
      <4>3. t < first \/ t - 1 \in 0 .. i
        BY <4>1
      <4>4. QED
        BY <2>1, <4>1, <4>2, <4>3
    <3>3. QED
      BY <3>1, <3>2
  <2>5. QED
    BY <2>3, <2>4
<1>3. \A i \in Nat : i < n /\ i \in G => i + 1 \in G
  BY <1>2
<1>4. G \in SUBSET Nat /\ n \in 0 .. n
  OBVIOUS
<1> HIDE DEF G, Good
<1>5. n \in G
  BY <1>1, <1>3, <1>4, UpTo
<1>6. QED
  BY <1>5 DEF G, Good, Repeating

-----------------------------------------------------------------------------
(* The index.                                                              *)

Slots(c) == [0 .. c - 1 -> 0 .. MaxHandle]

(* The handle t is met on the walk for key before any empty slot.          *)
Reaches(slots, key, t) ==
  \E j \in 0 .. Capacity(slots) - 1 :
    /\ slots[Walk(slots, key, j)] = t
    /\ \A i \in 0 .. j - 1 : slots[Walk(slots, key, i)] # 0

LEMMA Remainders ==
  ASSUME NEW c \in Nat \ {0}
  PROVE  /\ \A h \in Nat : h % c \in 0 .. c - 1
         /\ \A x \in 0 .. c - 1 : x % c = x /\ (x + c) % c = x
<1>1. ASSUME NEW h \in Nat PROVE h % c \in 0 .. c - 1
  OBVIOUS
<1>2. ASSUME NEW x \in 0 .. c - 1 PROVE x % c = x
  OBVIOUS
<1>3. ASSUME NEW x \in 0 .. c - 1 PROVE (x + c) % c = x
  OBVIOUS
<1>4. QED
  BY <1>1, <1>2, <1>3

(* The domain of an index, and what a walk passes: every slot.             *)
LEMMA Walks ==
  ASSUME NEW c \in Nat \ {0}, NEW slots \in Slots(c), NEW key, Hash(key) \in Nat
  PROVE  /\ Capacity(slots) = c
         /\ slots # NoIndex
         /\ \A j \in 0 .. c - 1 : Walk(slots, key, j) \in 0 .. c - 1
         /\ \A z \in 0 .. c - 1 : \E j \in 0 .. c - 1 : Walk(slots, key, j) = z
<1>1. DOMAIN slots = 0 .. c - 1 /\ 0 \in DOMAIN slots
  BY DEF Slots
<1>2. Capacity(slots) = c
  BY <1>1, FS_Interval DEF Capacity
<1>3. slots # NoIndex
  BY <1>1 DEF NoIndex
<1>4. PICK h : h = Hash(key) % c
  OBVIOUS
<1>5. h \in 0 .. c - 1
  BY <1>4, Remainders
<1>6. ASSUME NEW j PROVE Walk(slots, key, j) = (h + j) % c
  BY <1>2, <1>4 DEF Walk
<1>7. ASSUME NEW j \in 0 .. c - 1 PROVE Walk(slots, key, j) \in 0 .. c - 1
  <2>1. h + j \in Nat
    BY <1>5
  <2>2. (h + j) % c \in 0 .. c - 1
    BY <2>1, Remainders
  <2>3. QED
    BY <1>6, <2>2
<1>8. ASSUME NEW z \in 0 .. c - 1 PROVE \E j \in 0 .. c - 1 : Walk(slots, key, j) = z
  <2>1. CASE z >= h
    <3>1. z - h \in 0 .. c - 1 /\ h + (z - h) = z
      BY <1>5, <2>1
    <3>2. z % c = z
      BY Remainders
    <3>3. QED
      BY <1>6, <3>1, <3>2
  <2>2. CASE z < h
    <3>1. (z + c) - h \in 0 .. c - 1 /\ h + ((z + c) - h) = z + c
      BY <1>5, <2>2
    <3>2. (z + c) % c = z
      BY Remainders
    <3>3. QED
      BY <1>6, <3>1, <3>2
  <2>3. QED
    BY <1>5, <2>1, <2>2
<1>9. QED
  BY <1>2, <1>3, <1>7, <1>8

(* A probe ends at the first slot that ends it, if there is one.           *)
LEMMA Probes ==
  ASSUME NEW c \in Nat \ {0}, NEW slots \in Slots(c), NEW key, Hash(key) \in Nat,
         NEW ends, NEW z \in 0 .. c - 1, slots[z] \in ends
  PROVE  \E j \in 0 .. c - 1 :
           /\ Probe(slots, key, ends) = Walk(slots, key, j)
           /\ Walk(slots, key, j) \in 0 .. c - 1
           /\ slots[Walk(slots, key, j)] \in ends
           /\ \A i \in 0 .. j - 1 : slots[Walk(slots, key, i)] \notin ends
<1> DEFINE Ending == {j \in 0 .. c - 1 : slots[Walk(slots, key, j)] \in ends}
           First(j) == /\ slots[Walk(slots, key, j)] \in ends
                       /\ \A i \in 0 .. j - 1 : slots[Walk(slots, key, i)] \notin ends
<1>1. Ending # {} /\ Ending \in SUBSET Nat
  BY Walks
<1>2. PICK m \in Ending : \A k \in Ending : m <= k
  <2> HIDE DEF Ending
  <2>1. QED
    BY <1>1, LeastNat, Zenon
<1>3. m \in 0 .. c - 1 /\ First(m)
  BY <1>2
<1>4. PICK j : j = CHOOSE i \in 0 .. c - 1 : First(i)
  OBVIOUS
<1>5. j \in 0 .. c - 1 /\ First(j)
  <2> HIDE DEF First
  <2>1. QED
    BY <1>3, <1>4
<1>6. Probe(slots, key, ends) = Walk(slots, key, j)
  BY <1>4, Walks DEF Probe
<1>7. QED
  BY <1>5, <1>6, Walks

(* Interning a node: it is reached then, and so is every other node that   *)
(* was; one more slot is used, and none if the node was reached before.    *)
LEMMA Interns ==
  ASSUME NEW nodes, Len(nodes) \in 0 .. MaxHandle, NEW t \in Live(nodes),
         NEW key, key = KeyOf(nodes[t]), Hash(key) \in Nat,
         NEW c \in Nat \ {0}, NEW slots \in Slots(c), NEW z \in 0 .. c - 1, slots[z] = 0,
         NEW new, new = Intern(nodes, slots, t)
  PROVE  /\ new \in Slots(c)
         /\ Reaches(new, key, t)
         /\ \A k : \A u \in Live(nodes) :
              Hash(k) \in Nat /\ u # t /\ Reaches(slots, k, u) => Reaches(new, k, u)
         /\ \E s \in 0 .. c - 1 : Used(new) = Used(slots) \cup {s}
         /\ Reaches(slots, key, t) => Used(new) = Used(slots)
<1> DEFINE ends == {0, t} \cup (Len(nodes) + 1 .. MaxHandle)
<1>1. PICK j \in 0 .. c - 1 :
        /\ Probe(slots, key, ends) = Walk(slots, key, j)
        /\ Walk(slots, key, j) \in 0 .. c - 1
        /\ slots[Walk(slots, key, j)] \in ends
        /\ \A i \in 0 .. j - 1 : slots[Walk(slots, key, i)] \notin ends
  <2>1. slots[z] \in ends
    OBVIOUS
  <2> HIDE DEF ends
  <2>2. QED
    BY <2>1, Probes
<1>2. PICK s \in 0 .. c - 1 : s = Walk(slots, key, j)
  BY <1>1
<1>3. slots # NoIndex /\ t \in 0 .. MaxHandle /\ t # 0
  <2>1. slots # NoIndex
    BY Walks
  <2>2. t \in 0 .. MaxHandle /\ t # 0
    BY ArenaAssumption DEF Live
  <2>3. QED
    BY <2>1, <2>2
<1>4. new = [slots EXCEPT ![s] = t]
  BY <1>1, <1>2, <1>3 DEF Intern
<1>5. new \in Slots(c) /\ DOMAIN slots = 0 .. c - 1 /\ DOMAIN new = 0 .. c - 1
  BY <1>3, <1>4 DEF Slots
<1>6. new[s] = t /\ \A x \in 0 .. c - 1 : x # s => new[x] = slots[x]
  BY <1>4, <1>5
<1>7. Capacity(slots) = c /\ Capacity(new) = c
  BY <1>5, Walks
<1>8. ASSUME NEW k, NEW i PROVE Walk(new, k, i) = Walk(slots, k, i)
  BY <1>7 DEF Walk
<1>9. ASSUME NEW k, Hash(k) \in Nat, NEW i \in 0 .. c - 1
      PROVE  Walk(slots, k, i) \in 0 .. c - 1
  BY <1>9, Walks
<1>10. ASSUME NEW x \in 0 .. c - 1, slots[x] # 0 PROVE new[x] # 0
  BY <1>3, <1>6, <1>10
<1>11. Reaches(new, key, t)
  <2>1. new[Walk(new, key, j)] = t
    BY <1>2, <1>6, <1>8
  <2>2. ASSUME NEW i \in 0 .. j - 1 PROVE new[Walk(new, key, i)] # 0
    <3>1. slots[Walk(slots, key, i)] # 0 /\ i \in 0 .. c - 1
      BY <1>1
    <3>2. QED
      BY <1>8, <1>9, <1>10, <3>1, SMTT(30)
  <2>3. QED
    BY <1>7, <2>1, <2>2 DEF Reaches
<1>12. ASSUME NEW k, NEW u \in Live(nodes), Hash(k) \in Nat, u # t, Reaches(slots, k, u)
       PROVE  Reaches(new, k, u)
  <2>1. PICK i \in 0 .. c - 1 :
          /\ slots[Walk(slots, k, i)] = u
          /\ \A l \in 0 .. i - 1 : slots[Walk(slots, k, l)] # 0
    BY <1>7, <1>12 DEF Reaches
  <2>2. u \notin ends
    BY <1>12 DEF Live
  <2>3. Walk(slots, k, i) # s
    BY <1>1, <1>2, <2>1, <2>2
  <2>4. new[Walk(new, k, i)] = u
    BY <1>6, <1>8, <1>9, <1>12, <2>1, <2>3
  <2>5. ASSUME NEW l \in 0 .. i - 1 PROVE new[Walk(new, k, l)] # 0
    <3>1. slots[Walk(slots, k, l)] # 0 /\ l \in 0 .. c - 1
      BY <2>1
    <3>2. QED
      BY <1>8, <1>9, <1>10, <1>12, <3>1
  <2>6. QED
    BY <1>7, <2>4, <2>5 DEF Reaches
<1>13. Used(new) = Used(slots) \cup {s}
  BY <1>3, <1>5, <1>6 DEF Used
<1>14. ASSUME Reaches(slots, key, t) PROVE Used(new) = Used(slots)
  <2>1. PICK i \in 0 .. c - 1 :
          /\ slots[Walk(slots, key, i)] = t
          /\ \A l \in 0 .. i - 1 : slots[Walk(slots, key, l)] # 0
    BY <1>7, <1>14 DEF Reaches
  <2>2. ~ (i < j)
    BY <1>1, <2>1
  <2>3. slots[s] # 0
    BY <1>2, <1>3, <2>1, <2>2
  <2>4. QED
    BY <1>5, <1>13, <2>3 DEF Used
<1>15. QED
  BY <1>5, <1>11, <1>12, <1>13, <1>14

(* What is found has the key, and a node with the key that is reached is   *)
(* not missed.                                                             *)
LEMMA Finds ==
  ASSUME NEW nodes, NEW key, Hash(key) \in Nat,
         NEW c \in Nat \ {0}, NEW slots \in Slots(c), NEW z \in 0 .. c - 1, slots[z] = 0,
         NEW found, found = FindIn(nodes, slots, key)
  PROVE  /\ found = 0 \/ (found \in Live(nodes) /\ KeyOf(nodes[found]) = key)
         /\ \A h \in Live(nodes) : KeyOf(nodes[h]) = key /\ Reaches(slots, key, h) => found # 0
<1> DEFINE ends == {0} \cup {h \in Live(nodes) : KeyOf(nodes[h]) = key}
<1>1. PICK j \in 0 .. c - 1 :
        /\ Probe(slots, key, ends) = Walk(slots, key, j)
        /\ Walk(slots, key, j) \in 0 .. c - 1
        /\ slots[Walk(slots, key, j)] \in ends
        /\ \A i \in 0 .. j - 1 : slots[Walk(slots, key, i)] \notin ends
  <2>1. slots[z] \in ends
    OBVIOUS
  <2> HIDE DEF ends
  <2>2. QED
    BY <2>1, Probes, ZenonT(60)
<1>2. slots # NoIndex /\ Capacity(slots) = c
  BY Walks
<1>3. found = slots[Walk(slots, key, j)]
  BY <1>1, <1>2 DEF FindIn
<1>4. found = 0 \/ (found \in Live(nodes) /\ KeyOf(nodes[found]) = key)
  BY <1>1, <1>3
<1>5. ASSUME NEW h \in Live(nodes), KeyOf(nodes[h]) = key, Reaches(slots, key, h) PROVE found # 0
  <2>1. PICK i \in 0 .. c - 1 :
          /\ slots[Walk(slots, key, i)] = h
          /\ \A l \in 0 .. i - 1 : slots[Walk(slots, key, l)] # 0
    BY <1>2, <1>5 DEF Reaches
  <2>2. h \in ends /\ h # 0
    BY <1>5 DEF Live
  <2>3. ~ (i < j)
    BY <1>1, <2>1, <2>2
  <2>4. QED
    BY <1>3, <2>1, <2>2, <2>3
<1>6. QED
  BY <1>4, <1>5

(* The steps in which nodes are interned.                                  *)
Interning(f, nodes, n, S, slots, first) ==
  /\ f \in [0 .. n -> S]
  /\ \A t \in 0 .. n : f[t] = IF t < first THEN slots ELSE Intern(nodes, f[t - 1], t)

LEMMA InternSteps ==
  ASSUME NEW nodes, NEW n \in Nat, n = Len(nodes), NEW S, NEW slots \in S, NEW first \in Nat \ {0},
         \A x \in S : \A t \in 1 .. n : Intern(nodes, x, t) \in S
  PROVE  \E f : Interning(f, nodes, n, S, slots, first) /\ InternAll(nodes, slots, first) = f[n]
<1> DEFINE Step(f) == [t \in 0 .. n |-> IF t < first THEN slots ELSE Intern(nodes, f[t - 1], t)]
<1>1. PICK step \in [S \X Nat -> S] :
        \A x \in S : \A t \in 1 .. n : step[<<x, t>>] = Intern(nodes, x, t)
  <2> DEFINE s == [p \in S \X Nat |-> IF p[2] \in 1 .. n THEN Intern(nodes, p[1], p[2]) ELSE p[1]]
  <2>1. s \in [S \X Nat -> S]
    OBVIOUS
  <2>2. \A x \in S : \A t \in 1 .. n : s[<<x, t>>] = Intern(nodes, x, t)
    OBVIOUS
  <2>3. QED
    BY <2>1, <2>2
<1>2. PICK f : Repeating(f, n, S, slots, first, step)
  BY Repeats
<1>3. /\ f \in [0 .. n -> S]
      /\ \A t \in 0 .. n : f[t] = IF t < first THEN slots ELSE step[<<f[t - 1], t>>]
  BY <1>2 DEF Repeating
<1>4. ASSUME NEW t \in 0 .. n PROVE f[t] = IF t < first THEN slots ELSE Intern(nodes, f[t - 1], t)
  <2>1. CASE t < first
    BY <1>3, <2>1
  <2>2. CASE ~ (t < first)
    <3>1. t - 1 \in 0 .. n /\ t \in 1 .. n
      BY <2>2
    <3>2. f[t - 1] \in S
      BY <1>3, <3>1
    <3>3. QED
      BY <1>1, <1>3, <2>2, <3>1, <3>2
  <2>3. QED
    BY <2>1, <2>2
<1>5. f = Step(f)
  BY <1>3, <1>4
<1>6. PICK g : g = CHOOSE h : h = Step(h)
  OBVIOUS
<1>7. g = Step(g)
  <2> HIDE DEF Step
  <2>1. QED
    BY <1>5, <1>6
<1>8. InternAll(nodes, slots, first) = g[n]
  BY <1>6 DEF InternAll
<1>9. ASSUME NEW t \in 0 .. n PROVE g[t] = IF t < first THEN slots ELSE Intern(nodes, g[t - 1], t)
  BY <1>7
<1>10. DOMAIN g = 0 .. n /\ g = [t \in 0 .. n |-> g[t]]
  BY <1>7
<1> DEFINE G == {t \in Nat : t <= n => g[t] \in S}
<1>11. 0 \in G
  <2>1. g[0] = slots
    BY <1>9
  <2>2. QED
    BY <2>1
<1>12. ASSUME NEW i \in Nat, i < n, i \in G PROVE i + 1 \in G
  <2>1. g[i] \in S /\ i + 1 \in 1 .. n /\ i + 1 \in 0 .. n /\ i + 1 - 1 = i
    BY <1>12
  <2>2. g[i + 1] = IF i + 1 < first THEN slots ELSE Intern(nodes, g[i], i + 1)
    BY <1>9, <2>1
  <2>3. QED
    BY <2>1, <2>2
<1>13. \A t \in 0 .. n : t \in G
  <2>1. G \in SUBSET Nat
    OBVIOUS
  <2> HIDE DEF G
  <2>2. QED
    BY <1>11, <1>12, <2>1, UpTo
<1>14. \A t \in 0 .. n : g[t] \in S
  BY <1>13
<1>15. g \in [0 .. n -> S]
  BY <1>10, <1>14
<1>16. QED
  BY <1>8, <1>9, <1>15 DEF Interning

(* The number of used slots.                                               *)
LEMMA UsedShape ==
  ASSUME NEW c \in Nat \ {0}, NEW slots \in Slots(c)
  PROVE  /\ IsFiniteSet(Used(slots)) /\ Cardinality(Used(slots)) \in 0 .. c
         /\ Cardinality(Used(slots)) < c => \E z \in 0 .. c - 1 : slots[z] = 0
         /\ Capacity(slots) = c
<1>1. Used(slots) \in SUBSET (0 .. c - 1) /\ IsFiniteSet(0 .. c - 1) /\ Cardinality(0 .. c - 1) = c
  BY FS_Interval DEF Used, Slots
<1>2. IsFiniteSet(Used(slots)) /\ Cardinality(Used(slots)) <= c /\ Cardinality(Used(slots)) \in Nat
  BY <1>1, FS_Subset, FS_CardinalityType
<1>3. ASSUME \A z \in 0 .. c - 1 : slots[z] # 0 PROVE Cardinality(Used(slots)) = c
  <2>1. Used(slots) = 0 .. c - 1
    BY <1>3 DEF Used, Slots
  <2>2. QED
    BY <1>1, <2>1
<1>4. Capacity(slots) = c
  BY <1>1 DEF Capacity, Slots
<1>5. QED
  BY <1>2, <1>3, <1>4

(* The index of an arena: there is none, or it has an empty slot and       *)
(* reaches every node up to n by its key.                                  *)
IndexOK(nodes, slots, n) ==
  \/ slots = NoIndex
  \/ \E c \in Nat \ {0} :
       /\ slots \in Slots(c)
       /\ \E z \in 0 .. c - 1 : slots[z] = 0
       /\ \A t \in 1 .. n : Reaches(slots, KeyOf(nodes[t]), t)

Hashed(nodes) == \A t \in Live(nodes) : Hash(KeyOf(nodes[t])) \in Nat

(* ... which are indices of one capacity.                                  *)
LEMMA InternsTyped ==
  ASSUME NEW nodes, NEW n \in 0 .. MaxHandle, n = Len(nodes),
         NEW c \in Nat \ {0}, NEW slots \in Slots(c), NEW first \in 1 .. n + 1
  PROVE  \E f : Interning(f, nodes, n, Slots(c), slots, first) /\ InternAll(nodes, slots, first) = f[n]
<1>1. n \in Nat /\ n <= MaxHandle /\ first \in Nat \ {0}
  BY ArenaAssumption
<1>2. \A x \in Slots(c) : x # NoIndex
  <2>1. ASSUME NEW x \in Slots(c) PROVE x # NoIndex
    <3>1. 0 \in DOMAIN x
      BY DEF Slots
    <3>2. QED
      BY <3>1 DEF NoIndex
  <2>2. QED
    BY <2>1
<1>3. \A x \in Slots(c) : \A t \in 1 .. n : Intern(nodes, x, t) \in Slots(c)
  <2>1. ASSUME NEW x \in Slots(c), NEW t \in 1 .. n PROVE Intern(nodes, x, t) \in Slots(c)
    <3>1. x # NoIndex /\ t \in 0 .. MaxHandle
      BY <1>1, <1>2, ArenaAssumption
    <3>2. QED
      BY <3>1 DEF Intern, Slots
  <2>2. QED
    BY <2>1
<1>4. PICK S : S = Slots(c)
  OBVIOUS
<1>5. slots \in S /\ \A x \in S : \A t \in 1 .. n : Intern(nodes, x, t) \in S
  BY <1>3, <1>4
<1>6. \E f : Interning(f, nodes, n, S, slots, first) /\ InternAll(nodes, slots, first) = f[n]
  BY <1>1, <1>5, InternSteps
<1>7. QED
  BY <1>4, <1>6

(* Interning what is not reached yet uses one slot more for each at most.  *)
LEMMA InternsAll ==
  ASSUME NEW nodes, NEW n \in 0 .. MaxHandle, n = Len(nodes), Hashed(nodes),
         NEW c \in Nat \ {0}, NEW slots \in Slots(c), NEW first \in 1 .. n + 1,
         \A t \in 1 .. first - 1 : Reaches(slots, KeyOf(nodes[t]), t),
         Cardinality(Used(slots)) + (n - first + 1) < c,
         NEW new, new = InternAll(nodes, slots, first)
  PROVE  /\ IndexOK(nodes, new, n) /\ new \in Slots(c)
         /\ Cardinality(Used(new)) <= Cardinality(Used(slots)) + (n - first + 1)
<1>1. Live(nodes) = 1 .. n /\ n \in Nat /\ n <= MaxHandle
  BY ArenaAssumption DEF Live
<1>4. PICK f \in [0 .. n -> Slots(c)] :
        /\ InternAll(nodes, slots, first) = f[n]
        /\ \A t \in 0 .. n : f[t] = IF t < first THEN slots ELSE Intern(nodes, f[t - 1], t)
  <2>1. PICK f : Interning(f, nodes, n, Slots(c), slots, first) /\ InternAll(nodes, slots, first) = f[n]
    BY InternsTyped
  <2>2. QED
    BY <2>1 DEF Interning
<1> DEFINE Done(t) == IF t < first THEN 0 ELSE t - first + 1
           Right(t) == /\ \A u \in 1 .. n : u < first \/ u <= t => Reaches(f[t], KeyOf(nodes[u]), u)
                       /\ Cardinality(Used(f[t])) <= Cardinality(Used(slots)) + Done(t)
           G == {t \in Nat : t <= n => Right(t)}
<1>5. Cardinality(Used(slots)) \in Nat
  BY UsedShape
<1>6. 0 \in G
  <2>1. f[0] = slots
    BY <1>1, <1>4
  <2>2. QED
    BY <1>1, <1>5, <2>1
<1>7. ASSUME NEW i \in Nat, i < n, i \in G PROVE i + 1 \in G
  <2>1. i \in 0 .. n /\ i + 1 \in 0 .. n /\ i + 1 - 1 = i /\ Right(i) /\ i + 1 \in 1 .. n
    BY <1>1, <1>7
  <2>2. CASE i + 1 < first
    <3>1. f[i + 1] = slots /\ f[i] = slots
      BY <1>4, <2>1, <2>2
    <3>2. Right(i + 1)
      BY <2>1, <2>2, <3>1
    <3>3. QED
      BY <3>2
  <2>3. CASE ~ (i + 1 < first)
    <3>1. PICK x \in Slots(c) : x = f[i]
      BY <2>1
    <3>2. PICK y \in Slots(c) : y = f[i + 1]
      BY <2>1
    <3>3. y = Intern(nodes, x, i + 1)
      BY <1>4, <2>1, <2>3, <3>1, <3>2, SMTT(30)
    <3>4. Cardinality(Used(x)) <= Cardinality(Used(slots)) + Done(i) /\ Cardinality(Used(x)) \in Nat
      BY <2>1, <3>1, UsedShape
    <3>5. Cardinality(Used(x)) < c
      BY <1>1, <1>5, <1>7, <2>3, <3>4
    <3>6. PICK z \in 0 .. c - 1 : x[z] = 0
      BY <3>5, UsedShape
    <3>7. PICK key : key = KeyOf(nodes[i + 1]) /\ Hash(key) \in Nat
      BY <1>1, <2>1 DEF Hashed
    <3>8. /\ Reaches(y, key, i + 1)
          /\ \A k : \A u \in Live(nodes) :
               Hash(k) \in Nat /\ u # i + 1 /\ Reaches(x, k, u) => Reaches(y, k, u)
          /\ \E s \in 0 .. c - 1 : Used(y) = Used(x) \cup {s}
      <4>1. i + 1 \in Live(nodes) /\ Len(nodes) \in 0 .. MaxHandle
        BY <1>1, <2>1
      <4>2. QED
        BY <3>3, <3>6, <3>7, <4>1, Interns
    <3>9. ASSUME NEW u \in 1 .. n, u < first \/ u <= i + 1 PROVE Reaches(y, KeyOf(nodes[u]), u)
      <4>1. CASE u = i + 1
        BY <3>7, <3>8, <4>1
      <4>2. CASE u # i + 1
        <5>1. Reaches(x, KeyOf(nodes[u]), u)
          BY <2>1, <3>1, <3>9, <4>2
        <5>2. Hash(KeyOf(nodes[u])) \in Nat /\ u \in Live(nodes)
          BY <1>1 DEF Hashed
        <5>3. QED
          BY <3>8, <4>2, <5>1, <5>2
      <4>3. QED
        BY <4>1, <4>2
    <3>10. Cardinality(Used(y)) <= Cardinality(Used(slots)) + Done(i + 1)
      <4>1. PICK s : Used(y) = Used(x) \cup {s}
        BY <3>8
      <4>2. Cardinality(Used(y)) <= Cardinality(Used(x)) + 1
        <5>1. IsFiniteSet(Used(x))
          BY UsedShape
        <5>2. Cardinality(Used(x) \cup {s}) =
                IF s \in Used(x) THEN Cardinality(Used(x)) ELSE Cardinality(Used(x)) + 1
          BY <5>1, FS_AddElement
        <5>3. QED
          BY <3>4, <4>1, <5>2
      <4>3. Done(i) + 1 = Done(i + 1)
        BY <1>1, <2>3
      <4>4. Cardinality(Used(y)) \in Nat /\ Done(i) \in Nat
        BY <1>1, UsedShape
      <4> HIDE DEF Done
      <4>5. QED
        BY <1>5, <3>4, <4>2, <4>3, <4>4, SMTT(30)
    <3>11. Right(i + 1)
      BY <3>2, <3>9, <3>10
    <3>12. QED
      BY <3>11
  <2>4. QED
    BY <2>2, <2>3
<1>8. \A t \in 0 .. n : t \in G
  <2>1. G \in SUBSET Nat
    OBVIOUS
  <2> HIDE DEF G
  <2>2. QED
    BY <1>1, <1>6, <1>7, <2>1, UpTo
<1>9. Right(n) /\ new = f[n] /\ new \in Slots(c)
  BY <1>1, <1>4, <1>8
<1>10. Done(n) = n - first + 1
  BY <1>1
<1>11. Cardinality(Used(new)) <= Cardinality(Used(slots)) + (n - first + 1)
  BY <1>9, <1>10
<1>12. \E z \in 0 .. c - 1 : new[z] = 0
  <2>1. Cardinality(Used(new)) \in Nat
    BY <1>9, UsedShape
  <2>2. Cardinality(Used(new)) < c
    BY <1>1, <1>5, <1>11, <2>1
  <2>3. QED
    BY <1>9, <2>2, UsedShape
<1>13. \A t \in 1 .. n : Reaches(new, KeyOf(nodes[t]), t)
  BY <1>1, <1>9
<1>14. QED
  BY <1>9, <1>11, <1>12, <1>13 DEF IndexOK

(* Interning what is reached already uses no slot more.                    *)
LEMMA InternsAgain ==
  ASSUME NEW nodes, NEW n \in 0 .. MaxHandle, n = Len(nodes), Hashed(nodes),
         NEW c \in Nat \ {0}, NEW slots \in Slots(c), NEW first \in 1 .. n + 1,
         \A t \in 1 .. n : Reaches(slots, KeyOf(nodes[t]), t),
         NEW z \in 0 .. c - 1, slots[z] = 0,
         NEW new, new = InternAll(nodes, slots, first)
  PROVE  IndexOK(nodes, new, n)
<1>1. Live(nodes) = 1 .. n /\ n \in Nat /\ n <= MaxHandle
  BY ArenaAssumption DEF Live
<1>4. PICK f \in [0 .. n -> Slots(c)] :
        /\ InternAll(nodes, slots, first) = f[n]
        /\ \A t \in 0 .. n : f[t] = IF t < first THEN slots ELSE Intern(nodes, f[t - 1], t)
  <2>1. PICK f : Interning(f, nodes, n, Slots(c), slots, first) /\ InternAll(nodes, slots, first) = f[n]
    BY InternsTyped
  <2>2. QED
    BY <2>1 DEF Interning
<1> DEFINE Right(t) == /\ \A u \in 1 .. n : Reaches(f[t], KeyOf(nodes[u]), u)
                       /\ Used(f[t]) = Used(slots)
           G == {t \in Nat : t <= n => Right(t)}
<1>5. ASSUME NEW x \in Slots(c), Used(x) = Used(slots) PROVE x[z] = 0
  BY <1>5 DEF Used, Slots
<1>6. 0 \in G
  <2>1. f[0] = slots
    BY <1>1, <1>4
  <2>2. QED
    BY <1>1, <2>1
<1>7. ASSUME NEW i \in Nat, i < n, i \in G PROVE i + 1 \in G
  <2>1. i \in 0 .. n /\ i + 1 \in 0 .. n /\ i + 1 - 1 = i /\ Right(i) /\ i + 1 \in 1 .. n
    BY <1>1, <1>7
  <2>2. CASE i + 1 < first
    <3>1. f[i + 1] = slots
      BY <1>4, <2>1, <2>2
    <3>2. QED
      BY <3>1
  <2>3. CASE ~ (i + 1 < first)
    <3>1. PICK x \in Slots(c) : x = f[i]
      BY <2>1
    <3>2. PICK y \in Slots(c) : y = f[i + 1]
      BY <2>1
    <3>3. y = Intern(nodes, x, i + 1)
      BY <1>4, <2>1, <2>3, <3>1, <3>2
    <3>4. x[z] = 0
      BY <1>5, <2>1, <3>1
    <3>5. PICK key : key = KeyOf(nodes[i + 1]) /\ Hash(key) \in Nat
      BY <1>1, <2>1 DEF Hashed
    <3>6. Reaches(x, key, i + 1)
      BY <2>1, <3>1, <3>5
    <3>7. /\ Reaches(y, key, i + 1)
          /\ \A k : \A u \in Live(nodes) :
               Hash(k) \in Nat /\ u # i + 1 /\ Reaches(x, k, u) => Reaches(y, k, u)
          /\ Used(y) = Used(x)
      <4>1. i + 1 \in Live(nodes) /\ Len(nodes) \in 0 .. MaxHandle
        BY <1>1, <2>1
      <4>2. QED
        BY <3>3, <3>4, <3>5, <3>6, <4>1, Interns
    <3>8. ASSUME NEW u \in 1 .. n PROVE Reaches(y, KeyOf(nodes[u]), u)
      <4>1. Reaches(x, KeyOf(nodes[u]), u)
        BY <2>1, <3>1
      <4>2. Hash(KeyOf(nodes[u])) \in Nat /\ u \in Live(nodes)
        BY <1>1 DEF Hashed
      <4>3. QED
        BY <3>5, <3>7, <4>1, <4>2
    <3>9. Right(i + 1)
      BY <2>1, <3>1, <3>2, <3>7, <3>8
    <3>10. QED
      BY <3>9
  <2>4. QED
    BY <2>2, <2>3
<1>8. \A t \in 0 .. n : t \in G
  <2>1. G \in SUBSET Nat
    OBVIOUS
  <2> HIDE DEF G
  <2>2. QED
    BY <1>1, <1>6, <1>7, <2>1, UpTo
<1>9. Right(n) /\ new = f[n] /\ new \in Slots(c)
  BY <1>1, <1>4, <1>8
<1>10. new[z] = 0
  BY <1>5, <1>9
<1>11. QED
  BY <1>9, <1>10 DEF IndexOK

(* Without an index nothing is indexed.                                    *)
LEMMA InternsNowhere ==
  ASSUME NEW nodes, NEW n \in Nat, n = Len(nodes), NEW first \in Nat \ {0}
  PROVE  InternAll(nodes, NoIndex, first) = NoIndex
<1>1. PICK S : S = {NoIndex}
  OBVIOUS
<1>2. NoIndex \in S /\ \A x \in S : \A t \in 1 .. n : Intern(nodes, x, t) \in S
  BY <1>1 DEF Intern
<1>3. PICK f : Interning(f, nodes, n, S, NoIndex, first) /\ InternAll(nodes, NoIndex, first) = f[n]
  BY <1>2, InternSteps
<1>4. f[n] \in S
  BY <1>3 DEF Interning
<1>5. QED
  BY <1>1, <1>3, <1>4

(* The capacity of a new index holds four times the arena.                 *)
LEMMA Sizes ==
  ASSUME NEW nodes, NEW n \in Nat, n = Len(nodes)
  PROVE  Enough(nodes) \in Nat \ {0, 1} /\ Enough(nodes) >= 4 * (n + 1)
<1>0. PICK least, m \in Nat : least = 4 * (n + 1) /\ m = n + 3
  OBVIOUS
<1> DEFINE Step(f) == [i \in 0 .. m |->
                         IF i = 0 THEN MinCapacity
                         ELSE IF f[i - 1] >= least THEN f[i - 1] ELSE 2 * f[i - 1]]
<1>1. PICK step \in [Nat \X Nat -> Nat] :
        \A x \in Nat : \A i \in 1 .. m : step[<<x, i>>] = IF x >= least THEN x ELSE 2 * x
  <2> DEFINE s == [p \in Nat \X Nat |-> IF p[1] >= least THEN p[1] ELSE 2 * p[1]]
  <2>1. s \in [Nat \X Nat -> Nat]
    OBVIOUS
  <2>2. \A x \in Nat : \A i \in 1 .. m : s[<<x, i>>] = IF x >= least THEN x ELSE 2 * x
    OBVIOUS
  <2>3. QED
    BY <2>1, <2>2
<1>2. MinCapacity \in Nat /\ MinCapacity >= 2
  BY ArenaAssumption
<1> HIDE DEF Step
<1>3. PICK f : Repeating(f, m, Nat, MinCapacity, 1, step)
  <2>1. PICK S, one : S = Nat /\ one = 1
    OBVIOUS
  <2>2. MinCapacity \in S /\ one \in Nat \ {0} /\ step \in [S \X Nat -> S]
    BY <1>2, <2>1
  <2>3. \E f : Repeating(f, m, S, MinCapacity, one, step)
    BY <2>2, Repeats
  <2>4. QED
    BY <2>1, <2>3
<1>4. f \in [0 .. m -> Nat] /\ \A i \in 0 .. m : f[i] = IF i < 1 THEN MinCapacity ELSE step[<<f[i - 1], i>>]
  BY <1>3 DEF Repeating
<1>5. ASSUME NEW i \in 0 .. m
      PROVE  f[i] = IF i = 0 THEN MinCapacity ELSE IF f[i - 1] >= least THEN f[i - 1] ELSE 2 * f[i - 1]
  <2>1. CASE i = 0
    <3>1. i < 1
      BY <2>1
    <3>2. f[i] = MinCapacity
      BY <1>4, <3>1
    <3>3. QED
      BY <2>1, <3>2
  <2>2. CASE i # 0
    <3>1. i - 1 \in 0 .. m /\ i \in 1 .. m /\ ~ (i < 1)
      BY <2>2
    <3>2. f[i - 1] \in Nat
      BY <1>4, <3>1
    <3>3. f[i] = step[<<f[i - 1], i>>]
      BY <1>4, <3>1
    <3>4. QED
      BY <1>1, <2>2, <3>1, <3>2, <3>3
  <2>3. QED
    BY <2>1, <2>2
<1>6. f = Step(f)
  BY <1>4, <1>5 DEF Step
<1>7. PICK g : g = CHOOSE h : h = Step(h)
  OBVIOUS
<1>8. g = Step(g)
  BY <1>6, <1>7
<1>9. Enough(nodes) = g[m]
  BY <1>0, <1>7 DEF Enough, Step
<1>10. ASSUME NEW i \in 0 .. m
       PROVE  g[i] = IF i = 0 THEN MinCapacity ELSE IF g[i - 1] >= least THEN g[i - 1] ELSE 2 * g[i - 1]
  BY <1>8 DEF Step
<1> DEFINE Large(i) == /\ g[i] \in Nat /\ g[i] >= 2
                       /\ g[i] >= least \/ g[i] >= 4 * (i - 1)
           G == {i \in Nat : i <= m => Large(i)}
<1>11. 0 \in G
  <2>1. g[0] = MinCapacity
    BY <1>10
  <2>2. QED
    BY <1>2, <2>1
<1>12. ASSUME NEW i \in Nat, i < m, i \in G PROVE i + 1 \in G
  <2>1. Large(i) /\ i + 1 \in 0 .. m /\ i + 1 - 1 = i /\ i + 1 # 0
    BY <1>12
  <2>2. g[i + 1] = IF g[i] >= least THEN g[i] ELSE 2 * g[i]
    BY <1>10, <2>1
  <2>3. PICK x \in Nat : x = g[i]
    BY <2>1
  <2>4. PICK y : y = g[i + 1]
    OBVIOUS
  <2>5. y = IF x >= least THEN x ELSE 2 * x
    BY <2>2, <2>3, <2>4
  <2>6. x >= 2 /\ (x >= least \/ x >= 4 * (i - 1))
    BY <2>1, <2>3
  <2>7. y \in Nat /\ y >= 2 /\ (y >= least \/ y >= 4 * i)
    BY <2>5, <2>6
  <2>8. Large(i + 1)
    BY <2>4, <2>7
  <2>9. QED
    BY <2>8
<1>13. \A i \in 0 .. m : i \in G
  <2>1. G \in SUBSET Nat /\ m \in Nat
    OBVIOUS
  <2> HIDE DEF G
  <2>2. QED
    BY <1>11, <1>12, <2>1, UpTo
<1>14. Large(m)
  BY <1>13
<1>15. QED
  BY <1>0, <1>9, <1>14

-----------------------------------------------------------------------------
(* The arena.                                                              *)

Indices == {NoIndex} \cup UNION {Slots(c) : c \in Nat \ {0}}
Arenas == [nodes : Seq(NodeType), slots : Indices, sharing : BOOLEAN, nextSymbol : 1 .. MaxSymbol]

(* At most half of an index is used, or, with one more slot, will be.      *)
HalfWith(slots, k) == slots = NoIndex \/ (Cardinality(Used(slots)) + k) * 2 <= Capacity(slots)

ArenaOK(a) ==
  /\ a \in Arenas
  /\ Len(a.nodes) <= MaxHandle
  /\ ~ a.sharing => a.slots = NoIndex
  /\ IndexOK(a.nodes, a.slots, Len(a.nodes))
  /\ \A h \in Live(a.nodes) : \A c \in Children(a.nodes[h]) : c < h /\ Arity(a.nodes[h].kind) = 2
  /\ \A h \in Live(a.nodes) : a.nodes[h].kind = "VAR" => a.nodes[h].payload < a.nextSymbol

LEMMA IndexType ==
  ASSUME NEW nodes, NEW slots, NEW n, IndexOK(nodes, slots, n)
  PROVE  slots \in Indices
BY DEF IndexOK, Indices

(* Keys and nodes.                                                         *)
LEMMA KeyShape ==
  ASSUME NEW node \in NodeType
  PROVE  /\ KeyOf(node) \in Keys /\ Hash(KeyOf(node)) \in Nat
         /\ KeyOf(node).kind = node.kind /\ KeyOf(node).payload = node.payload
         /\ KeyOf(node).child = node.child
<1>1. node.child \in (0 .. MaxHandle) \X (0 .. MaxHandle) /\ node.kind \in AllKinds /\ node.payload \in Payload
  BY DEF NodeType
<1>2. node.child = <<node.child[1], node.child[2]>>
  BY <1>1
<1>3. KeyOf(node) = [kind |-> node.kind, payload |-> node.payload, child |-> node.child]
  BY <1>2 DEF KeyOf, Key
<1>4. KeyOf(node) \in Keys
  BY <1>1, <1>3 DEF Keys
<1>5. QED
  BY <1>3, <1>4, StoreAssumption

LEMMA NodeFields ==
  ASSUME NEW node \in NodeType
  PROVE  /\ node.payload \in Nat /\ node.kind \in AllKinds
         /\ node.child[1] \in 0 .. MaxHandle /\ node.child[2] \in 0 .. MaxHandle
<1>1. MaxSymbol + MaxDefinitions + MaxSignatures \in Nat
  BY ArenaAssumption, StoreAssumption
<1>2. Payload \subseteq Nat
  BY <1>1 DEF Payload
<1>3. QED
  BY <1>2 DEF NodeType

LEMMA NodesHashed ==
  ASSUME NEW nodes \in Seq(NodeType)
  PROVE  Hashed(nodes) /\ Len(nodes) \in Nat /\ DOMAIN nodes = Live(nodes) /\ Live(nodes) = 1 .. Len(nodes)
         /\ \A t \in Live(nodes) : nodes[t] \in NodeType
<1>1. Len(nodes) \in Nat /\ DOMAIN nodes = Live(nodes) /\ Live(nodes) = 1 .. Len(nodes)
  BY DEF Live
<1>2. \A t \in Live(nodes) : nodes[t] \in NodeType
  BY <1>1
<1>3. QED
  BY <1>1, <1>2, KeyShape DEF Hashed

(* An empty index.                                                         *)
LEMMA EmptyIndex ==
  ASSUME NEW c \in Nat \ {0}
  PROVE  Empty(c) \in Slots(c) /\ Used(Empty(c)) = {} /\ Cardinality(Used(Empty(c))) = 0
<1>1. Empty(c) \in Slots(c)
  BY ArenaAssumption DEF Empty, Slots
<1>2. Used(Empty(c)) = {}
  BY DEF Used, Empty
<1>3. QED
  BY <1>1, <1>2, FS_EmptySet

LEMMA Reserves ==
  ASSUME NEW nodes \in Seq(NodeType), Len(nodes) <= MaxHandle, NEW slots, IndexOK(nodes, slots, Len(nodes)),
         NEW allocated, NEW new, new = Reserve(nodes, slots, allocated)
  PROVE  IndexOK(nodes, new, Len(nodes)) /\ HalfWith(new, 1)
<1>1. CASE slots # NoIndex /\ (Cardinality(Used(slots)) + 1) * 2 <= Capacity(slots)
  BY <1>1 DEF Reserve, HalfWith
<1>2. CASE ~ (slots # NoIndex /\ (Cardinality(Used(slots)) + 1) * 2 <= Capacity(slots)) /\ ~ allocated
  BY <1>2 DEF Reserve, HalfWith, IndexOK
<1>3. CASE ~ (slots # NoIndex /\ (Cardinality(Used(slots)) + 1) * 2 <= Capacity(slots)) /\ allocated
  <2>1. PICK n \in 0 .. MaxHandle : n = Len(nodes)
    BY ArenaAssumption
  <2>2. PICK c \in Nat \ {0} : c = Enough(nodes) /\ c >= 4 * (n + 1)
    BY <2>1, Sizes
  <2>3. new = InternAll(nodes, Empty(c), 1)
    BY <1>3, <2>2 DEF Reserve
  <2>4. PICK s \in Slots(c) : s = Empty(c) /\ Cardinality(Used(s)) = 0
    BY EmptyIndex
  <2>5. Hashed(nodes)
    BY NodesHashed
  <2>6. 1 \in 1 .. n + 1 /\ 1 .. 1 - 1 = {} /\ n - 1 + 1 = n /\ 0 + n < c
    BY <2>1, <2>2
  <2>7. /\ IndexOK(nodes, new, n) /\ new \in Slots(c)
        /\ Cardinality(Used(new)) <= n
    <3>1. PICK one : one = 1
      OBVIOUS
    <3>2. one \in 1 .. n + 1 /\ (\A t \in 1 .. one - 1 : FALSE) /\ n - one + 1 = n
      BY <2>1, <3>1
    <3>3. Cardinality(Used(s)) + (n - one + 1) < c
      BY <2>4, <2>6, <3>2
    <3>4. new = InternAll(nodes, s, one)
      BY <2>3, <2>4, <3>1
    <3>5. /\ IndexOK(nodes, new, n) /\ new \in Slots(c)
          /\ Cardinality(Used(new)) <= Cardinality(Used(s)) + (n - one + 1)
      BY <2>1, <2>5, <3>2, <3>3, <3>4, InternsAll
    <3>6. QED
      BY <2>1, <2>4, <3>2, <3>5
  <2>8. Capacity(new) = c /\ Cardinality(Used(new)) \in Nat
    <3>1. Capacity(new) = c
      <4>1. PICK x \in Slots(c) : x = new
        BY <2>7
      <4>2. Capacity(x) = c
        BY UsedShape
      <4>3. QED
        BY <4>1, <4>2
    <3>2. QED
      BY <2>7, <3>1, UsedShape
  <2>9. (Cardinality(Used(new)) + 1) * 2 <= Capacity(new)
    BY <2>1, <2>2, <2>7, <2>8
  <2>10. QED
    BY <2>1, <2>7, <2>9 DEF HalfWith
<1>4. QED
  BY <1>1, <1>2, <1>3

(* A depth there is.                                                       *)
LEMMA Depths ==
  ASSUME NEW nodes \in Seq(NodeType), NEW key \in Keys, WellFormed(nodes, key)
  PROVE  DepthOf(nodes, key) \in 1 .. MaxDepth + 1
<1>1. ASSUME NEW c \in Children(key) PROVE c \in Live(nodes) /\ nodes[c].depth \in 1 .. MaxDepth
  <2>1. \E i \in 1 .. 2 : c = key.child[i] /\ c # 0
    BY DEF Children
  <2>2. c \in Live(nodes)
    BY <2>1 DEF WellFormed
  <2>3. QED
    BY <2>2, NodesHashed DEF NodeType
<1> DEFINE below == {nodes[c].depth : c \in Children(key)}
           Fits(d) == (\A b \in below : b < d) /\ (d = 1 \/ d - 1 \in below)
<1>2. below \subseteq 1 .. MaxDepth
  BY <1>1
<1>3. \A b \in below : b = nodes[key.child[1]].depth \/ b = nodes[key.child[2]].depth
  BY DEF Children
<1>4. \E d \in 1 .. MaxDepth + 1 : Fits(d)
  <2>1. PICK x, y : x = nodes[key.child[1]].depth /\ y = nodes[key.child[2]].depth
    OBVIOUS
  <2>2. PICK B : B = below
    OBVIOUS
  <2>3. B \subseteq 1 .. MaxDepth /\ \A b \in B : b = x \/ b = y
    BY <1>2, <1>3, <2>1, <2>2
  <2>4. \E d \in 1 .. MaxDepth + 1 : (\A b \in B : b < d) /\ (d = 1 \/ d - 1 \in B)
    <3>1. CASE B = {}
      BY <3>1, ArenaAssumption
    <3>2. CASE x \in B /\ y \in B
      <4>1. x \in 1 .. MaxDepth /\ y \in 1 .. MaxDepth /\ MaxDepth \in Nat
        BY <2>3, <3>2, ArenaAssumption
      <4>2. CASE x >= y
        <5>1. x + 1 \in 1 .. MaxDepth + 1 /\ x + 1 - 1 = x /\ y < x + 1 /\ x < x + 1
          BY <4>1, <4>2
        <5>2. QED
          BY <2>3, <3>2, <5>1
      <4>3. CASE x < y
        <5>1. y + 1 \in 1 .. MaxDepth + 1 /\ y + 1 - 1 = y /\ y < y + 1 /\ x < y + 1
          BY <4>1, <4>3
        <5>2. QED
          BY <2>3, <3>2, <5>1
      <4>4. QED
        BY <4>1, <4>2, <4>3
    <3>3. CASE B # {} /\ x \notin B
      <4>1. PICK b \in B : b = y
        BY <2>3, <3>3
      <4>2. b \in 1 .. MaxDepth /\ \A e \in B : e = b
        BY <2>3, <3>3, <4>1
      <4>3. b + 1 \in 1 .. MaxDepth + 1 /\ b + 1 - 1 = b /\ b < b + 1
        BY <4>2, ArenaAssumption
      <4>4. QED
        BY <4>1, <4>2, <4>3
    <3>4. CASE B # {} /\ y \notin B
      <4>1. PICK b \in B : b = x
        BY <2>3, <3>4
      <4>2. b \in 1 .. MaxDepth /\ \A e \in B : e = b
        BY <2>3, <3>4, <4>1
      <4>3. b + 1 \in 1 .. MaxDepth + 1 /\ b + 1 - 1 = b /\ b < b + 1
        BY <4>2, ArenaAssumption
      <4>4. QED
        BY <4>1, <4>2, <4>3
    <3>5. QED
      BY <3>1, <3>2, <3>3, <3>4
  <2>5. QED
    BY <2>2, <2>4
<1>5. PICK d : d = CHOOSE e \in 1 .. MaxDepth + 1 : Fits(e)
  OBVIOUS
<1>6. DepthOf(nodes, key) = d
  BY <1>5 DEF DepthOf
<1>7. d \in 1 .. MaxDepth + 1
  <2> HIDE DEF Fits
  <2>1. QED
    BY <1>4, <1>5
<1>8. QED
  BY <1>6, <1>7

(* Appending a node.                                                       *)
LEMMA Appends ==
  ASSUME NEW a, ArenaOK(a), NEW key \in Keys, WellFormed(a.nodes, key),
         ~ (DepthOf(a.nodes, key) > MaxDepth), ~ (Len(a.nodes) >= MaxHandle),
         key.kind = "VAR" => key.payload \in 1 .. MaxSymbol /\ key.payload # MaxSymbol,
         HalfWith(a.slots, 1), NEW b, b = Append1(a, key)
  PROVE  /\ ArenaOK(b) /\ HalfWith(b.slots, 0)
         /\ Len(b.nodes) = Len(a.nodes) + 1
         /\ \A h \in Live(a.nodes) : b.nodes[h] = a.nodes[h]
         /\ KeyOf(b.nodes[Len(a.nodes) + 1]) = key
<1>1. a.nodes \in Seq(NodeType) /\ a.slots \in Indices /\ a.sharing \in BOOLEAN /\ a.nextSymbol \in 1 .. MaxSymbol
  BY DEF ArenaOK, Arenas
<1>2. PICK node : node = [kind |-> key.kind, payload |-> key.payload, child |-> key.child,
                          depth |-> DepthOf(a.nodes, key)]
  OBVIOUS
<1>3. node \in NodeType /\ KeyOf(node) = key /\ node.child = key.child /\ node.kind = key.kind
      /\ node.payload = key.payload
  <2>1. DepthOf(a.nodes, key) \in 1 .. MaxDepth
    BY <1>1, Depths, ArenaAssumption
  <2>2. key = [kind |-> key.kind, payload |-> key.payload, child |-> key.child]
        /\ key.kind \in AllKinds /\ key.payload \in Payload
        /\ key.child \in (0 .. MaxHandle) \X (0 .. MaxHandle)
    BY DEF Keys
  <2>3. node \in NodeType
    BY <1>2, <2>1, <2>2 DEF NodeType
  <2>4. key.child = <<key.child[1], key.child[2]>>
    BY <2>2
  <2>5. node.kind = key.kind /\ node.payload = key.payload /\ node.child = key.child
    BY <1>2
  <2>6. KeyOf(node) = key
    BY <2>2, <2>4, <2>5 DEF KeyOf, Key
  <2>7. QED
    BY <2>3, <2>5, <2>6
<1>4. PICK n \in Nat, t \in Nat : n = Len(a.nodes) /\ t = n + 1 /\ n < MaxHandle
  BY <1>1, ArenaAssumption
<1>5. PICK nodes : nodes = Append(a.nodes, node)
  OBVIOUS
<1>6. /\ nodes \in Seq(NodeType) /\ Len(nodes) = t /\ Live(nodes) = 1 .. t /\ Live(a.nodes) = 1 .. n
      /\ \A h \in 1 .. n : nodes[h] = a.nodes[h]
      /\ nodes[t] = node
  BY <1>1, <1>3, <1>4, <1>5 DEF Live
<1>7. PICK slots : slots = Intern(nodes, a.slots, t)
  OBVIOUS
<1>8. IndexOK(nodes, slots, t) /\ HalfWith(slots, 0)
  <2>1. CASE a.slots = NoIndex
    BY <1>7, <2>1 DEF Intern, IndexOK, HalfWith
  <2>2. CASE a.slots # NoIndex
    <3>1. PICK c \in Nat \ {0} :
            /\ a.slots \in Slots(c)
            /\ \E z \in 0 .. c - 1 : a.slots[z] = 0
            /\ \A u \in 1 .. n : Reaches(a.slots, KeyOf(a.nodes[u]), u)
      BY <1>4, <2>2 DEF ArenaOK, IndexOK
    <3>2. PICK z \in 0 .. c - 1 : a.slots[z] = 0
      BY <3>1
    <3>3. t \in Live(nodes) /\ Len(nodes) \in 0 .. MaxHandle /\ key = KeyOf(nodes[t]) /\ Hash(key) \in Nat
      BY <1>3, <1>4, <1>6, KeyShape, ArenaAssumption
    <3>4. /\ slots \in Slots(c)
          /\ Reaches(slots, key, t)
          /\ \A k : \A u \in Live(nodes) :
               Hash(k) \in Nat /\ u # t /\ Reaches(a.slots, k, u) => Reaches(slots, k, u)
          /\ \E s \in 0 .. c - 1 : Used(slots) = Used(a.slots) \cup {s}
      BY <1>7, <3>1, <3>2, <3>3, Interns, SMTT(30)
    <3>5. ASSUME NEW u \in 1 .. t PROVE Reaches(slots, KeyOf(nodes[u]), u)
      <4>1. CASE u = t
        BY <3>3, <3>4, <4>1
      <4>2. CASE u # t
        <5>1. u \in 1 .. n /\ u \in Live(nodes) /\ nodes[u] = a.nodes[u]
          BY <1>4, <1>6, <4>2
        <5>2. Reaches(a.slots, KeyOf(nodes[u]), u) /\ Hash(KeyOf(nodes[u])) \in Nat
          BY <1>6, <3>1, <5>1, NodesHashed DEF Hashed
        <5>3. QED
          BY <3>4, <4>2, <5>1, <5>2
      <4>3. QED
        BY <4>1, <4>2
    <3>6. (Cardinality(Used(slots)) + 0) * 2 <= c
      <4>1. PICK s \in 0 .. c - 1 : Used(slots) = Used(a.slots) \cup {s}
        BY <3>4
      <4>2. IsFiniteSet(Used(a.slots)) /\ Cardinality(Used(a.slots)) \in Nat /\ Cardinality(Used(slots)) \in Nat
        <5>1. PICK x \in Slots(c), y \in Slots(c) : x = a.slots /\ y = slots
          BY <3>1, <3>4
        <5>2. IsFiniteSet(Used(x)) /\ Cardinality(Used(x)) \in Nat /\ Cardinality(Used(y)) \in Nat
          BY UsedShape
        <5>3. QED
          BY <5>1, <5>2
      <4>3. Cardinality(Used(a.slots) \cup {s}) =
              IF s \in Used(a.slots) THEN Cardinality(Used(a.slots)) ELSE Cardinality(Used(a.slots)) + 1
        BY <4>2, FS_AddElement
      <4>4. Capacity(a.slots) = c
        <5>1. PICK x \in Slots(c) : x = a.slots
          BY <3>1
        <5>2. Capacity(x) = c
          BY UsedShape
        <5>3. QED
          BY <5>1, <5>2
      <4>5. (Cardinality(Used(a.slots)) + 1) * 2 <= c
        BY <2>2, <4>4 DEF HalfWith
      <4>6. Cardinality(Used(slots)) <= Cardinality(Used(a.slots)) + 1
        BY <4>1, <4>2, <4>3
      <4>7. QED
        BY <4>2, <4>5, <4>6
    <3>7. Capacity(slots) = c
      <4>1. PICK x \in Slots(c) : x = slots
        BY <3>4
      <4>2. Capacity(x) = c
        BY UsedShape
      <4>3. QED
        BY <4>1, <4>2
    <3>8. c - 1 \in Nat /\ \E y \in 0 .. c - 1 : slots[y] = 0
      <4>1. PICK x \in Slots(c) : x = slots
        BY <3>4
      <4>2. Cardinality(Used(x)) \in Nat
        BY UsedShape
      <4>3. Cardinality(Used(x)) < c
        BY <3>6, <4>1, <4>2
      <4>4. \E y \in 0 .. c - 1 : x[y] = 0
        BY <4>3, UsedShape
      <4>5. QED
        BY <4>1, <4>4
    <3>9. QED
      BY <3>4, <3>5, <3>6, <3>7, <3>8 DEF IndexOK, HalfWith
  <2>3. QED
    BY <2>1, <2>2
<1>9. PICK next \in 1 .. MaxSymbol :
        /\ next = NextSymbol(a, key) /\ next >= a.nextSymbol
        /\ key.kind = "VAR" => key.payload < next
  <2>1. key.kind = "VAR" => key.payload \in 1 .. MaxSymbol /\ key.payload # MaxSymbol
    OBVIOUS
  <2>2. QED
    BY <1>1, <2>1, ArenaAssumption DEF NextSymbol
<1>10. b = [a EXCEPT !.nodes = nodes, !.slots = slots, !.nextSymbol = next]
  BY <1>2, <1>4, <1>5, <1>7, <1>9 DEF Append1
<1>11. slots \in Indices
  BY <1>8, IndexType
<1>12. b \in Arenas /\ b.nodes = nodes /\ b.slots = slots /\ b.nextSymbol = next /\ b.sharing = a.sharing
  BY <1>6, <1>9, <1>10, <1>11 DEF ArenaOK, Arenas
<1>13. ~ b.sharing => b.slots = NoIndex
  BY <1>7, <1>12 DEF ArenaOK, Intern
<1>14. ASSUME NEW h \in Live(b.nodes), NEW c \in Children(b.nodes[h])
       PROVE  c < h /\ Arity(b.nodes[h].kind) = 2
  <2>1. CASE h = t
    <3>1. c \in Live(a.nodes) /\ Arity(key.kind) = 2
      <4>1. \E i \in 1 .. 2 : c = key.child[i] /\ c # 0
        BY <1>3, <1>6, <1>12, <1>14, <2>1 DEF Children
      <4>2. QED
        BY <4>1 DEF WellFormed, Arity
    <3>2. QED
      BY <1>3, <1>4, <1>6, <1>12, <2>1, <3>1
  <2>2. CASE h # t
    <3>1. h \in Live(a.nodes) /\ b.nodes[h] = a.nodes[h]
      BY <1>4, <1>6, <1>12, <1>14, <2>2
    <3>2. QED
      BY <1>14, <3>1 DEF ArenaOK
  <2>3. QED
    BY <2>1, <2>2
<1>15. ASSUME NEW h \in Live(b.nodes), b.nodes[h].kind = "VAR" PROVE b.nodes[h].payload < b.nextSymbol
  <2>1. CASE h = t
    BY <1>3, <1>6, <1>9, <1>12, <1>15, <2>1
  <2>2. CASE h # t
    <3>1. h \in Live(a.nodes) /\ b.nodes[h] = a.nodes[h]
      BY <1>4, <1>6, <1>12, <2>2
    <3>2. a.nodes[h].payload < a.nextSymbol
      BY <1>15, <3>1 DEF ArenaOK
    <3>3. a.nodes[h].payload \in Int
      <4>1. a.nodes[h] \in NodeType
        BY <1>1, <3>1, NodesHashed
      <4>2. QED
        BY <4>1, NodeFields
    <3>4. QED
      BY <1>1, <1>9, <1>12, <3>1, <3>2, <3>3
  <2>3. QED
    BY <2>1, <2>2
<1>16. ArenaOK(b)
  <2>1. Len(b.nodes) = t /\ t <= MaxHandle
    BY <1>4, <1>6, <1>12, ArenaAssumption
  <2>2. IndexOK(b.nodes, b.slots, Len(b.nodes))
    BY <1>8, <1>12, <2>1
  <2>3. QED
    BY <1>12, <1>13, <1>14, <1>15, <2>1, <2>2 DEF ArenaOK
<1>17. QED
  BY <1>3, <1>4, <1>6, <1>8, <1>12, <1>16

(* What ck_make returns: a node with the key, in an arena that still has   *)
(* every node it had, or an error.                                         *)
Grows(a, b) ==
  /\ ArenaOK(b)
  /\ \A h \in Live(a.nodes) : h \in Live(b.nodes) /\ b.nodes[h] = a.nodes[h]
  /\ (b.nodes = a.nodes /\ b.slots = a.slots) \/ HalfWith(b.slots, 0)
Made(a, m, key) ==
  /\ Grows(a, m.arena)
  /\ \/ m.term = 0 /\ m.error \in {"other", "resource"}
     \/ m.term \in Live(m.arena.nodes) /\ KeyOf(m.arena.nodes[m.term]) = key /\ m.error = "none"

LEMMA GrowsNot ==
  ASSUME NEW a, ArenaOK(a) PROVE Grows(a, a)
BY DEF Grows

LEMMA GrowsTwice ==
  ASSUME NEW a, NEW b, NEW c, Grows(a, b), Grows(b, c) PROVE Grows(a, c)
BY DEF Grows

(* Another index, or another next symbol.                                  *)
LEMMA OtherSlots ==
  ASSUME NEW a, ArenaOK(a), NEW slots, IndexOK(a.nodes, slots, Len(a.nodes)), a.sharing \/ slots = NoIndex,
         HalfWith(slots, 0), NEW b, b = [a EXCEPT !.slots = slots]
  PROVE  Grows(a, b) /\ b.nodes = a.nodes /\ b.slots = slots
<1>1. slots \in Indices
  BY IndexType
<1>2. b \in Arenas /\ b.nodes = a.nodes /\ b.slots = slots /\ b.sharing = a.sharing /\ b.nextSymbol = a.nextSymbol
  BY <1>1 DEF ArenaOK, Arenas
<1>3. QED
  BY <1>2 DEF Grows, ArenaOK

LEMMA OtherSymbol ==
  ASSUME NEW a, ArenaOK(a), a.nextSymbol # MaxSymbol, NEW b, b = [a EXCEPT !.nextSymbol = @ + 1]
  PROVE  Grows(a, b) /\ b.nodes = a.nodes
<1>1. PICK n \in 1 .. MaxSymbol : n = a.nextSymbol + 1
  BY ArenaAssumption DEF ArenaOK, Arenas
<1>2. b = [a EXCEPT !.nextSymbol = n]
  BY <1>1
<1>3. b \in Arenas /\ b.nodes = a.nodes /\ b.slots = a.slots /\ b.sharing = a.sharing /\ b.nextSymbol = n
  BY <1>1, <1>2 DEF ArenaOK, Arenas
<1>4. ASSUME NEW h \in Live(b.nodes), b.nodes[h].kind = "VAR" PROVE b.nodes[h].payload < b.nextSymbol
  <2>1. a.nodes[h].payload < a.nextSymbol /\ a.nodes \in Seq(NodeType) /\ a.nextSymbol \in Int
    BY <1>3, <1>4 DEF ArenaOK, Arenas
  <2>2. a.nodes[h].payload \in Nat
    BY <1>3, <1>4, <2>1, NodesHashed, NodeFields
  <2>3. QED
    BY <1>1, <1>3, <2>1, <2>2
<1>5. ArenaOK(b)
  BY <1>3, <1>4 DEF ArenaOK
<1>6. QED
  BY <1>3, <1>5 DEF Grows

LEMMA KeyType ==
  ASSUME NEW kind \in AllKinds, NEW payload \in Payload, NEW x \in 0 .. MaxHandle, NEW y \in 0 .. MaxHandle
  PROVE  /\ Key(kind, payload, x, y) \in Keys
         /\ Key(kind, payload, x, y).kind = kind /\ Key(kind, payload, x, y).payload = payload
         /\ Key(kind, payload, x, y).child = <<x, y>>
BY DEF Key, Keys

LEMMA Makes ==
  ASSUME NEW a, ArenaOK(a), NEW key \in Keys, key.kind = "VAR" => key.payload \in 1 .. MaxSymbol,
         NEW allocated, NEW m, m = Make(a, key, allocated)
  PROVE  Made(a, m, key)
<1> DEFINE refuse(arena1, class) == [arena |-> arena1, term |-> 0, error |-> class]
<1>1. PICK r : r = IF a.sharing THEN [a EXCEPT !.slots = Reserve(a.nodes, a.slots, allocated)] ELSE a
  OBVIOUS
<1>2. PICK found : found = IF a.sharing THEN FindIn(a.nodes, r.slots, key) ELSE 0
  OBVIOUS
<1>3. Grows(a, r) /\ r.nodes = a.nodes /\ HalfWith(r.slots, 1)
      /\ IndexOK(a.nodes, r.slots, Len(a.nodes))
  <2>1. CASE a.sharing
    <3>1. PICK s : s = Reserve(a.nodes, a.slots, allocated)
      OBVIOUS
    <3>2. a.nodes \in Seq(NodeType) /\ Len(a.nodes) <= MaxHandle /\ IndexOK(a.nodes, a.slots, Len(a.nodes))
      BY DEF ArenaOK, Arenas
    <3>3. IndexOK(a.nodes, s, Len(a.nodes)) /\ HalfWith(s, 1)
      BY <3>1, <3>2, Reserves
    <3>4. HalfWith(s, 0)
      <4>1. CASE s = NoIndex
        BY <4>1 DEF HalfWith
      <4>2. CASE s # NoIndex
        <5>1. PICK c \in Nat \ {0} : s \in Slots(c)
          BY <3>3, <4>2 DEF IndexOK
        <5>2. Cardinality(Used(s)) \in Nat /\ Capacity(s) = c
          BY <5>1, UsedShape
        <5>3. (Cardinality(Used(s)) + 1) * 2 <= c
          BY <3>3, <4>2, <5>2 DEF HalfWith
        <5>4. QED
          BY <5>2, <5>3 DEF HalfWith
      <4>3. QED
        BY <4>1, <4>2
    <3>5. r = [a EXCEPT !.slots = s]
      BY <1>1, <2>1, <3>1
    <3>6. Grows(a, r) /\ r.nodes = a.nodes /\ r.slots = s
      BY <2>1, <3>3, <3>4, <3>5, OtherSlots
    <3>7. QED
      BY <3>3, <3>6
  <2>2. CASE ~ a.sharing
    <3>1. r = a /\ r.slots = NoIndex
      BY <1>1, <2>2 DEF ArenaOK
    <3>2. QED
      BY <3>1, GrowsNot DEF HalfWith, IndexOK
  <2>3. QED
    BY <2>1, <2>2
<1>4. m = IF ~ WellFormed(a.nodes, key) THEN refuse(a, "other")
          ELSE IF key.kind = "VAR" /\ key.payload = MaxSymbol THEN refuse(a, "resource")
          ELSE IF found # 0 THEN [arena |-> r, term |-> found, error |-> "none"]
          ELSE IF DepthOf(a.nodes, key) > MaxDepth THEN refuse(r, "resource")
          ELSE IF Len(a.nodes) >= MaxHandle THEN refuse(r, "resource")
          ELSE [arena |-> Append1(r, key), term |-> Len(a.nodes) + 1, error |-> "none"]
  BY <1>1, <1>2 DEF Make
<1>5. CASE ~ WellFormed(a.nodes, key) \/ (key.kind = "VAR" /\ key.payload = MaxSymbol)
  <2>1. m.arena = a /\ m.term = 0 /\ m.error \in {"other", "resource"}
    BY <1>4, <1>5
  <2>2. QED
    BY <2>1, GrowsNot DEF Made
<1>6. CASE /\ WellFormed(a.nodes, key) /\ ~ (key.kind = "VAR" /\ key.payload = MaxSymbol)
           /\ found # 0
  <2>1. m.arena = r /\ m.term = found /\ m.error = "none"
    BY <1>4, <1>6
  <2>2. found \in Live(a.nodes) /\ KeyOf(a.nodes[found]) = key
    <3>1. found = FindIn(a.nodes, r.slots, key)
      BY <1>2, <1>6
    <3>2. r.slots # NoIndex
      BY <1>6, <3>1 DEF FindIn
    <3>3. PICK c \in Nat \ {0} : r.slots \in Slots(c) /\ \E z \in 0 .. c - 1 : r.slots[z] = 0
      BY <1>3, <3>2 DEF IndexOK
    <3>4. Hash(key) \in Nat
      BY StoreAssumption
    <3>5. PICK s \in Slots(c), z \in 0 .. c - 1 : s = r.slots /\ s[z] = 0
      BY <3>3
    <3>6. found = FindIn(a.nodes, s, key)
      BY <3>1, <3>5
    <3>7. PICK nodes : nodes = a.nodes
      OBVIOUS
    <3>8. s[z] = 0 /\ found = FindIn(nodes, s, key)
      BY <3>5, <3>6, <3>7
    <3>9. found = 0 \/ (found \in Live(nodes) /\ KeyOf(nodes[found]) = key)
      BY <3>4, <3>8, Finds
    <3>10. QED
      BY <1>6, <3>7, <3>9
  <2>3. QED
    BY <1>3, <2>1, <2>2 DEF Made
<1>7. CASE /\ WellFormed(a.nodes, key) /\ ~ (key.kind = "VAR" /\ key.payload = MaxSymbol)
           /\ ~ (found # 0) /\ (DepthOf(a.nodes, key) > MaxDepth \/ Len(a.nodes) >= MaxHandle)
  <2>1. m.arena = r /\ m.term = 0 /\ m.error = "resource"
    BY <1>4, <1>7
  <2>2. QED
    BY <1>3, <2>1 DEF Made
<1>8. CASE /\ WellFormed(a.nodes, key) /\ ~ (key.kind = "VAR" /\ key.payload = MaxSymbol)
           /\ ~ (found # 0) /\ ~ (DepthOf(a.nodes, key) > MaxDepth) /\ ~ (Len(a.nodes) >= MaxHandle)
  <2>1. m.arena = Append1(r, key) /\ m.term = Len(a.nodes) + 1 /\ m.error = "none"
    BY <1>4, <1>8
  <2>2. PICK b : b = Append1(r, key)
    OBVIOUS
  <2>3. /\ ArenaOK(b) /\ HalfWith(b.slots, 0)
        /\ Len(b.nodes) = Len(a.nodes) + 1
        /\ \A h \in Live(a.nodes) : b.nodes[h] = a.nodes[h]
        /\ KeyOf(b.nodes[Len(a.nodes) + 1]) = key
    <3>1. ArenaOK(r)
      BY <1>3 DEF Grows
    <3>2. /\ WellFormed(r.nodes, key) /\ ~ (DepthOf(r.nodes, key) > MaxDepth) /\ ~ (Len(r.nodes) >= MaxHandle)
          /\ key.kind = "VAR" => key.payload \in 1 .. MaxSymbol /\ key.payload # MaxSymbol
      BY <1>3, <1>8
    <3>3. QED
      BY <1>3, <2>2, <3>1, <3>2, Appends
  <2>4. Len(a.nodes) \in Nat
    BY DEF ArenaOK, Arenas
  <2>5. Len(a.nodes) + 1 \in Live(b.nodes) /\ \A h \in Live(a.nodes) : h \in Live(b.nodes)
    BY <2>3, <2>4 DEF Live
  <2>6. QED
    BY <2>1, <2>2, <2>3, <2>5 DEF Made, Grows
<1>9. QED
  BY <1>5, <1>6, <1>7, <1>8

-----------------------------------------------------------------------------
(* What a commit keeps, and where it moves it.                             *)

Stay == (1 .. checkpoint.count - 1) \cup Survivors

LEMMA SurvivorsClosed ==
  /\ Survivors \subseteq New /\ Roots \cap New \subseteq Survivors
  /\ \A t \in Survivors : Children(Nodes[t]) \cap New \subseteq Survivors
<1> DEFINE Holds(K) == Roots \cap New \subseteq K /\ ClosedUnderChildren(K)
<1>1. Survivors \subseteq New
  BY DEF Survivors
<1>2. Roots \cap New \subseteq Survivors
  BY DEF Survivors
<1>3. ASSUME NEW t \in Survivors, NEW c \in Children(Nodes[t]) \cap New PROVE c \in Survivors
  <2>1. ASSUME NEW K \in SUBSET New, Roots \cap New \subseteq K, ClosedUnderChildren(K) PROVE c \in K
    <3>1. t \in K
      BY <1>3, <2>1 DEF Survivors
    <3>2. QED
      BY <1>3, <2>1, <3>1 DEF ClosedUnderChildren
  <2>2. c \in New
    BY <1>3
  <2>3. QED
    BY <2>1, <2>2 DEF Survivors
<1>4. QED
  BY <1>1, <1>2, <1>3

(* The state a commit starts from.                                         *)
Committing ==
  /\ ArenaOK(arena) /\ checkpoint.count \in 1 .. Len(Nodes) + 1

LEMMA Stays ==
  ASSUME Committing
  PROVE  /\ Stay \subseteq Live(Nodes)
         /\ \A t \in Stay : Children(Nodes[t]) \subseteq Stay
<1>1. Len(Nodes) \in Nat /\ checkpoint.count \in Nat /\ Live(Nodes) = 1 .. Len(Nodes)
      /\ checkpoint.count >= 1 /\ checkpoint.count <= Len(Nodes) + 1
  BY DEF Committing, ArenaOK, Arenas, Live, Nodes
<1>2. Stay \subseteq Live(Nodes)
  <2>1. \A t \in Survivors : t \in New
    BY SurvivorsClosed
  <2>2. ASSUME NEW t \in Survivors PROVE t \in Live(Nodes)
    <3>1. t \in checkpoint.count .. Len(Nodes)
      BY <2>1 DEF New
    <3>2. QED
      BY <1>1, <3>1
  <2>3. ASSUME NEW t \in 1 .. checkpoint.count - 1 PROVE t \in Live(Nodes)
    BY <1>1
  <2>4. QED
    BY <2>2, <2>3 DEF Stay
<1>3. ASSUME NEW t \in Stay, NEW c \in Children(Nodes[t]) PROVE c \in Stay
  <2>1. Nodes[t] \in NodeType /\ t \in Live(Nodes)
    BY <1>2, NodesHashed DEF Committing, ArenaOK, Arenas, Nodes
  <2>2. c < t /\ c \in Nat /\ c # 0
    BY <1>3, <2>1, NodeFields DEF Committing, ArenaOK, Nodes, Children
  <2>3. CASE c < checkpoint.count
    BY <1>1, <2>2, <2>3 DEF Stay
  <2>4. CASE ~ (c < checkpoint.count)
    <3>1. c \in New /\ t \in Survivors
      BY <1>1, <2>1, <2>2, <2>4 DEF New, Stay
    <3>2. QED
      BY <1>3, <3>1, SurvivorsClosed DEF Stay
  <2>5. QED
    BY <1>1, <2>2, <2>3, <2>4
<1>4. QED
  BY <1>2, <1>3

(* A list of the survivors.                                                *)
LEMMA Listed ==
  ASSUME Committing, NEW order \in Listings(Survivors)
  PROVE  \E k \in Nat :
           /\ k = Cardinality(Survivors) /\ k = Len(order) /\ DOMAIN order = 1 .. k
           /\ checkpoint.count - 1 + k <= Len(Nodes)
           /\ checkpoint.count - 1 + k = Len(Nodes) => Survivors = New
           /\ \A i \in 1 .. k : order[i] \in Survivors /\ order[i] >= checkpoint.count + i - 1
           /\ \A i, j \in 1 .. k : i < j => order[i] < order[j]
           /\ \A t \in Survivors : \E i \in 1 .. k : order[i] = t
<1>1. /\ Len(Nodes) \in Nat /\ checkpoint.count \in Nat /\ checkpoint.count >= 1
      /\ checkpoint.count <= Len(Nodes) + 1
  BY DEF Committing, ArenaOK, Arenas, Nodes
<1>2. IsFiniteSet(New) /\ Cardinality(New) = Len(Nodes) - checkpoint.count + 1
  <2>1. PICK a \in Int, b \in Int : a = checkpoint.count /\ b = Len(Nodes) /\ a <= b + 1
    BY <1>1
  <2>2. IsFiniteSet(a .. b) /\ Cardinality(a .. b) = IF a > b THEN 0 ELSE b - a + 1
    BY FS_Interval
  <2>3. QED
    BY <2>1, <2>2 DEF New
<1>3. PICK k \in Nat : k = Cardinality(Survivors) /\ k <= Cardinality(New) /\ (Cardinality(New) = k => Survivors = New)
  <2>1. Survivors \in SUBSET New
    BY SurvivorsClosed
  <2>2. QED
    BY <1>2, <2>1, FS_Subset, FS_CardinalityType
<1>4. /\ order \in [1 .. k -> Survivors]
      /\ \A i, j \in 1 .. k : i < j => order[i] < order[j]
      /\ \A t \in Survivors : \E i \in 1 .. k : order[i] = t
  BY <1>3 DEF Listings
<1>5. DOMAIN order = 1 .. k /\ Len(order) = k
  BY <1>4
<1>6. \A i \in 1 .. k : order[i] \in Int /\ order[i] >= checkpoint.count
  <2>1. \A t \in Survivors : t \in checkpoint.count .. Len(Nodes)
    BY SurvivorsClosed DEF New
  <2>2. ASSUME NEW i \in 1 .. k PROVE order[i] \in Int /\ order[i] >= checkpoint.count
    <3>1. order[i] \in checkpoint.count .. Len(Nodes)
      BY <1>4, <2>1
    <3>2. QED
      BY <1>1, <3>1
  <2>3. QED
    BY <2>2
<1> DEFINE G == {i \in Nat : i \in 1 .. k => order[i] >= checkpoint.count + i - 1}
<1>7. 0 \in G
  OBVIOUS
<1>8. ASSUME NEW i \in Nat, i < k, i \in G PROVE i + 1 \in G
  <2>1. CASE i = 0
    <3>1. 1 \in 1 .. k
      BY <1>8, <2>1
    <3>2. order[1] >= checkpoint.count + 1 - 1
      BY <1>1, <1>6, <3>1
    <3>3. QED
      BY <2>1, <3>2
  <2>2. CASE i # 0
    <3>1. i \in 1 .. k /\ i + 1 \in 1 .. k
      BY <1>8, <2>2
    <3>2. order[i] >= checkpoint.count + i - 1 /\ order[i] < order[i + 1]
      BY <1>4, <1>8, <3>1
    <3>3. order[i] \in Int /\ order[i + 1] \in Int
      BY <1>6, <3>1
    <3>4. order[i + 1] >= checkpoint.count + (i + 1) - 1
      BY <1>1, <3>2, <3>3
    <3>5. QED
      BY <3>4
  <2>3. QED
    BY <2>1, <2>2
<1>9. \A i \in 0 .. k : i \in G
  <2>1. G \in SUBSET Nat
    OBVIOUS
  <2> HIDE DEF G
  <2>2. QED
    BY <1>7, <1>8, <2>1, UpTo
<1>10. \A i \in 1 .. k : order[i] \in Survivors /\ order[i] >= checkpoint.count + i - 1
  BY <1>4, <1>9
<1>11. /\ checkpoint.count - 1 + k <= Len(Nodes)
       /\ checkpoint.count - 1 + k = Len(Nodes) => Survivors = New
  BY <1>1, <1>2, <1>3
<1>12. QED
  BY <1>3, <1>4, <1>5, <1>10, <1>11

(* A node whose children are moved.                                        *)
MovedNode(order, node) == [node EXCEPT !.child = <<Moved(order, @[1]), Moved(order, @[2])>>]

LEMMA Places ==
  ASSUME Committing, NEW order \in Listings(Survivors)
  PROVE  /\ Moved(order, 0) = 0
         /\ \A t \in 1 .. checkpoint.count - 1 : Moved(order, t) = t
         /\ \A i \in DOMAIN order : Moved(order, order[i]) = checkpoint.count - 1 + i
         /\ \A t \in Survivors : \E i \in DOMAIN order : order[i] = t
         /\ \A t \in New \ Survivors : Moved(order, t) = 0
<1>1. PICK k \in Nat :
        /\ k = Cardinality(Survivors) /\ k = Len(order) /\ DOMAIN order = 1 .. k
        /\ checkpoint.count - 1 + k <= Len(Nodes)
        /\ checkpoint.count - 1 + k = Len(Nodes) => Survivors = New
        /\ \A i \in 1 .. k : order[i] \in Survivors /\ order[i] >= checkpoint.count + i - 1
        /\ \A i, j \in 1 .. k : i < j => order[i] < order[j]
        /\ \A t \in Survivors : \E i \in 1 .. k : order[i] = t
  BY Listed
<1>2. checkpoint.count \in Nat /\ checkpoint.count >= 1
  BY DEF Committing, ArenaOK, Arenas, Nodes
<1>3. \A t \in Survivors : t \in New
  BY SurvivorsClosed
<1>4. \A t \in New : t \in Int /\ ~ (t < checkpoint.count) /\ t # 0
  BY <1>2 DEF New
<1>5. ASSUME NEW i \in 1 .. k PROVE Moved(order, order[i]) = checkpoint.count - 1 + i
  <2>1. \A j \in 1 .. k : order[j] = order[i] => j = i
    <3>1. ASSUME NEW j \in 1 .. k, order[j] = order[i], j # i PROVE FALSE
      <4>1. order[i] < order[j] \/ order[j] < order[i]
        BY <1>1, <3>1
      <4>2. order[i] \in Int
        BY <1>1, <1>3, <1>4
      <4>3. QED
        BY <3>1, <4>1, <4>2
    <3>2. QED
      BY <3>1
  <2>2. (CHOOSE j \in DOMAIN order : order[j] = order[i]) = i
    BY <1>1, <2>1
  <2>3. ~ (order[i] < checkpoint.count) /\ \E j \in DOMAIN order : order[j] = order[i]
    BY <1>1, <1>3, <1>4
  <2>4. QED
    BY <2>2, <2>3 DEF Moved
<1>6. ASSUME NEW t \in New \ Survivors PROVE Moved(order, t) = 0
  BY <1>1, <1>4 DEF Moved
<1>7. Moved(order, 0) = 0 /\ \A t \in 1 .. checkpoint.count - 1 : Moved(order, t) = t
  <2>1. 0 < checkpoint.count /\ \A t \in 1 .. checkpoint.count - 1 : t < checkpoint.count
    BY <1>2
  <2>2. QED
    BY <2>1 DEF Moved
<1>8. QED
  BY <1>1, <1>5, <1>6, <1>7

LEMMA Moves ==
  ASSUME Committing, NEW order \in Listings(Survivors), NEW nodes, nodes = Compacted(order)
  PROVE  /\ nodes \in Seq(NodeType) /\ Len(nodes) <= Len(Nodes)
         /\ \A t \in Stay : /\ Moved(order, t) \in Live(nodes) /\ Moved(order, t) <= t
                            /\ nodes[Moved(order, t)] = MovedNode(order, Nodes[t])
         /\ \A h \in Live(nodes) : \E t \in Stay : h = Moved(order, t)
         /\ \A t, u \in Stay : t < u => Moved(order, t) < Moved(order, u)
         /\ checkpoint.count - 1 <= Len(nodes) /\ \A h \in 1 .. checkpoint.count - 1 : nodes[h] = Nodes[h]
         /\ Len(nodes) = Len(Nodes) => Stay = Live(Nodes)
<1>1. PICK k \in Nat :
        /\ k = Cardinality(Survivors) /\ k = Len(order) /\ DOMAIN order = 1 .. k
        /\ checkpoint.count - 1 + k <= Len(Nodes)
        /\ checkpoint.count - 1 + k = Len(Nodes) => Survivors = New
        /\ \A i \in 1 .. k : order[i] \in Survivors /\ order[i] >= checkpoint.count + i - 1
        /\ \A i, j \in 1 .. k : i < j => order[i] < order[j]
        /\ \A t \in Survivors : \E i \in 1 .. k : order[i] = t
  BY Listed
<1>2. /\ checkpoint.count \in Nat /\ checkpoint.count >= 1 /\ Len(Nodes) \in Nat /\ Nodes \in Seq(NodeType)
      /\ Len(Nodes) <= MaxHandle /\ Live(Nodes) = 1 .. Len(Nodes) /\ DOMAIN Nodes = Live(Nodes)
      /\ checkpoint.count <= Len(Nodes) + 1
      /\ \A t \in Live(Nodes) : Nodes[t] \in NodeType
  BY NodesHashed DEF Committing, ArenaOK, Arenas, Nodes
<1>3. PICK b \in Nat, n \in Nat : b = checkpoint.count - 1 /\ n = b + k /\ checkpoint.count = b + 1
  BY <1>2
<1>4. nodes = [h \in 1 .. n |->
                IF h <= b THEN Nodes[h] ELSE MovedNode(order, Nodes[order[h - b]])]
  <2>1. \A h \in 1 .. n : (h < checkpoint.count <=> h <= b) /\ h - checkpoint.count + 1 = h - b
    BY <1>3
  <2>2. nodes = [h \in 1 .. n |->
                   IF h < checkpoint.count THEN Nodes[h]
                   ELSE MovedNode(order, Nodes[order[h - checkpoint.count + 1]])]
    BY <1>1, <1>3 DEF Compacted, MovedNode
  <2>3. QED
    BY <2>1, <2>2
<1>5. /\ \A t \in 1 .. b : Moved(order, t) = t
      /\ \A i \in 1 .. k : Moved(order, order[i]) = b + i
      /\ Moved(order, 0) = 0
  BY <1>1, <1>3, Places
<1>6. ASSUME NEW t \in Stay PROVE t \in 1 .. b \/ \E i \in 1 .. k : order[i] = t
  BY <1>1, <1>3, <1>6 DEF Stay
<1>7. \A i \in 1 .. k : order[i] \in Live(Nodes) /\ order[i] \in Stay
  <2>1. \A t \in Survivors : t \in Stay
    BY DEF Stay
  <2>2. QED
    BY <1>1, <2>1, Stays
<1>8. ASSUME NEW t \in Stay PROVE Moved(order, t) \in 1 .. n /\ Moved(order, t) <= t /\ t \in Nat
  <2>1. CASE t \in 1 .. b
    BY <1>3, <1>5, <2>1
  <2>2. CASE t \notin 1 .. b
    <3>1. PICK i \in 1 .. k : order[i] = t
      BY <1>6, <2>2
    <3>2. Moved(order, t) = b + i
      BY <1>5, <3>1
    <3>3. b + i \in 1 .. n
      BY <1>3
    <3>4. t \in Nat
      BY <1>2, <1>7, <3>1
    <3>5. t >= checkpoint.count + i - 1
      BY <1>1, <3>1
    <3>6. t >= b + i
      BY <1>3, <3>5
    <3>7. QED
      BY <3>2, <3>3, <3>4, <3>6
  <2>3. QED
    BY <2>1, <2>2
<1>9. ASSUME NEW node \in NodeType,
             Moved(order, node.child[1]) \in 0 .. MaxHandle, Moved(order, node.child[2]) \in 0 .. MaxHandle
      PROVE  MovedNode(order, node) \in NodeType
  BY <1>9 DEF MovedNode, NodeType
<1>10. ASSUME NEW t \in Stay PROVE MovedNode(order, Nodes[t]) \in NodeType
  <2>1. Nodes[t] \in NodeType
    BY <1>2, Stays
  <2>2. ASSUME NEW c \in {Nodes[t].child[1], Nodes[t].child[2]} PROVE Moved(order, c) \in 0 .. MaxHandle
    <3>1. CASE c = 0
      BY <1>5, <3>1, ArenaAssumption
    <3>2. CASE c # 0
      <4>1. c \in Stay
        BY <2>2, <3>2, Stays DEF Children
      <4>2. Moved(order, c) \in 1 .. n /\ n <= MaxHandle
        BY <1>1, <1>2, <1>3, <1>8, <4>1, ArenaAssumption
      <4>3. QED
        BY <1>3, <4>2, ArenaAssumption
    <3>3. QED
      BY <3>1, <3>2
  <2>3. QED
    BY <1>9, <2>1, <2>2
<1>11. ASSUME NEW h \in 1 .. n PROVE nodes[h] \in NodeType
  <2>1. CASE h <= b
    <3>1. h \in Live(Nodes)
      BY <1>2, <1>3, <2>1
    <3>2. nodes[h] = Nodes[h]
      BY <1>4, <2>1
    <3>3. QED
      BY <1>2, <3>1, <3>2
  <2>2. CASE ~ (h <= b)
    <3>1. h - b \in 1 .. k
      BY <1>3, <2>2
    <3>2. nodes[h] = MovedNode(order, Nodes[order[h - b]])
      BY <1>4, <2>2
    <3>3. QED
      BY <1>7, <1>10, <3>1, <3>2
  <2>3. QED
    BY <2>1, <2>2
<1>12. nodes \in Seq(NodeType) /\ Len(nodes) = n /\ Live(nodes) = 1 .. n
  <2>1. nodes \in [1 .. n -> NodeType]
    BY <1>4, <1>11
  <2>2. nodes \in Seq(NodeType) /\ Len(nodes) = n
    BY <1>3, <2>1
  <2>3. QED
    BY <2>2 DEF Live
<1>13. ASSUME NEW t \in Stay PROVE nodes[Moved(order, t)] = MovedNode(order, Nodes[t])
  <2>1. CASE t \in 1 .. b
    <3>1. Moved(order, t) = t /\ nodes[t] = Nodes[t] /\ t \in Live(Nodes) /\ t <= b
      <4>1. t <= b /\ t \in 1 .. n /\ t \in Live(Nodes)
        BY <1>2, <1>3, <2>1, SMTT(30)
      <4>2. nodes[t] = Nodes[t]
        BY <1>4, <4>1
      <4>3. QED
        BY <1>5, <2>1, <4>1, <4>2
    <3>2. Nodes[t] \in NodeType
      BY <1>2, <3>1
    <3>3. ASSUME NEW c \in {Nodes[t].child[1], Nodes[t].child[2]} PROVE Moved(order, c) = c
      <4>1. CASE c = 0
        BY <1>5, <4>1
      <4>2. CASE c # 0
        <5>1. c \in Nat /\ c < t
          BY <3>1, <3>2, <3>3, <4>2, NodeFields DEF Committing, ArenaOK, Nodes, Children
        <5>2. c \in 1 .. b
          BY <1>3, <2>1, <4>2, <5>1
        <5>3. QED
          BY <1>5, <5>2
      <4>3. QED
        BY <4>1, <4>2
    <3>4. Moved(order, Nodes[t].child[1]) = Nodes[t].child[1] /\ Moved(order, Nodes[t].child[2]) = Nodes[t].child[2]
      BY <3>3
    <3>5. MovedNode(order, Nodes[t]) = Nodes[t]
      <4>1. MovedNode(order, Nodes[t]) = [Nodes[t] EXCEPT !.child = <<Nodes[t].child[1], Nodes[t].child[2]>>]
        BY <3>4 DEF MovedNode
      <4>2. Nodes[t].child = <<Nodes[t].child[1], Nodes[t].child[2]>>
        BY <3>2 DEF NodeType
      <4>3. QED
        BY <3>2, <4>1, <4>2 DEF NodeType
    <3>6. QED
      BY <3>1, <3>5
  <2>2. CASE t \notin 1 .. b
    <3>1. PICK i \in 1 .. k : order[i] = t
      BY <1>6, <2>2
    <3>2. Moved(order, t) = b + i /\ b + i \in 1 .. n /\ ~ (b + i <= b) /\ b + i - b = i
      BY <1>3, <1>5, <3>1
    <3>3. QED
      BY <1>4, <3>1, <3>2
  <2>3. QED
    BY <2>1, <2>2
<1>14. ASSUME NEW h \in 1 .. n PROVE \E t \in Stay : h = Moved(order, t)
  <2>1. CASE h <= b
    <3>1. h \in 1 .. b /\ h \in Stay
      BY <1>3, <2>1 DEF Stay
    <3>2. QED
      BY <1>5, <3>1
  <2>2. CASE ~ (h <= b)
    <3>1. h - b \in 1 .. k /\ b + (h - b) = h
      BY <1>3, <2>2
    <3>2. QED
      BY <1>5, <1>7, <3>1
  <2>3. QED
    BY <2>1, <2>2
<1>15. ASSUME NEW t \in Stay, NEW u \in Stay, t < u PROVE Moved(order, t) < Moved(order, u)
  <2>1. CASE u \in 1 .. b
    <3>1. t \in 1 .. b
      BY <1>3, <1>8, <1>15, <2>1
    <3>2. QED
      BY <1>5, <1>15, <2>1, <3>1
  <2>2. CASE u \notin 1 .. b
    <3>1. PICK j \in 1 .. k : order[j] = u
      BY <1>6, <2>2
    <3>2. CASE t \in 1 .. b
      BY <1>3, <1>5, <3>1, <3>2
    <3>3. CASE t \notin 1 .. b
      <4>1. PICK i \in 1 .. k : order[i] = t
        BY <1>6, <3>3
      <4>2. i < j
        <5>1. SUFFICES ASSUME ~ (i < j) PROVE FALSE
          OBVIOUS
        <5>2. i = j \/ order[j] < order[i]
          BY <1>1, <5>1
        <5>3. QED
          BY <1>8, <1>15, <3>1, <4>1, <5>2
      <4>3. QED
        BY <1>3, <1>5, <3>1, <4>1, <4>2
    <3>4. QED
      BY <3>2, <3>3
  <2>3. QED
    BY <2>1, <2>2
<1>16. checkpoint.count - 1 <= Len(nodes) /\ \A h \in 1 .. checkpoint.count - 1 : nodes[h] = Nodes[h]
  <2>1. b <= n /\ \A h \in 1 .. b : h <= b /\ h \in 1 .. n
    BY <1>3
  <2>2. \A h \in 1 .. b : nodes[h] = Nodes[h]
    BY <1>4, <2>1
  <2>3. QED
    BY <1>3, <1>12, <2>1, <2>2
<1>17. Len(nodes) = Len(Nodes) => Stay = Live(Nodes)
  <2>1. SUFFICES ASSUME Len(nodes) = Len(Nodes) PROVE Stay = Live(Nodes)
    OBVIOUS
  <2>2. Survivors = New
    BY <1>1, <1>3, <1>12, <2>1
  <2>3. ASSUME NEW t \in Live(Nodes) PROVE t \in Stay
    BY <1>2, <1>3, <2>2 DEF Stay, New
  <2>4. QED
    BY <2>3, Stays
<1>18. Len(nodes) <= Len(Nodes)
  BY <1>1, <1>3, <1>12
<1>19. QED
  BY <1>8, <1>12, <1>13, <1>14, <1>15, <1>16, <1>17, <1>18

(* As many slots are used as there are nodes, at least.                    *)
LEMMA UsedByAll ==
  ASSUME NEW nodes, NEW n \in Nat, NEW c \in Nat \ {0}, NEW slots \in Slots(c),
         \A t \in 1 .. n : Hash(KeyOf(nodes[t])) \in Nat /\ Reaches(slots, KeyOf(nodes[t]), t)
  PROVE  n <= Cardinality(Used(slots))
<1>1. ASSUME NEW t \in 1 .. n PROVE \E s \in Used(slots) : slots[s] = t
  <2>1. Capacity(slots) = c
    BY UsedShape
  <2>2. PICK j \in 0 .. c - 1 : slots[Walk(slots, KeyOf(nodes[t]), j)] = t
    BY <2>1 DEF Reaches
  <2>3. Walk(slots, KeyOf(nodes[t]), j) \in 0 .. c - 1
    BY Walks
  <2>4. QED
    BY <2>2, <2>3 DEF Used, Slots
<1> DEFINE f == [t \in 1 .. n |-> CHOOSE s \in Used(slots) : slots[s] = t]
<1>2. ASSUME NEW t \in 1 .. n PROVE f[t] \in Used(slots) /\ slots[f[t]] = t
  BY <1>1
<1>3. f \in [1 .. n -> Used(slots)]
  BY <1>2
<1>4. IsFiniteSet(Used(slots)) /\ Cardinality(Used(slots)) \in Nat
  BY UsedShape
<1>5. IsFiniteSet(1 .. n) /\ Cardinality(1 .. n) = n
  BY FS_Interval
<1> HIDE DEF f
<1>6. ~ (Cardinality(Used(slots)) < n)
  <2>1. SUFFICES ASSUME Cardinality(Used(slots)) < Cardinality(1 .. n) PROVE FALSE
    BY <1>5
  <2>2. \E x, y \in 1 .. n : x # y /\ f[x] = f[y]
    BY <1>3, <1>4, <1>5, <2>1, FS_PigeonHole
  <2>3. QED
    BY <1>2, <2>2
<1>7. QED
  BY <1>4, <1>6

(* The survivors are moved and indexed again.                              *)
LEMMA Compacts ==
  ASSUME Committing, checkpoint.count <= Len(Nodes) => HalfWith(arena.slots, 0),
         NEW order \in Listings(Survivors), NEW nodes, nodes = Compacted(order),
         NEW b, b = [arena EXCEPT !.nodes = nodes, !.slots = Reindexed(nodes)]
  PROVE  ArenaOK(b) /\ b.nodes = nodes
<1>1. /\ nodes \in Seq(NodeType) /\ Len(nodes) <= Len(Nodes)
      /\ \A t \in Stay : /\ Moved(order, t) \in Live(nodes) /\ Moved(order, t) <= t
                         /\ nodes[Moved(order, t)] = MovedNode(order, Nodes[t])
      /\ \A h \in Live(nodes) : \E t \in Stay : h = Moved(order, t)
      /\ \A t, u \in Stay : t < u => Moved(order, t) < Moved(order, u)
      /\ checkpoint.count - 1 <= Len(nodes) /\ \A h \in 1 .. checkpoint.count - 1 : nodes[h] = Nodes[h]
      /\ Len(nodes) = Len(Nodes) => Stay = Live(Nodes)
  BY Moves
<1>2. /\ arena \in Arenas /\ Nodes = arena.nodes /\ Nodes \in Seq(NodeType) /\ Len(Nodes) <= MaxHandle
      /\ checkpoint.count \in Nat /\ checkpoint.count >= 1 /\ Len(Nodes) \in Nat
      /\ Live(Nodes) = 1 .. Len(Nodes) /\ checkpoint.count <= Len(Nodes) + 1
      /\ \A t \in Live(Nodes) : Nodes[t] \in NodeType
  BY NodesHashed DEF Committing, ArenaOK, Arenas, Nodes
<1>3. PICK n \in 0 .. MaxHandle : n = Len(nodes)
  BY <1>1, <1>2, ArenaAssumption
<1>4. Live(nodes) = 1 .. n /\ Hashed(nodes) /\ n \in Nat /\ \A t \in Live(nodes) : nodes[t] \in NodeType
  BY <1>1, <1>3, NodesHashed
<1>5. PICK first \in 1 .. n + 1 : first = checkpoint.count
  BY <1>1, <1>2, <1>3, <1>4
<1>6. PICK slots : slots = InternAll(nodes, arena.slots, first)
  OBVIOUS
<1>7. \A t \in 1 .. first - 1 : nodes[t] = Nodes[t] /\ t \in Live(Nodes)
  BY <1>1, <1>2, <1>5
<1>8. ASSUME Len(nodes) = Len(Nodes) PROVE \A t \in Live(Nodes) : Moved(order, t) = t
  <2>1. Stay = Live(Nodes)
    BY <1>1, <1>8
  <2> DEFINE Bad == {t \in Live(Nodes) : Moved(order, t) # t}
  <2>2. SUFFICES ASSUME Bad # {} PROVE FALSE
    OBVIOUS
  <2>3. PICK m \in Bad : \A t \in Bad : m <= t
    <3>1. Bad \in SUBSET Nat
      BY <1>2
    <3> HIDE DEF Bad
    <3>2. QED
      BY <2>2, <3>1, LeastNat, Zenon
  <2>4. m \in Stay /\ m \in Nat
    BY <1>2, <2>1, <2>3
  <2>5. Moved(order, m) \in Live(Nodes) /\ Moved(order, m) < m
    BY <1>1, <1>2, <1>4, <1>3, <1>8, <2>3, <2>4
  <2>6. Moved(order, m) \notin Bad
    BY <1>2, <2>3, <2>4, <2>5
  <2>7. Moved(order, Moved(order, m)) = Moved(order, m)
    BY <2>5, <2>6
  <2>8. Moved(order, Moved(order, m)) < Moved(order, m)
    BY <1>1, <2>1, <2>4, <2>5
  <2>9. QED
    BY <1>2, <2>5, <2>7, <2>8
<1>9. ASSUME Len(nodes) = Len(Nodes), NEW t \in Live(Nodes) PROVE KeyOf(nodes[t]) = KeyOf(Nodes[t])
  <2>1. nodes[t] = MovedNode(order, Nodes[t])
    BY <1>1, <1>8, <1>9
  <2>2. Nodes[t] \in NodeType
    BY <1>2
  <2>3. ASSUME NEW c \in {Nodes[t].child[1], Nodes[t].child[2]} PROVE Moved(order, c) = c
    <3>1. CASE c = 0
      BY <3>1, Places, <1>1
    <3>2. CASE c # 0
      <4>1. c \in Stay
        <5>1. t \in Stay
          BY <1>1, <1>9
        <5>2. QED
          BY <2>3, <3>2, <5>1, Stays DEF Children
      <4>2. QED
        BY <1>1, <1>8, <1>9, <4>1
    <3>3. QED
      BY <3>1, <3>2
  <2>4. nodes[t] = [Nodes[t] EXCEPT !.child = <<Nodes[t].child[1], Nodes[t].child[2]>>]
    BY <2>1, <2>3 DEF MovedNode
  <2>5. QED
    BY <2>2, <2>4 DEF KeyOf, Key, NodeType
<1>10. IndexOK(nodes, slots, n)
  <2>1. CASE arena.slots = NoIndex
    <3>1. slots = NoIndex
      BY <1>3, <1>4, <1>5, <1>6, <2>1, InternsNowhere
    <3>2. QED
      BY <3>1 DEF IndexOK
  <2>2. CASE arena.slots # NoIndex
    <3>1. IndexOK(Nodes, arena.slots, Len(Nodes))
      BY <1>2 DEF Committing, ArenaOK
    <3>2. PICK c \in Nat \ {0} : /\ arena.slots \in Slots(c)
                                /\ \E z \in 0 .. c - 1 : arena.slots[z] = 0
                                /\ \A t \in 1 .. Len(Nodes) : Reaches(arena.slots, KeyOf(Nodes[t]), t)
      BY <2>2, <3>1 DEF IndexOK
    <3>3. PICK s \in Slots(c), z \in 0 .. c - 1 : s = arena.slots /\ s[z] = 0
      BY <3>2
    <3>4. \A t \in 1 .. Len(Nodes) : Reaches(s, KeyOf(Nodes[t]), t)
      BY <3>2, <3>3
    <3>5. slots = InternAll(nodes, s, first)
      BY <1>6, <3>3
    <3>6. CASE Len(nodes) = Len(Nodes)
      <4>1. \A t \in 1 .. n : Reaches(s, KeyOf(nodes[t]), t)
        BY <1>2, <1>3, <1>9, <3>4, <3>6
      <4>2. QED
        BY <1>3, <1>4, <3>3, <3>5, <4>1, InternsAgain
    <3>7. CASE Len(nodes) # Len(Nodes)
      <4>1. n < Len(Nodes)
        BY <1>1, <1>2, <1>3, <1>4, <3>7
      <4>2. \A t \in 1 .. first - 1 : Reaches(s, KeyOf(nodes[t]), t)
        BY <1>2, <1>7, <3>4
      <4>3. Len(Nodes) <= Cardinality(Used(s)) /\ Cardinality(Used(s)) \in Nat /\ Capacity(s) = c
        <5>1. \A t \in 1 .. Len(Nodes) : Hash(KeyOf(Nodes[t])) \in Nat /\ Reaches(s, KeyOf(Nodes[t]), t)
          BY <1>2, <3>4, KeyShape
        <5>2. Len(Nodes) <= Cardinality(Used(s))
          BY <1>2, <5>1, UsedByAll
        <5>3. QED
          BY <5>2, UsedShape
      <4>4. HalfWith(s, 0)
        <5>1. checkpoint.count <= Len(Nodes)
          BY <1>2, <1>5, <4>1, <1>4
        <5>2. QED
          BY <3>3, <5>1
      <4>5. (Cardinality(Used(s)) + 0) * 2 <= c
        BY <2>2, <3>3, <4>3, <4>4 DEF HalfWith
      <4>6. Cardinality(Used(s)) + (n - first + 1) < c
        BY <1>2, <1>4, <1>5, <4>1, <4>3, <4>5, SMTT(30)
      <4>7. QED
        BY <1>3, <1>4, <3>5, <4>2, <4>6, InternsAll
    <3>8. QED
      BY <3>6, <3>7
  <2>3. QED
    BY <2>1, <2>2
<1>11. b = [arena EXCEPT !.nodes = nodes, !.slots = slots]
  BY <1>5, <1>6 DEF Reindexed
<1>12. slots \in Indices
  BY <1>10, IndexType
<1>13. b \in Arenas /\ b.nodes = nodes /\ b.slots = slots /\ b.sharing = arena.sharing
       /\ b.nextSymbol = arena.nextSymbol
  BY <1>1, <1>2, <1>11, <1>12 DEF Arenas
<1>14. ~ b.sharing => b.slots = NoIndex
  <2>1. ~ arena.sharing => arena.slots = NoIndex
    BY DEF Committing, ArenaOK
  <2>2. arena.slots = NoIndex => slots = NoIndex
    BY <1>3, <1>4, <1>5, <1>6, InternsNowhere
  <2>3. QED
    BY <1>13, <2>1, <2>2
<1>15. ASSUME NEW h \in Live(nodes), NEW t \in Stay, h = Moved(order, t)
       PROVE  /\ nodes[h].kind = Nodes[t].kind /\ nodes[h].payload = Nodes[t].payload
              /\ nodes[h].child[1] = Moved(order, Nodes[t].child[1])
              /\ nodes[h].child[2] = Moved(order, Nodes[t].child[2])
              /\ t \in Live(Nodes) /\ Nodes[t] \in NodeType
  <2>1. t \in Live(Nodes) /\ Nodes[t] \in NodeType /\ nodes[h] = MovedNode(order, Nodes[t])
    BY <1>1, <1>2, <1>15, Stays
  <2>2. QED
    BY <2>1 DEF MovedNode, NodeType
<1>16. ASSUME NEW h \in Live(nodes), NEW c \in Children(nodes[h])
       PROVE  c < h /\ Arity(nodes[h].kind) = 2
  <2>1. PICK t \in Stay : h = Moved(order, t)
    BY <1>1
  <2>2. PICK d \in {Nodes[t].child[1], Nodes[t].child[2]} : c = Moved(order, d)
    BY <1>15, <1>16, <2>1 DEF Children
  <2>3. d # 0
    BY <1>16, <2>2, Places DEF Children
  <2>4. d \in Stay /\ d \in Children(Nodes[t])
    BY <2>2, <2>3, Stays DEF Children
  <2>5. d < t /\ Arity(nodes[h].kind) = 2
    BY <1>15, <2>1, <2>4, SMTT(30) DEF Committing, ArenaOK, Nodes
  <2>6. QED
    BY <1>1, <2>1, <2>2, <2>4, <2>5
<1>17. ASSUME NEW h \in Live(nodes), nodes[h].kind = "VAR" PROVE nodes[h].payload < arena.nextSymbol
  <2>1. PICK t \in Stay : h = Moved(order, t)
    BY <1>1
  <2>2. QED
    BY <1>2, <1>15, <1>17, <2>1 DEF Committing, ArenaOK
<1>18. QED
  BY <1>2, <1>3, <1>10, <1>13, <1>14, <1>16, <1>17, <1>1 DEF ArenaOK

-----------------------------------------------------------------------------
(* The store: what its tables hold, and the arena under its checkpoint.    *)

Handles == 0 .. MaxHandle
Constructors == [symbol : Nat, type : Handles]
DefinitionTable == Seq([symbol : Symbols, value : Handles, type : Handles])
Signatures == [sort : Symbols, former : Handles, squash : BOOLEAN, constructors : Seq(Constructors),
               admitted : BOOLEAN]
Facts == [kind : {"typing", "signature"}, term : Handles, type : Handles, pending : Nat]
Recalled == [constructors : Nat, admitted : BOOLEAN]

TableInv ==
  /\ error \in {"none", "other", "resource"}
  /\ definitions \in DefinitionTable /\ Len(definitions) <= MaxDefinitions
  /\ signatures \in Seq(Signatures) /\ Len(signatures) <= MaxSignatures
  /\ facts \in Seq(Facts)

RecallInv ==
  /\ checkpoint \in [count : Nat, definitions : Nat, signatures : Seq(Recalled), facts : Nat]
  /\ checkpoint.definitions <= Len(definitions) /\ checkpoint.facts <= Len(facts)
  /\ Len(checkpoint.signatures) <= Len(signatures)
  /\ \A s \in 1 .. Len(checkpoint.signatures) :
       checkpoint.signatures[s].constructors <= Len(signatures[s].constructors)

ArenaInv ==
  /\ ArenaOK(arena)
  /\ checkpoint.count \in 0 .. Len(arena.nodes) + 1
  /\ checkpoint.count # 0 /\ checkpoint.count <= Len(arena.nodes) => HalfWith(arena.slots, 0)

ShapeInv == TableInv /\ RecallInv /\ ArenaInv

LEMMA ArenaShape ==
  ASSUME ArenaOK(arena)
  PROVE  /\ Nodes = arena.nodes /\ Nodes \in Seq(NodeType) /\ Len(Nodes) \in Nat /\ Len(Nodes) <= MaxHandle
         /\ Live(Nodes) = 1 .. Len(Nodes) /\ \A t \in Live(Nodes) : Nodes[t] \in NodeType /\ t \in Handles
<1>1. Nodes = arena.nodes /\ Nodes \in Seq(NodeType) /\ Len(Nodes) <= MaxHandle
  BY DEF Nodes, ArenaOK, Arenas
<1>2. Len(Nodes) \in Nat /\ Live(Nodes) = 1 .. Len(Nodes) /\ \A t \in Live(Nodes) : Nodes[t] \in NodeType
  BY <1>1, NodesHashed
<1>3. \A t \in Live(Nodes) : t \in Handles
  BY <1>1, <1>2, ArenaAssumption DEF Handles
<1>4. QED
  BY <1>1, <1>2, <1>3

(* A call that makes syntax, or none, keeps the arena right.               *)
LEMMA ArenaGrows ==
  ASSUME ArenaInv, Grows(arena, arena'), UNCHANGED checkpoint
  PROVE  ArenaInv'
<1>1. ArenaOK(arena) /\ ArenaOK(arena')
  BY DEF ArenaInv, Grows
<1>2. Len(arena.nodes) \in Nat /\ Len(arena'.nodes) \in Nat /\ Live(arena.nodes) = 1 .. Len(arena.nodes)
      /\ Live(arena'.nodes) = 1 .. Len(arena'.nodes)
  BY <1>1 DEF ArenaOK, Arenas, Live
<1>3. Len(arena.nodes) <= Len(arena'.nodes)
  <2>1. CASE Len(arena.nodes) = 0
    BY <1>2, <2>1
  <2>2. CASE Len(arena.nodes) # 0
    <3>1. Len(arena.nodes) \in Live(arena.nodes)
      BY <1>2, <2>2
    <3>2. Len(arena.nodes) \in Live(arena'.nodes)
      BY <3>1 DEF Grows
    <3>3. QED
      BY <1>2, <3>2
  <2>3. QED
    BY <2>1, <2>2
<1>4. (arena'.nodes = arena.nodes /\ arena'.slots = arena.slots) \/ HalfWith(arena'.slots, 0)
  BY DEF Grows
<1>5. checkpoint'.count \in 0 .. Len(arena'.nodes) + 1
  BY <1>2, <1>3 DEF ArenaInv
<1>6. checkpoint'.count # 0 /\ checkpoint'.count <= Len(arena'.nodes) => HalfWith(arena'.slots, 0)
  BY <1>4 DEF ArenaInv
<1>7. QED
  BY <1>1, <1>5, <1>6 DEF ArenaInv

LEMMA PayloadRanges ==
  /\ 1 .. MaxSymbol \subseteq Payload /\ 0 .. MaxDefinitions \subseteq Payload
  /\ 0 .. MaxSignatures \subseteq Payload /\ 0 \in Payload
  /\ Symbols \subseteq 1 .. MaxSymbol /\ Variables \subseteq 1 .. MaxSymbol
<1>1. MaxSymbol \in Nat /\ MaxDefinitions \in Nat /\ MaxSignatures \in Nat
  BY ArenaAssumption, StoreAssumption
<1>2. QED
  BY <1>1, StoreAssumption DEF Payload

(* Making syntax of a kind, with a payload it may have.                    *)
LEMMA MakesKey ==
  ASSUME NEW a, ArenaOK(a), NEW kind \in AllKinds, NEW payload \in Payload, NEW x \in Handles, NEW y \in Handles,
         kind = "VAR" => payload \in 1 .. MaxSymbol, NEW ok
  PROVE  /\ Made(a, Make(a, Key(kind, payload, x, y), ok), Key(kind, payload, x, y))
         /\ Key(kind, payload, x, y).kind = kind /\ Key(kind, payload, x, y).payload = payload
         /\ Key(kind, payload, x, y).child = <<x, y>>
<1>1. PICK key \in Keys : /\ key = Key(kind, payload, x, y) /\ key.kind = kind /\ key.payload = payload
                          /\ key.child = <<x, y>>
  BY KeyType DEF Handles
<1>2. Made(a, Make(a, key, ok), key)
  BY <1>1, Makes
<1>3. QED
  BY <1>1, <1>2

(* A node that was made is of its kind.                                    *)
LEMMA MadeNode ==
  ASSUME NEW a, NEW m, NEW key, Made(a, m, key), m.term # 0
  PROVE  /\ m.term \in Live(m.arena.nodes) /\ m.error = "none" /\ m.arena.nodes[m.term] \in NodeType
         /\ m.arena.nodes[m.term].kind = key.kind /\ m.arena.nodes[m.term].payload = key.payload
         /\ m.arena.nodes[m.term].child = key.child
<1>1. /\ m.term \in Live(m.arena.nodes) /\ KeyOf(m.arena.nodes[m.term]) = key /\ m.error = "none"
      /\ ArenaOK(m.arena)
  BY DEF Made, Grows
<1>2. m.arena.nodes[m.term] \in NodeType
  BY <1>1, NodesHashed DEF ArenaOK, Arenas
<1>3. QED
  BY <1>1, <1>2, KeyShape

LEMMA MadeType ==
  ASSUME NEW a, NEW m, NEW key, Made(a, m, key)
  PROVE  m.term \in Handles /\ m.error \in {"none", "other", "resource"} /\ ArenaOK(m.arena) /\ Grows(a, m.arena)
         /\ (m.term = 0 => m.error # "none")
<1>1. Grows(a, m.arena) /\ ArenaOK(m.arena)
  BY DEF Made, Grows
<1>2. Live(m.arena.nodes) \subseteq Handles /\ 0 \in Handles
  <2>1. Len(m.arena.nodes) <= MaxHandle /\ Len(m.arena.nodes) \in Nat
    BY <1>1 DEF ArenaOK, Arenas
  <2>2. QED
    BY <2>1, ArenaAssumption DEF Handles, Live
<1>3. \A t \in Live(m.arena.nodes) : t # 0
  BY DEF Live
<1>4. QED
  BY <1>1, <1>2, <1>3 DEF Made

-----------------------------------------------------------------------------
(* What a node refers to.                                                  *)

Ordered(nodes) == nodes \in Seq(NodeType) /\ \A h \in Live(nodes) : \A c \in Children(nodes[h]) : c < h
Own(node) == IF node.kind \in {"DEFREF", "SORT"} THEN {<<node.kind, node.payload>>} ELSE {}
Below(f, nodes, S) == [h \in S |-> Own(nodes[h]) \cup UNION {f[c] : c \in Children(nodes[h])}]

LEMMA OrderedChildren ==
  ASSUME NEW nodes, Ordered(nodes)
  PROVE  /\ Len(nodes) \in Nat /\ Live(nodes) = 1 .. Len(nodes)
         /\ \A h \in Live(nodes) : Children(nodes[h]) \subseteq 1 .. h - 1
<1>1. Len(nodes) \in Nat /\ Live(nodes) = 1 .. Len(nodes) /\ \A t \in Live(nodes) : nodes[t] \in NodeType
  BY NodesHashed DEF Ordered
<1>2. ASSUME NEW h \in Live(nodes), NEW c \in Children(nodes[h]) PROVE c \in 1 .. h - 1
  <2>1. c < h /\ c \in 0 .. MaxHandle /\ c # 0
    BY <1>1, <1>2, NodeFields DEF Ordered, Children
  <2>2. QED
    BY <1>1, <2>1, ArenaAssumption
<1>3. QED
  BY <1>1, <1>2

LEMMA BelowExists ==
  ASSUME NEW nodes, Ordered(nodes)
  PROVE  \E f : f = Below(f, nodes, Live(nodes))
<1>1. PICK n \in Nat : n = Len(nodes) /\ Live(nodes) = 1 .. n
  BY OrderedChildren
<1> DEFINE Good(m) == \E f : f = Below(f, nodes, 1 .. m)
           G == {m \in Nat : Good(m)}
<1>2. 0 \in G
  <2>1. PICK f : f = [h \in 1 .. 0 |-> {}]
    OBVIOUS
  <2>2. f = Below(f, nodes, 1 .. 0)
    BY <2>1 DEF Below
  <2>3. QED
    BY <2>2
<1>3. ASSUME NEW i \in Nat, i < n, Good(i) PROVE Good(i + 1)
  <2>1. PICK f : f = Below(f, nodes, 1 .. i)
    BY <1>3
  <2>2. DOMAIN f = 1 .. i /\ \A h \in 1 .. i : f[h] = Own(nodes[h]) \cup UNION {f[c] : c \in Children(nodes[h])}
    BY <2>1 DEF Below
  <2>3. PICK x : x = Own(nodes[i + 1]) \cup UNION {f[c] : c \in Children(nodes[i + 1])}
    OBVIOUS
  <2>4. PICK g : g = [h \in 1 .. i + 1 |-> IF h = i + 1 THEN x ELSE f[h]]
    OBVIOUS
  <2>5. ASSUME NEW h \in 1 .. i + 1
        PROVE  g[h] = Own(nodes[h]) \cup UNION {g[c] : c \in Children(nodes[h])}
    <3>1. Children(nodes[h]) \subseteq 1 .. h - 1
      BY <1>1, <1>3, OrderedChildren
    <3>2. ASSUME NEW c \in Children(nodes[h]) PROVE g[c] = f[c]
      BY <2>4, <3>1
    <3>3. UNION {g[c] : c \in Children(nodes[h])} = UNION {f[c] : c \in Children(nodes[h])}
      BY <3>2
    <3>4. CASE h = i + 1
      BY <2>3, <2>4, <3>3, <3>4
    <3>5. CASE h # i + 1
      <4>1. h \in 1 .. i
        BY <3>5
      <4>2. QED
        BY <2>2, <2>4, <3>3, <3>5, <4>1
    <3>6. QED
      BY <3>4, <3>5
  <2>6. g = [h \in 1 .. i + 1 |-> g[h]]
    BY <2>4
  <2>7. g = Below(g, nodes, 1 .. i + 1)
    BY <2>5, <2>6 DEF Below
  <2>8. QED
    BY <2>7
<1>4. \A i \in Nat : i < n /\ i \in G => i + 1 \in G
  BY <1>3
<1>5. G \in SUBSET Nat /\ n \in 0 .. n
  OBVIOUS
<1> HIDE DEF G, Good
<1>6. n \in G
  BY <1>2, <1>4, <1>5, UpTo
<1>7. QED
  BY <1>1, <1>6 DEF G, Good

LEMMA Refers ==
  ASSUME NEW nodes, Ordered(nodes)
  PROVE  \A t \in Live(nodes) :
           References(nodes, t) = Own(nodes[t]) \cup UNION {References(nodes, c) : c \in Children(nodes[t])}
<1>1. PICK g : g = CHOOSE f : f = Below(f, nodes, Live(nodes))
  OBVIOUS
<1>2. g = Below(g, nodes, Live(nodes))
  BY <1>1, BelowExists
<1>3. ASSUME NEW t PROVE References(nodes, t) = g[t]
  BY <1>1 DEF References, Below, Own
<1>4. ASSUME NEW t \in Live(nodes)
      PROVE  g[t] = Own(nodes[t]) \cup UNION {g[c] : c \in Children(nodes[t])}
  BY <1>2 DEF Below
<1>5. QED
  BY <1>3, <1>4

(* Nodes mapped to nodes of the same kind and payload, whose children are  *)
(* what theirs are mapped to, refer to the same.                           *)
Mirrors(m, D, nodes, other) ==
  /\ D \in SUBSET Live(nodes) /\ m \in [D -> Live(other)]
  /\ \A t \in D : /\ Children(nodes[t]) \subseteq D
                   /\ Own(other[m[t]]) = Own(nodes[t])
                   /\ Children(other[m[t]]) = {m[c] : c \in Children(nodes[t])}

LEMMA SameReferences ==
  ASSUME NEW nodes, Ordered(nodes), NEW other, Ordered(other), NEW D, NEW m, Mirrors(m, D, nodes, other)
  PROVE  \A t \in D : References(other, m[t]) = References(nodes, t)
<1>0. /\ D \in SUBSET Live(nodes) /\ m \in [D -> Live(other)]
      /\ \A t \in D : /\ Children(nodes[t]) \subseteq D
                       /\ Own(other[m[t]]) = Own(nodes[t])
                       /\ Children(other[m[t]]) = {m[c] : c \in Children(nodes[t])}
  BY DEF Mirrors
<1> DEFINE Bad == {t \in D : References(other, m[t]) # References(nodes, t)}
<1>1. SUFFICES ASSUME Bad # {} PROVE FALSE
  OBVIOUS
<1>2. PICK t \in Bad : \A u \in Bad : t <= u
  <2>1. Bad \in SUBSET Nat
    BY <1>0, OrderedChildren
  <2> HIDE DEF Bad
  <2>2. QED
    BY <1>1, <2>1, LeastNat, Zenon
<1>3. ASSUME NEW c \in Children(nodes[t]) PROVE References(other, m[c]) = References(nodes, c)
  <2>1. c \in D /\ c \in 1 .. t - 1 /\ t \in Live(nodes)
    BY <1>0, <1>2, OrderedChildren
  <2>2. ~ (t <= c)
    BY <2>1, OrderedChildren
  <2>3. c \notin Bad
    BY <1>2, <2>2
  <2>4. QED
    BY <2>1, <2>3
<1>4. t \in D /\ m[t] \in Live(other) /\ t \in Live(nodes)
  BY <1>0, <1>2
<1>5. References(other, m[t]) = Own(other[m[t]]) \cup UNION {References(other, c) : c \in Children(other[m[t]])}
  BY <1>4, Refers
<1>6. References(nodes, t) = Own(nodes[t]) \cup UNION {References(nodes, c) : c \in Children(nodes[t])}
  BY <1>4, Refers
<1>7. Own(other[m[t]]) = Own(nodes[t]) /\ Children(other[m[t]]) = {m[c] : c \in Children(nodes[t])}
  BY <1>0, <1>4
<1>8. UNION {References(other, c) : c \in Children(other[m[t]])} = UNION {References(nodes, c) : c \in Children(nodes[t])}
  BY <1>3, <1>7
<1>9. QED
  BY <1>2, <1>5, <1>6, <1>7, <1>8

(* Nodes that two arenas share refer to the same in both.                  *)
LEMMA SharedReferences ==
  ASSUME NEW nodes, Ordered(nodes), NEW other, Ordered(other), NEW n \in Nat, n <= Len(nodes), n <= Len(other),
         \A t \in 1 .. n : other[t] = nodes[t]
  PROVE  \A t \in 1 .. n : References(other, t) = References(nodes, t)
<1>1. PICK m : m = [t \in 1 .. n |-> t]
  OBVIOUS
<1>2. Live(nodes) = 1 .. Len(nodes) /\ Live(other) = 1 .. Len(other) /\ Len(nodes) \in Nat /\ Len(other) \in Nat
  BY OrderedChildren
<1>3. PICK D : D = 1 .. n
  OBVIOUS
<1>4. D \in SUBSET Live(nodes) /\ m \in [D -> Live(other)] /\ \A t \in D : m[t] = t
  BY <1>1, <1>2, <1>3
<1>5. ASSUME NEW t \in D
      PROVE  /\ Children(nodes[t]) \subseteq D
             /\ Own(other[m[t]]) = Own(nodes[t])
             /\ Children(other[m[t]]) = {m[c] : c \in Children(nodes[t])}
  <2>1. Children(nodes[t]) \subseteq D /\ other[m[t]] = nodes[t]
    <3>1. t \in Live(nodes) /\ t \in 1 .. n
      BY <1>3, <1>4
    <3>2. Children(nodes[t]) \subseteq 1 .. t - 1
      BY <3>1, OrderedChildren
    <3>3. QED
      BY <1>3, <1>4, <3>1, <3>2
  <2>2. {m[c] : c \in Children(nodes[t])} = Children(nodes[t])
    BY <1>4, <2>1
  <2>3. QED
    BY <2>1, <2>2
<1>6. \A t \in D : References(other, m[t]) = References(nodes, t)
  <2>1. Mirrors(m, D, nodes, other)
    BY <1>4, <1>5 DEF Mirrors
  <2>2. QED
    BY <2>1, SameReferences
<1>7. QED
  BY <1>3, <1>4, <1>6

-----------------------------------------------------------------------------
(* What the tables say of the arena.                                       *)

RegisteredIn(D, S) == ({"DEFREF"} \X DOMAIN D) \cup ({"SORT"} \X {s \in DOMAIN S : S[s].admitted})

(* A handle up to n whose references are registered.                       *)
Stands(nodes, n, D, S, t) == t \in 1 .. n /\ References(nodes, t) \subseteq RegisteredIn(D, S)

DefinitionStands(nodes, n, D, S, d) ==
  \A t \in {D[d].value, D[d].type} :
    Stands(nodes, n, D, S, t) /\ \A r \in References(nodes, t) : r[1] = "DEFREF" => r[2] < d
FactStands(nodes, n, D, S, f) ==
  /\ Stands(nodes, n, D, S, f.type) /\ f.term \in 1 .. n
  /\ IF f.kind = "typing" THEN Stands(nodes, n, D, S, f.term) ELSE nodes[f.term].payload \in DOMAIN S

StoreOK(nodes, n, D, S, F) ==
  /\ \A d \in DOMAIN D : DefinitionStands(nodes, n, D, S, d)
  /\ \A s \in DOMAIN S : /\ Stands(nodes, n, D, S, S[s].former)
                         /\ \A c \in DOMAIN S[s].constructors : Stands(nodes, n, D, S, S[s].constructors[c].type)
  /\ \A i \in DOMAIN F : FactStands(nodes, n, D, S, F[i])

(* The tables as a rollback would leave them.                              *)
DefinitionsThen == SubSeq(definitions, 1, checkpoint.definitions)
FactsThen == SubSeq(facts, 1, checkpoint.facts)
SignatureThen(s) == [signatures[s] EXCEPT
                       !.constructors = SubSeq(@, 1, checkpoint.signatures[s].constructors),
                       !.admitted = checkpoint.signatures[s].admitted]
SignaturesThen == [s \in DOMAIN checkpoint.signatures |-> SignatureThen(s)]

StoreInv ==
  /\ StoreOK(Nodes, Len(Nodes), definitions, signatures, facts)
  /\ Open => StoreOK(Nodes, checkpoint.count - 1, DefinitionsThen, SignaturesThen, FactsThen)

(* What a handle stands on may grow.                                       *)
LEMMA StandsOn ==
  ASSUME NEW nodes, Ordered(nodes), NEW other, Ordered(other), NEW n \in Nat, NEW m \in Nat, n <= m,
         n <= Len(nodes), m <= Len(other), \A t \in 1 .. n : other[t] = nodes[t],
         NEW D, NEW S, NEW E, NEW T, RegisteredIn(D, S) \subseteq RegisteredIn(E, T)
  PROVE  \A t : Stands(nodes, n, D, S, t) => Stands(other, m, E, T, t) /\ References(other, t) = References(nodes, t)
<1>1. Len(nodes) \in Nat /\ Len(other) \in Nat
  BY OrderedChildren
<1>2. \A t \in 1 .. n : References(other, t) = References(nodes, t)
  BY <1>1, SharedReferences
<1>3. 1 .. n \subseteq 1 .. m
  OBVIOUS
<1>4. QED
  BY <1>2, <1>3 DEF Stands

(* Tables that grow: every entry there was, and entries that stand.        *)
Enlarged(nodes, n, D, S, F, E, T, G) ==
  /\ DOMAIN D \subseteq DOMAIN E /\ DOMAIN S \subseteq DOMAIN T
  /\ RegisteredIn(D, S) \subseteq RegisteredIn(E, T)
  /\ \A d \in DOMAIN E : \/ d \in DOMAIN D /\ E[d].value = D[d].value /\ E[d].type = D[d].type
                         \/ DefinitionStands(nodes, n, E, T, d)
  /\ \A s \in DOMAIN T :
       /\ \/ s \in DOMAIN S /\ T[s].former = S[s].former
          \/ Stands(nodes, n, E, T, T[s].former)
       /\ \A c \in DOMAIN T[s].constructors :
            \/ s \in DOMAIN S /\ c \in DOMAIN S[s].constructors /\ T[s].constructors[c].type = S[s].constructors[c].type
            \/ Stands(nodes, n, E, T, T[s].constructors[c].type)
  /\ \A i \in DOMAIN G : (\E j \in DOMAIN F : G[i] = F[j]) \/ FactStands(nodes, n, E, T, G[i])

LEMMA StoreGrows ==
  ASSUME NEW nodes, Ordered(nodes), NEW other, Ordered(other), NEW n \in Nat, NEW m \in Nat, n <= m,
         n <= Len(nodes), m <= Len(other), \A t \in 1 .. n : other[t] = nodes[t],
         NEW D, NEW S, NEW F, NEW E, NEW T, NEW G,
         StoreOK(nodes, n, D, S, F), Enlarged(other, m, D, S, F, E, T, G)
  PROVE  StoreOK(other, m, E, T, G)
<1>1. RegisteredIn(D, S) \subseteq RegisteredIn(E, T) /\ DOMAIN S \subseteq DOMAIN T
  BY DEF Enlarged
<1>2. \A t : Stands(nodes, n, D, S, t) => Stands(other, m, E, T, t) /\ References(other, t) = References(nodes, t)
  BY <1>1, StandsOn
<1>3. ASSUME NEW d \in DOMAIN E PROVE DefinitionStands(other, m, E, T, d)
  <2>1. CASE d \in DOMAIN D /\ E[d].value = D[d].value /\ E[d].type = D[d].type
    <3>1. DefinitionStands(nodes, n, D, S, d)
      BY <2>1 DEF StoreOK
    <3>2. QED
      BY <1>2, <2>1, <3>1 DEF DefinitionStands
  <2>2. CASE DefinitionStands(other, m, E, T, d)
    BY <2>2
  <2>3. QED
    BY <1>3, <2>1, <2>2 DEF Enlarged
<1>4. ASSUME NEW s \in DOMAIN T PROVE Stands(other, m, E, T, T[s].former)
  BY <1>2, <1>4 DEF Enlarged, StoreOK
<1>5. ASSUME NEW s \in DOMAIN T, NEW c \in DOMAIN T[s].constructors PROVE Stands(other, m, E, T, T[s].constructors[c].type)
  BY <1>2, <1>5 DEF Enlarged, StoreOK
<1>6. ASSUME NEW i \in DOMAIN G PROVE FactStands(other, m, E, T, G[i])
  <2>1. CASE \E j \in DOMAIN F : G[i] = F[j]
    <3>1. FactStands(nodes, n, D, S, G[i])
      BY <2>1 DEF StoreOK
    <3>2. QED
      BY <1>1, <1>2, <3>1 DEF FactStands
  <2>2. CASE FactStands(other, m, E, T, G[i])
    BY <2>2
  <2>3. QED
    BY <1>6, <2>1, <2>2 DEF Enlarged
<1>7. QED
  BY <1>3, <1>4, <1>5, <1>6 DEF StoreOK

(* The tables recorded by the checkpoint are those of tables that extend.  *)
SignaturesExtend(S, T) ==
  \A s \in DOMAIN S :
    /\ s \in DOMAIN T /\ T[s].sort = S[s].sort /\ T[s].former = S[s].former /\ T[s].squash = S[s].squash
    /\ Extends(S[s].constructors, T[s].constructors)
TablesExtend ==
  /\ Extends(definitions, definitions') /\ Extends(facts, facts') /\ SignaturesExtend(signatures, signatures')
  /\ UNCHANGED checkpoint

LEMMA SamePrefix ==
  ASSUME NEW s, IsSeq(s), NEW t, IsSeq(t), Extends(s, t), NEW n \in 0 .. Len(s)
  PROVE  n \in 0 .. Len(t) /\ SubSeq(t, 1, n) = SubSeq(s, 1, n)
<1>1. Len(s) \in Nat /\ DOMAIN s = 1 .. Len(s) /\ Len(t) \in Nat /\ DOMAIN t = 1 .. Len(t)
  BY SeqShape
<1>2. Len(s) <= Len(t)
  <2>1. CASE Len(s) = 0
    BY <1>1, <2>1
  <2>2. CASE Len(s) # 0
    <3>1. Len(s) \in DOMAIN s
      BY <1>1, <2>2
    <3>2. Len(s) \in DOMAIN t
      BY <3>1 DEF Extends
    <3>3. QED
      BY <1>1, <3>2
  <2>3. QED
    BY <2>1, <2>2
<1>3. n \in 0 .. Len(t)
  BY <1>1, <1>2
<1>4. /\ IsSeq(SubSeq(s, 1, n)) /\ Len(SubSeq(s, 1, n)) = n
      /\ \A i \in 1 .. n : SubSeq(s, 1, n)[i] = s[i]
  BY PrefixShape
<1>5. /\ IsSeq(SubSeq(t, 1, n)) /\ Len(SubSeq(t, 1, n)) = n
      /\ \A i \in 1 .. n : SubSeq(t, 1, n)[i] = t[i]
  BY <1>3, PrefixShape
<1>6. \A i \in 1 .. n : s[i] = t[i]
  BY <1>1 DEF Extends
<1>7. PICK x, y : x = SubSeq(s, 1, n) /\ y = SubSeq(t, 1, n)
  OBVIOUS
<1>8. x = y
  <2>1. PICK S, T : x \in Seq(S) /\ y \in Seq(T)
    BY <1>4, <1>5, <1>7 DEF IsSeq
  <2>2. x \in Seq(S \cup T) /\ y \in Seq(S \cup T)
    BY <2>1
  <2>3. Len(x) = Len(y) /\ \A i \in 1 .. Len(x) : x[i] = y[i]
    BY <1>4, <1>5, <1>6, <1>7
  <2>4. x = [i \in 1 .. Len(x) |-> x[i]] /\ y = [i \in 1 .. Len(y) |-> y[i]]
    BY <2>2
  <2>5. QED
    BY <2>3, <2>4
<1>9. QED
  BY <1>3, <1>7, <1>8

LEMMA SignatureShape ==
  ASSUME TableInv, RecallInv, NEW s \in DOMAIN checkpoint.signatures
  PROVE  /\ s \in DOMAIN signatures /\ signatures[s] \in Signatures /\ checkpoint.signatures[s] \in Recalled
         /\ IsSeq(signatures[s].constructors)
         /\ checkpoint.signatures[s].constructors \in 0 .. Len(signatures[s].constructors)
         /\ SignatureThen(s) = [sort |-> signatures[s].sort, former |-> signatures[s].former,
              squash |-> signatures[s].squash,
              constructors |-> SubSeq(signatures[s].constructors, 1, checkpoint.signatures[s].constructors),
              admitted |-> checkpoint.signatures[s].admitted]
<1>1. signatures \in Seq(Signatures) /\ checkpoint.signatures \in Seq(Recalled)
      /\ Len(checkpoint.signatures) <= Len(signatures)
  BY DEF TableInv, RecallInv
<1>2. s \in 1 .. Len(checkpoint.signatures) /\ s \in DOMAIN signatures /\ signatures[s] \in Signatures
      /\ checkpoint.signatures[s] \in Recalled
  BY <1>1
<1>3. checkpoint.signatures[s].constructors <= Len(signatures[s].constructors)
  BY <1>2 DEF RecallInv
<1>4. signatures[s].constructors \in Seq(Constructors) /\ checkpoint.signatures[s].constructors \in Nat
  BY <1>2 DEF Signatures, Recalled
<1>5. Len(signatures[s].constructors) \in Nat /\ IsSeq(signatures[s].constructors)
  BY <1>4, SeqOfSet
<1>6. SignatureThen(s) = [sort |-> signatures[s].sort, former |-> signatures[s].former,
              squash |-> signatures[s].squash,
              constructors |-> SubSeq(signatures[s].constructors, 1, checkpoint.signatures[s].constructors),
              admitted |-> checkpoint.signatures[s].admitted]
  <2>1. PICK x, y : /\ x = SubSeq(signatures[s].constructors, 1, checkpoint.signatures[s].constructors)
                    /\ y = checkpoint.signatures[s].admitted
    OBVIOUS
  <2>2. SignatureThen(s) = [signatures[s] EXCEPT !.constructors = x, !.admitted = y]
    BY <2>1 DEF SignatureThen
  <2>3. QED
    BY <1>2, <2>1, <2>2 DEF Signatures
<1>7. QED
  BY <1>2, <1>3, <1>4, <1>5, <1>6

LEMMA RecallKept ==
  ASSUME TableInv, TableInv', RecallInv, TablesExtend
  PROVE  /\ RecallInv' /\ DefinitionsThen' = DefinitionsThen /\ FactsThen' = FactsThen
         /\ SignaturesThen' = SignaturesThen
<1>1. checkpoint' = checkpoint
  BY DEF TablesExtend
<1>2. checkpoint.definitions \in 0 .. Len(definitions) /\ checkpoint.facts \in 0 .. Len(facts)
      /\ IsSeq(definitions) /\ IsSeq(definitions') /\ IsSeq(facts) /\ IsSeq(facts')
      /\ IsSeq(signatures) /\ IsSeq(signatures') /\ IsSeq(checkpoint.signatures)
  <2>1. definitions \in DefinitionTable /\ facts \in Seq(Facts) /\ definitions' \in DefinitionTable
        /\ facts' \in Seq(Facts) /\ signatures \in Seq(Signatures) /\ signatures' \in Seq(Signatures)
        /\ checkpoint.signatures \in Seq(Recalled)
    BY DEF TableInv, RecallInv
  <2>2. IsSeq(definitions) /\ IsSeq(definitions') /\ IsSeq(facts) /\ IsSeq(facts')
        /\ IsSeq(signatures) /\ IsSeq(signatures') /\ IsSeq(checkpoint.signatures)
    BY <2>1, SeqOfSet DEF DefinitionTable
  <2>3. Len(definitions) \in Nat /\ Len(facts) \in Nat
    BY <2>2, SeqShape
  <2>4. QED
    BY <2>2, <2>3 DEF RecallInv
<1>3. checkpoint.definitions \in 0 .. Len(definitions') /\ DefinitionsThen' = DefinitionsThen
  BY <1>1, <1>2, SamePrefix DEF TablesExtend, DefinitionsThen
<1>4. checkpoint.facts \in 0 .. Len(facts') /\ FactsThen' = FactsThen
  BY <1>1, <1>2, SamePrefix DEF TablesExtend, FactsThen
<1>5. Len(checkpoint.signatures) <= Len(signatures')
  <2>1. DOMAIN signatures = 1 .. Len(signatures) /\ DOMAIN signatures' = 1 .. Len(signatures')
        /\ Len(signatures) \in Nat /\ Len(signatures') \in Nat /\ Len(checkpoint.signatures) \in Nat
    BY <1>2, SeqShape
  <2>2. Len(checkpoint.signatures) <= Len(signatures)
    BY DEF RecallInv
  <2>3. CASE Len(signatures) = 0
    BY <2>1, <2>2, <2>3
  <2>4. CASE Len(signatures) # 0
    <3>1. Len(signatures) \in DOMAIN signatures
      BY <2>1, <2>4
    <3>2. Len(signatures) \in DOMAIN signatures'
      BY <3>1 DEF TablesExtend, SignaturesExtend
    <3>3. QED
      BY <2>1, <2>2, <3>2
  <2>5. QED
    BY <2>3, <2>4
<1>6. ASSUME NEW s \in DOMAIN checkpoint.signatures
      PROVE  /\ checkpoint.signatures[s].constructors <= Len(signatures'[s].constructors)
             /\ SignatureThen(s)' = SignatureThen(s)
  <2>1. /\ s \in DOMAIN signatures /\ IsSeq(signatures[s].constructors)
        /\ checkpoint.signatures[s].constructors \in 0 .. Len(signatures[s].constructors)
        /\ SignatureThen(s) = [sort |-> signatures[s].sort, former |-> signatures[s].former,
              squash |-> signatures[s].squash,
              constructors |-> SubSeq(signatures[s].constructors, 1, checkpoint.signatures[s].constructors),
              admitted |-> checkpoint.signatures[s].admitted]
    BY SignatureShape
  <2>2. /\ s \in DOMAIN signatures' /\ signatures'[s].sort = signatures[s].sort
        /\ signatures'[s].former = signatures[s].former /\ signatures'[s].squash = signatures[s].squash
        /\ Extends(signatures[s].constructors, signatures'[s].constructors)
    BY <2>1 DEF TablesExtend, SignaturesExtend
  <2>3. signatures'[s] \in Signatures /\ signatures'[s].constructors \in Seq(Constructors)
        /\ IsSeq(signatures'[s].constructors)
    <3>1. signatures' \in Seq(Signatures)
      BY DEF TableInv
    <3>2. signatures'[s] \in Signatures
      BY <2>2, <3>1
    <3>3. signatures'[s].constructors \in Seq(Constructors)
      BY <3>2 DEF Signatures
    <3>4. QED
      BY <3>2, <3>3, SeqOfSet
  <2>4. PICK k, x, y : k = checkpoint.signatures[s].constructors /\ x = signatures[s].constructors
                       /\ y = signatures'[s].constructors
    OBVIOUS
  <2>5. k \in 0 .. Len(y) /\ SubSeq(y, 1, k) = SubSeq(x, 1, k)
    BY <2>1, <2>2, <2>3, <2>4, SamePrefix
  <2>6. k <= Len(y)
    <3>1. Len(y) \in Nat
      BY <2>3, <2>4, SeqShape
    <3>2. QED
      BY <2>5, <3>1
  <2>7. PICK z, a : z = SubSeq(y, 1, k) /\ a = checkpoint.signatures[s].admitted
    OBVIOUS
  <2>8. SignatureThen(s)' = [signatures'[s] EXCEPT !.constructors = z, !.admitted = a]
    BY <1>1, <2>4, <2>7 DEF SignatureThen
  <2>9. SignatureThen(s)' = [sort |-> signatures'[s].sort, former |-> signatures'[s].former,
              squash |-> signatures'[s].squash, constructors |-> z, admitted |-> a]
    BY <2>3, <2>8 DEF Signatures
  <2>10. QED
    BY <2>1, <2>2, <2>4, <2>5, <2>6, <2>7, <2>9
<1>7. SignaturesThen' = SignaturesThen
  <2>1. SignaturesThen' = [s \in DOMAIN checkpoint.signatures |-> SignatureThen(s)']
    BY <1>1 DEF SignaturesThen
  <2>2. QED
    BY <1>6, <2>1 DEF SignaturesThen
<1>8. RecallInv'
  <2>1. DOMAIN checkpoint.signatures = 1 .. Len(checkpoint.signatures)
    BY <1>2, SeqShape
  <2>2. checkpoint.definitions <= Len(definitions') /\ checkpoint.facts <= Len(facts')
    BY <1>2, <1>3, <1>4, SeqShape
  <2>3. QED
    BY <1>1, <1>5, <1>6, <2>1, <2>2 DEF RecallInv
<1>9. QED
  BY <1>3, <1>4, <1>7, <1>8

(* What a call that enlarges the arena and the tables has to show.         *)
EnlargedNow == Enlarged(Nodes', Len(Nodes'), definitions, signatures, facts, definitions', signatures', facts')

LEMMA ArenaOrdered ==
  ASSUME NEW a, ArenaOK(a) PROVE Ordered(a.nodes) /\ Len(a.nodes) \in Nat /\ Live(a.nodes) = 1 .. Len(a.nodes)
<1>1. Ordered(a.nodes)
  BY DEF ArenaOK, Arenas, Ordered
<1>2. QED
  BY <1>1, OrderedChildren

LEMMA GrowsOrdered ==
  ASSUME NEW a, ArenaOK(a), NEW b, Grows(a, b)
  PROVE  /\ Ordered(a.nodes) /\ Ordered(b.nodes) /\ Len(a.nodes) \in Nat /\ Len(b.nodes) \in Nat
         /\ Len(a.nodes) <= Len(b.nodes) /\ \A t \in 1 .. Len(a.nodes) : b.nodes[t] = a.nodes[t]
<1>1. ArenaOK(b)
  BY DEF Grows
<1>2. /\ Ordered(a.nodes) /\ Len(a.nodes) \in Nat /\ Live(a.nodes) = 1 .. Len(a.nodes)
      /\ Ordered(b.nodes) /\ Len(b.nodes) \in Nat /\ Live(b.nodes) = 1 .. Len(b.nodes)
  BY <1>1, ArenaOrdered
<1>3. \A t \in 1 .. Len(a.nodes) : t \in 1 .. Len(b.nodes) /\ b.nodes[t] = a.nodes[t]
  BY <1>2 DEF Grows
<1>4. Len(a.nodes) <= Len(b.nodes)
  <2>1. CASE Len(a.nodes) = 0
    BY <1>2, <2>1
  <2>2. CASE Len(a.nodes) # 0
    <3>1. Len(a.nodes) \in 1 .. Len(a.nodes)
      BY <1>2, <2>2
    <3>2. QED
      BY <1>2, <1>3, <3>1
  <2>3. QED
    BY <2>1, <2>2
<1>5. QED
  BY <1>2, <1>3, <1>4

LEMMA CallKeeps ==
  ASSUME ShapeInv, StoreInv, TableInv', Grows(arena, arena'), TablesExtend, EnlargedNow
  PROVE  ShapeInv' /\ StoreInv'
<1>1. TableInv /\ RecallInv /\ ArenaInv /\ ArenaOK(arena) /\ checkpoint' = checkpoint
  BY DEF ShapeInv, ArenaInv, TablesExtend
<1>2. /\ RecallInv' /\ DefinitionsThen' = DefinitionsThen /\ FactsThen' = FactsThen
      /\ SignaturesThen' = SignaturesThen
  BY <1>1, RecallKept
<1>3. ArenaInv'
  BY <1>1, ArenaGrows
<1>4. /\ Ordered(Nodes) /\ Ordered(Nodes') /\ Len(Nodes) \in Nat /\ Len(Nodes') \in Nat
      /\ Len(Nodes) <= Len(Nodes') /\ \A t \in 1 .. Len(Nodes) : Nodes'[t] = Nodes[t]
  BY <1>1, GrowsOrdered DEF Nodes
<1>5. StoreOK(Nodes', Len(Nodes'), definitions', signatures', facts')
  <2>1. StoreOK(Nodes, Len(Nodes), definitions, signatures, facts)
    BY DEF StoreInv
  <2>2. PICK x, y, n, m : x = Nodes /\ y = Nodes' /\ n = Len(Nodes) /\ m = Len(Nodes')
    OBVIOUS
  <2>3. /\ Ordered(x) /\ Ordered(y) /\ n \in Nat /\ m \in Nat /\ n <= m /\ n <= Len(x) /\ m <= Len(y)
        /\ \A t \in 1 .. n : y[t] = x[t]
    BY <1>4, <2>2
  <2>4. /\ StoreOK(x, n, definitions, signatures, facts)
        /\ Enlarged(y, m, definitions, signatures, facts, definitions', signatures', facts')
    BY <2>1, <2>2 DEF EnlargedNow
  <2>5. StoreOK(y, m, definitions', signatures', facts')
    BY <2>3, <2>4, StoreGrows
  <2>6. QED
    BY <2>2, <2>5
<1>6. ASSUME Open' PROVE StoreOK(Nodes', checkpoint'.count - 1, DefinitionsThen', SignaturesThen', FactsThen')
  <2>1. PICK x, y, n : x = Nodes /\ y = Nodes' /\ n = checkpoint.count - 1
    OBVIOUS
  <2>2. n \in Nat /\ n <= Len(x)
    BY <1>1, <1>4, <1>6, <2>1 DEF Open, ArenaInv, Nodes
  <2>3. StoreOK(x, n, DefinitionsThen, SignaturesThen, FactsThen)
    BY <1>1, <1>6, <2>1 DEF StoreInv, Open
  <2>4. Enlarged(y, n, DefinitionsThen, SignaturesThen, FactsThen, DefinitionsThen, SignaturesThen, FactsThen)
    BY DEF Enlarged
  <2>5. Ordered(x) /\ Ordered(y) /\ n <= n /\ n <= Len(y) /\ \A t \in 1 .. n : y[t] = x[t]
    BY <1>4, <2>1, <2>2
  <2>6. PICK D, S, F : D = DefinitionsThen /\ S = SignaturesThen /\ F = FactsThen
    OBVIOUS
  <2>7. StoreOK(x, n, D, S, F) /\ Enlarged(y, n, D, S, F, D, S, F)
    BY <2>3, <2>4, <2>6
  <2>8. StoreOK(y, n, D, S, F)
    BY <2>2, <2>5, <2>7, StoreGrows
  <2>9. QED
    BY <1>1, <1>2, <2>1, <2>6, <2>8
<1>7. QED
  BY <1>2, <1>3, <1>5, <1>6 DEF ShapeInv, StoreInv

-----------------------------------------------------------------------------
(* Every call keeps the tables and the arena.                              *)

tables == <<definitions, signatures, facts, checkpoint>>

LEMMA NothingAdded ==
  ASSUME TableInv, UNCHANGED tables, error' \in {"none", "other", "resource"}
  PROVE  TableInv' /\ TablesExtend /\ EnlargedNow
<1>1. definitions' = definitions /\ signatures' = signatures /\ facts' = facts /\ checkpoint' = checkpoint
  BY DEF tables
<1>2. TableInv'
  BY <1>1 DEF TableInv
<1>3. TablesExtend
  BY <1>1 DEF TablesExtend, Extends, SignaturesExtend
<1>4. PICK D, S, F, y, m : D = definitions /\ S = signatures /\ F = facts /\ y = Nodes' /\ m = Len(Nodes')
  OBVIOUS
<1>5. Enlarged(y, m, D, S, F, D, S, F)
  BY DEF Enlarged
<1>6. EnlargedNow
  BY <1>1, <1>4, <1>5 DEF EnlargedNow
<1>7. QED
  BY <1>2, <1>3, <1>6

LEMMA TermKeeps == ASSUME ShapeInv, StoreInv, Term PROVE ShapeInv' /\ StoreInv' /\ Grows(arena, arena')
<1>1. PICK kind \in Kinds, x \in 0 .. MaxHandle, y \in 0 .. MaxHandle, ok \in Allocates :
        \E payload \in Payloads(kind) :
          /\ arena' = Make(arena, Key(kind, payload, x, y), ok).arena
          /\ error' = Make(arena, Key(kind, payload, x, y), ok).error
  BY DEF Term, Latch
<1>2. PICK payload \in Payloads(kind) :
        /\ arena' = Make(arena, Key(kind, payload, x, y), ok).arena
        /\ error' = Make(arena, Key(kind, payload, x, y), ok).error
  BY <1>1
<1> PICK m : m = Make(arena, Key(kind, payload, x, y), ok)
  OBVIOUS
<1>a. arena' = m.arena /\ error' = m.error
  BY <1>2
<1>3. kind \in AllKinds /\ payload \in Payload /\ (kind = "VAR" => payload \in 1 .. MaxSymbol)
  <2>1. kind \in AllKinds
    BY ArenaAssumption
  <2>2. CASE kind = "VAR"
    BY <2>1, <2>2, PayloadRanges DEF Payloads
  <2>3. CASE kind = "DEFREF"
    <3>1. payload \in 1 .. MaxDefinitions
      BY <2>3 DEF Payloads
    <3>2. payload \in 0 .. MaxDefinitions
      BY <3>1, StoreAssumption
    <3>3. QED
      BY <2>1, <2>3, <3>2, PayloadRanges
  <2>4. CASE kind = "SORT"
    <3>1. payload \in 1 .. MaxSignatures
      BY <2>4 DEF Payloads
    <3>2. payload \in 0 .. MaxSignatures
      BY <3>1, StoreAssumption
    <3>3. QED
      BY <2>1, <2>4, <3>2, PayloadRanges
  <2>5. CASE kind \notin {"VAR", "DEFREF", "SORT"}
    <3>1. payload = 0
      BY <2>5 DEF Payloads
    <3>2. QED
      BY <2>1, <2>5, <3>1, PayloadRanges
  <2>6. QED
    BY <2>2, <2>3, <2>4, <2>5
<1>4. ArenaOK(arena) /\ x \in Handles /\ y \in Handles
  BY DEF ShapeInv, ArenaInv, Handles
<1>5. Made(arena, m, Key(kind, payload, x, y))
  BY <1>3, <1>4, MakesKey
<1>6. Grows(arena, arena') /\ error' \in {"none", "other", "resource"}
  BY <1>a, <1>5, MadeType
<1>7. UNCHANGED tables
  BY DEF Term, tables
<1>8. UNCHANGED checkpoint
  BY DEF Term
<1>9. QED
  BY <1>6, <1>7, <1>8, NothingAdded, CallKeeps DEF ShapeInv

LEMMA FreshSymbolKeeps == ASSUME ShapeInv, StoreInv, FreshSymbol PROVE ShapeInv' /\ StoreInv' /\ Grows(arena, arena')
<1>1. ArenaOK(arena)
  BY DEF ShapeInv, ArenaInv
<1>2. Grows(arena, arena') /\ error' \in {"none", "other", "resource"}
  <2>1. CASE arena.nextSymbol = MaxSymbol
    BY <1>1, <2>1, GrowsNot DEF FreshSymbol, Latch
  <2>2. CASE arena.nextSymbol # MaxSymbol
    <3>1. arena' = [arena EXCEPT !.nextSymbol = @ + 1] /\ error' = error
      BY <2>2 DEF FreshSymbol
    <3>2. Grows(arena, arena')
      BY <1>1, <2>2, <3>1, OtherSymbol
    <3>3. QED
      BY <3>1, <3>2 DEF ShapeInv, TableInv
  <2>3. QED
    BY <2>1, <2>2
<1>3. UNCHANGED tables
  BY DEF FreshSymbol, tables
<1>4. UNCHANGED checkpoint
  BY DEF FreshSymbol
<1>5. QED
  BY <1>2, <1>3, <1>4, NothingAdded, CallKeeps DEF ShapeInv

LEMMA SetOptimizationsKeeps == ASSUME ShapeInv, StoreInv, SetOptimizations PROVE ShapeInv' /\ StoreInv' /\ Grows(arena, arena')
<1>1. PICK on \in BOOLEAN : arena' = SetSharing(arena, on)
  BY DEF SetOptimizations
<1>2. PICK s : s = IF on THEN arena.slots ELSE NoIndex
  OBVIOUS
<1>3. arena' = [arena EXCEPT !.sharing = on, !.slots = s]
  BY <1>1, <1>2 DEF SetSharing
<1>4. ArenaOK(arena)
  BY DEF ShapeInv, ArenaInv
<1>5. IndexOK(arena.nodes, s, Len(arena.nodes)) /\ s \in Indices
  <2>1. IndexOK(arena.nodes, s, Len(arena.nodes))
    BY <1>2, <1>4 DEF ArenaOK, IndexOK
  <2>2. QED
    BY <2>1, IndexType
<1>6. arena' \in Arenas /\ arena'.nodes = arena.nodes /\ arena'.slots = s /\ arena'.sharing = on
      /\ arena'.nextSymbol = arena.nextSymbol
  BY <1>3, <1>4, <1>5 DEF ArenaOK, Arenas
<1>7. ArenaOK(arena')
  BY <1>2, <1>4, <1>5, <1>6 DEF ArenaOK
<1>8. Grows(arena, arena')
  BY <1>2, <1>6, <1>7 DEF Grows, HalfWith
<1>9. UNCHANGED tables /\ error' = error
  BY DEF SetOptimizations, tables
<1>10. UNCHANGED checkpoint
  BY DEF SetOptimizations
<1>11. QED
  BY <1>8, <1>9, <1>10, NothingAdded, CallKeeps DEF ShapeInv, TableInv

LEMMA ErrorKeeps ==
  ASSUME ShapeInv, StoreInv, Refuse \/ ClearError \/ Whnf \/ CommitRefused
  PROVE  ShapeInv' /\ StoreInv' /\ UNCHANGED arena
<1>1. UNCHANGED tables /\ UNCHANGED arena /\ UNCHANGED checkpoint
  BY DEF Refuse, ClearError, Whnf, CommitRefused, tables
<1>2. error' \in {"none", "other", "resource"}
  <2>1. CASE Refuse \/ ClearError \/ CommitRefused
    BY <2>1 DEF Refuse, ClearError, CommitRefused, Latch
  <2>2. CASE Whnf
    <3>1. error' = "other" \/ error' = error
      BY <2>2 DEF Whnf, Latch
    <3>2. QED
      BY <3>1 DEF ShapeInv, TableInv
  <2>3. QED
    BY <2>1, <2>2
<1>3. Grows(arena, arena')
  BY <1>1, GrowsNot DEF ShapeInv, ArenaInv
<1>4. QED
  BY <1>1, <1>2, <1>3, NothingAdded, CallKeeps DEF ShapeInv

LEMMA StandStill ==
  ASSUME ShapeInv, Grows(arena, arena'),
         RegisteredIn(definitions, signatures) \subseteq RegisteredIn(definitions', signatures')
  PROVE  \A t : Stands(Nodes, Len(Nodes), definitions, signatures, t) =>
                  /\ Stands(Nodes', Len(Nodes'), definitions', signatures', t)
                  /\ References(Nodes', t) = References(Nodes, t)
<1>1. ArenaOK(arena)
  BY DEF ShapeInv, ArenaInv
<1>2. /\ Ordered(Nodes) /\ Ordered(Nodes') /\ Len(Nodes) \in Nat /\ Len(Nodes') \in Nat
      /\ Len(Nodes) <= Len(Nodes') /\ \A t \in 1 .. Len(Nodes) : Nodes'[t] = Nodes[t]
  BY <1>1, GrowsOrdered DEF Nodes
<1>3. PICK x, y, n, m : x = Nodes /\ y = Nodes' /\ n = Len(Nodes) /\ m = Len(Nodes')
  OBVIOUS
<1>4. PICK D, S, E, T : D = definitions /\ S = signatures /\ E = definitions' /\ T = signatures'
  OBVIOUS
<1>5. /\ Ordered(x) /\ Ordered(y) /\ n \in Nat /\ m \in Nat /\ n <= m /\ n <= Len(x) /\ m <= Len(y)
      /\ \A t \in 1 .. n : y[t] = x[t]
  BY <1>2, <1>3
<1>6. RegisteredIn(D, S) \subseteq RegisteredIn(E, T)
  BY <1>4
<1>7. \A t : Stands(x, n, D, S, t) => Stands(y, m, E, T, t) /\ References(y, t) = References(x, t)
  BY <1>5, <1>6, StandsOn
<1>8. QED
  BY <1>3, <1>4, <1>7

(* A fact more.                                                            *)
LEMMA FactMore ==
  ASSUME TableInv, NEW f \in Facts, facts' = Append(facts, f)
  PROVE  /\ facts' \in Seq(Facts) /\ Extends(facts, facts')
         /\ \A i \in DOMAIN facts' : (\E j \in DOMAIN facts : facts'[i] = facts[j]) \/ facts'[i] = f
<1>1. facts \in Seq(Facts) /\ IsSeq(facts)
  BY SeqOfSet DEF TableInv
<1>2. facts' \in Seq(Facts)
  BY <1>1
<1>3. /\ Extends(facts, facts') /\ DOMAIN facts' = DOMAIN facts \cup {Len(facts) + 1}
      /\ facts'[Len(facts) + 1] = f
  BY <1>1, AppendShape
<1>4. QED
  BY <1>2, <1>3 DEF Extends

LEMMA RegisteredNow == Registered = RegisteredIn(definitions, signatures)
BY DEF Registered, RegisteredIn, Admitted

(* Publishing a judgement of syntax there is.                              *)
LEMMA Publishes ==
  ASSUME ShapeInv, StoreInv, NEW f \in Facts, facts' = Append(facts, f), Grows(arena, arena'),
         UNCHANGED <<definitions, signatures, checkpoint>>, error' \in {"none", "other", "resource"},
         FactStands(Nodes', Len(Nodes'), definitions', signatures', f)
  PROVE  ShapeInv' /\ StoreInv'
<1>1. TableInv /\ definitions' = definitions /\ signatures' = signatures /\ checkpoint' = checkpoint
  BY DEF ShapeInv
<1>2. /\ facts' \in Seq(Facts) /\ Extends(facts, facts')
      /\ \A i \in DOMAIN facts' : (\E j \in DOMAIN facts : facts'[i] = facts[j]) \/ facts'[i] = f
  BY <1>1, FactMore
<1>3. TableInv'
  BY <1>1, <1>2 DEF TableInv
<1>4. TablesExtend
  BY <1>1, <1>2 DEF TablesExtend, Extends, SignaturesExtend
<1>5. PICK D, S, F, G, y, m : /\ D = definitions /\ S = signatures /\ F = facts /\ G = facts' /\ y = Nodes'
                              /\ m = Len(Nodes')
  OBVIOUS
<1>6. FactStands(y, m, D, S, f) /\ \A i \in DOMAIN G : (\E j \in DOMAIN F : G[i] = F[j]) \/ G[i] = f
  BY <1>1, <1>2, <1>5
<1>7. Enlarged(y, m, D, S, F, D, S, G)
  BY <1>6 DEF Enlarged
<1>8. EnlargedNow
  BY <1>1, <1>5, <1>7 DEF EnlargedNow
<1>9. QED
  BY <1>3, <1>4, <1>8, CallKeeps

LEMMA StandsShape ==
  ASSUME ShapeInv, NEW t, Stands(Nodes, Len(Nodes), definitions, signatures, t)
  PROVE  t \in Handles /\ t \in Live(Nodes) /\ Grounded(t)
BY ArenaShape, RegisteredNow DEF ShapeInv, ArenaInv, Stands, Grounded

(* Only compound syntax has children.                                      *)
LEMMA LeafChildren ==
  ASSUME NEW a, ArenaOK(a), NEW t \in Live(a.nodes), a.nodes[t].kind \notin {"APP", "LIST"}
  PROVE  Children(a.nodes[t]) = {}
<1>1. Arity(a.nodes[t].kind) = 0
  BY DEF Arity
<1>2. \A c \in Children(a.nodes[t]) : Arity(a.nodes[t].kind) = 2
  BY DEF ArenaOK
<1>3. QED
  BY <1>1, <1>2

LEMMA JudgeKeeps == ASSUME ShapeInv, StoreInv, Judge PROVE ShapeInv' /\ StoreInv' /\ Grows(arena, arena')
<1>1. PICK t \in Live(Nodes), type \in Live(Nodes) :
        Grounded(t) /\ Grounded(type) /\ facts' = Append(facts, Typing(t, type))
  BY DEF Judge, Publish
<1>2. PICK f : f = Typing(t, type)
  OBVIOUS
<1>3. ArenaOK(arena)
  BY DEF ShapeInv, ArenaInv
<1>4. t \in Handles /\ type \in Handles /\ Live(Nodes) = 1 .. Len(Nodes)
  BY <1>3, ArenaShape
<1>5. f \in Facts
  BY <1>2, <1>4 DEF Typing, Facts
<1>6. /\ arena' = arena /\ definitions' = definitions /\ signatures' = signatures /\ checkpoint' = checkpoint
      /\ error' = error
  BY DEF Judge
<1>7. Stands(Nodes, Len(Nodes), definitions, signatures, t) /\ Stands(Nodes, Len(Nodes), definitions, signatures, type)
  BY <1>1, <1>4, RegisteredNow DEF Stands, Grounded
<1>8. FactStands(Nodes, Len(Nodes), definitions, signatures, f)
  BY <1>2, <1>4, <1>7 DEF FactStands, Typing
<1>9. FactStands(Nodes', Len(Nodes'), definitions', signatures', f)
  BY <1>6, <1>8 DEF Nodes
<1>10. Grows(arena, arena')
  BY <1>3, <1>6, GrowsNot
<1>11. error' \in {"none", "other", "resource"}
  BY <1>6 DEF ShapeInv, TableInv
<1>12. QED
  BY <1>1, <1>2, <1>5, <1>6, <1>9, <1>10, <1>11, Publishes

LEMMA LookupKeeps == ASSUME ShapeInv, StoreInv, Lookup PROVE ShapeInv' /\ StoreInv' /\ Grows(arena, arena')
<1>1. PICK t \in Live(Nodes) :
        /\ Kind(t) = "DEFREF"
        /\ IF Nodes[t].payload \in DOMAIN definitions
           THEN /\ facts' = Append(facts, Typing(t, definitions[Nodes[t].payload].type))
                /\ error' = error
           ELSE error' = "other" /\ facts' = facts
  BY DEF Lookup, Publish, Latch
<1>2. arena' = arena /\ definitions' = definitions /\ signatures' = signatures /\ checkpoint' = checkpoint
  BY DEF Lookup
<1>3. ArenaOK(arena)
  BY DEF ShapeInv, ArenaInv
<1>4. Grows(arena, arena')
  BY <1>2, <1>3, GrowsNot
<1>5. CASE Nodes[t].payload \in DOMAIN definitions
  <2>1. PICK d \in DOMAIN definitions : d = Nodes[t].payload
    BY <1>5
  <2>2. PICK type : type = definitions[d].type
    OBVIOUS
  <2>3. Stands(Nodes, Len(Nodes), definitions, signatures, type)
    <3>1. DefinitionStands(Nodes, Len(Nodes), definitions, signatures, d)
      BY DEF StoreInv, StoreOK
    <3>2. QED
      BY <2>2, <3>1 DEF DefinitionStands
  <2>4. References(Nodes, t) = {<<"DEFREF", d>>}
    <3>1. Ordered(Nodes)
      BY <1>3, ArenaOrdered DEF Nodes
    <3>2. References(Nodes, t) = Own(Nodes[t]) \cup UNION {References(Nodes, c) : c \in Children(Nodes[t])}
      BY <3>1, Refers
    <3>3. Children(Nodes[t]) = {}
      BY <1>1, <1>3, LeafChildren DEF Kind, Nodes
    <3>4. Own(Nodes[t]) = {<<"DEFREF", d>>}
      BY <1>1, <2>1 DEF Own, Kind
    <3>5. UNION {References(Nodes, c) : c \in Children(Nodes[t])} = {}
      BY <3>3
    <3>6. QED
      BY <3>2, <3>4, <3>5
  <2>5. Stands(Nodes, Len(Nodes), definitions, signatures, t)
    <3>1. t \in 1 .. Len(Nodes)
      BY DEF Live
    <3>2. QED
      BY <2>4, <3>1 DEF Stands, RegisteredIn
  <2>6. PICK f : f = Typing(t, type)
    OBVIOUS
  <2>7. f \in Facts
    BY <2>3, <2>5, <2>6, StandsShape DEF Typing, Facts
  <2>8. FactStands(Nodes, Len(Nodes), definitions, signatures, f)
    <3>1. t \in 1 .. Len(Nodes)
      BY DEF Live
    <3>2. QED
      BY <2>3, <2>5, <2>6, <3>1 DEF FactStands, Typing
  <2>9. FactStands(Nodes', Len(Nodes'), definitions', signatures', f)
    BY <1>2, <2>8 DEF Nodes
  <2>10. facts' = Append(facts, f) /\ error' = error
    BY <1>1, <1>5, <2>1, <2>2, <2>6
  <2>11. error' \in {"none", "other", "resource"}
    BY <2>10 DEF ShapeInv, TableInv
  <2>12. QED
    BY <1>2, <1>4, <2>7, <2>9, <2>10, <2>11, Publishes
<1>6. CASE Nodes[t].payload \notin DOMAIN definitions
  <2>1. facts' = facts /\ error' = "other"
    BY <1>1, <1>6
  <2>2. UNCHANGED tables /\ error' \in {"none", "other", "resource"}
    BY <1>2, <2>1 DEF tables
  <2>3. QED
    BY <1>4, <2>2, NothingAdded, CallKeeps DEF ShapeInv
<1>7. QED
  BY <1>5, <1>6

LEMMA DefineKeeps == ASSUME ShapeInv, StoreInv, Define PROVE ShapeInv' /\ StoreInv' /\ Grows(arena, arena')
<1> PICK next : next = NextDefinition
  OBVIOUS
<1>1. PICK i \in Typings, symbol \in Symbols, ok \in Allocates, published \in Allocates :
        /\ arena' = Make(arena, Key("DEFREF", next, 0, 0), ok).arena
        /\ IF Make(arena, Key("DEFREF", next, 0, 0), ok).term = 0
           THEN error' = Make(arena, Key("DEFREF", next, 0, 0), ok).error /\ UNCHANGED <<definitions, facts>>
           ELSE /\ definitions' = Append(definitions,
                        [symbol |-> symbol, value |-> facts[i].term, type |-> facts[i].type])
                /\ IF published
                   THEN /\ facts' = Append(facts, Typing(Make(arena, Key("DEFREF", next, 0, 0), ok).term, facts[i].type))
                        /\ error' = error
                   ELSE error' = "resource" /\ facts' = facts
  BY DEF Define, Publish, Latch
<1> PICK m : m = Make(arena, Key("DEFREF", next, 0, 0), ok)
  OBVIOUS
<1>2. /\ arena' = m.arena
      /\ m.term = 0 => error' = m.error /\ UNCHANGED <<definitions, facts>>
      /\ m.term # 0 =>
           /\ definitions' = Append(definitions, [symbol |-> symbol, value |-> facts[i].term, type |-> facts[i].type])
           /\ \/ facts' = Append(facts, Typing(m.term, facts[i].type)) /\ error' = error
              \/ error' = "resource" /\ facts' = facts
  BY <1>1
<1>3. signatures' = signatures /\ checkpoint' = checkpoint /\ Len(definitions) < MaxDefinitions
  BY DEF Define
<1>4. /\ TableInv /\ ArenaOK(arena) /\ definitions \in DefinitionTable /\ Len(definitions) \in Nat
      /\ IsSeq(definitions) /\ DOMAIN definitions = 1 .. Len(definitions)
      /\ error \in {"none", "other", "resource"}
  <2>1. TableInv /\ ArenaOK(arena) /\ definitions \in DefinitionTable /\ error \in {"none", "other", "resource"}
    BY DEF ShapeInv, ArenaInv, TableInv
  <2>2. IsSeq(definitions)
    BY <2>1, SeqOfSet DEF DefinitionTable
  <2>3. QED
    BY <2>1, <2>2, SeqShape
<1>5. next = Len(definitions) + 1 /\ next \in Payload /\ 0 \in Handles
  <2>1. next = Len(definitions) + 1
    BY DEF NextDefinition
  <2>2. next \in 0 .. MaxDefinitions
    BY <1>3, <1>4, <2>1, StoreAssumption
  <2>3. QED
    BY <2>1, <2>2, PayloadRanges, ArenaAssumption DEF Handles
<1>6. /\ Made(arena, m, Key("DEFREF", next, 0, 0)) /\ Key("DEFREF", next, 0, 0).kind = "DEFREF"
      /\ Key("DEFREF", next, 0, 0).payload = next
  <2>1. "DEFREF" \in AllKinds /\ "DEFREF" # "VAR"
    BY DEF AllKinds
  <2>2. QED
    BY <1>4, <1>5, <2>1, MakesKey
<1>7. /\ m.term \in Handles /\ m.error \in {"none", "other", "resource"} /\ ArenaOK(m.arena)
      /\ Grows(arena, m.arena)
  BY <1>6, MadeType
<1>8. CASE m.term = 0
  <2>1. UNCHANGED tables /\ error' \in {"none", "other", "resource"}
    BY <1>2, <1>3, <1>7, <1>8 DEF tables
  <2>2. QED
    BY <1>2, <1>7, <2>1, NothingAdded, CallKeeps DEF ShapeInv
<1>9. CASE m.term # 0
  <2>1. /\ m.term \in Live(m.arena.nodes) /\ m.arena.nodes[m.term].kind = "DEFREF"
        /\ m.arena.nodes[m.term].payload = next
    BY <1>6, <1>9, MadeNode
  <2>2. References(Nodes', m.term) = {<<"DEFREF", next>>}
    <3>1. Ordered(Nodes')
      BY <1>2, <1>7, ArenaOrdered DEF Nodes
    <3>2. References(Nodes', m.term) = Own(Nodes'[m.term]) \cup UNION {References(Nodes', c) : c \in Children(Nodes'[m.term])}
      BY <1>2, <2>1, <3>1, Refers DEF Nodes
    <3>3. Children(Nodes'[m.term]) = {}
      BY <1>2, <1>7, <2>1, LeafChildren DEF Nodes
    <3>4. Own(Nodes'[m.term]) = {<<"DEFREF", next>>}
      BY <1>2, <2>1 DEF Own, Nodes
    <3>5. UNION {References(Nodes', c) : c \in Children(Nodes'[m.term])} = {}
      BY <3>3
    <3>6. QED
      BY <3>2, <3>4, <3>5
  <2>3. PICK fact : fact = facts[i]
    OBVIOUS
  <2>4. /\ fact \in Facts /\ fact.kind = "typing" /\ Stands(Nodes, Len(Nodes), definitions, signatures, fact.term)
        /\ Stands(Nodes, Len(Nodes), definitions, signatures, fact.type)
    <3>1. i \in DOMAIN facts /\ fact.kind = "typing"
      BY <2>3 DEF Typings
    <3>2. fact \in Facts
      <4>1. facts \in Seq(Facts)
        BY <1>4 DEF TableInv
      <4>2. QED
        BY <2>3, <3>1, <4>1
    <3>3. FactStands(Nodes, Len(Nodes), definitions, signatures, fact)
      BY <2>3, <3>1 DEF StoreInv, StoreOK
    <3>4. QED
      BY <3>1, <3>2, <3>3 DEF FactStands
  <2>5. PICK new : new = [symbol |-> symbol, value |-> fact.term, type |-> fact.type]
    OBVIOUS
  <2>6. PICK f : f = Typing(m.term, fact.type)
    OBVIOUS
  <2>7. f \in Facts /\ new \in [symbol : Symbols, value : Handles, type : Handles]
    <3>1. fact.term \in Handles /\ fact.type \in Handles
      BY <2>4 DEF Facts
    <3>2. QED
      BY <1>7, <2>5, <2>6, <3>1 DEF Facts, Typing
  <2>8. /\ definitions' = Append(definitions, new)
        /\ \/ facts' = Append(facts, f) /\ error' = error
           \/ error' = "resource" /\ facts' = facts
    BY <1>2, <1>9, <2>3, <2>5, <2>6
  <2>9. /\ definitions' \in DefinitionTable /\ Extends(definitions, definitions') /\ Len(definitions') = next
        /\ DOMAIN definitions' = DOMAIN definitions \cup {next} /\ definitions'[next] = new
    <3>1. definitions' \in DefinitionTable
      BY <1>4, <2>7, <2>8 DEF DefinitionTable
    <3>2. QED
      BY <1>4, <1>5, <2>8, <3>1, AppendShape
  <2>10. /\ facts' \in Seq(Facts) /\ Extends(facts, facts')
         /\ \A k \in DOMAIN facts' : (\E j \in DOMAIN facts : facts'[k] = facts[j]) \/ facts'[k] = f
    <3>1. CASE facts' = Append(facts, f)
      BY <1>4, <2>7, <3>1, FactMore
    <3>2. CASE facts' = facts
      BY <1>4, <3>2 DEF TableInv, Extends
    <3>3. QED
      BY <2>8, <3>1, <3>2
  <2>11. TableInv'
    <3>1. error' \in {"none", "other", "resource"}
      BY <1>4, <2>8
    <3>2. next <= MaxDefinitions
      BY <1>3, <1>4, <1>5, StoreAssumption
    <3>3. QED
      BY <1>3, <1>4, <2>9, <2>10, <3>1, <3>2 DEF TableInv
  <2>12. TablesExtend
    BY <1>3, <2>9, <2>10 DEF TablesExtend, SignaturesExtend, Extends
  <2>13. RegisteredIn(definitions, signatures) \subseteq RegisteredIn(definitions', signatures')
    BY <1>3, <2>9 DEF RegisteredIn
  <2>14. \A t : Stands(Nodes, Len(Nodes), definitions, signatures, t) =>
                  /\ Stands(Nodes', Len(Nodes'), definitions', signatures', t)
                  /\ References(Nodes', t) = References(Nodes, t)
    BY <1>2, <1>7, <2>13, StandStill
  <2>15. DefinitionStands(Nodes', Len(Nodes'), definitions', signatures', next)
    <3>1. ASSUME NEW t \in {fact.term, fact.type}
          PROVE  /\ Stands(Nodes', Len(Nodes'), definitions', signatures', t)
                 /\ \A r \in References(Nodes', t) : r[1] = "DEFREF" => r[2] < next
      <4>1. Stands(Nodes, Len(Nodes), definitions, signatures, t)
        BY <2>4
      <4>2. References(Nodes', t) \subseteq RegisteredIn(definitions, signatures)
        BY <2>14, <4>1 DEF Stands
      <4>3. \A r \in RegisteredIn(definitions, signatures) : r[1] = "DEFREF" => r[2] \in DOMAIN definitions
        BY DEF RegisteredIn
      <4>4. \A d \in DOMAIN definitions : d < next
        BY <1>4, <1>5
      <4>5. QED
        BY <2>14, <4>1, <4>2, <4>3, <4>4
    <3>2. definitions'[next].value = fact.term /\ definitions'[next].type = fact.type
      BY <2>5, <2>9
    <3>3. QED
      BY <3>1, <3>2 DEF DefinitionStands
  <2>16. FactStands(Nodes', Len(Nodes'), definitions', signatures', f)
    <3>1. m.term \in 1 .. Len(Nodes')
      BY <1>2, <2>1 DEF Nodes, Live
    <3>2. {<<"DEFREF", next>>} \subseteq RegisteredIn(definitions', signatures')
      BY <2>9 DEF RegisteredIn
    <3>3. Stands(Nodes', Len(Nodes'), definitions', signatures', m.term)
      BY <2>2, <3>1, <3>2 DEF Stands
    <3>4. Stands(Nodes', Len(Nodes'), definitions', signatures', fact.type)
      BY <2>4, <2>14
    <3>5. QED
      BY <2>6, <3>1, <3>3, <3>4 DEF FactStands, Typing
  <2>17. EnlargedNow
    <3>1. PICK D, S, F, E, G, y, n : /\ D = definitions /\ S = signatures /\ F = facts /\ E = definitions'
                                     /\ G = facts' /\ y = Nodes' /\ n = Len(Nodes')
      OBVIOUS
    <3>2. /\ DOMAIN E = DOMAIN D \cup {next} /\ \A d \in DOMAIN D : E[d] = D[d]
          /\ DefinitionStands(y, n, E, S, next) /\ FactStands(y, n, E, S, f)
          /\ \A k \in DOMAIN G : (\E j \in DOMAIN F : G[k] = F[j]) \/ G[k] = f
          /\ RegisteredIn(D, S) \subseteq RegisteredIn(E, S)
      BY <1>3, <2>9, <2>10, <2>13, <2>15, <2>16, <3>1 DEF Extends
    <3>3. \A d \in DOMAIN E : \/ d \in DOMAIN D /\ E[d].value = D[d].value /\ E[d].type = D[d].type
                              \/ DefinitionStands(y, n, E, S, d)
      BY <3>2
    <3>4. Enlarged(y, n, D, S, F, E, S, G)
      BY <3>2, <3>3 DEF Enlarged
    <3>5. QED
      BY <1>3, <3>1, <3>4 DEF EnlargedNow
  <2>18. QED
    BY <1>2, <1>7, <2>11, <2>12, <2>17, CallKeeps
<1>10. QED
  BY <1>8, <1>9

LEMMA SignatureBeginKeeps == ASSUME ShapeInv, StoreInv, SignatureBegin PROVE ShapeInv' /\ StoreInv' /\ Grows(arena, arena')
<1>1. PICK i \in Typings, sort \in Symbols, squash \in BOOLEAN, ok \in Allocates, published \in Allocates :
       LET symbol == Make(arena, Key("VAR", sort, 0, 0), ok)
           index  == Len(signatures) + 1
           made   == Make(symbol.arena, Key("SORT", index, 0, 0), ok)
       IN  IF symbol.term = 0
           THEN /\ arena' = symbol.arena /\ Latch(symbol.error)
                /\ UNCHANGED <<signatures, facts>>
           ELSE /\ arena' = made.arena
                /\ IF made.term = 0 \/ ~ published
                   THEN /\ Latch(IF made.term = 0 THEN made.error ELSE "resource")
                        /\ UNCHANGED <<signatures, facts>>
                   ELSE /\ signatures' = Append(signatures,
                             [sort |-> sort, former |-> facts[i].term, squash |-> squash,
                              constructors |-> <<>>, admitted |-> FALSE])
                        /\ Publish(Admission(made.term, facts[i].term, 0))
                        /\ UNCHANGED error
  BY Zenon DEF SignatureBegin
<1> PICK index : index = Len(signatures) + 1
  OBVIOUS
<1> PICK v : v = Make(arena, Key("VAR", sort, 0, 0), ok)
  OBVIOUS
<1> PICK m : m = Make(v.arena, Key("SORT", index, 0, 0), ok)
  OBVIOUS
<1>2. /\ v.term = 0 => arena' = v.arena /\ error' = v.error /\ UNCHANGED <<signatures, facts>>
      /\ v.term # 0 =>
           /\ arena' = m.arena
           /\ \/ error' = (IF m.term = 0 THEN m.error ELSE "resource") /\ UNCHANGED <<signatures, facts>>
              \/ /\ m.term # 0 /\ error' = error
                 /\ signatures' = Append(signatures, [sort |-> sort, former |-> facts[i].term, squash |-> squash,
                                                      constructors |-> <<>>, admitted |-> FALSE])
                 /\ facts' = Append(facts, Admission(m.term, facts[i].term, 0))
  BY <1>1 DEF Publish, Latch
<1>3. definitions' = definitions /\ checkpoint' = checkpoint /\ Len(signatures) < MaxSignatures
  BY DEF SignatureBegin
<1>4. /\ TableInv /\ ArenaOK(arena) /\ signatures \in Seq(Signatures) /\ Len(signatures) \in Nat
      /\ IsSeq(signatures) /\ DOMAIN signatures = 1 .. Len(signatures)
      /\ error \in {"none", "other", "resource"}
  <2>1. TableInv /\ ArenaOK(arena) /\ signatures \in Seq(Signatures) /\ error \in {"none", "other", "resource"}
    BY DEF ShapeInv, ArenaInv, TableInv
  <2>2. IsSeq(signatures)
    BY <2>1, SeqOfSet
  <2>3. QED
    BY <2>1, <2>2, SeqShape
<1>5. index \in Payload /\ 0 \in Handles /\ sort \in 1 .. MaxSymbol /\ sort \in Payload
  <2>1. index \in 0 .. MaxSignatures
    BY <1>3, <1>4, StoreAssumption
  <2>2. QED
    BY <2>1, PayloadRanges, ArenaAssumption DEF Handles
<1>6. Made(arena, v, Key("VAR", sort, 0, 0))
  <2>1. "VAR" \in AllKinds
    BY DEF AllKinds
  <2>2. QED
    BY <1>4, <1>5, <2>1, MakesKey
<1>7. /\ v.error \in {"none", "other", "resource"} /\ ArenaOK(v.arena) /\ Grows(arena, v.arena)
  BY <1>6, MadeType
<1>8. /\ Made(v.arena, m, Key("SORT", index, 0, 0)) /\ Key("SORT", index, 0, 0).kind = "SORT"
      /\ Key("SORT", index, 0, 0).payload = index
  <2>1. "SORT" \in AllKinds /\ "SORT" # "VAR"
    BY DEF AllKinds
  <2>2. QED
    BY <1>5, <1>7, <2>1, MakesKey
<1>9. /\ m.term \in Handles /\ m.error \in {"none", "other", "resource"} /\ ArenaOK(m.arena) /\ Grows(arena, m.arena)
  <2>1. m.term \in Handles /\ m.error \in {"none", "other", "resource"} /\ ArenaOK(m.arena) /\ Grows(v.arena, m.arena)
    BY <1>8, MadeType
  <2>2. QED
    BY <1>7, <2>1, GrowsTwice
<1>10. Grows(arena, arena')
  BY <1>2, <1>7, <1>9
<1>11. CASE UNCHANGED <<signatures, facts>> /\ error' \in {"none", "other", "resource"}
  <2>1. UNCHANGED tables
    BY <1>3, <1>11 DEF tables
  <2>2. QED
    BY <1>10, <1>11, <2>1, NothingAdded, CallKeeps DEF ShapeInv
<1>12. CASE /\ m.term # 0 /\ error' = error /\ arena' = m.arena
            /\ signatures' = Append(signatures, [sort |-> sort, former |-> facts[i].term, squash |-> squash,
                                                 constructors |-> <<>>, admitted |-> FALSE])
            /\ facts' = Append(facts, Admission(m.term, facts[i].term, 0))
  <2>1. /\ m.term \in Live(m.arena.nodes) /\ m.arena.nodes[m.term].payload = index
    BY <1>8, <1>12, MadeNode
  <2>2. PICK fact : fact = facts[i]
    OBVIOUS
  <2>3. fact \in Facts /\ Stands(Nodes, Len(Nodes), definitions, signatures, fact.term)
    <3>1. i \in DOMAIN facts /\ fact.kind = "typing"
      BY <2>2 DEF Typings
    <3>2. fact \in Facts
      <4>1. facts \in Seq(Facts)
        BY <1>4 DEF TableInv
      <4>2. QED
        BY <2>2, <3>1, <4>1
    <3>3. FactStands(Nodes, Len(Nodes), definitions, signatures, fact)
      BY <2>2, <3>1 DEF StoreInv, StoreOK
    <3>4. QED
      BY <3>1, <3>2, <3>3 DEF FactStands
  <2>4. PICK new : new = [sort |-> sort, former |-> fact.term, squash |-> squash, constructors |-> <<>>, admitted |-> FALSE]
    OBVIOUS
  <2>5. PICK f : f = Admission(m.term, fact.term, 0)
    OBVIOUS
  <2>6. f \in Facts /\ new \in Signatures
    <3>1. fact.term \in Handles
      BY <2>3 DEF Facts
    <3>2. f \in Facts
      BY <1>9, <2>5, <3>1 DEF Facts, Admission
    <3>3. new \in Signatures
      BY <2>4, <3>1 DEF Signatures
    <3>4. QED
      BY <3>2, <3>3
  <2>7. signatures' = Append(signatures, new) /\ facts' = Append(facts, f)
    BY <1>12, <2>2, <2>4, <2>5
  <2>8. /\ signatures' \in Seq(Signatures) /\ Extends(signatures, signatures') /\ Len(signatures') = index
        /\ DOMAIN signatures' = DOMAIN signatures \cup {index} /\ signatures'[index] = new
    <3>1. signatures' \in Seq(Signatures)
      BY <1>4, <2>6, <2>7
    <3>2. QED
      BY <1>4, <2>7, <3>1, AppendShape
  <2>9. /\ facts' \in Seq(Facts) /\ Extends(facts, facts')
        /\ \A k \in DOMAIN facts' : (\E j \in DOMAIN facts : facts'[k] = facts[j]) \/ facts'[k] = f
    BY <1>4, <2>6, <2>7, FactMore
  <2>10. TableInv'
    <3>1. error' \in {"none", "other", "resource"}
      BY <1>4, <1>12
    <3>2. index <= MaxSignatures
      BY <1>3, <1>4, StoreAssumption
    <3>3. QED
      BY <1>3, <1>4, <2>8, <2>9, <3>1, <3>2 DEF TableInv
  <2>11. TablesExtend
    BY <1>3, <2>8, <2>9 DEF TablesExtend, SignaturesExtend, Extends
  <2>12. RegisteredIn(definitions, signatures) \subseteq RegisteredIn(definitions', signatures')
    BY <1>3, <2>8 DEF RegisteredIn, Extends
  <2>13. Stands(Nodes', Len(Nodes'), definitions', signatures', fact.term)
    BY <1>10, <2>3, <2>12, StandStill
  <2>14. FactStands(Nodes', Len(Nodes'), definitions', signatures', f)
    <3>1. m.term \in 1 .. Len(Nodes') /\ Nodes'[m.term].payload = index
      BY <1>12, <2>1 DEF Nodes, Live
    <3>2. index \in DOMAIN signatures'
      BY <2>8
    <3>3. QED
      BY <2>5, <2>13, <3>1, <3>2 DEF FactStands, Admission
  <2>15. EnlargedNow
    <3>1. PICK D, S, F, T, G, y, n : /\ D = definitions /\ S = signatures /\ F = facts /\ T = signatures'
                                     /\ G = facts' /\ y = Nodes' /\ n = Len(Nodes')
      OBVIOUS
    <3>2. /\ DOMAIN T = DOMAIN S \cup {index} /\ \A s \in DOMAIN S : T[s] = S[s]
          /\ T[index].constructors = <<>> /\ Stands(y, n, D, T, T[index].former) /\ FactStands(y, n, D, T, f)
          /\ \A k \in DOMAIN G : (\E j \in DOMAIN F : G[k] = F[j]) \/ G[k] = f
          /\ RegisteredIn(D, S) \subseteq RegisteredIn(D, T)
      BY <1>3, <2>4, <2>8, <2>9, <2>12, <2>13, <2>14, <3>1 DEF Extends
    <3>3. ASSUME NEW s \in DOMAIN T
          PROVE  /\ \/ s \in DOMAIN S /\ T[s].former = S[s].former
                    \/ Stands(y, n, D, T, T[s].former)
                 /\ \A c \in DOMAIN T[s].constructors :
                      \/ s \in DOMAIN S /\ c \in DOMAIN S[s].constructors /\ T[s].constructors[c].type = S[s].constructors[c].type
                      \/ Stands(y, n, D, T, T[s].constructors[c].type)
      <4>1. CASE s \in DOMAIN S
        BY <3>2, <4>1
      <4>2. CASE s = index
        BY <3>2, <4>2
      <4>3. QED
        BY <3>2, <4>1, <4>2
    <3>4. Enlarged(y, n, D, S, F, D, T, G)
      BY <3>2, <3>3 DEF Enlarged
    <3>5. QED
      BY <1>3, <3>1, <3>4 DEF EnlargedNow
  <2>16. QED
    BY <1>10, <2>10, <2>11, <2>15, CallKeeps
<1>13. QED
  BY <1>2, <1>7, <1>9, <1>11, <1>12

(* A signature gets other constructors, and is admitted or not.            *)
LEMMA SignatureSet ==
  ASSUME TableInv, NEW s \in DOMAIN signatures, NEW cs \in Seq(Constructors),
         Extends(signatures[s].constructors, cs), NEW a \in BOOLEAN,
         signatures' = [signatures EXCEPT ![s] = [signatures[s] EXCEPT !.constructors = cs, !.admitted = a]]
  PROVE  /\ signatures' \in Seq(Signatures) /\ Len(signatures') = Len(signatures)
         /\ DOMAIN signatures' = DOMAIN signatures /\ SignaturesExtend(signatures, signatures')
         /\ signatures'[s].constructors = cs /\ signatures'[s].admitted = a
         /\ signatures'[s].former = signatures[s].former
         /\ \A u \in DOMAIN signatures : u # s => signatures'[u] = signatures[u]
<1>1. signatures \in Seq(Signatures) /\ signatures[s] \in Signatures /\ s \in 1 .. Len(signatures)
      /\ DOMAIN signatures = 1 .. Len(signatures)
  BY DEF TableInv
<1>2. PICK x : x = [signatures[s] EXCEPT !.constructors = cs, !.admitted = a]
  OBVIOUS
<1>3. /\ x \in Signatures /\ x.constructors = cs /\ x.admitted = a /\ x.former = signatures[s].former
      /\ x.sort = signatures[s].sort /\ x.squash = signatures[s].squash
  BY <1>1, <1>2 DEF Signatures
<1>4. signatures' = [signatures EXCEPT ![s] = x]
  BY <1>2
<1>5. signatures' \in Seq(Signatures) /\ Len(signatures') = Len(signatures) /\ DOMAIN signatures' = DOMAIN signatures
  BY <1>1, <1>3, <1>4
<1>6. signatures'[s] = x /\ \A u \in DOMAIN signatures : u # s => signatures'[u] = signatures[u]
  BY <1>1, <1>4
<1>7. SignaturesExtend(signatures, signatures')
  <2>1. ASSUME NEW u \in DOMAIN signatures
        PROVE  /\ u \in DOMAIN signatures' /\ signatures'[u].sort = signatures[u].sort
               /\ signatures'[u].former = signatures[u].former /\ signatures'[u].squash = signatures[u].squash
               /\ Extends(signatures[u].constructors, signatures'[u].constructors)
    <3>1. CASE u = s
      BY <1>3, <1>5, <1>6, <3>1
    <3>2. CASE u # s
      BY <1>5, <1>6, <3>2 DEF Extends
    <3>3. QED
      BY <3>1, <3>2
  <2>2. QED
    BY <2>1 DEF SignaturesExtend
<1>8. QED
  BY <1>3, <1>5, <1>6, <1>7

LEMMA SignatureCall ==
  ASSUME ShapeInv, StoreInv, NEW s \in DOMAIN signatures, ~ signatures[s].admitted,
         NEW cs \in Seq(Constructors), Extends(signatures[s].constructors, cs), NEW a \in BOOLEAN,
         signatures' = [signatures EXCEPT ![s] = [signatures[s] EXCEPT !.constructors = cs, !.admitted = a]],
         \A c \in DOMAIN cs : \/ c \in DOMAIN signatures[s].constructors
                              \/ Stands(Nodes', Len(Nodes'), definitions', signatures', cs[c].type),
         Grows(arena, arena'), UNCHANGED <<definitions, checkpoint>>, error' \in {"none", "other", "resource"},
         NEW f \in Facts,
         \/ facts' = facts
         \/ facts' = Append(facts, f) /\ FactStands(Nodes', Len(Nodes'), definitions', signatures', f)
  PROVE  ShapeInv' /\ StoreInv'
<1>1. TableInv /\ definitions' = definitions /\ checkpoint' = checkpoint
  BY DEF ShapeInv
<1>2. /\ signatures' \in Seq(Signatures) /\ Len(signatures') = Len(signatures)
      /\ DOMAIN signatures' = DOMAIN signatures /\ SignaturesExtend(signatures, signatures')
      /\ signatures'[s].constructors = cs /\ signatures'[s].admitted = a
      /\ signatures'[s].former = signatures[s].former
      /\ \A u \in DOMAIN signatures : u # s => signatures'[u] = signatures[u]
  BY <1>1, SignatureSet
<1>3. /\ facts' \in Seq(Facts) /\ Extends(facts, facts')
      /\ \A k \in DOMAIN facts' : \/ \E j \in DOMAIN facts : facts'[k] = facts[j]
                                  \/ FactStands(Nodes', Len(Nodes'), definitions', signatures', facts'[k])
  <2>1. CASE facts' = facts
    BY <1>1, <2>1 DEF TableInv, Extends
  <2>2. CASE facts' = Append(facts, f) /\ FactStands(Nodes', Len(Nodes'), definitions', signatures', f)
    BY <1>1, <2>2, FactMore
  <2>3. QED
    BY <2>1, <2>2
<1>4. TableInv'
  BY <1>1, <1>2, <1>3 DEF TableInv
<1>5. TablesExtend
  BY <1>1, <1>2, <1>3 DEF TablesExtend, Extends
<1>6. RegisteredIn(definitions, signatures) \subseteq RegisteredIn(definitions', signatures')
  BY <1>1, <1>2 DEF RegisteredIn
<1>7. EnlargedNow
  <2>1. PICK D, S, F, T, G, y, n : /\ D = definitions /\ S = signatures /\ F = facts /\ T = signatures'
                                   /\ G = facts' /\ y = Nodes' /\ n = Len(Nodes')
    OBVIOUS
  <2>2. /\ DOMAIN T = DOMAIN S /\ \A u \in DOMAIN S : u # s => T[u] = S[u]
        /\ T[s].former = S[s].former /\ T[s].constructors = cs
        /\ \A c \in DOMAIN cs : \/ c \in DOMAIN S[s].constructors /\ cs[c] = S[s].constructors[c]
                                \/ Stands(y, n, D, T, cs[c].type)
    BY <1>1, <1>2, <2>1 DEF Extends
  <2>3. \A k \in DOMAIN G : (\E j \in DOMAIN F : G[k] = F[j]) \/ FactStands(y, n, D, T, G[k])
    BY <1>1, <1>3, <2>1
  <2>4. RegisteredIn(D, S) \subseteq RegisteredIn(D, T)
    BY <1>1, <1>6, <2>1
  <2>5. ASSUME NEW u \in DOMAIN T
        PROVE  /\ \/ u \in DOMAIN S /\ T[u].former = S[u].former
                  \/ Stands(y, n, D, T, T[u].former)
               /\ \A c \in DOMAIN T[u].constructors :
                    \/ u \in DOMAIN S /\ c \in DOMAIN S[u].constructors /\ T[u].constructors[c].type = S[u].constructors[c].type
                    \/ Stands(y, n, D, T, T[u].constructors[c].type)
    <3>1. CASE u = s
      BY <2>2, <3>1
    <3>2. CASE u # s
      BY <2>2, <3>2
    <3>3. QED
      BY <3>1, <3>2
  <2>6. Enlarged(y, n, D, S, F, D, T, G)
    BY <2>2, <2>3, <2>4, <2>5 DEF Enlarged
  <2>7. QED
    BY <1>1, <2>1, <2>6 DEF EnlargedNow
<1>8. QED
  BY <1>4, <1>5, <1>7, CallKeeps

(* A judgement that continues a signature names one that is open.          *)
LEMMA LatestSignature ==
  ASSUME ShapeInv, StoreInv, NEW i \in DOMAIN facts, Latest(i), NEW s, s = Nodes[facts[i].term].payload
  PROVE  /\ s \in DOMAIN signatures /\ ~ signatures[s].admitted /\ signatures[s] \in Signatures
         /\ facts[i] \in Facts /\ facts[i].kind = "signature" /\ facts[i].term \in 1 .. Len(Nodes)
         /\ Stands(Nodes, Len(Nodes), definitions, signatures, facts[i].type)
<1>1. facts \in Seq(Facts) /\ signatures \in Seq(Signatures)
  BY DEF ShapeInv, TableInv
<1>2. facts[i].kind = "signature" /\ ~ signatures[s].admitted
  BY DEF Latest
<1>3. FactStands(Nodes, Len(Nodes), definitions, signatures, facts[i])
  BY DEF StoreInv, StoreOK
<1>4. s \in DOMAIN signatures
  BY <1>2, <1>3 DEF FactStands
<1>5. QED
  BY <1>1, <1>2, <1>3, <1>4 DEF FactStands

LEMMA SignatureConstructorKeeps ==
  ASSUME ShapeInv, StoreInv, SignatureConstructor PROVE ShapeInv' /\ StoreInv' /\ Grows(arena, arena')
<1>1. PICK i \in DOMAIN facts, j \in Typings, symbol \in Symbols, ok \in Allocates, published \in Allocates :
       /\ Latest(i)
       /\ LET index == Nodes[facts[i].term].payload
              s     == signatures[index]
              made  == Make(arena, Key("VAR", symbol, 0, 0), ok)
              new   == [symbol |-> symbol, type |-> facts[j].term]
          IN  /\ symbol # s.sort
              /\ \A c \in DOMAIN s.constructors : s.constructors[c].symbol # symbol
              /\ arena' = made.arena
              /\ IF made.term = 0
                 THEN Latch(made.error) /\ UNCHANGED <<signatures, facts>>
                 ELSE IF Len(s.constructors) >= MaxConstructors \/ ~ published
                 THEN Latch("resource") /\ UNCHANGED <<signatures, facts>>
                 ELSE /\ signatures' = [signatures EXCEPT ![index].constructors = Append(@, new)]
                      /\ Publish(Admission(facts[i].term, facts[i].type, Len(s.constructors) + 1))
                      /\ UNCHANGED error
  BY Zenon DEF SignatureConstructor
<1> PICK s : s = Nodes[facts[i].term].payload
  OBVIOUS
<1> PICK m : m = Make(arena, Key("VAR", symbol, 0, 0), ok)
  OBVIOUS
<1>2. /\ arena' = m.arena
      /\ \/ m.term = 0 /\ error' = m.error /\ UNCHANGED <<signatures, facts>>
         \/ error' = "resource" /\ UNCHANGED <<signatures, facts>>
         \/ /\ signatures' = [signatures EXCEPT ![s].constructors = Append(@, [symbol |-> symbol, type |-> facts[j].term])]
            /\ facts' = Append(facts, Admission(facts[i].term, facts[i].type, Len(signatures[s].constructors) + 1))
            /\ error' = error
  BY <1>1 DEF Publish, Latch
<1>3. definitions' = definitions /\ checkpoint' = checkpoint
  BY DEF SignatureConstructor
<1>4. TableInv /\ ArenaOK(arena) /\ error \in {"none", "other", "resource"}
  BY DEF ShapeInv, ArenaInv, TableInv
<1>5. Made(arena, m, Key("VAR", symbol, 0, 0))
  <2>1. "VAR" \in AllKinds /\ symbol \in 1 .. MaxSymbol /\ symbol \in Payload /\ 0 \in Handles
    BY PayloadRanges, ArenaAssumption DEF AllKinds, Handles
  <2>2. QED
    BY <1>4, <2>1, MakesKey
<1>6. m.error \in {"none", "other", "resource"} /\ Grows(arena, arena')
  BY <1>2, <1>5, MadeType
<1>7. CASE UNCHANGED <<signatures, facts>> /\ error' \in {"none", "other", "resource"}
  <2>1. UNCHANGED tables
    BY <1>3, <1>7 DEF tables
  <2>2. QED
    BY <1>4, <1>6, <1>7, <2>1, NothingAdded, CallKeeps
<1>8. CASE /\ signatures' = [signatures EXCEPT ![s].constructors = Append(@, [symbol |-> symbol, type |-> facts[j].term])]
           /\ facts' = Append(facts, Admission(facts[i].term, facts[i].type, Len(signatures[s].constructors) + 1))
           /\ error' = error
  <2>1. /\ s \in DOMAIN signatures /\ ~ signatures[s].admitted /\ signatures[s] \in Signatures
        /\ facts[i] \in Facts /\ facts[i].kind = "signature" /\ facts[i].term \in 1 .. Len(Nodes)
        /\ Stands(Nodes, Len(Nodes), definitions, signatures, facts[i].type)
    BY <1>1, LatestSignature
  <2>2. /\ facts[j] \in Facts /\ Stands(Nodes, Len(Nodes), definitions, signatures, facts[j].term)
    <3>1. j \in DOMAIN facts /\ facts[j].kind = "typing"
      BY DEF Typings
    <3>2. facts[j] \in Facts
      <4>1. facts \in Seq(Facts)
        BY <1>4 DEF TableInv
      <4>2. QED
        BY <3>1, <4>1
    <3>3. FactStands(Nodes, Len(Nodes), definitions, signatures, facts[j])
      BY <3>1 DEF StoreInv, StoreOK
    <3>4. QED
      BY <3>1, <3>2, <3>3 DEF FactStands
  <2>3. PICK new : new = [symbol |-> symbol, type |-> facts[j].term]
    OBVIOUS
  <2>4. PICK f : f = Admission(facts[i].term, facts[i].type, Len(signatures[s].constructors) + 1)
    OBVIOUS
  <2>5. PICK old : old = signatures[s].constructors
    OBVIOUS
  <2>6. PICK cs : cs = Append(old, new)
    OBVIOUS
  <2>7. new \in Constructors /\ f \in Facts /\ old \in Seq(Constructors) /\ IsSeq(old)
    <3>1. facts[j].term \in Handles /\ facts[i].term \in Handles /\ facts[i].type \in Handles
      BY <2>1, <2>2 DEF Facts
    <3>2. new \in Constructors
      <4>1. symbol \in Nat
        BY PayloadRanges
      <4>2. QED
        BY <2>3, <3>1, <4>1 DEF Constructors
    <3>3. old \in Seq(Constructors) /\ Len(old) \in Nat
      BY <2>1, <2>5 DEF Signatures
    <3>4. f \in Facts
      <4>1. PICK k \in Nat : k = Len(old) + 1
        BY <3>3
      <4>2. f = Admission(facts[i].term, facts[i].type, k)
        BY <2>4, <2>5, <4>1
      <4>3. QED
        BY <3>1, <4>2 DEF Facts, Admission
    <3>5. QED
      BY <3>2, <3>3, <3>4, SeqOfSet
  <2>8. /\ cs \in Seq(Constructors) /\ Extends(old, cs) /\ DOMAIN cs = DOMAIN old \cup {Len(old) + 1}
        /\ cs[Len(old) + 1] = new
    <3>1. cs \in Seq(Constructors)
      BY <2>6, <2>7
    <3>2. QED
      BY <2>6, <2>7, <3>1, AppendShape
  <2>9. signatures' = [signatures EXCEPT ![s] = [signatures[s] EXCEPT !.constructors = cs, !.admitted = FALSE]]
    <3>1. signatures' = [signatures EXCEPT ![s] = [signatures[s] EXCEPT !.constructors = cs]]
      BY <1>8, <2>1, <2>3, <2>5, <2>6
    <3>2. [signatures[s] EXCEPT !.constructors = cs] = [signatures[s] EXCEPT !.constructors = cs, !.admitted = FALSE]
      BY <2>1 DEF Signatures
    <3>3. QED
      BY <3>1, <3>2
  <2>10. /\ DOMAIN signatures' = DOMAIN signatures
         /\ RegisteredIn(definitions, signatures) \subseteq RegisteredIn(definitions', signatures')
    <3>1. /\ DOMAIN signatures' = DOMAIN signatures
          /\ \A u \in DOMAIN signatures : u # s => signatures'[u] = signatures[u]
      BY <1>4, <2>1, <2>5, <2>8, <2>9, SignatureSet
    <3>2. QED
      BY <1>3, <2>1, <3>1 DEF RegisteredIn
  <2>11. \A t : Stands(Nodes, Len(Nodes), definitions, signatures, t) => Stands(Nodes', Len(Nodes'), definitions', signatures', t)
    BY <1>6, <2>10, StandStill
  <2>12. ASSUME NEW c \in DOMAIN cs
         PROVE  \/ c \in DOMAIN signatures[s].constructors
                \/ Stands(Nodes', Len(Nodes'), definitions', signatures', cs[c].type)
    <3>1. CASE c \in DOMAIN old
      BY <2>5, <3>1
    <3>2. CASE c = Len(old) + 1
      <4>1. cs[c] = new
        BY <2>8, <3>2
      <4>2. Stands(Nodes, Len(Nodes), definitions, signatures, cs[c].type)
        BY <2>2, <2>3, <4>1
      <4>3. QED
        BY <2>11, <4>2, Zenon
    <3>3. QED
      BY <2>8, <3>1, <3>2
  <2>13. FactStands(Nodes', Len(Nodes'), definitions', signatures', f)
    <3>1. ArenaOK(arena)
      BY <1>4
    <3>2. /\ Len(Nodes) \in Nat /\ Len(Nodes') \in Nat /\ Len(Nodes) <= Len(Nodes')
          /\ \A t \in 1 .. Len(Nodes) : Nodes'[t] = Nodes[t]
      BY <1>6, <3>1, GrowsOrdered DEF Nodes
    <3>3. PICK t : t = facts[i].term
      OBVIOUS
    <3>4. t \in 1 .. Len(Nodes') /\ Nodes'[t].payload = s /\ s \in DOMAIN signatures'
      BY <2>1, <2>10, <3>2, <3>3
    <3>5. f.term = t /\ f.type = facts[i].type /\ f.kind = "signature"
      BY <2>4, <3>3 DEF Admission
    <3>6. QED
      BY <2>1, <2>11, <3>4, <3>5 DEF FactStands
  <2>14. facts' = Append(facts, f) /\ error' \in {"none", "other", "resource"}
    BY <1>4, <1>8, <2>4
  <2>15. QED
    BY <1>3, <1>6, <2>1, <2>5, <2>7, <2>8, <2>9, <2>12, <2>13, <2>14, SignatureCall
<1>9. QED
  BY <1>2, <1>6, <1>7, <1>8

LEMMA SignatureCloseKeeps ==
  ASSUME ShapeInv, StoreInv, SignatureClose PROVE ShapeInv' /\ StoreInv' /\ Grows(arena, arena')
<1>1. PICK i \in DOMAIN facts, ok \in Allocates :
       /\ Latest(i)
       /\ LET index == Nodes[facts[i].term].payload
              s     == signatures[index]
              fresh == [arena EXCEPT !.nextSymbol = @ + 1]
              sort  == Make(fresh, Key("VAR", s.sort, 0, 0), ok)
              path  == Make(sort.arena, Key("APP", 0, sort.term, sort.term), ok)
              new   == [symbol |-> arena.nextSymbol, type |-> path.term]
          IN  IF ~ s.squash
              THEN /\ signatures' = [signatures EXCEPT ![index].admitted = TRUE]
                   /\ UNCHANGED <<arena, error>>
              ELSE IF arena.nextSymbol = MaxSymbol
              THEN Latch("resource") /\ UNCHANGED <<arena, signatures>>
              ELSE IF sort.term = 0
              THEN arena' = sort.arena /\ Latch(sort.error) /\ UNCHANGED signatures
              ELSE IF path.term = 0 \/ Len(s.constructors) >= MaxConstructors
              THEN /\ arena' = path.arena
                   /\ Latch(IF path.term = 0 THEN path.error ELSE "resource")
                   /\ UNCHANGED signatures
              ELSE /\ arena' = path.arena
                   /\ signatures' = [signatures EXCEPT ![index].constructors = Append(@, new),
                                                       ![index].admitted = TRUE]
                   /\ UNCHANGED error
  BY Zenon DEF SignatureClose
<1>p. PICK s : s = Nodes[facts[i].term].payload
  OBVIOUS
<1>r. PICK fresh : fresh = [arena EXCEPT !.nextSymbol = @ + 1]
  OBVIOUS
<1>v. PICK v : v = Make(fresh, Key("VAR", signatures[s].sort, 0, 0), ok)
  OBVIOUS
<1>m. PICK m : m = Make(v.arena, Key("APP", 0, v.term, v.term), ok)
  OBVIOUS
<1>2. \/ signatures' = [signatures EXCEPT ![s].admitted = TRUE] /\ arena' = arena /\ error' = error
      \/ error' = "resource" /\ arena' = arena /\ signatures' = signatures
      \/ /\ arena.nextSymbol # MaxSymbol /\ v.term = 0 /\ arena' = v.arena /\ error' = v.error
         /\ signatures' = signatures
      \/ /\ arena.nextSymbol # MaxSymbol /\ v.term # 0 /\ arena' = m.arena
         /\ \/ m.term = 0 /\ error' = m.error /\ signatures' = signatures
            \/ error' = "resource" /\ signatures' = signatures
            \/ /\ m.term # 0 /\ error' = error
               /\ signatures' = [signatures EXCEPT
                    ![s].constructors = Append(@, [symbol |-> arena.nextSymbol, type |-> m.term]),
                    ![s].admitted = TRUE]
  BY <1>1, <1>p, <1>r, <1>v, <1>m, ZenonT(40) DEF Latch
<1>3. definitions' = definitions /\ checkpoint' = checkpoint /\ facts' = facts
  BY DEF SignatureClose
<1>4. TableInv /\ ArenaOK(arena) /\ error \in {"none", "other", "resource"}
  BY DEF ShapeInv, ArenaInv, TableInv
<1>5. /\ s \in DOMAIN signatures /\ ~ signatures[s].admitted /\ signatures[s] \in Signatures /\ facts[i] \in Facts
  BY <1>1, <1>p, LatestSignature
<1>q. PICK q : q = signatures[s].sort
  OBVIOUS
<1>w. PICK w : w = v.term
  OBVIOUS
<1>k. PICK kv, km : kv = Key("VAR", q, 0, 0) /\ km = Key("APP", 0, w, w)
  OBVIOUS
<1>6. /\ q \in 1 .. MaxSymbol /\ q \in Payload /\ 0 \in Handles /\ 0 \in Payload
      /\ "VAR" \in AllKinds /\ "APP" \in AllKinds /\ "APP" # "VAR"
  <2>1. q \in Symbols
    BY <1>5, <1>q DEF Signatures
  <2>2. q \in 1 .. MaxSymbol /\ q \in Payload /\ 0 \in Payload
    BY <2>1, PayloadRanges
  <2>3. 0 \in Handles
    BY ArenaAssumption DEF Handles
  <2>4. "VAR" \in AllKinds /\ "APP" \in AllKinds /\ "APP" # "VAR"
    BY DEF AllKinds
  <2>5. QED
    BY <2>2, <2>3, <2>4
<1>a. v = Make(fresh, kv, ok) /\ m = Make(v.arena, km, ok)
  BY <1>v, <1>m, <1>q, <1>w, <1>k
<1>7. ASSUME arena.nextSymbol # MaxSymbol
      PROVE  /\ Made(fresh, v, kv) /\ kv.kind = "VAR"
             /\ v.error \in {"none", "other", "resource"} /\ w \in Handles /\ ArenaOK(v.arena)
             /\ Grows(arena, v.arena)
             /\ Made(v.arena, m, km) /\ km.kind = "APP" /\ km.child = <<w, w>>
             /\ m.error \in {"none", "other", "resource"} /\ m.term \in Handles /\ ArenaOK(m.arena)
             /\ Grows(v.arena, m.arena) /\ Grows(arena, m.arena)
  <2>1. Grows(arena, fresh) /\ ArenaOK(fresh)
    BY <1>4, <1>7, <1>r, OtherSymbol DEF Grows
  <2>2. /\ Made(fresh, Make(fresh, Key("VAR", q, 0, 0), ok), Key("VAR", q, 0, 0))
        /\ Key("VAR", q, 0, 0).kind = "VAR"
    BY <1>6, <2>1, MakesKey
  <2>3. Made(fresh, v, kv) /\ kv.kind = "VAR"
    BY <1>a, <1>k, <2>2
  <2>4. v.error \in {"none", "other", "resource"} /\ w \in Handles /\ ArenaOK(v.arena) /\ Grows(fresh, v.arena)
    BY <1>w, <2>3, MadeType
  <2>5. PICK b : b = v.arena
    OBVIOUS
  <2>6. ArenaOK(b)
    BY <2>4, <2>5
  <2>7. /\ Made(b, Make(b, Key("APP", 0, w, w), ok), Key("APP", 0, w, w)) /\ Key("APP", 0, w, w).kind = "APP"
        /\ Key("APP", 0, w, w).child = <<w, w>>
    BY <1>6, <2>4, <2>6, MakesKey
  <2>8. Made(v.arena, m, km) /\ km.kind = "APP" /\ km.child = <<w, w>>
    BY <1>a, <1>k, <2>5, <2>7
  <2>9. m.error \in {"none", "other", "resource"} /\ m.term \in Handles /\ ArenaOK(m.arena) /\ Grows(v.arena, m.arena)
    BY <2>8, MadeType
  <2>10. Grows(arena, v.arena)
    BY <2>1, <2>4, GrowsTwice
  <2>11. Grows(arena, m.arena)
    BY <2>9, <2>10, GrowsTwice
  <2>12. QED
    BY <2>3, <2>4, <2>8, <2>9, <2>10, <2>11
<1>8. Grows(arena, arena')
  BY <1>2, <1>4, <1>7, GrowsNot
<1>9. CASE signatures' = signatures /\ error' \in {"none", "other", "resource"}
  <2>1. UNCHANGED tables
    BY <1>3, <1>9 DEF tables
  <2>2. QED
    BY <1>4, <1>8, <1>9, <2>1, NothingAdded, CallKeeps
<1>10. PICK old : old = signatures[s].constructors
  OBVIOUS
<1>11. old \in Seq(Constructors) /\ IsSeq(old)
  <2>1. old \in Seq(Constructors)
    BY <1>5, <1>10 DEF Signatures
  <2>2. QED
    BY <2>1, SeqOfSet
<1>12. CASE signatures' = [signatures EXCEPT ![s].admitted = TRUE] /\ error' = error
  <2>1. signatures' = [signatures EXCEPT ![s] = [signatures[s] EXCEPT !.constructors = old, !.admitted = TRUE]]
    <3>1. signatures' = [signatures EXCEPT ![s] = [signatures[s] EXCEPT !.admitted = TRUE]]
      BY <1>5, <1>12
    <3>2. [signatures[s] EXCEPT !.admitted = TRUE] = [signatures[s] EXCEPT !.constructors = old, !.admitted = TRUE]
      BY <1>5, <1>10 DEF Signatures
    <3>3. QED
      BY <3>1, <3>2
  <2>2. Extends(signatures[s].constructors, old)
    BY <1>10 DEF Extends
  <2>3. error' \in {"none", "other", "resource"}
    BY <1>4, <1>12
  <2>4. QED
    BY <1>3, <1>5, <1>8, <1>10, <1>11, <2>1, <2>2, <2>3, SignatureCall
<1>13. CASE /\ arena.nextSymbol # MaxSymbol /\ v.term # 0 /\ arena' = m.arena /\ m.term # 0 /\ error' = error
            /\ signatures' = [signatures EXCEPT
                    ![s].constructors = Append(@, [symbol |-> arena.nextSymbol, type |-> m.term]),
                    ![s].admitted = TRUE]
  <2>y. PICK x, y : x = v.arena.nodes /\ y = m.arena.nodes
    OBVIOUS
  <2>1. /\ m.term \in Live(y) /\ y[m.term].kind = "APP" /\ y[m.term].child = <<w, w>>
    <3>1. Made(v.arena, m, km) /\ km.kind = "APP" /\ km.child = <<w, w>>
      BY <1>7, <1>13
    <3>2. /\ m.term \in Live(m.arena.nodes) /\ m.arena.nodes[m.term].kind = km.kind
          /\ m.arena.nodes[m.term].child = km.child
      BY <1>13, <1>w, <3>1, MadeNode
    <3>3. QED
      BY <2>y, <3>1, <3>2
  <2>2. w \in Live(y) /\ y[w].kind = "VAR"
    <3>1. Made(fresh, v, kv) /\ kv.kind = "VAR"
      BY <1>7, <1>13
    <3>2. v.term \in Live(v.arena.nodes) /\ v.arena.nodes[v.term].kind = kv.kind
      BY <1>13, <1>w, <3>1, MadeNode
    <3>3. \A h \in Live(v.arena.nodes) : h \in Live(m.arena.nodes) /\ m.arena.nodes[h] = v.arena.nodes[h]
      BY <1>7, <1>13 DEF Grows
    <3>4. QED
      BY <1>w, <2>y, <3>1, <3>2, <3>3
  <2>3. References(Nodes', m.term) = {}
    <3>2. Ordered(y) /\ Nodes' = y /\ ArenaOK(m.arena)
      BY <1>7, <1>13, <2>y, ArenaOrdered DEF Nodes
    <3>3. References(y, w) = Own(y[w]) \cup UNION {References(y, c) : c \in Children(y[w])}
      BY <2>2, <3>2, Refers
    <3>4. Children(y[w]) = {} /\ Own(y[w]) = {}
      <4>1. Children(m.arena.nodes[w]) = {}
        BY <2>2, <2>y, <3>2, LeafChildren
      <4>2. QED
        BY <2>2, <2>y, <4>1 DEF Own
    <3>5. References(y, w) = {}
      BY <3>3, <3>4
    <3>6. References(y, m.term) = Own(y[m.term]) \cup UNION {References(y, c) : c \in Children(y[m.term])}
      BY <2>1, <3>2, Refers
    <3>7. \A c \in Children(y[m.term]) : c = w
      BY <2>1 DEF Children
    <3>8. Own(y[m.term]) = {}
      BY <2>1 DEF Own
    <3>9. UNION {References(y, c) : c \in Children(y[m.term])} = {}
      BY <3>5, <3>7
    <3>10. QED
      BY <3>2, <3>6, <3>8, <3>9
  <2>4. Stands(Nodes', Len(Nodes'), definitions', signatures', m.term)
    BY <1>13, <2>1, <2>3, <2>y DEF Stands, Nodes, Live
  <2>5. PICK new : new = [symbol |-> arena.nextSymbol, type |-> m.term]
    OBVIOUS
  <2>6. new \in Constructors
    <3>1. arena.nextSymbol \in Nat
      <4>1. arena.nextSymbol \in 1 .. MaxSymbol
        BY <1>4 DEF ArenaOK, Arenas
      <4>2. QED
        BY <4>1, ArenaAssumption
    <3>2. QED
      BY <1>7, <1>13, <2>5, <3>1 DEF Constructors
  <2>7. PICK cs : cs = Append(old, new)
    OBVIOUS
  <2>8. /\ cs \in Seq(Constructors) /\ Extends(old, cs) /\ DOMAIN cs = DOMAIN old \cup {Len(old) + 1}
        /\ cs[Len(old) + 1] = new
    <3>1. cs \in Seq(Constructors)
      BY <1>11, <2>6, <2>7
    <3>2. QED
      BY <1>11, <2>7, <3>1, AppendShape
  <2>9. signatures' = [signatures EXCEPT ![s] = [signatures[s] EXCEPT !.constructors = cs, !.admitted = TRUE]]
    <3>1. DOMAIN signatures' = DOMAIN signatures /\ signatures' = [u \in DOMAIN signatures |-> signatures'[u]]
      BY <1>13
    <3>2. \A u \in DOMAIN signatures : u # s => signatures'[u] = signatures[u]
      BY <1>5, <1>13
    <3>3. signatures'[s] = [signatures[s] EXCEPT !.constructors = cs, !.admitted = TRUE]
      <4>1. PICK mid : mid = [signatures EXCEPT ![s].constructors = Append(@, new)]
        OBVIOUS
      <4>2. signatures' = [mid EXCEPT ![s].admitted = TRUE]
        BY <1>13, <2>5, <4>1
      <4>3. s \in DOMAIN mid /\ mid[s] = [signatures[s] EXCEPT !.constructors = cs]
        BY <1>5, <1>10, <2>7, <4>1
      <4>4. signatures'[s] = [mid[s] EXCEPT !.admitted = TRUE]
        BY <4>2, <4>3
      <4>5. QED
        BY <4>3, <4>4
    <3>4. signatures = [u \in DOMAIN signatures |-> signatures[u]]
      BY <1>4 DEF TableInv
    <3>5. QED
      BY <1>5, <3>1, <3>2, <3>3, <3>4
  <2>10. ASSUME NEW c \in DOMAIN cs
         PROVE  \/ c \in DOMAIN signatures[s].constructors
                \/ Stands(Nodes', Len(Nodes'), definitions', signatures', cs[c].type)
    <3>1. CASE c \in DOMAIN old
      BY <1>10, <3>1
    <3>2. CASE c = Len(old) + 1
      <4>1. cs[c].type = m.term
        BY <2>5, <2>8, <3>2
      <4>2. QED
        BY <2>4, <4>1
    <3>3. QED
      BY <2>8, <2>10, <3>1, <3>2
  <2>11. error' \in {"none", "other", "resource"}
    BY <1>4, <1>13
  <2>12. QED
    BY <1>3, <1>5, <1>8, <1>10, <2>8, <2>9, <2>10, <2>11, SignatureCall
<1>14. QED
  BY <1>2, <1>4, <1>7, <1>8, <1>9, <1>12, <1>13

LEMMA WholePrefix ==
  ASSUME NEW S, NEW s \in Seq(S) PROVE SubSeq(s, 1, Len(s)) = s /\ Len(s) \in Nat
<1>1. Len(s) \in Nat
  OBVIOUS
<1>2. IsSeq(s) /\ Extends(s, s) /\ Len(s) \in 0 .. Len(s)
  BY <1>1, SeqOfSet DEF Extends
<1>3. PICK x : x = SubSeq(s, 1, Len(s))
  OBVIOUS
<1>4. x \in Seq(S) /\ Len(x) = Len(s) /\ \A i \in 1 .. Len(s) : x[i] = s[i]
  BY <1>1, <1>3
<1>5. x = [i \in 1 .. Len(x) |-> x[i]] /\ s = [i \in 1 .. Len(s) |-> s[i]]
  BY <1>4
<1>6. QED
  BY <1>1, <1>3, <1>4, <1>5

LEMMA CheckpointKeeps == ASSUME ShapeInv, StoreInv, Checkpoint PROVE ShapeInv' /\ StoreInv'
<1> PICK recalls : recalls = [s \in DOMAIN signatures |->
                                [constructors |-> Len(signatures[s].constructors), admitted |-> signatures[s].admitted]]
  OBVIOUS
<1>1. /\ arena' = arena /\ error' = error /\ definitions' = definitions /\ signatures' = signatures /\ facts' = facts
      /\ checkpoint' = [count |-> Len(Nodes) + 1, definitions |-> Len(definitions), signatures |-> recalls,
                        facts |-> Len(facts)]
  BY DEF Checkpoint
<1>2. TableInv /\ ArenaOK(arena)
  BY DEF ShapeInv, ArenaInv
<1>3. TableInv' /\ ArenaOK(arena')
  BY <1>1, <1>2 DEF TableInv
<1>4. /\ Len(Nodes) \in Nat /\ Nodes' = Nodes /\ Nodes = arena.nodes
  BY <1>1, <1>2, ArenaOrdered DEF Nodes
<1>5. /\ SubSeq(definitions, 1, Len(definitions)) = definitions /\ Len(definitions) \in Nat
      /\ SubSeq(facts, 1, Len(facts)) = facts /\ Len(facts) \in Nat
  BY <1>2, WholePrefix DEF TableInv, DefinitionTable
<1>6. signatures \in Seq(Signatures) /\ Len(signatures) \in Nat /\ DOMAIN signatures = 1 .. Len(signatures)
      /\ signatures = [s \in DOMAIN signatures |-> signatures[s]]
  BY <1>2 DEF TableInv
<1>7. ASSUME NEW s \in DOMAIN signatures
      PROVE  /\ recalls[s] \in Recalled /\ recalls[s].constructors = Len(signatures[s].constructors)
             /\ recalls[s].admitted = signatures[s].admitted
             /\ SubSeq(signatures[s].constructors, 1, Len(signatures[s].constructors)) = signatures[s].constructors
             /\ Len(signatures[s].constructors) \in Nat
  <2>1. signatures[s] \in Signatures
    BY <1>6
  <2>2. signatures[s].constructors \in Seq(Constructors) /\ signatures[s].admitted \in BOOLEAN
    BY <2>1 DEF Signatures
  <2>3. /\ SubSeq(signatures[s].constructors, 1, Len(signatures[s].constructors)) = signatures[s].constructors
        /\ Len(signatures[s].constructors) \in Nat
    BY <2>2, WholePrefix
  <2>4. QED
    BY <2>2, <2>3 DEF Recalled
<1>8. recalls \in Seq(Recalled) /\ Len(recalls) = Len(signatures) /\ DOMAIN recalls = DOMAIN signatures
  BY <1>6, <1>7
<1>9. RecallInv'
  <2>1. checkpoint' \in [count : Nat, definitions : Nat, signatures : Seq(Recalled), facts : Nat]
    BY <1>1, <1>4, <1>5, <1>8
  <2>2. /\ checkpoint'.definitions = Len(definitions) /\ checkpoint'.facts = Len(facts)
        /\ checkpoint'.signatures = recalls
    BY <1>1
  <2>3. Len(definitions) <= Len(definitions) /\ Len(facts) <= Len(facts) /\ Len(recalls) <= Len(signatures)
    BY <1>5, <1>6, <1>8
  <2>4. \A s \in 1 .. Len(recalls) : recalls[s].constructors <= Len(signatures[s].constructors)
    BY <1>6, <1>7, <1>8
  <2>5. QED
    BY <1>1, <2>1, <2>2, <2>3, <2>4 DEF RecallInv
<1>10. ArenaInv'
  <2>1. checkpoint'.count = Len(arena'.nodes) + 1
    BY <1>1, <1>4
  <2>2. Len(arena'.nodes) \in Nat
    BY <1>1, <1>4
  <2>3. checkpoint'.count \in 0 .. Len(arena'.nodes) + 1 /\ ~ (checkpoint'.count <= Len(arena'.nodes))
    BY <2>1, <2>2
  <2>4. QED
    BY <1>3, <2>3 DEF ArenaInv
<1>11. DefinitionsThen' = definitions /\ FactsThen' = facts
  BY <1>1, <1>5 DEF DefinitionsThen, FactsThen
<1>12. SignaturesThen' = signatures
  <2>1. ASSUME NEW s \in DOMAIN signatures PROVE SignatureThen(s)' = signatures[s]
    <3>1. PICK x : x = signatures[s]
      OBVIOUS
    <3>2. x \in Signatures
      BY <1>6, <3>1
    <3>3. checkpoint'.signatures = recalls
      BY <1>1
    <3>4. SignatureThen(s)' = [x EXCEPT !.constructors = SubSeq(x.constructors, 1, recalls[s].constructors),
                                        !.admitted = recalls[s].admitted]
      BY <1>1, <3>1, <3>3 DEF SignatureThen
    <3>5. SignatureThen(s)' = [x EXCEPT !.constructors = x.constructors, !.admitted = x.admitted]
      BY <1>7, <3>1, <3>4
    <3>6. QED
      BY <3>1, <3>2, <3>5 DEF Signatures
  <2>2. SignaturesThen' = [s \in DOMAIN recalls |-> SignatureThen(s)']
    BY <1>1 DEF SignaturesThen
  <2>3. QED
    BY <1>6, <1>8, <2>1, <2>2
<1>13. checkpoint'.count - 1 = Len(Nodes)
  <2>1. checkpoint'.count = Len(Nodes) + 1
    BY <1>1
  <2>2. QED
    BY <1>4, <2>1
<1>14. QED
  BY <1>1, <1>3, <1>4, <1>9, <1>10, <1>11, <1>12, <1>13 DEF ShapeInv, StoreInv

-----------------------------------------------------------------------------
(* What was made since the checkpoint is cut off.                          *)

LEMMA CutArena ==
  ASSUME NEW a, ArenaOK(a), NEW n \in 0 .. Len(a.nodes), NEW b, b = [a EXCEPT !.nodes = SubSeq(@, 1, n)]
  PROVE  /\ ArenaOK(b) /\ Len(b.nodes) = n /\ Live(b.nodes) \subseteq Live(a.nodes)
         /\ \A t \in 1 .. n : b.nodes[t] = a.nodes[t]
<1>1. a \in Arenas /\ a.nodes \in Seq(NodeType) /\ Len(a.nodes) \in Nat /\ Len(a.nodes) <= MaxHandle
  BY DEF ArenaOK, Arenas
<1>2. PICK nodes : nodes = SubSeq(a.nodes, 1, n)
  OBVIOUS
<1>3. nodes \in Seq(NodeType) /\ Len(nodes) = n /\ \A t \in 1 .. n : nodes[t] = a.nodes[t]
  BY <1>1, <1>2
<1>4. b = [a EXCEPT !.nodes = nodes]
  BY <1>2
<1>5. /\ b \in Arenas /\ b.nodes = nodes /\ b.slots = a.slots /\ b.sharing = a.sharing /\ b.nextSymbol = a.nextSymbol
  BY <1>1, <1>3, <1>4 DEF Arenas
<1>6. Live(nodes) = 1 .. n /\ Live(a.nodes) = 1 .. Len(a.nodes) /\ Live(nodes) \subseteq Live(a.nodes)
  BY <1>1, <1>3 DEF Live
<1>7. IndexOK(nodes, a.slots, n)
  <2>1. IndexOK(a.nodes, a.slots, Len(a.nodes))
    BY DEF ArenaOK
  <2>2. \A t \in 1 .. n : t \in 1 .. Len(a.nodes) /\ nodes[t] = a.nodes[t]
    BY <1>3, <1>6
  <2>3. QED
    BY <2>1, <2>2 DEF IndexOK
<1>8. n <= MaxHandle
  BY <1>1, ArenaAssumption
<1>9. ASSUME NEW h \in Live(nodes)
      PROVE  /\ \A c \in Children(nodes[h]) : c < h /\ Arity(nodes[h].kind) = 2
             /\ nodes[h].kind = "VAR" => nodes[h].payload < a.nextSymbol
  <2>1. h \in Live(a.nodes) /\ nodes[h] = a.nodes[h]
    BY <1>3, <1>6
  <2>2. QED
    BY <2>1 DEF ArenaOK
<1>10. ~ a.sharing => a.slots = NoIndex
  BY DEF ArenaOK
<1>11. ArenaOK(b)
  BY <1>3, <1>5, <1>7, <1>8, <1>9, <1>10 DEF ArenaOK
<1>12. QED
  BY <1>3, <1>5, <1>6, <1>11

LEMMA NothingOpen ==
  ASSUME checkpoint' = NoCheckpoint, TableInv'
  PROVE  RecallInv' /\ ~ Open' /\ checkpoint'.count = 0
<1>1. /\ NoCheckpoint.count = 0 /\ NoCheckpoint.definitions = 0 /\ NoCheckpoint.facts = 0 /\ NoCheckpoint.signatures = <<>>
      /\ NoCheckpoint \in [count : Nat, definitions : Nat, signatures : Seq(Recalled), facts : Nat]
  BY DEF NoCheckpoint
<1>2. Len(definitions') \in Nat /\ Len(facts') \in Nat /\ Len(signatures') \in Nat
  BY DEF TableInv, DefinitionTable
<1>3. Len(<<>>) = 0 /\ \A s \in 1 .. 0 : FALSE
  OBVIOUS
<1>4. RecallInv'
  BY <1>1, <1>2, <1>3 DEF RecallInv
<1>5. QED
  BY <1>1, <1>4 DEF Open

LEMMA RollbackKeeps == ASSUME ShapeInv, StoreInv, Rollback PROVE ShapeInv' /\ StoreInv'
<1>1. /\ Open /\ error' = "none" /\ checkpoint' = NoCheckpoint
      /\ arena' = [arena EXCEPT !.nodes = SubSeq(@, 1, checkpoint.count - 1)]
      /\ definitions' = DefinitionsThen /\ facts' = FactsThen
  BY DEF Rollback, DefinitionsThen, FactsThen
<1>2. signatures' = SignaturesThen
  BY DEF Rollback, SignaturesThen, SignatureThen
<1>3. TableInv /\ RecallInv /\ ArenaInv /\ ArenaOK(arena)
  BY DEF ShapeInv, ArenaInv
<1>4. PICK n \in Nat : n = checkpoint.count - 1
  BY <1>1, <1>3 DEF Open, RecallInv
<1>5. n \in 0 .. Len(arena.nodes) /\ Len(arena.nodes) \in Nat
  <2>1. Len(arena.nodes) \in Nat /\ checkpoint.count <= Len(arena.nodes) + 1 /\ checkpoint.count \in Nat
    BY <1>3, ArenaOrdered DEF ArenaInv
  <2>2. QED
    BY <1>4, <2>1
<1>6. /\ ArenaOK(arena') /\ Len(arena'.nodes) = n /\ \A t \in 1 .. n : arena'.nodes[t] = arena.nodes[t]
  BY <1>1, <1>3, <1>4, <1>5, CutArena
<1>7. TableInv'
  <2>1. definitions' \in DefinitionTable /\ Len(definitions') <= MaxDefinitions
    <3>1. definitions \in DefinitionTable /\ Len(definitions) <= MaxDefinitions /\ checkpoint.definitions \in Nat
          /\ checkpoint.definitions <= Len(definitions)
      BY <1>3 DEF TableInv, RecallInv
    <3>2. Len(definitions) \in Nat /\ checkpoint.definitions \in 0 .. Len(definitions)
      BY <3>1 DEF DefinitionTable
    <3>3. definitions' \in DefinitionTable /\ Len(definitions') = checkpoint.definitions
      <4>1. PICK S : DefinitionTable = Seq(S)
        BY DEF DefinitionTable
      <4>2. definitions \in Seq(S)
        BY <3>1, <4>1
      <4>3. SubSeq(definitions, 1, checkpoint.definitions) \in Seq(S)
            /\ Len(SubSeq(definitions, 1, checkpoint.definitions)) = checkpoint.definitions
        BY <3>2, <4>2
      <4>4. QED
        BY <1>1, <4>1, <4>3 DEF DefinitionsThen
    <3>4. QED
      BY <3>1, <3>2, <3>3, StoreAssumption
  <2>2. facts' \in Seq(Facts)
    <3>1. facts \in Seq(Facts) /\ checkpoint.facts \in Nat /\ checkpoint.facts <= Len(facts)
      BY <1>3 DEF TableInv, RecallInv
    <3>2. Len(facts) \in Nat /\ checkpoint.facts \in 0 .. Len(facts)
      BY <3>1
    <3>3. QED
      BY <1>1, <3>1, <3>2 DEF FactsThen
  <2>3. signatures' \in Seq(Signatures) /\ Len(signatures') <= MaxSignatures
    <3>1. /\ signatures \in Seq(Signatures) /\ Len(signatures) <= MaxSignatures /\ checkpoint.signatures \in Seq(Recalled)
          /\ Len(checkpoint.signatures) <= Len(signatures)
      BY <1>3 DEF TableInv, RecallInv
    <3>2. ASSUME NEW s \in DOMAIN checkpoint.signatures PROVE SignatureThen(s) \in Signatures
      <4>1. /\ signatures[s] \in Signatures /\ checkpoint.signatures[s] \in Recalled
            /\ checkpoint.signatures[s].constructors \in 0 .. Len(signatures[s].constructors)
            /\ SignatureThen(s) = [sort |-> signatures[s].sort, former |-> signatures[s].former,
              squash |-> signatures[s].squash,
              constructors |-> SubSeq(signatures[s].constructors, 1, checkpoint.signatures[s].constructors),
              admitted |-> checkpoint.signatures[s].admitted]
        BY <1>3, SignatureShape
      <4>2. PICK x, k : x = signatures[s].constructors /\ k = checkpoint.signatures[s].constructors
        OBVIOUS
      <4>3. x \in Seq(Constructors) /\ k \in 0 .. Len(x)
        BY <4>1, <4>2 DEF Signatures
      <4>4. SubSeq(x, 1, k) \in Seq(Constructors)
        BY <4>3
      <4>5. QED
        BY <4>1, <4>2, <4>4 DEF Signatures, Recalled
    <3>3. PICK k \in Nat : k = Len(checkpoint.signatures) /\ DOMAIN checkpoint.signatures = 1 .. k
      BY <3>1
    <3>4. PICK S : S = Signatures
      OBVIOUS
    <3>5. signatures' = [s \in 1 .. k |-> SignatureThen(s)] /\ \A s \in 1 .. k : SignatureThen(s) \in S
      BY <1>2, <3>2, <3>3, <3>4 DEF SignaturesThen
    <3>6. signatures' \in Seq(S) /\ Len(signatures') = k
      BY <3>5
    <3>7. Len(signatures) \in Nat /\ MaxSignatures \in Nat
      BY <3>1, StoreAssumption
    <3>8. QED
      BY <3>1, <3>3, <3>4, <3>6, <3>7
  <2>4. QED
    BY <1>1, <2>1, <2>2, <2>3 DEF TableInv
<1>8. RecallInv' /\ ~ Open' /\ checkpoint'.count = 0
  BY <1>1, <1>7, NothingOpen
<1>9. ArenaInv'
  BY <1>5, <1>6, <1>8 DEF ArenaInv
<1>10. StoreOK(Nodes', Len(Nodes'), definitions', signatures', facts')
  <2>1. PICK x, y : x = Nodes /\ y = Nodes'
    OBVIOUS
  <2>2. PICK D, S, F : D = DefinitionsThen /\ S = SignaturesThen /\ F = FactsThen
    OBVIOUS
  <2>3. StoreOK(x, n, D, S, F)
    BY <1>1, <1>4, <2>1, <2>2 DEF StoreInv
  <2>4. Ordered(x) /\ Ordered(y) /\ n <= n /\ n <= Len(x) /\ n <= Len(y) /\ Len(y) = n /\ \A t \in 1 .. n : y[t] = x[t]
    BY <1>3, <1>5, <1>6, <2>1, ArenaOrdered DEF Nodes
  <2>5. Enlarged(y, n, D, S, F, D, S, F)
    BY DEF Enlarged
  <2>6. StoreOK(y, n, D, S, F)
    BY <2>3, <2>4, <2>5, StoreGrows
  <2>7. QED
    BY <1>1, <1>2, <2>1, <2>2, <2>4, <2>6
<1>11. QED
  BY <1>7, <1>8, <1>9, <1>10 DEF ShapeInv, StoreInv

-----------------------------------------------------------------------------
(* What was made since the checkpoint is kept where it is needed.          *)

(* The node that a node becomes.                                           *)
LEMMA MovedTo ==
  ASSUME Committing, NEW order \in Listings(Survivors), NEW nodes, nodes = Compacted(order), NEW t \in Stay
  PROVE  /\ t \in Live(Nodes) /\ Moved(order, t) \in Live(nodes)
         /\ nodes[Moved(order, t)].kind = Nodes[t].kind /\ nodes[Moved(order, t)].payload = Nodes[t].payload
         /\ nodes[Moved(order, t)].child[1] = Moved(order, Nodes[t].child[1])
         /\ nodes[Moved(order, t)].child[2] = Moved(order, Nodes[t].child[2])
<1>1. t \in Live(Nodes) /\ Moved(order, t) \in Live(nodes) /\ nodes[Moved(order, t)] = MovedNode(order, Nodes[t])
  BY Moves, Stays
<1>2. Nodes[t] \in NodeType
  BY <1>1, ArenaShape DEF Committing
<1>3. QED
  BY <1>1, <1>2 DEF MovedNode, NodeType

LEMMA CommitReferences ==
  ASSUME Committing, NEW order \in Listings(Survivors), NEW nodes, nodes = Compacted(order), Ordered(nodes)
  PROVE  \A t \in Stay : References(nodes, Moved(order, t)) = References(Nodes, t)
<1>1. Ordered(Nodes)
  BY ArenaOrdered DEF Committing, Nodes
<1>2. PICK m : m = [t \in Stay |-> Moved(order, t)]
  OBVIOUS
<1>3. PICK D : D = Stay
  OBVIOUS
<1>4. D \in SUBSET Live(Nodes) /\ m \in [D -> Live(nodes)] /\ \A t \in D : m[t] = Moved(order, t)
  BY <1>2, <1>3, Stays, MovedTo
<1>5. ASSUME NEW t \in D
      PROVE  /\ Children(Nodes[t]) \subseteq D
             /\ Own(nodes[m[t]]) = Own(Nodes[t])
             /\ Children(nodes[m[t]]) = {m[c] : c \in Children(Nodes[t])}
  <2>1. Children(Nodes[t]) \subseteq D
    BY <1>3, Stays
  <2>2. PICK h : h = m[t]
    OBVIOUS
  <2>3. /\ nodes[h].kind = Nodes[t].kind /\ nodes[h].payload = Nodes[t].payload
        /\ nodes[h].child[1] = Moved(order, Nodes[t].child[1])
        /\ nodes[h].child[2] = Moved(order, Nodes[t].child[2])
    BY <1>3, <1>4, <2>2, MovedTo
  <2>4. Own(nodes[h]) = Own(Nodes[t])
    BY <2>3 DEF Own
  <2>5. Moved(order, 0) = 0
    BY Places
  <2>6. \A c \in Children(Nodes[t]) : m[c] = Moved(order, c) /\ m[c] # 0
    <3>1. Live(nodes) = 1 .. Len(nodes) /\ Len(nodes) \in Nat
      BY OrderedChildren
    <3>2. QED
      BY <1>4, <2>1, <3>1
  <2>7. PICK a, b : a = Nodes[t].child[1] /\ b = Nodes[t].child[2]
    OBVIOUS
  <2>8. Children(Nodes[t]) = {a, b} \ {0} /\ Children(nodes[h]) = {Moved(order, a), Moved(order, b)} \ {0}
    BY <2>3, <2>7 DEF Children
  <2>9. Children(nodes[h]) = {m[c] : c \in Children(Nodes[t])}
    <3>1. ASSUME NEW c \in Children(nodes[h]) PROVE \E d \in Children(Nodes[t]) : c = m[d]
      <4>1. PICK d \in {a, b} : c = Moved(order, d)
        BY <2>8, <3>1
      <4>2. d # 0
        BY <2>5, <2>8, <3>1, <4>1
      <4>3. QED
        BY <2>6, <2>8, <4>1, <4>2
    <3>2. ASSUME NEW d \in Children(Nodes[t]) PROVE m[d] \in Children(nodes[h])
      BY <2>6, <2>8, <3>2
    <3>3. QED
      BY <3>1, <3>2
  <2>10. QED
    BY <2>1, <2>2, <2>4, <2>9
<1>6. Mirrors(m, D, Nodes, nodes)
  BY <1>4, <1>5 DEF Mirrors
<1>7. \A t \in D : References(nodes, m[t]) = References(Nodes, t)
  BY <1>1, <1>6, SameReferences
<1>8. QED
  BY <1>3, <1>4, <1>7

(* What a handle that stays stands on.                                     *)
LEMMA CommitStands ==
  ASSUME Committing, NEW order \in Listings(Survivors), NEW nodes, nodes = Compacted(order), Ordered(nodes),
         NEW D, NEW S, NEW E, NEW T, RegisteredIn(D, S) = RegisteredIn(E, T),
         NEW t \in Stay, Stands(Nodes, Len(Nodes), D, S, t)
  PROVE  /\ Stands(nodes, Len(nodes), E, T, Moved(order, t))
         /\ References(nodes, Moved(order, t)) = References(Nodes, t)
         /\ Moved(order, t) \in Handles
<1>1. References(nodes, Moved(order, t)) = References(Nodes, t)
  BY CommitReferences
<1>2. Moved(order, t) \in 1 .. Len(nodes)
  BY MovedTo DEF Live
<1>3. Moved(order, t) \in Handles
  <2>1. Len(nodes) <= Len(Nodes) /\ nodes \in Seq(NodeType)
    BY Moves
  <2>2. Len(Nodes) <= MaxHandle /\ Len(Nodes) \in Nat /\ Len(nodes) \in Nat
    BY <2>1, ArenaShape DEF Committing
  <2>3. QED
    BY <1>2, <2>1, <2>2, ArenaAssumption DEF Handles
<1>4. QED
  BY <1>1, <1>2, <1>3 DEF Stands

(* What the tables name stays.                                             *)
LEMMA Needed ==
  ASSUME ShapeInv, StoreInv, Open, Committing
  PROVE  /\ \A d \in DOMAIN definitions : definitions[d].value \in Stay /\ definitions[d].type \in Stay
         /\ \A s \in DOMAIN signatures :
              /\ signatures[s].former \in Stay
              /\ \A c \in DOMAIN signatures[s].constructors : signatures[s].constructors[c].type \in Stay
         /\ \A i \in 1 .. checkpoint.facts :
              /\ i \in DOMAIN facts /\ facts[i].term \in 1 .. checkpoint.count - 1
              /\ facts[i].type \in 1 .. checkpoint.count - 1
<1>1. /\ checkpoint.count \in Nat /\ checkpoint.count >= 1 /\ Len(Nodes) \in Nat
      /\ New = checkpoint.count .. Len(Nodes)
  BY ArenaShape DEF ShapeInv, RecallInv, Committing, New
<1>2. \A t \in 1 .. Len(Nodes) : t \in Roots => t \in Stay
  <2>1. Roots \cap New \subseteq Survivors
    BY SurvivorsClosed
  <2>2. \A t \in 1 .. Len(Nodes) : t \in New \/ t \in 1 .. checkpoint.count - 1
    BY <1>1
  <2>3. QED
    BY <2>1, <2>2 DEF Stay
<1>3. /\ definitions \in DefinitionTable /\ checkpoint.definitions \in 0 .. Len(definitions)
      /\ DOMAIN definitions = 1 .. Len(definitions) /\ Len(definitions) \in Nat /\ IsSeq(definitions)
  <2>1. definitions \in DefinitionTable
    BY DEF ShapeInv, TableInv
  <2>2. IsSeq(definitions)
    BY <2>1, SeqOfSet DEF DefinitionTable
  <2>3. Len(definitions) \in Nat /\ DOMAIN definitions = 1 .. Len(definitions)
    BY <2>2, SeqShape
  <2>4. checkpoint.definitions \in Nat /\ checkpoint.definitions <= Len(definitions)
    BY DEF ShapeInv, RecallInv
  <2>5. QED
    BY <2>1, <2>2, <2>3, <2>4
<1>4. ASSUME NEW d \in DOMAIN definitions PROVE definitions[d].value \in Stay /\ definitions[d].type \in Stay
  <2>1. CASE d <= checkpoint.definitions
    <3>1. /\ d \in DOMAIN DefinitionsThen /\ DefinitionsThen[d] = definitions[d]
      <4>1. d \in 1 .. checkpoint.definitions
        BY <1>3, <2>1
      <4>2. QED
        BY <1>3, <4>1, PrefixShape DEF DefinitionsThen
    <3>2. DefinitionStands(Nodes, checkpoint.count - 1, DefinitionsThen, SignaturesThen, d)
      BY <3>1 DEF StoreInv, StoreOK
    <3>3. QED
      BY <3>1, <3>2 DEF DefinitionStands, Stands, Stay
  <2>2. CASE ~ (d <= checkpoint.definitions)
    <3>1. d \in checkpoint.definitions + 1 .. Len(definitions)
      BY <1>3, <2>2
    <3>2. {definitions[d].value, definitions[d].type} \subseteq Roots
      BY <3>1 DEF Roots, DefinitionTerms
    <3>3. DefinitionStands(Nodes, Len(Nodes), definitions, signatures, d)
      BY DEF StoreInv, StoreOK
    <3>4. QED
      BY <1>2, <3>2, <3>3 DEF DefinitionStands, Stands
  <2>3. QED
    BY <2>1, <2>2
<1>5. ASSUME NEW s \in DOMAIN signatures PROVE signatures[s].former \in Stay
  <2>1. signatures[s].former \in Roots
    BY DEF Roots, SignatureTerms
  <2>2. Stands(Nodes, Len(Nodes), definitions, signatures, signatures[s].former)
    BY DEF StoreInv, StoreOK
  <2>3. QED
    BY <1>2, <2>1, <2>2 DEF Stands
<1>6. ASSUME NEW s \in DOMAIN signatures, NEW c \in DOMAIN signatures[s].constructors
      PROVE  signatures[s].constructors[c].type \in Stay
  <2>1. signatures[s].constructors[c].type \in Roots
    <3>1. signatures[s].constructors[c] \in ToSet(signatures[s].constructors)
      BY DEF ToSet
    <3>2. QED
      BY <3>1 DEF Roots, SignatureTerms
  <2>2. Stands(Nodes, Len(Nodes), definitions, signatures, signatures[s].constructors[c].type)
    BY DEF StoreInv, StoreOK
  <2>3. QED
    BY <1>2, <2>1, <2>2 DEF Stands
<1>7. ASSUME NEW i \in 1 .. checkpoint.facts
      PROVE  /\ i \in DOMAIN facts /\ facts[i].term \in 1 .. checkpoint.count - 1
             /\ facts[i].type \in 1 .. checkpoint.count - 1
  <2>1. IsSeq(facts) /\ checkpoint.facts \in 0 .. Len(facts) /\ i \in DOMAIN facts
    <3>1. facts \in Seq(Facts) /\ checkpoint.facts \in Nat /\ checkpoint.facts <= Len(facts)
      BY DEF ShapeInv, TableInv, RecallInv
    <3>2. Len(facts) \in Nat /\ DOMAIN facts = 1 .. Len(facts)
      BY <3>1
    <3>3. QED
      BY <3>1, <3>2, SeqOfSet
  <2>2. i \in DOMAIN FactsThen /\ FactsThen[i] = facts[i]
    BY <2>1, PrefixShape DEF FactsThen
  <2>3. FactStands(Nodes, checkpoint.count - 1, DefinitionsThen, SignaturesThen, FactsThen[i])
    BY <2>2 DEF StoreInv, StoreOK
  <2>4. QED
    BY <2>1, <2>2, <2>3 DEF FactStands, Stands
<1>8. QED
  BY <1>4, <1>5, <1>6, <1>7

LEMMA MovedSignatures ==
  ASSUME NEW order, NEW s \in Signatures, Moved(order, s.former) \in Handles,
         \A c \in DOMAIN s.constructors : Moved(order, s.constructors[c].type) \in Handles
  PROVE  /\ MovedSignature(order, s) \in Signatures
         /\ MovedSignature(order, s).former = Moved(order, s.former)
         /\ MovedSignature(order, s).admitted = s.admitted
         /\ DOMAIN MovedSignature(order, s).constructors = DOMAIN s.constructors
         /\ \A c \in DOMAIN s.constructors :
              MovedSignature(order, s).constructors[c].type = Moved(order, s.constructors[c].type)
<1>4. PICK old : old = s.constructors
  OBVIOUS
<1>5. old \in Seq(Constructors) /\ Len(old) \in Nat /\ DOMAIN old = 1 .. Len(old)
  BY <1>4 DEF Signatures
<1>6. PICK cs : cs = [c \in DOMAIN old |-> [old[c] EXCEPT !.type = Moved(order, @)]]
  OBVIOUS
<1>7. ASSUME NEW c \in DOMAIN old PROVE cs[c] \in Constructors /\ cs[c].type = Moved(order, old[c].type)
  <2>1. old[c] \in Constructors
    BY <1>5
  <2>2. PICK z : z = Moved(order, old[c].type)
    OBVIOUS
  <2>3. cs[c] = [old[c] EXCEPT !.type = z]
    BY <1>6, <2>2
  <2>4. z \in Handles
    BY <1>4, <2>2
  <2>5. QED
    BY <2>1, <2>2, <2>3, <2>4 DEF Constructors
<1>8. cs \in Seq(Constructors) /\ DOMAIN cs = DOMAIN old
  <2>1. PICK C : C = Constructors
    OBVIOUS
  <2>2. cs = [c \in 1 .. Len(old) |-> cs[c]] /\ \A c \in 1 .. Len(old) : cs[c] \in C
    BY <1>5, <1>6, <1>7, <2>1
  <2>3. QED
    BY <1>5, <2>1, <2>2
<1>9. PICK f : f = Moved(order, s.former)
  OBVIOUS
<1>10. MovedSignature(order, s) = [s EXCEPT !.former = f, !.constructors = cs]
  BY <1>4, <1>6, <1>9 DEF MovedSignature
<1>11. /\ MovedSignature(order, s) \in Signatures /\ MovedSignature(order, s).former = f
       /\ MovedSignature(order, s).admitted = s.admitted /\ MovedSignature(order, s).constructors = cs
  BY <1>8, <1>9, <1>10 DEF Signatures
<1>12. QED
  BY <1>4, <1>7, <1>8, <1>9, <1>11

LEMMA CommitKeeps == ASSUME ShapeInv, StoreInv, Commit PROVE ShapeInv' /\ StoreInv'
<1>1. PICK order \in Listings(Survivors) :
        /\ arena' = [arena EXCEPT !.nodes = Compacted(order), !.slots = Reindexed(Compacted(order))]
        /\ definitions' = [d \in DOMAIN definitions |-> MovedDefinition(order, definitions[d])]
        /\ signatures' = [s \in DOMAIN signatures |-> MovedSignature(order, signatures[s])]
  BY DEF Commit
<1>2. /\ Open /\ checkpoint' = NoCheckpoint /\ facts' = FactsThen /\ error' = error
  BY DEF Commit, FactsThen
<1>3. TableInv /\ RecallInv /\ ArenaInv /\ ArenaOK(arena)
  BY DEF ShapeInv, ArenaInv
<1>4. Committing /\ (checkpoint.count <= Len(Nodes) => HalfWith(arena.slots, 0))
  <2>1. checkpoint.count \in 0 .. Len(Nodes) + 1 /\ checkpoint.count # 0 /\ Len(Nodes) \in Nat
    BY <1>2, <1>3, ArenaShape DEF Open, ArenaInv, Nodes
  <2>2. checkpoint.count \in 1 .. Len(Nodes) + 1
    BY <2>1
  <2>3. QED
    BY <1>3, <2>1, <2>2 DEF Committing, ArenaInv, Nodes
<1>5. PICK nodes : nodes = Compacted(order)
  OBVIOUS
<1>6. ArenaOK(arena') /\ arena'.nodes = nodes
  <2>1. arena' = [arena EXCEPT !.nodes = nodes, !.slots = Reindexed(nodes)]
    BY <1>1, <1>5
  <2>2. QED
    BY <1>4, <1>5, <2>1, Compacts
<1>7. Ordered(nodes) /\ Nodes' = nodes /\ Len(nodes) \in Nat
  BY <1>6, ArenaOrdered DEF Nodes
<1>8. /\ \A d \in DOMAIN definitions : definitions[d].value \in Stay /\ definitions[d].type \in Stay
      /\ \A s \in DOMAIN signatures :
           /\ signatures[s].former \in Stay
           /\ \A c \in DOMAIN signatures[s].constructors : signatures[s].constructors[c].type \in Stay
      /\ \A i \in 1 .. checkpoint.facts :
           /\ i \in DOMAIN facts /\ facts[i].term \in 1 .. checkpoint.count - 1
           /\ facts[i].type \in 1 .. checkpoint.count - 1
  BY <1>2, <1>4, Needed
<1>9. \A t \in Stay : Moved(order, t) \in Handles
  <2>1. Len(nodes) <= Len(Nodes) /\ Len(Nodes) <= MaxHandle /\ Len(Nodes) \in Nat
    BY <1>4, <1>5, Moves, ArenaShape DEF Committing
  <2>2. \A t \in Stay : Moved(order, t) \in 1 .. Len(nodes)
    BY <1>4, <1>5, MovedTo DEF Live
  <2>3. QED
    BY <1>7, <2>1, <2>2, ArenaAssumption DEF Handles
<1>10. /\ definitions \in DefinitionTable /\ signatures \in Seq(Signatures) /\ facts \in Seq(Facts)
  BY <1>3 DEF TableInv
<1>11. ASSUME NEW d \in DOMAIN definitions
       PROVE  /\ definitions'[d] \in [symbol : Symbols, value : Handles, type : Handles]
              /\ definitions'[d].value = Moved(order, definitions[d].value)
              /\ definitions'[d].type = Moved(order, definitions[d].type)
  <2>1. definitions[d] \in [symbol : Symbols, value : Handles, type : Handles]
    <3>1. PICK S : S = [symbol : Symbols, value : Handles, type : Handles]
      OBVIOUS
    <3>2. definitions \in Seq(S)
      BY <1>10, <3>1 DEF DefinitionTable
    <3>3. definitions[d] \in S
      BY <3>2
    <3>4. QED
      BY <3>1, <3>3
  <2>2. PICK x : x = definitions[d]
    OBVIOUS
  <2>3. PICK v, t : v = Moved(order, x.value) /\ t = Moved(order, x.type)
    OBVIOUS
  <2>4. v \in Handles /\ t \in Handles
    BY <1>8, <1>9, <2>2, <2>3
  <2>5. definitions'[d] = [x EXCEPT !.value = v, !.type = t]
    BY <1>1, <2>2, <2>3 DEF MovedDefinition
  <2>6. QED
    BY <2>1, <2>2, <2>3, <2>4, <2>5
<1>12. ASSUME NEW s \in DOMAIN signatures
       PROVE  /\ signatures'[s] \in Signatures /\ signatures'[s].former = Moved(order, signatures[s].former)
              /\ signatures'[s].admitted = signatures[s].admitted
              /\ DOMAIN signatures'[s].constructors = DOMAIN signatures[s].constructors
              /\ \A c \in DOMAIN signatures[s].constructors :
                   signatures'[s].constructors[c].type = Moved(order, signatures[s].constructors[c].type)
  <2>1. PICK x : x = signatures[s]
    OBVIOUS
  <2>2. x \in Signatures
    BY <1>10, <2>1
  <2>3. Moved(order, x.former) \in Handles /\ \A c \in DOMAIN x.constructors : Moved(order, x.constructors[c].type) \in Handles
    BY <1>8, <1>9, <2>1
  <2>4. signatures'[s] = MovedSignature(order, x)
    BY <1>1, <2>1
  <2>5. QED
    BY <2>1, <2>2, <2>3, <2>4, MovedSignatures
<1>13. DOMAIN definitions' = DOMAIN definitions /\ DOMAIN signatures' = DOMAIN signatures
  BY <1>1
<1>14. TableInv'
  <2>1. definitions' \in DefinitionTable /\ Len(definitions') <= MaxDefinitions
    <3>1. PICK S : S = [symbol : Symbols, value : Handles, type : Handles]
      OBVIOUS
    <3>2. definitions \in Seq(S) /\ \A d \in DOMAIN definitions : definitions'[d] \in S
      BY <1>10, <1>11, <3>1 DEF DefinitionTable
    <3>3. PICK k \in Nat : k = Len(definitions) /\ DOMAIN definitions = 1 .. k
      BY <3>2
    <3>4. definitions' = [d \in 1 .. k |-> definitions'[d]]
      BY <1>1, <3>3
    <3>5. definitions' \in Seq(S) /\ Len(definitions') = k
      BY <3>2, <3>3, <3>4
    <3>6. QED
      BY <1>3, <3>1, <3>3, <3>5 DEF TableInv, DefinitionTable
  <2>2. signatures' \in Seq(Signatures) /\ Len(signatures') <= MaxSignatures
    <3>1. PICK S : S = Signatures
      OBVIOUS
    <3>2. signatures \in Seq(S) /\ \A s \in DOMAIN signatures : signatures'[s] \in S
      BY <1>10, <1>12, <3>1
    <3>3. PICK k \in Nat : k = Len(signatures) /\ DOMAIN signatures = 1 .. k
      BY <3>2
    <3>4. signatures' = [s \in 1 .. k |-> signatures'[s]]
      BY <1>1, <3>3
    <3>5. signatures' \in Seq(S) /\ Len(signatures') = k
      BY <3>2, <3>3, <3>4
    <3>6. QED
      BY <1>3, <3>1, <3>3, <3>5 DEF TableInv
  <2>3. facts' \in Seq(Facts)
    <3>1. checkpoint.facts \in Nat /\ checkpoint.facts <= Len(facts)
      BY <1>3 DEF RecallInv
    <3>2. Len(facts) \in Nat /\ checkpoint.facts \in 0 .. Len(facts)
      BY <1>10, <3>1
    <3>3. QED
      BY <1>2, <1>10, <3>2 DEF FactsThen
  <2>4. QED
    BY <1>2, <1>3, <2>1, <2>2, <2>3 DEF TableInv
<1>15. RecallInv' /\ ~ Open' /\ checkpoint'.count = 0
  BY <1>2, <1>14, NothingOpen
<1>16. ArenaInv'
  BY <1>6, <1>7, <1>15 DEF ArenaInv
<1>17. PICK D, S, E, T : D = definitions /\ S = signatures /\ E = definitions' /\ T = signatures'
  OBVIOUS
<1>18. RegisteredIn(D, S) = RegisteredIn(E, T)
  BY <1>12, <1>13, <1>17 DEF RegisteredIn
<1>19. ASSUME NEW t \in Stay, Stands(Nodes, Len(Nodes), D, S, t)
       PROVE  /\ Stands(nodes, Len(nodes), E, T, Moved(order, t))
              /\ References(nodes, Moved(order, t)) = References(Nodes, t)
  BY <1>4, <1>5, <1>7, <1>18, <1>19, CommitStands
<1>20. StoreOK(Nodes, Len(Nodes), D, S, facts)
  BY <1>17 DEF StoreInv
<1>21. ASSUME NEW d \in DOMAIN E PROVE DefinitionStands(nodes, Len(nodes), E, T, d)
  <2>1. d \in DOMAIN D /\ DefinitionStands(Nodes, Len(Nodes), D, S, d)
    BY <1>13, <1>17, <1>20 DEF StoreOK
  <2>2. D[d].value \in Stay /\ D[d].type \in Stay
    BY <1>8, <1>17, <2>1
  <2>3. E[d].value = Moved(order, D[d].value) /\ E[d].type = Moved(order, D[d].type)
    BY <1>11, <1>17, <2>1
  <2>4. ASSUME NEW t \in {D[d].value, D[d].type}
        PROVE  /\ Stands(nodes, Len(nodes), E, T, Moved(order, t))
               /\ \A r \in References(nodes, Moved(order, t)) : r[1] = "DEFREF" => r[2] < d
    <3>1. t \in Stay /\ Stands(Nodes, Len(Nodes), D, S, t)
          /\ \A r \in References(Nodes, t) : r[1] = "DEFREF" => r[2] < d
      BY <2>1, <2>2, <2>4 DEF DefinitionStands
    <3>2. QED
      BY <1>19, <3>1
  <2>5. QED
    BY <2>3, <2>4 DEF DefinitionStands
<1>22. ASSUME NEW s \in DOMAIN T PROVE Stands(nodes, Len(nodes), E, T, T[s].former)
  <2>1. s \in DOMAIN S /\ Stands(Nodes, Len(Nodes), D, S, S[s].former)
    BY <1>13, <1>17, <1>20 DEF StoreOK
  <2>2. S[s].former \in Stay /\ T[s].former = Moved(order, S[s].former)
    BY <1>8, <1>12, <1>17, <2>1
  <2>3. QED
    BY <1>19, <2>1, <2>2
<1>23. ASSUME NEW s \in DOMAIN T, NEW c \in DOMAIN T[s].constructors
       PROVE  Stands(nodes, Len(nodes), E, T, T[s].constructors[c].type)
  <2>1. s \in DOMAIN S /\ c \in DOMAIN S[s].constructors
    BY <1>12, <1>13, <1>17
  <2>2. Stands(Nodes, Len(Nodes), D, S, S[s].constructors[c].type)
    BY <1>20, <2>1 DEF StoreOK
  <2>3. S[s].constructors[c].type \in Stay /\ T[s].constructors[c].type = Moved(order, S[s].constructors[c].type)
    BY <1>8, <1>12, <1>17, <2>1
  <2>4. QED
    BY <1>19, <2>2, <2>3
<1>24. ASSUME NEW i \in DOMAIN facts' PROVE FactStands(nodes, Len(nodes), E, T, facts'[i])
  <2>1. i \in 1 .. checkpoint.facts /\ facts'[i] = facts[i]
    <3>1. IsSeq(facts) /\ checkpoint.facts \in 0 .. Len(facts)
      <4>1. checkpoint.facts \in Nat /\ checkpoint.facts <= Len(facts)
        BY <1>3 DEF RecallInv
      <4>2. Len(facts) \in Nat
        BY <1>10
      <4>3. QED
        BY <1>10, <4>1, <4>2, SeqOfSet
    <3>2. QED
      BY <1>2, <3>1, PrefixShape DEF FactsThen
  <2>2. PICK f : f = facts[i]
    OBVIOUS
  <2>3. i \in DOMAIN facts /\ f.term \in 1 .. checkpoint.count - 1 /\ f.type \in 1 .. checkpoint.count - 1
    BY <1>8, <2>1, <2>2
  <2>4. FactStands(Nodes, Len(Nodes), D, S, f)
    BY <1>20, <2>2, <2>3 DEF StoreOK
  <2>5. f.term \in Stay /\ f.type \in Stay /\ Moved(order, f.term) = f.term /\ Moved(order, f.type) = f.type
    BY <1>4, <2>3, Places DEF Stay
  <2>6. Stands(nodes, Len(nodes), E, T, f.type)
    BY <1>19, <2>4, <2>5 DEF FactStands
  <2>7. f.term \in 1 .. Len(nodes) /\ nodes[f.term].payload = Nodes[f.term].payload
    BY <1>4, <1>5, <2>5, MovedTo DEF Live
  <2>8. CASE f.kind = "typing"
    <3>1. Stands(nodes, Len(nodes), E, T, f.term)
      BY <1>19, <2>4, <2>5, <2>8 DEF FactStands
    <3>2. QED
      BY <2>1, <2>2, <2>6, <2>7, <2>8, <3>1 DEF FactStands
  <2>9. CASE f.kind # "typing"
    <3>1. nodes[f.term].payload \in DOMAIN T
      BY <1>13, <1>17, <2>4, <2>7, <2>9 DEF FactStands
    <3>2. QED
      BY <2>1, <2>2, <2>6, <2>7, <2>9, <3>1 DEF FactStands
  <2>10. QED
    BY <2>8, <2>9
<1>25. StoreOK(nodes, Len(nodes), E, T, facts')
  BY <1>21, <1>22, <1>23, <1>24 DEF StoreOK
<1>26. QED
  BY <1>7, <1>14, <1>15, <1>16, <1>17, <1>25 DEF ShapeInv, StoreInv

-----------------------------------------------------------------------------
(* The caches.  A cached head is no reference; what is no reference is its *)
(* own head, and a reference shares the head of what it was defined as.    *)

WeakInv ==
  /\ weak \in [Handle -> Handles]
  /\ \A t \in Handle : weak[t] # 0 => t \in Live(Nodes) /\ weak[t] \in Live(Nodes)
CacheInv ==
  \A t \in Live(Nodes) : weak[t] # 0 =>
    IF Kind(t) = "DEFREF"
    THEN /\ Nodes[t].payload \in DOMAIN definitions
         /\ weak[definitions[Nodes[t].payload].value] = weak[t]
    ELSE weak[t] = t

Unfold(u) ==
  IF Kind(u) = "DEFREF" /\ Nodes[u].payload \in DOMAIN definitions
  THEN definitions[Nodes[u].payload].value ELSE u

LEMMA LiveHandles ==
  ASSUME ArenaOK(arena) PROVE \A t \in Live(Nodes) : t \in Handle /\ t \in Handles /\ t # 0
BY ArenaShape, ArenaAssumption DEF Handle, Handles

LEMMA UnfoldLive ==
  ASSUME ShapeInv, StoreInv, NEW u \in Live(Nodes) PROVE Unfold(u) \in Live(Nodes)
<1>1. CASE Kind(u) = "DEFREF" /\ Nodes[u].payload \in DOMAIN definitions
  <2>1. PICK d \in DOMAIN definitions : d = Nodes[u].payload
    BY <1>1
  <2>2. DefinitionStands(Nodes, Len(Nodes), definitions, signatures, d)
    BY DEF StoreInv, StoreOK
  <2>3. definitions[d].value \in 1 .. Len(Nodes)
    BY <2>2 DEF DefinitionStands, Stands
  <2>4. QED
    BY <1>1, <2>1, <2>3 DEF Unfold, Live
<1>2. QED
  BY <1>1 DEF Unfold

LEMMA Trails ==
  ASSUME ShapeInv, StoreInv, NEW t \in Live(Nodes), NEW n, n = Len(definitions)
  PROVE  /\ n \in Nat /\ DOMAIN definitions = 1 .. n
         /\ Unfolds(t) \in [0 .. n -> Live(Nodes)] /\ Unfolds(t)[0] = t
         /\ \A i \in 1 .. n : Unfolds(t)[i] = Unfold(Unfolds(t)[i - 1])
<1>1. n \in Nat /\ DOMAIN definitions = 1 .. n
  BY DEF ShapeInv, TableInv, DefinitionTable
<1> DEFINE Step(f) == [i \in 0 .. n |-> IF i = 0 THEN t ELSE Unfold(f[i - 1])]
<1>2. PICK S : S = Live(Nodes)
  OBVIOUS
<1>3. PICK step : step = [p \in S \X Nat |-> Unfold(p[1])]
  OBVIOUS
<1>4. step \in [S \X Nat -> S] /\ \A u \in S : \A i \in Nat : step[<<u, i>>] = Unfold(u)
  BY <1>2, <1>3, UnfoldLive
<1>5. PICK f : Repeating(f, n, S, t, 1, step)
  <2>1. PICK one : one = 1
    OBVIOUS
  <2>2. t \in S /\ one \in Nat \ {0}
    BY <1>2, <2>1
  <2>3. \E f : Repeating(f, n, S, t, one, step)
    BY <1>1, <1>4, <2>2, Repeats
  <2>4. QED
    BY <2>1, <2>3
<1>6. f \in [0 .. n -> S] /\ \A i \in 0 .. n : f[i] = IF i < 1 THEN t ELSE step[<<f[i - 1], i>>]
  BY <1>5 DEF Repeating
<1>7. ASSUME NEW i \in 0 .. n PROVE f[i] = IF i = 0 THEN t ELSE Unfold(f[i - 1])
  <2>1. CASE i = 0
    <3>1. i < 1
      BY <2>1
    <3>2. f[i] = t
      BY <1>6, <3>1
    <3>3. QED
      BY <2>1, <3>2
  <2>2. CASE i # 0
    <3>1. i - 1 \in 0 .. n /\ i \in Nat /\ ~ (i < 1)
      BY <1>1, <2>2
    <3>2. f[i - 1] \in S /\ f[i] = step[<<f[i - 1], i>>]
      BY <1>6, <3>1
    <3>3. QED
      BY <1>4, <2>2, <3>1, <3>2
  <2>3. QED
    BY <2>1, <2>2
<1> HIDE DEF Step
<1>8. f = Step(f)
  BY <1>6, <1>7 DEF Step
<1>9. PICK g : g = CHOOSE h : h = Step(h)
  OBVIOUS
<1>10. g = Step(g)
  BY <1>8, <1>9
<1>11. Unfolds(t) = g
  <2>1. Unfolds(t) = CHOOSE h : h = [i \in 0 .. Len(definitions) |-> IF i = 0 THEN t ELSE Unfold(h[i - 1])]
    BY DEF Unfolds, Unfold
  <2>2. QED
    BY <1>9, <2>1 DEF Step
<1>12. g = [i \in 0 .. n |-> g[i]] /\ \A i \in 0 .. n : g[i] = IF i = 0 THEN t ELSE Unfold(g[i - 1])
  BY <1>10 DEF Step
<1>13. g[0] = t /\ \A i \in 1 .. n : g[i] = Unfold(g[i - 1])
  BY <1>1, <1>12
<1> DEFINE G == {i \in Nat : i <= n => g[i] \in S}
<1>14. \A i \in 0 .. n : i \in G
  <2>1. 0 \in G
    BY <1>2, <1>13
  <2>2. ASSUME NEW i \in Nat, i < n, i \in G PROVE i + 1 \in G
    <3>1. g[i] \in S /\ i + 1 \in 1 .. n /\ i + 1 - 1 = i
      BY <1>1, <2>2
    <3>2. g[i + 1] = Unfold(g[i])
      BY <1>13, <3>1
    <3>3. g[i + 1] \in S
      BY <1>2, <3>1, <3>2, UnfoldLive
    <3>4. QED
      BY <3>3
  <2>3. G \in SUBSET Nat
    OBVIOUS
  <2> HIDE DEF G
  <2>4. QED
    BY <1>1, <2>1, <2>2, <2>3, UpTo
<1>15. g \in [0 .. n -> S]
  <2>1. \A i \in 0 .. n : g[i] \in S
    BY <1>1, <1>14
  <2>2. QED
    BY <1>12, <2>1
<1>16. QED
  BY <1>1, <1>2, <1>11, <1>13, <1>15

(* The cache tells what unfolding would find.                              *)
LEMMA Heads ==
  ASSUME ShapeInv, StoreInv, CacheInv, NEW t \in Live(Nodes), weak[t] # 0
  PROVE  weak[t] = WeakHead(t)
<1>1. PICK n : n = Len(definitions)
  OBVIOUS
<1>2. PICK g : g = Unfolds(t)
  OBVIOUS
<1>3. n \in Nat /\ DOMAIN definitions = 1 .. n /\ g \in [0 .. n -> Live(Nodes)] /\ g[0] = t
      /\ \A i \in 1 .. n : g[i] = Unfold(g[i - 1])
  BY <1>1, <1>2, Trails
<1>4. ASSUME NEW u \in Live(Nodes) PROVE Nodes[u].payload \in Nat
  BY <1>4, ArenaShape, NodeFields DEF ShapeInv, ArenaInv
<1> DEFINE Right(i) == /\ weak[g[i]] = weak[t]
                       /\ Kind(g[i]) = "DEFREF" => Nodes[g[i]].payload <= n - i
           G == {i \in Nat : i <= n => Right(i)}
<1>5. 0 \in G
  <2>1. Kind(t) = "DEFREF" => Nodes[t].payload \in 1 .. n
    BY <1>3 DEF CacheInv
  <2>2. QED
    BY <1>3, <2>1
<1>6. ASSUME NEW i \in Nat, i < n, i \in G PROVE i + 1 \in G
  <2>1. Right(i) /\ i \in 0 .. n /\ i + 1 \in 1 .. n /\ i + 1 - 1 = i
    BY <1>3, <1>6
  <2>2. PICK u \in Live(Nodes) : u = g[i]
    BY <1>3, <2>1
  <2>3. g[i + 1] = Unfold(u)
    BY <1>3, <2>1, <2>2
  <2>4. weak[u] = weak[t] /\ weak[u] # 0 /\ (Kind(u) = "DEFREF" => Nodes[u].payload <= n - i)
    BY <2>1, <2>2
  <2>5. CASE Kind(u) # "DEFREF"
    <3>1. g[i + 1] = u
      BY <2>3, <2>5 DEF Unfold
    <3>2. QED
      BY <2>4, <2>5, <3>1
  <2>6. CASE Kind(u) = "DEFREF"
    <3>1. PICK d \in 1 .. n : d = Nodes[u].payload /\ weak[definitions[d].value] = weak[u]
      BY <1>3, <2>4, <2>6 DEF CacheInv
    <3>2. PICK v : v = definitions[d].value
      OBVIOUS
    <3>3. g[i + 1] = v /\ weak[v] = weak[t]
      BY <1>3, <2>3, <2>4, <2>6, <3>1, <3>2 DEF Unfold
    <3>4. v \in Live(Nodes) /\ \A r \in References(Nodes, v) : r[1] = "DEFREF" => r[2] < d
      <4>1. DefinitionStands(Nodes, Len(Nodes), definitions, signatures, d)
        BY <1>3 DEF StoreInv, StoreOK
      <4>2. QED
        BY <3>2, <4>1 DEF DefinitionStands, Stands, Live
    <3>5. Kind(v) = "DEFREF" => Nodes[v].payload < d
      <4>1. References(Nodes, v) = Own(Nodes[v]) \cup UNION {References(Nodes, c) : c \in Children(Nodes[v])}
        BY <3>4, Refers, ArenaOrdered DEF ShapeInv, ArenaInv, Nodes
      <4>2. Kind(v) = "DEFREF" => <<"DEFREF", Nodes[v].payload>> \in References(Nodes, v)
        BY <4>1 DEF Own, Kind
      <4>3. QED
        BY <3>4, <4>2
    <3>6. Kind(v) = "DEFREF" => Nodes[v].payload <= n - (i + 1)
      <4>1. Nodes[v].payload \in Nat /\ d <= n - i
        BY <1>4, <2>4, <2>6, <3>1, <3>4
      <4>2. QED
        BY <1>3, <3>5, <4>1
    <3>7. Right(i + 1)
      BY <3>3, <3>6
    <3>8. QED
      BY <3>7
  <2>7. QED
    BY <2>5, <2>6
<1>7. \A i \in 0 .. n : i \in G
  <2>1. G \in SUBSET Nat
    OBVIOUS
  <2> HIDE DEF G
  <2>2. QED
    BY <1>3, <1>5, <1>6, <2>1, UpTo
<1>8. Right(n) /\ g[n] \in Live(Nodes)
  BY <1>3, <1>7
<1>9. Kind(g[n]) # "DEFREF"
  <2>1. SUFFICES ASSUME Kind(g[n]) = "DEFREF" PROVE FALSE
    OBVIOUS
  <2>2. Nodes[g[n]].payload \in 1 .. n
    BY <1>3, <1>8, <2>1 DEF CacheInv
  <2>3. Nodes[g[n]].payload <= n - n
    BY <1>8, <2>1
  <2>4. QED
    BY <1>3, <2>2, <2>3
<1>10. weak[g[n]] = g[n]
  BY <1>8, <1>9 DEF CacheInv
<1>11. QED
  BY <1>1, <1>2, <1>8, <1>10 DEF WeakHead

(* Unfolding caches the head for everything it passed.                     *)
LEMMA WhnfKeepsCaches ==
  ASSUME ShapeInv, StoreInv, WeakInv, CacheInv, Whnf
  PROVE  WeakInv' /\ CacheInv'
<1>1. /\ arena' = arena /\ definitions' = definitions
      /\ \E t \in Live(Nodes) :
           LET trail == Unfolds(t)
               stop  == {i \in 0 .. Len(definitions) :
                           weak[trail[i]] # 0 \/ Kind(trail[i]) # "DEFREF"}
               last  == CHOOSE i \in stop : \A j \in stop : i <= j
               head  == IF weak[trail[last]] # 0 THEN weak[trail[last]] ELSE trail[last]
           IN  IF stop = {}
               THEN Latch("other") /\ UNCHANGED weak
               ELSE /\ weak' = [u \in Handle |->
                                  IF \E i \in 0 .. last : u = trail[i] THEN head ELSE weak[u]]
                    /\ UNCHANGED error
  BY Zenon DEF Whnf
<1>2. PICK t \in Live(Nodes) :
           LET trail == Unfolds(t)
               stop  == {i \in 0 .. Len(definitions) :
                           weak[trail[i]] # 0 \/ Kind(trail[i]) # "DEFREF"}
               last  == CHOOSE i \in stop : \A j \in stop : i <= j
               head  == IF weak[trail[last]] # 0 THEN weak[trail[last]] ELSE trail[last]
           IN  IF stop = {}
               THEN Latch("other") /\ UNCHANGED weak
               ELSE /\ weak' = [u \in Handle |->
                                  IF \E i \in 0 .. last : u = trail[i] THEN head ELSE weak[u]]
                    /\ UNCHANGED error
  BY <1>1
<1> DEFINE n == Len(definitions)
           g == Unfolds(t)
           stop == {i \in 0 .. n : weak[g[i]] # 0 \/ Kind(g[i]) # "DEFREF"}
           last == CHOOSE i \in stop : \A j \in stop : i <= j
           head == IF weak[g[last]] # 0 THEN weak[g[last]] ELSE g[last]
<1>3. IF stop = {} THEN Latch("other") /\ UNCHANGED weak
      ELSE /\ weak' = [u \in Handle |-> IF \E i \in 0 .. last : u = g[i] THEN head ELSE weak[u]]
           /\ UNCHANGED error
  BY <1>2, Zenon
<1>4. n = Len(definitions) /\ g = Unfolds(t)
  OBVIOUS
<1>5. stop = {i \in 0 .. n : weak[g[i]] # 0 \/ Kind(g[i]) # "DEFREF"}
  OBVIOUS
<1> HIDE DEF n, g, stop
<1>6. (\E i \in stop : \A j \in stop : i <= j) => last \in stop /\ \A j \in stop : last <= j
  OBVIOUS
<1> HIDE DEF last
<1>7. head = IF weak[g[last]] # 0 THEN weak[g[last]] ELSE g[last]
  OBVIOUS
<1> HIDE DEF head
<1>8. \/ stop = {} /\ weak' = weak
      \/ /\ stop # {}
         /\ weak' = [u \in Handle |-> IF \E i \in 0 .. last : u = g[i] THEN head ELSE weak[u]]
  BY <1>3
<1>9. n \in Nat /\ DOMAIN definitions = 1 .. n /\ g \in [0 .. n -> Live(Nodes)] /\ g[0] = t
      /\ \A i \in 1 .. n : g[i] = Unfold(g[i - 1])
  BY <1>4, Trails
<1>10. Nodes' = Nodes /\ (\A u : Kind(u)' = Kind(u)) /\ definitions' = definitions
  BY <1>1 DEF Nodes, Kind
<1>11. CASE stop = {} /\ weak' = weak
  BY <1>10, <1>11 DEF WeakInv, CacheInv
<1>12. CASE /\ stop # {}
            /\ weak' = [u \in Handle |-> IF \E i \in 0 .. last : u = g[i] THEN head ELSE weak[u]]
  <2>1. last \in stop /\ \A j \in stop : last <= j
    <3>1. stop \in SUBSET Nat
      BY <1>5, <1>9
    <3>2. \E i \in stop : \A j \in stop : i <= j
      BY <1>12, <3>1, LeastNat, Zenon
    <3>3. QED
      BY <1>6, <3>2
  <2>2. last \in 0 .. n /\ last \in Nat /\ (weak[g[last]] # 0 \/ Kind(g[last]) # "DEFREF")
    BY <1>5, <1>9, <2>1
  <2>3. ASSUME NEW i \in 0 .. last, i # last
        PROVE  /\ i \in 0 .. n /\ i + 1 \in 0 .. last /\ i + 1 \in 1 .. n /\ i + 1 - 1 = i
               /\ weak[g[i]] = 0 /\ Kind(g[i]) = "DEFREF"
    <3>1. i \in 0 .. n /\ i + 1 \in 0 .. last /\ i + 1 \in 1 .. n /\ i + 1 - 1 = i /\ ~ (last <= i)
      BY <1>9, <2>2, <2>3
    <3>2. i \notin stop
      BY <2>1, <3>1
    <3>3. QED
      BY <1>5, <3>1, <3>2
  <2>4. \A i \in 0 .. last : i \in 0 .. n /\ g[i] \in Live(Nodes) /\ g[i] \in Handle /\ g[i] # 0
    <3>1. \A i \in 0 .. last : i \in 0 .. n
      BY <1>9, <2>2
    <3>2. QED
      BY <1>9, <3>1, LiveHandles DEF ShapeInv, ArenaInv
  <2>5. last \in 0 .. last
    BY <2>2
  <2>6. head \in Live(Nodes) /\ head \in Handles /\ head # 0
    <3>1. g[last] \in Live(Nodes) /\ g[last] \in Handle
      BY <2>4, <2>5
    <3>2. weak[g[last]] # 0 => weak[g[last]] \in Live(Nodes)
      BY <3>1 DEF WeakInv
    <3>3. head \in Live(Nodes)
      BY <1>7, <3>1, <3>2
    <3>4. QED
      BY <3>3, LiveHandles DEF ShapeInv, ArenaInv
  <2>7. /\ \A i \in 0 .. last : weak'[g[i]] = head
        /\ \A u \in Handle : weak'[u] = head \/ weak'[u] = weak[u]
        /\ \A u \in Handle : weak'[u] = weak[u] \/ \E i \in 0 .. last : u = g[i]
    BY <1>12, <2>4
  <2>8. WeakInv'
    <3>1. weak' \in [Handle -> Handles]
      <4>1. \A u \in Handle : weak'[u] \in Handles
        BY <2>6, <2>7 DEF WeakInv
      <4>2. QED
        BY <1>12, <4>1
    <3>2. ASSUME NEW u \in Handle, weak'[u] # 0 PROVE u \in Live(Nodes) /\ weak'[u] \in Live(Nodes)
      <4>1. CASE weak'[u] = weak[u]
        BY <3>2, <4>1 DEF WeakInv
      <4>2. CASE \E i \in 0 .. last : u = g[i]
        BY <2>4, <2>6, <2>7, <4>2
      <4>3. QED
        BY <2>7, <4>1, <4>2
    <3>3. QED
      BY <1>10, <3>1, <3>2 DEF WeakInv
  <2>9. ASSUME NEW u \in Handle, weak[u] # 0 PROVE weak'[u] = weak[u]
    <3>1. CASE \E i \in 0 .. last : u = g[i]
      <4>1. u = g[last]
        BY <2>3, <2>9, <3>1
      <4>2. QED
        BY <1>7, <2>5, <2>7, <2>9, <4>1
    <3>2. QED
      BY <2>7, <3>1
  <2>10. ASSUME NEW u \in Live(Nodes), weak'[u] # 0
         PROVE  IF Kind(u) = "DEFREF"
                THEN /\ Nodes[u].payload \in DOMAIN definitions
                     /\ weak'[definitions[Nodes[u].payload].value] = weak'[u]
                ELSE weak'[u] = u
    <3>1. u \in Handle
      BY LiveHandles DEF ShapeInv, ArenaInv
    <3>2. CASE weak[u] # 0
      <4>1. weak'[u] = weak[u]
        BY <2>9, <3>1, <3>2
      <4>2. CASE Kind(u) # "DEFREF"
        BY <3>2, <4>1, <4>2 DEF CacheInv
      <4>3. CASE Kind(u) = "DEFREF"
        <5>1. PICK v : v = definitions[Nodes[u].payload].value
          OBVIOUS
        <5>2. Nodes[u].payload \in DOMAIN definitions /\ weak[v] = weak[u]
          BY <3>2, <4>3, <5>1 DEF CacheInv
        <5>3. v \in Handle
          <6>1. v = Unfold(u)
            BY <4>3, <5>1, <5>2 DEF Unfold
          <6>2. QED
            BY <6>1, UnfoldLive, LiveHandles DEF ShapeInv, ArenaInv
        <5>4. weak'[v] = weak[v]
          BY <2>9, <3>2, <5>2, <5>3
        <5>5. QED
          BY <4>1, <4>3, <5>1, <5>2, <5>4
      <4>4. QED
        BY <4>2, <4>3
    <3>3. CASE weak[u] = 0
      <4>1. PICK i \in 0 .. last : u = g[i]
        BY <2>7, <2>10, <3>1, <3>3
      <4>2. weak'[u] = head
        BY <2>7, <4>1
      <4>3. CASE i = last
        <5>1. Kind(u) # "DEFREF" /\ head = u
          BY <1>7, <2>2, <3>3, <4>1, <4>3
        <5>2. QED
          BY <4>2, <5>1
      <4>4. CASE i # last
        <5>1. /\ i + 1 \in 0 .. last /\ i + 1 \in 1 .. n /\ i + 1 - 1 = i /\ Kind(u) = "DEFREF"
          BY <2>3, <4>1, <4>4
        <5>2. g[i + 1] = Unfold(u) /\ weak'[g[i + 1]] = head
          BY <1>9, <2>7, <4>1, <5>1
        <5>3. Nodes[u].payload \in DOMAIN definitions
          <6>1. SUFFICES ASSUME Nodes[u].payload \notin DOMAIN definitions PROVE FALSE
            OBVIOUS
          <6>2. ASSUME NEW x \in Live(Nodes), x = u PROVE Unfold(x) = x
            BY <6>1, <6>2 DEF Unfold
          <6> DEFINE G == {j \in Nat : i + j <= n => g[i + j] = u}
          <6>3. 0 \in G
            BY <2>4, <4>1
          <6>4. ASSUME NEW j \in Nat, j < n, j \in G PROVE j + 1 \in G
            <7>1. CASE i + (j + 1) <= n
              <8>1. i + (j + 1) \in 1 .. n /\ i + (j + 1) - 1 = i + j /\ i + j <= n
                BY <1>9, <2>4, <7>1
              <8>2. g[i + (j + 1)] = Unfold(g[i + j]) /\ g[i + j] = u
                BY <1>9, <6>4, <8>1
              <8>3. QED
                BY <6>2, <8>2
            <7>2. QED
              BY <7>1
          <6>5. \A j \in 0 .. n : j \in G
            <7>1. G \in SUBSET Nat
              OBVIOUS
            <7> HIDE DEF G
            <7>2. QED
              BY <1>9, <6>3, <6>4, <7>1, UpTo
          <6>6. PICK j \in 0 .. n : i + j = last
            <7>1. last - i \in 0 .. n /\ i + (last - i) = last
              BY <1>9, <2>2, <2>4
            <7>2. QED
              BY <7>1
          <6>7. g[last] = u
            <7>1. j \in G
              BY <6>5
            <7>2. i + j <= n => g[i + j] = u
              BY <7>1
            <7>3. last <= n
              BY <1>9, <2>2
            <7>4. QED
              BY <6>6, <7>2, <7>3
          <6>8. QED
            BY <2>2, <3>3, <5>1, <6>7
        <5>4. QED
          BY <4>2, <5>1, <5>2, <5>3 DEF Unfold
      <4>5. QED
        BY <4>3, <4>4
    <3>4. QED
      BY <3>2, <3>3
  <2>11. QED
    BY <1>10, <2>8, <2>10 DEF CacheInv
<1>13. QED
  BY <1>8, <1>11, <1>12

(* Calls that extend the store leave the caches right.                     *)
LEMMA CachesKept ==
  ASSUME ShapeInv, WeakInv, CacheInv, Grows(arena, arena'), UNCHANGED weak,
         \A d \in DOMAIN definitions : d \in DOMAIN definitions' /\ definitions'[d] = definitions[d]
  PROVE  WeakInv' /\ CacheInv'
<1>1. \A t \in Live(Nodes) : t \in Live(Nodes') /\ Nodes'[t] = Nodes[t] /\ Kind(t)' = Kind(t)
  BY DEF Grows, Nodes, Kind
<1>2. WeakInv'
  BY <1>1 DEF WeakInv
<1>3. ASSUME NEW t \in Live(Nodes'), weak'[t] # 0
      PROVE  IF Kind(t)' = "DEFREF"
             THEN /\ Nodes'[t].payload \in DOMAIN definitions'
                  /\ weak'[definitions'[Nodes'[t].payload].value] = weak'[t]
             ELSE weak'[t] = t
  <2>1. t \in Handle
    BY <1>3, ArenaShape, ArenaAssumption DEF Grows, ArenaOK, Arenas, Live, Handle, Nodes
  <2>2. t \in Live(Nodes) /\ weak[t] # 0
    BY <1>3, <2>1 DEF WeakInv
  <2>3. Nodes'[t] = Nodes[t] /\ Kind(t)' = Kind(t)
    BY <1>1, <2>2
  <2>4. CASE Kind(t) = "DEFREF"
    <3>1. PICK d \in DOMAIN definitions : d = Nodes[t].payload /\ weak[definitions[d].value] = weak[t]
      BY <2>2, <2>4 DEF CacheInv
    <3>2. QED
      BY <2>3, <2>4, <3>1
  <2>5. CASE Kind(t) # "DEFREF"
    BY <2>2, <2>3, <2>5 DEF CacheInv
  <2>6. QED
    BY <2>4, <2>5
<1>4. QED
  BY <1>2, <1>3 DEF CacheInv

LEMMA DefinitionsKept ==
  ASSUME ShapeInv, Term \/ FreshSymbol \/ SetOptimizations \/ Judge \/ Define \/ Lookup
                 \/ SignatureBegin \/ SignatureConstructor \/ SignatureClose
  PROVE  /\ UNCHANGED weak
         /\ \A d \in DOMAIN definitions : d \in DOMAIN definitions' /\ definitions'[d] = definitions[d]
<1>1. CASE Term \/ FreshSymbol \/ SetOptimizations \/ Judge \/ Lookup
             \/ SignatureBegin \/ SignatureConstructor \/ SignatureClose
  <2>1. UNCHANGED weak /\ definitions' = definitions
    BY <1>1 DEF Term, FreshSymbol, SetOptimizations, Judge, Lookup, SignatureBegin, SignatureConstructor, SignatureClose
  <2>2. QED
    BY <2>1
<1>2. CASE Define
  <2>1. UNCHANGED weak
    BY <1>2 DEF Define
  <2>2. definitions' = definitions \/ \E x : definitions' = Append(definitions, x)
    BY <1>2, Zenon DEF Define
  <2>3. IsSeq(definitions)
    BY SeqOfSet DEF ShapeInv, TableInv, DefinitionTable
  <2>4. CASE \E x : definitions' = Append(definitions, x)
    <3>1. PICK x : definitions' = Append(definitions, x)
      BY <2>4
    <3>2. Extends(definitions, definitions')
      BY <2>3, <3>1, AppendShape
    <3>3. QED
      BY <2>1, <3>2 DEF Extends
  <2>5. QED
    BY <2>1, <2>2, <2>4
<1>3. QED
  BY <1>1, <1>2

(* A rollback and a commit clear the caches.                               *)
LEMMA CachesCleared ==
  ASSUME WeakInv, Forget, ShapeInv'
  PROVE  WeakInv' /\ CacheInv'
<1>1. \A t \in Handle : weak'[t] = 0
  BY DEF Forget, WeakInv
<1>2. weak' \in [Handle -> Handles]
  <2>1. DOMAIN weak' = Handle /\ weak' = [t \in Handle |-> weak'[t]]
    BY DEF Forget
  <2>2. 0 \in Handles
    BY ArenaAssumption DEF Handles
  <2>3. QED
    BY <1>1, <2>1, <2>2
<1>3. WeakInv'
  BY <1>1, <1>2 DEF WeakInv
<1>4. ASSUME NEW t \in Live(Nodes') PROVE t \in Handle
  <2>1. arena'.nodes \in Seq(NodeType) /\ Len(arena'.nodes) <= MaxHandle
    BY DEF ShapeInv, ArenaInv, ArenaOK, Arenas
  <2>2. QED
    BY <1>4, <2>1, ArenaAssumption DEF Nodes, Live, Handle
<1>5. QED
  BY <1>1, <1>3, <1>4 DEF CacheInv

StoreIInv == ShapeInv /\ StoreInv /\ WeakInv /\ CacheInv

LEMMA StoreInit == ASSUME Init PROVE StoreIInv
<1>1. ArenaOK(arena) /\ arena.nodes = <<>> /\ Len(arena.nodes) = 0
  <2>1. arena.nodes = <<>> /\ arena.slots = NoIndex /\ arena.sharing = TRUE /\ arena.nextSymbol = 1
    BY DEF Init, NewArena
  <2>2. Len(arena.nodes) = 0 /\ Live(arena.nodes) = {}
    BY <2>1 DEF Live
  <2>3. arena \in Arenas
    <3>1. NoIndex \in Indices /\ <<>> \in Seq(NodeType) /\ 1 \in 1 .. MaxSymbol
      BY ArenaAssumption DEF Indices
    <3>2. QED
      BY <3>1 DEF Init, NewArena, Arenas
  <2>4. IndexOK(arena.nodes, arena.slots, Len(arena.nodes))
    BY <2>1 DEF IndexOK
  <2>5. QED
    BY <2>1, <2>2, <2>3, <2>4, ArenaAssumption DEF ArenaOK
<1>2. definitions = <<>> /\ signatures = <<>> /\ facts = <<>> /\ error = "none" /\ checkpoint = NoCheckpoint
  BY DEF Init
<1>3. TableInv
  <2>1. PICK D, S, F : D = [symbol : Symbols, value : Handles, type : Handles] /\ S = Signatures /\ F = Facts
    OBVIOUS
  <2>2. <<>> \in Seq(D) /\ <<>> \in Seq(S) /\ <<>> \in Seq(F) /\ Len(<<>>) = 0
    OBVIOUS
  <2>3. QED
    BY <1>2, <2>1, <2>2, StoreAssumption DEF TableInv, DefinitionTable
<1>4. checkpoint.count = 0 /\ RecallInv
  <2>1. /\ NoCheckpoint.count = 0 /\ NoCheckpoint.definitions = 0 /\ NoCheckpoint.facts = 0
        /\ NoCheckpoint.signatures = <<>>
        /\ NoCheckpoint \in [count : Nat, definitions : Nat, signatures : Seq(Recalled), facts : Nat]
    BY DEF NoCheckpoint
  <2>2. Len(<<>>) = 0 /\ \A s \in 1 .. 0 : FALSE
    OBVIOUS
  <2>3. QED
    BY <1>2, <2>1, <2>2 DEF RecallInv
<1>5. ArenaInv
  BY <1>1, <1>4 DEF ArenaInv
<1>6. StoreInv
  <2>1. DOMAIN definitions = {} /\ DOMAIN signatures = {} /\ DOMAIN facts = {}
    BY <1>2
  <2>2. ~ Open
    BY <1>4 DEF Open
  <2>3. QED
    BY <2>1, <2>2 DEF StoreInv, StoreOK
<1>7. \A t \in Handle : weak[t] = 0
  BY DEF Init
<1>8. weak \in [Handle -> Handles]
  BY ArenaAssumption DEF Init, Handles
<1>9. WeakInv
  BY <1>7, <1>8 DEF WeakInv
<1>10. CacheInv
  <2>1. Live(Nodes) = {}
    BY <1>1 DEF Nodes, Live
  <2>2. QED
    BY <2>1 DEF CacheInv
<1>11. QED
  BY <1>3, <1>4, <1>5, <1>6, <1>9, <1>10 DEF StoreIInv, ShapeInv

LEMMA StoreStep == ASSUME StoreIInv, [Next]_vars PROVE StoreIInv'
<1>1. ShapeInv /\ StoreInv /\ WeakInv /\ CacheInv
  BY DEF StoreIInv
<1>2. CASE Term \/ FreshSymbol \/ SetOptimizations \/ Judge \/ Define \/ Lookup
             \/ SignatureBegin \/ SignatureConstructor \/ SignatureClose
  <2>1. ShapeInv' /\ StoreInv' /\ Grows(arena, arena')
    BY <1>1, <1>2, TermKeeps, FreshSymbolKeeps, SetOptimizationsKeeps, JudgeKeeps, DefineKeeps, LookupKeeps, SignatureBeginKeeps,
       SignatureConstructorKeeps, SignatureCloseKeeps
  <2>2. WeakInv' /\ CacheInv'
    BY <1>1, <1>2, <2>1, DefinitionsKept, CachesKept
  <2>3. QED
    BY <2>1, <2>2 DEF StoreIInv
<1>3. CASE Refuse \/ ClearError \/ CommitRefused \/ Checkpoint
  <2>1. ShapeInv' /\ StoreInv'
    BY <1>1, <1>3, ErrorKeeps, CheckpointKeeps
  <2>2. arena' = arena /\ weak' = weak /\ definitions' = definitions
    BY <1>3 DEF Refuse, ClearError, CommitRefused, Checkpoint
  <2>3. Grows(arena, arena')
    BY <1>1, <2>2, GrowsNot DEF ShapeInv, ArenaInv
  <2>4. WeakInv' /\ CacheInv'
    BY <1>1, <2>2, <2>3, CachesKept
  <2>5. QED
    BY <2>1, <2>4 DEF StoreIInv
<1>4. CASE Whnf
  BY <1>1, <1>4, ErrorKeeps, WhnfKeepsCaches DEF StoreIInv
<1>5. CASE Rollback
  <2>1. ShapeInv' /\ StoreInv'
    BY <1>1, <1>5, RollbackKeeps
  <2>2. WeakInv' /\ CacheInv'
    BY <1>1, <1>5, <2>1, CachesCleared DEF Rollback
  <2>3. QED
    BY <2>1, <2>2 DEF StoreIInv
<1>6. CASE Commit
  <2>1. ShapeInv' /\ StoreInv'
    BY <1>1, <1>6, CommitKeeps
  <2>2. WeakInv' /\ CacheInv'
    BY <1>1, <1>6, <2>1, CachesCleared DEF Commit
  <2>3. QED
    BY <2>1, <2>2 DEF StoreIInv
<1>7. CASE UNCHANGED vars
  <2>1. /\ arena' = arena /\ error' = error /\ definitions' = definitions /\ signatures' = signatures
        /\ facts' = facts /\ weak' = weak /\ checkpoint' = checkpoint
    BY <1>7 DEF vars
  <2>2. UNCHANGED tables
    BY <2>1 DEF tables
  <2>3. Grows(arena, arena') /\ error' \in {"none", "other", "resource"}
    BY <1>1, <2>1, GrowsNot DEF ShapeInv, ArenaInv, TableInv
  <2>4. ShapeInv' /\ StoreInv'
    BY <1>1, <2>1, <2>2, <2>3, NothingAdded, CallKeeps DEF ShapeInv
  <2>5. WeakInv' /\ CacheInv'
    BY <1>1, <2>1, <2>3, CachesKept
  <2>6. QED
    BY <2>4, <2>5 DEF StoreIInv
<1>8. QED
  BY <1>2, <1>3, <1>4, <1>5, <1>6, <1>7 DEF Next

-----------------------------------------------------------------------------
(* What the invariant says.                                                *)

LEMMA IndexFinds == ASSUME StoreIInv PROVE IndexComplete
<1>1. ArenaOK(arena)
  BY DEF StoreIInv, ShapeInv, ArenaInv
<1>2. Nodes = arena.nodes /\ Nodes \in Seq(NodeType) /\ Live(Nodes) = 1 .. Len(Nodes)
      /\ \A t \in Live(Nodes) : Nodes[t] \in NodeType
  BY <1>1, ArenaShape
<1>3. SUFFICES ASSUME arena.slots # NoIndex
               PROVE  /\ \E s \in DOMAIN arena.slots : arena.slots[s] = 0
                      /\ \A h \in Live(Nodes) : FindIn(Nodes, arena.slots, KeyOf(Nodes[h])) # 0
  BY DEF IndexComplete
<1>4. PICK c \in Nat \ {0} : /\ arena.slots \in Slots(c)
                            /\ \E z \in 0 .. c - 1 : arena.slots[z] = 0
                            /\ \A t \in 1 .. Len(Nodes) : Reaches(arena.slots, KeyOf(Nodes[t]), t)
  BY <1>1, <1>2, <1>3 DEF ArenaOK, IndexOK
<1>5. PICK z \in 0 .. c - 1 : arena.slots[z] = 0
  BY <1>4
<1>6. ASSUME NEW h \in Live(Nodes) PROVE FindIn(Nodes, arena.slots, KeyOf(Nodes[h])) # 0
  <2>1. PICK key : key = KeyOf(Nodes[h])
    OBVIOUS
  <2>2. Hash(key) \in Nat
    BY <1>2, <2>1, KeyShape
  <2>3. Reaches(arena.slots, key, h)
    BY <1>2, <1>4, <2>1
  <2>4. PICK slots \in Slots(c) : slots = arena.slots
    BY <1>4
  <2>5. FindIn(Nodes, slots, key) # 0
    BY <1>5, <2>1, <2>2, <2>3, <2>4, Finds
  <2>6. QED
    BY <2>1, <2>4, <2>5
<1>7. DOMAIN arena.slots = 0 .. c - 1
  BY <1>4 DEF Slots
<1>8. QED
  BY <1>5, <1>6, <1>7

LEMMA SymbolsFresh == ASSUME StoreIInv PROVE FreshUnused
BY DEF StoreIInv, ShapeInv, ArenaInv, ArenaOK, FreshUnused, Nodes, Kind

LEMMA JudgedStands ==
  ASSUME StoreIInv, NEW t \in Judged PROVE Stands(Nodes, Len(Nodes), definitions, signatures, t)
<1>1. StoreOK(Nodes, Len(Nodes), definitions, signatures, facts)
  BY DEF StoreIInv, StoreInv
<1>2. CASE t \in DefinitionTerms(DOMAIN definitions)
  <2>1. PICK d \in DOMAIN definitions : t \in {definitions[d].value, definitions[d].type}
    BY <1>2 DEF DefinitionTerms
  <2>2. DefinitionStands(Nodes, Len(Nodes), definitions, signatures, d)
    BY <1>1 DEF StoreOK
  <2>3. QED
    BY <2>1, <2>2 DEF DefinitionStands
<1>3. CASE t \in SignatureTerms
  <2>1. PICK s \in DOMAIN signatures :
          t \in {signatures[s].former} \cup {c.type : c \in ToSet(signatures[s].constructors)}
    BY <1>3 DEF SignatureTerms
  <2>2. CASE t = signatures[s].former
    BY <1>1, <2>2 DEF StoreOK
  <2>3. CASE t # signatures[s].former
    <3>1. PICK c \in ToSet(signatures[s].constructors) : t = c.type
      BY <2>1, <2>3
    <3>2. PICK i \in DOMAIN signatures[s].constructors : c = signatures[s].constructors[i]
      BY DEF ToSet
    <3>3. QED
      BY <1>1, <3>1, <3>2 DEF StoreOK
  <2>4. QED
    BY <2>2, <2>3
<1>4. CASE t \in {facts[i].term : i \in Typings} \cup {facts[i].type : i \in DOMAIN facts}
  <2>1. PICK i \in DOMAIN facts : t = facts[i].type \/ (t = facts[i].term /\ facts[i].kind = "typing")
    BY <1>4 DEF Typings
  <2>2. FactStands(Nodes, Len(Nodes), definitions, signatures, facts[i])
    BY <1>1 DEF StoreOK
  <2>3. QED
    BY <2>1, <2>2 DEF FactStands
<1>5. QED
  BY <1>2, <1>3, <1>4 DEF Judged

LEMMA NothingDangles == ASSUME StoreIInv PROVE NoDangling
<1>1. StoreOK(Nodes, Len(Nodes), definitions, signatures, facts)
  BY DEF StoreIInv, StoreInv
<1>2. \A h \in Live(Nodes) : \A c \in Children(Nodes[h]) : c < h
  BY DEF StoreIInv, ShapeInv, ArenaInv, ArenaOK, Nodes
<1>3. Recorded \subseteq Live(Nodes)
  <2>1. \A t \in Judged : t \in Live(Nodes)
    BY JudgedStands DEF Stands, Live
  <2>2. ASSUME NEW i \in DOMAIN facts PROVE facts[i].term \in Live(Nodes)
    <3>1. FactStands(Nodes, Len(Nodes), definitions, signatures, facts[i])
      BY <1>1 DEF StoreOK
    <3>2. QED
      BY <3>1 DEF FactStands, Live
  <2>3. QED
    BY <2>1, <2>2 DEF Recorded
<1>4. \A t \in Handle : weak[t] # 0 => t \in Live(Nodes) /\ weak[t] \in Live(Nodes)
  BY DEF StoreIInv, WeakInv
<1>5. ASSUME NEW t \in Judged, NEW r \in References(Nodes, t)
      PROVE  \/ r[1] = "DEFREF" /\ r[2] \in DOMAIN definitions
             \/ r[1] = "SORT" /\ r[2] \in DOMAIN signatures /\ signatures[r[2]].admitted
  <2>1. r \in RegisteredIn(definitions, signatures)
    BY <1>5, JudgedStands DEF Stands
  <2>2. QED
    BY <2>1 DEF RegisteredIn
<1>6. ASSUME NEW i \in DOMAIN facts \ Typings PROVE Nodes[facts[i].term].payload \in DOMAIN signatures
  <2>1. FactStands(Nodes, Len(Nodes), definitions, signatures, facts[i]) /\ facts[i].kind # "typing"
    BY <1>1 DEF StoreOK, Typings
  <2>2. QED
    BY <2>1 DEF FactStands
<1>7. ASSUME NEW d \in DOMAIN definitions, NEW t \in {definitions[d].value, definitions[d].type}
      PROVE  \A r \in References(Nodes, t) : r[1] = "DEFREF" => r[2] < d
  <2>1. DefinitionStands(Nodes, Len(Nodes), definitions, signatures, d)
    BY <1>1 DEF StoreOK
  <2>2. QED
    BY <1>7, <2>1 DEF DefinitionStands
<1>8. ReferencesRegistered
  BY <1>5, <1>6, <1>7 DEF ReferencesRegistered
<1>9. QED
  BY <1>2, <1>3, <1>4, <1>8 DEF NoDangling

LEMMA CachesTrue == ASSUME StoreIInv PROVE CacheTruth
BY Heads DEF StoreIInv, CacheTruth

LEMMA StoreSafe == Spec => []StoreIInv
<1>1. Init => StoreIInv
  BY StoreInit
<1>2. StoreIInv /\ [Next]_vars => StoreIInv'
  BY StoreStep
<1>3. QED
  BY <1>1, <1>2, PTL DEF Spec

-----------------------------------------------------------------------------
(* The trees that handles stand for.                                       *)

Treed(f, nodes, S) ==
  [h \in S \cup {0} |->
     IF h = 0 THEN <<>> ELSE <<nodes[h].kind, nodes[h].payload, f[nodes[h].child[1]], f[nodes[h].child[2]]>>]

LEMMA OrderedChild ==
  ASSUME NEW nodes, Ordered(nodes), NEW h \in Live(nodes), NEW i \in {1, 2}
  PROVE  nodes[h].child[i] \in 0 .. h - 1 /\ h \in Nat /\ h > 0
<1>1. Live(nodes) = 1 .. Len(nodes) /\ Len(nodes) \in Nat /\ Children(nodes[h]) \subseteq 1 .. h - 1
  BY OrderedChildren
<1>2. nodes[h].child[i] = 0 \/ nodes[h].child[i] \in Children(nodes[h])
  BY DEF Children
<1>3. QED
  BY <1>1, <1>2

LEMMA TreesExist ==
  ASSUME NEW nodes, Ordered(nodes)
  PROVE  \E f : f = Treed(f, nodes, Live(nodes))
<1>1. PICK n \in Nat : n = Len(nodes) /\ Live(nodes) = 1 .. n
  BY OrderedChildren
<1> DEFINE Good(m) == \E f : f = Treed(f, nodes, 1 .. m)
           G == {m \in Nat : Good(m)}
<1>2. 0 \in G
  <2>1. PICK f : f = [h \in (1 .. 0) \cup {0} |-> <<>>]
    OBVIOUS
  <2>2. f = Treed(f, nodes, 1 .. 0)
    BY <2>1 DEF Treed
  <2>3. QED
    BY <2>2
<1>3. ASSUME NEW i \in Nat, i < n, Good(i) PROVE Good(i + 1)
  <2>1. PICK f : f = Treed(f, nodes, 1 .. i)
    BY <1>3
  <2>2. \A h \in (1 .. i) \cup {0} :
          f[h] = IF h = 0 THEN <<>>
                 ELSE <<nodes[h].kind, nodes[h].payload, f[nodes[h].child[1]], f[nodes[h].child[2]]>>
    BY <2>1 DEF Treed
  <2>3. PICK j : j = i + 1
    OBVIOUS
  <2>4. PICK x : x = <<nodes[j].kind, nodes[j].payload, f[nodes[j].child[1]], f[nodes[j].child[2]]>>
    OBVIOUS
  <2>5. PICK g : g = [h \in (1 .. j) \cup {0} |-> IF h = j THEN x ELSE f[h]]
    OBVIOUS
  <2>6. ASSUME NEW h \in 1 .. j
        PROVE  g[h] = <<nodes[h].kind, nodes[h].payload, g[nodes[h].child[1]], g[nodes[h].child[2]]>>
    <3>1. h \in Live(nodes) /\ h \in Nat /\ h <= j
      BY <1>1, <1>3, <2>3
    <3>2. PICK a \in 0 .. h - 1, b \in 0 .. h - 1 : a = nodes[h].child[1] /\ b = nodes[h].child[2]
      BY <3>1, OrderedChild
    <3>3. g[a] = f[a] /\ g[b] = f[b]
      BY <2>3, <2>5, <3>1, <3>2
    <3>4. CASE h = j
      <4>1. g[h] = x
        BY <2>5, <3>4
      <4>2. QED
        BY <2>4, <3>2, <3>3, <3>4, <4>1
    <3>5. CASE h # j
      <4>1. h \in 1 .. i /\ h # 0
        BY <2>3, <3>5
      <4>2. g[h] = f[h]
        BY <2>5, <3>5
      <4>3. f[h] = <<nodes[h].kind, nodes[h].payload, f[a], f[b]>>
        BY <2>2, <3>2, <4>1
      <4>4. QED
        BY <3>2, <3>3, <4>2, <4>3
    <3>6. QED
      BY <3>4, <3>5
  <2>7. g[0] = <<>>
    <3>1. 0 # j
      BY <2>3
    <3>2. f[0] = <<>>
      BY <2>2
    <3>3. QED
      BY <2>5, <3>1, <3>2
  <2>8. g = [h \in (1 .. j) \cup {0} |->
               IF h = 0 THEN <<>>
               ELSE <<nodes[h].kind, nodes[h].payload, g[nodes[h].child[1]], g[nodes[h].child[2]]>>]
    <3>1. PICK k : k = [h \in (1 .. j) \cup {0} |->
               IF h = 0 THEN <<>>
               ELSE <<nodes[h].kind, nodes[h].payload, g[nodes[h].child[1]], g[nodes[h].child[2]]>>]
      OBVIOUS
    <3>2. \A h \in (1 .. j) \cup {0} : g[h] = k[h]
      BY <2>6, <2>7, <3>1
    <3>3. g = [h \in (1 .. j) \cup {0} |-> g[h]] /\ k = [h \in (1 .. j) \cup {0} |-> k[h]]
      BY <2>5, <3>1
    <3>4. QED
      BY <3>1, <3>2, <3>3
  <2>9. g = Treed(g, nodes, 1 .. j)
    BY <2>8 DEF Treed
  <2>10. QED
    BY <2>3, <2>9
<1>4. \A i \in Nat : i < n /\ i \in G => i + 1 \in G
  BY <1>3
<1>5. G \in SUBSET Nat /\ n \in 0 .. n
  OBVIOUS
<1> HIDE DEF G, Good
<1>6. n \in G
  BY <1>2, <1>4, <1>5, UpTo
<1>7. QED
  BY <1>1, <1>6 DEF G, Good

LEMMA Trees ==
  ASSUME NEW nodes, Ordered(nodes)
  PROVE  /\ Tree(nodes, 0) = <<>>
         /\ \A t \in Live(nodes) :
              Tree(nodes, t) = <<nodes[t].kind, nodes[t].payload,
                                 Tree(nodes, nodes[t].child[1]), Tree(nodes, nodes[t].child[2])>>
<1>1. PICK g : g = CHOOSE f : f = Treed(f, nodes, Live(nodes))
  OBVIOUS
<1>2. g = Treed(g, nodes, Live(nodes))
  BY <1>1, TreesExist
<1>3. ASSUME NEW t PROVE Tree(nodes, t) = g[t]
  BY <1>1 DEF Tree, Treed
<1>4. g[0] = <<>>
  BY <1>2 DEF Treed
<1>5. ASSUME NEW t \in Live(nodes)
      PROVE  g[t] = <<nodes[t].kind, nodes[t].payload, g[nodes[t].child[1]], g[nodes[t].child[2]]>>
  <2>1. t # 0
    BY OrderedChild
  <2>2. QED
    BY <1>2, <2>1 DEF Treed
<1>6. QED
  BY <1>3, <1>4, <1>5

(* Nodes mapped to nodes of the same kind and payload, whose children are  *)
(* what theirs are mapped to, stand for the same tree.                     *)
Copies(m, D, nodes, other) ==
  /\ D \in SUBSET Live(nodes) /\ m[0] = 0 /\ \A t \in D : m[t] \in Live(other)
  /\ \A t \in D : /\ \A i \in {1, 2} : nodes[t].child[i] \in D \cup {0}
                  /\ other[m[t]].kind = nodes[t].kind /\ other[m[t]].payload = nodes[t].payload
                  /\ \A i \in {1, 2} : other[m[t]].child[i] = m[nodes[t].child[i]]

LEMMA SameTrees ==
  ASSUME NEW nodes, Ordered(nodes), NEW other, Ordered(other), NEW D, NEW m, Copies(m, D, nodes, other)
  PROVE  \A t \in D : Tree(other, m[t]) = Tree(nodes, t)
<1>0. /\ D \in SUBSET Live(nodes) /\ m[0] = 0 /\ \A t \in D : m[t] \in Live(other)
      /\ \A t \in D : /\ \A i \in {1, 2} : nodes[t].child[i] \in D \cup {0}
                      /\ other[m[t]].kind = nodes[t].kind /\ other[m[t]].payload = nodes[t].payload
                      /\ \A i \in {1, 2} : other[m[t]].child[i] = m[nodes[t].child[i]]
  BY DEF Copies
<1> DEFINE Bad == {t \in D : Tree(other, m[t]) # Tree(nodes, t)}
<1>1. SUFFICES ASSUME Bad # {} PROVE FALSE
  OBVIOUS
<1>2. PICK t \in Bad : \A u \in Bad : t <= u
  <2>1. Bad \in SUBSET Nat
    BY <1>0, OrderedChildren
  <2> HIDE DEF Bad
  <2>2. QED
    BY <1>1, <2>1, LeastNat, Zenon
<1>3. t \in D /\ m[t] \in Live(other) /\ t \in Live(nodes)
  BY <1>0, <1>2
<1>4. ASSUME NEW i \in {1, 2} PROVE Tree(other, m[nodes[t].child[i]]) = Tree(nodes, nodes[t].child[i])
  <2>1. PICK c \in D \cup {0} : c = nodes[t].child[i]
    BY <1>0, <1>3
  <2>2. c \in 0 .. t - 1 /\ t \in Nat
    BY <1>3, <2>1, OrderedChild
  <2>3. CASE c = 0
    BY <1>0, <2>1, <2>3, Trees
  <2>4. CASE c # 0
    <3>1. c \in D /\ ~ (t <= c)
      BY <2>1, <2>2, <2>4
    <3>2. c \notin Bad
      BY <1>2, <3>1
    <3>3. QED
      BY <2>1, <3>1, <3>2
  <2>5. QED
    BY <2>3, <2>4
<1>5. PICK h, a, b : h = m[t] /\ a = nodes[t].child[1] /\ b = nodes[t].child[2]
  OBVIOUS
<1>6. Tree(other, h) = <<other[h].kind, other[h].payload, Tree(other, other[h].child[1]), Tree(other, other[h].child[2])>>
  BY <1>3, <1>5, Trees
<1>7. Tree(nodes, t) = <<nodes[t].kind, nodes[t].payload, Tree(nodes, a), Tree(nodes, b)>>
  BY <1>3, <1>5, Trees
<1>8. /\ other[h].kind = nodes[t].kind /\ other[h].payload = nodes[t].payload
      /\ other[h].child[1] = m[a] /\ other[h].child[2] = m[b]
  BY <1>0, <1>3, <1>5
<1>9. Tree(other, m[a]) = Tree(nodes, a) /\ Tree(other, m[b]) = Tree(nodes, b)
  BY <1>4, <1>5
<1>10. QED
  BY <1>2, <1>5, <1>6, <1>7, <1>8, <1>9

(* Nodes that two arenas share stand for the same.                         *)
LEMMA SharedTrees ==
  ASSUME NEW nodes, Ordered(nodes), NEW other, Ordered(other), NEW n \in Nat, n <= Len(nodes), n <= Len(other),
         \A t \in 1 .. n : other[t] = nodes[t]
  PROVE  \A t \in 1 .. n : Tree(other, t) = Tree(nodes, t)
<1>1. PICK m : m = [t \in 0 .. n |-> t]
  OBVIOUS
<1>2. Live(nodes) = 1 .. Len(nodes) /\ Live(other) = 1 .. Len(other) /\ Len(nodes) \in Nat /\ Len(other) \in Nat
  BY OrderedChildren
<1>3. PICK D : D = 1 .. n
  OBVIOUS
<1>4. D \in SUBSET Live(nodes) /\ m[0] = 0 /\ \A t \in D : m[t] = t /\ m[t] \in Live(other)
  BY <1>1, <1>2, <1>3
<1>5. ASSUME NEW t \in D
      PROVE  /\ \A i \in {1, 2} : nodes[t].child[i] \in D \cup {0}
             /\ other[m[t]].kind = nodes[t].kind /\ other[m[t]].payload = nodes[t].payload
             /\ \A i \in {1, 2} : other[m[t]].child[i] = m[nodes[t].child[i]]
  <2>1. t \in 1 .. n /\ t \in Live(nodes) /\ other[m[t]] = nodes[t]
    BY <1>3, <1>4
  <2>2. ASSUME NEW i \in {1, 2} PROVE nodes[t].child[i] \in D \cup {0} /\ m[nodes[t].child[i]] = nodes[t].child[i]
    <3>1. PICK c \in 0 .. t - 1 : c = nodes[t].child[i]
      BY <2>1, OrderedChild
    <3>2. c \in 0 .. n /\ c \in D \cup {0}
      BY <1>3, <2>1, <3>1
    <3>3. QED
      BY <1>1, <3>1, <3>2
  <2>3. QED
    BY <2>1, <2>2
<1>6. \A t \in D : Tree(other, m[t]) = Tree(nodes, t)
  <2>1. Copies(m, D, nodes, other)
    BY <1>4, <1>5 DEF Copies
  <2>2. QED
    BY <2>1, SameTrees
<1>7. QED
  BY <1>3, <1>4, <1>6

LEMMA CommitTrees ==
  ASSUME Committing, NEW order \in Listings(Survivors), NEW nodes, nodes = Compacted(order), Ordered(nodes)
  PROVE  \A t \in Stay : Tree(nodes, Moved(order, t)) = Tree(Nodes, t)
<1>1. Ordered(Nodes)
  BY ArenaOrdered DEF Committing, Nodes
<1>2. PICK m : m = [t \in Stay \cup {0} |-> Moved(order, t)]
  OBVIOUS
<1>3. PICK D : D = Stay
  OBVIOUS
<1>4. D \in SUBSET Live(Nodes) /\ m[0] = 0 /\ \A t \in D : m[t] = Moved(order, t) /\ m[t] \in Live(nodes)
  BY <1>2, <1>3, Stays, MovedTo, Places
<1>5. ASSUME NEW t \in D
      PROVE  /\ \A i \in {1, 2} : Nodes[t].child[i] \in D \cup {0}
             /\ nodes[m[t]].kind = Nodes[t].kind /\ nodes[m[t]].payload = Nodes[t].payload
             /\ \A i \in {1, 2} : nodes[m[t]].child[i] = m[Nodes[t].child[i]]
  <2>1. \A i \in {1, 2} : Nodes[t].child[i] \in D \cup {0}
    <3>1. Children(Nodes[t]) \subseteq D
      BY <1>3, Stays
    <3>2. QED
      BY <3>1 DEF Children
  <2>2. \A c \in D \cup {0} : m[c] = Moved(order, c)
    BY <1>2, <1>3
  <2>3. PICK h : h = m[t]
    OBVIOUS
  <2>4. /\ nodes[h].kind = Nodes[t].kind /\ nodes[h].payload = Nodes[t].payload
        /\ nodes[h].child[1] = Moved(order, Nodes[t].child[1])
        /\ nodes[h].child[2] = Moved(order, Nodes[t].child[2])
    BY <1>3, <1>4, <2>3, MovedTo
  <2>5. QED
    BY <2>1, <2>2, <2>3, <2>4
<1>6. Copies(m, D, Nodes, nodes)
  BY <1>4, <1>5 DEF Copies
<1>7. \A t \in D : Tree(nodes, m[t]) = Tree(Nodes, t)
  BY <1>1, <1>6, SameTrees
<1>8. QED
  BY <1>3, <1>4, <1>7

-----------------------------------------------------------------------------
(* What a step does to the environment.                                    *)

LEMMA GrowsMeaning ==
  ASSUME ShapeInv, StoreInv, Grows(arena, arena'),
         \A d \in DOMAIN definitions : d \in DOMAIN definitions' /\ definitions'[d] = definitions[d]
  PROVE  \A d \in DOMAIN definitions : Meaning(Nodes', definitions'[d]) = Meaning(Nodes, definitions[d])
<1>1. /\ Ordered(Nodes) /\ Ordered(Nodes') /\ Len(Nodes) \in Nat /\ Len(Nodes') \in Nat
      /\ Len(Nodes) <= Len(Nodes') /\ \A t \in 1 .. Len(Nodes) : Nodes'[t] = Nodes[t]
  BY GrowsOrdered DEF ShapeInv, ArenaInv, Nodes
<1>2. PICK x, y, n : x = Nodes /\ y = Nodes' /\ n = Len(Nodes)
  OBVIOUS
<1>3. \A t \in 1 .. n : Tree(y, t) = Tree(x, t)
  BY <1>1, <1>2, SharedTrees
<1>4. ASSUME NEW d \in DOMAIN definitions
      PROVE  Meaning(Nodes', definitions'[d]) = Meaning(Nodes, definitions[d])
  <2>1. DefinitionStands(Nodes, Len(Nodes), definitions, signatures, d)
    BY DEF StoreInv, StoreOK
  <2>2. definitions[d].value \in 1 .. n /\ definitions[d].type \in 1 .. n
    BY <1>2, <2>1 DEF DefinitionStands, Stands
  <2>3. PICK e : e = definitions[d] /\ e = definitions'[d]
    OBVIOUS
  <2>4. Meaning(y, e) = Meaning(x, e)
    BY <1>3, <2>2, <2>3 DEF Meaning
  <2>5. QED
    BY <1>2, <2>3, <2>4
<1>5. QED
  BY <1>4

LEMMA RollbackMeaning ==
  ASSUME ShapeInv, StoreInv, Rollback
  PROVE  /\ Len(definitions') = checkpoint.definitions
         /\ \A d \in DOMAIN definitions \cap DOMAIN definitions' :
              Meaning(Nodes', definitions'[d]) = Meaning(Nodes, definitions[d])
<1>1. ShapeInv'
  BY RollbackKeeps
<1>2. Open /\ definitions' = DefinitionsThen /\ arena' = [arena EXCEPT !.nodes = SubSeq(@, 1, checkpoint.count - 1)]
  BY DEF Rollback, DefinitionsThen
<1>3. ArenaOK(arena) /\ ArenaOK(arena') /\ checkpoint.count \in 0 .. Len(Nodes) + 1
  BY <1>1 DEF ShapeInv, ArenaInv, Nodes
<1>4. Ordered(Nodes) /\ Len(Nodes) \in Nat /\ Ordered(Nodes') /\ Nodes \in Seq(NodeType)
  BY <1>3, ArenaOrdered, ArenaShape DEF Nodes
<1>5. PICK n \in Nat : n = checkpoint.count - 1 /\ n \in 0 .. Len(Nodes)
  BY <1>2, <1>3, <1>4 DEF Open
<1>6. Nodes' = SubSeq(Nodes, 1, n)
  BY <1>2, <1>3, <1>5 DEF Nodes, ArenaOK, Arenas
<1>7. Len(Nodes') = n /\ \A t \in 1 .. n : Nodes'[t] = Nodes[t]
  <2>1. IsSeq(Nodes)
    BY <1>4, SeqOfSet
  <2>2. QED
    BY <1>5, <1>6, <2>1, PrefixShape
<1>8. PICK x, y : x = Nodes /\ y = Nodes'
  OBVIOUS
<1>9. \A t \in 1 .. n : Tree(y, t) = Tree(x, t)
  BY <1>4, <1>5, <1>7, <1>8, SharedTrees
<1>10. IsSeq(definitions) /\ checkpoint.definitions \in 0 .. Len(definitions)
  <2>1. definitions \in DefinitionTable /\ checkpoint.definitions \in Nat /\ checkpoint.definitions <= Len(definitions)
    BY DEF ShapeInv, TableInv, RecallInv
  <2>2. Len(definitions) \in Nat
    BY <2>1 DEF DefinitionTable
  <2>3. QED
    BY <2>1, <2>2, SeqOfSet DEF DefinitionTable
<1>11. /\ Len(definitions') = checkpoint.definitions
       /\ \A d \in DOMAIN definitions' : definitions'[d] = definitions[d]
  BY <1>2, <1>10, PrefixShape DEF DefinitionsThen
<1>12. ASSUME NEW d \in DOMAIN definitions'
       PROVE  Meaning(Nodes', definitions'[d]) = Meaning(Nodes, definitions[d])
  <2>1. DefinitionStands(Nodes, checkpoint.count - 1, DefinitionsThen, SignaturesThen, d)
    BY <1>2 DEF StoreInv, StoreOK
  <2>2. definitions'[d].value \in 1 .. n /\ definitions'[d].type \in 1 .. n
    BY <1>2, <1>5, <2>1 DEF DefinitionStands, Stands
  <2>3. PICK e : e = definitions'[d] /\ e = definitions[d]
    BY <1>11
  <2>4. Meaning(y, e) = Meaning(x, e)
    BY <1>9, <2>2, <2>3 DEF Meaning
  <2>5. QED
    BY <1>8, <2>3, <2>4
<1>13. QED
  BY <1>11, <1>12

(* A commit moves what the tables name to what stands for the same.        *)
LEMMA CommitMoves ==
  ASSUME ShapeInv, StoreInv, Commit
  PROVE  \E order \in Listings(Survivors) :
           /\ Committing
           /\ Nodes' = Compacted(order) /\ Ordered(Nodes')
           /\ \A t \in Stay : Tree(Nodes', Moved(order, t)) = Tree(Nodes, t)
           /\ definitions' = [d \in DOMAIN definitions |-> MovedDefinition(order, definitions[d])]
           /\ signatures' = [s \in DOMAIN signatures |-> MovedSignature(order, signatures[s])]
           /\ relocation' = [base |-> checkpoint.count, map |-> [t \in New |-> Moved(order, t)]]
<1>1. PICK order \in Listings(Survivors) :
        /\ arena' = [arena EXCEPT !.nodes = Compacted(order), !.slots = Reindexed(Compacted(order))]
        /\ definitions' = [d \in DOMAIN definitions |-> MovedDefinition(order, definitions[d])]
        /\ signatures' = [s \in DOMAIN signatures |-> MovedSignature(order, signatures[s])]
        /\ relocation' = [base |-> checkpoint.count, map |-> [t \in New |-> Moved(order, t)]]
  BY DEF Commit
<1>2. ArenaOK(arena) /\ ShapeInv'
  BY CommitKeeps DEF ShapeInv, ArenaInv
<1>3. Committing
  <2>1. checkpoint.count \in 0 .. Len(Nodes) + 1 /\ checkpoint.count # 0 /\ Len(Nodes) \in Nat
    BY <1>2, ArenaShape DEF ShapeInv, Open, ArenaInv, Nodes, Commit
  <2>2. checkpoint.count \in 1 .. Len(Nodes) + 1
    BY <2>1
  <2>3. QED
    BY <1>2, <2>2 DEF Committing
<1>4. Nodes' = Compacted(order)
  <2>1. PICK nodes, slots : nodes = Compacted(order) /\ slots = Reindexed(Compacted(order))
    OBVIOUS
  <2>2. arena' = [arena EXCEPT !.nodes = nodes, !.slots = slots]
    BY <1>1, <2>1
  <2>3. arena'.nodes = nodes
    BY <1>2, <2>2 DEF ArenaOK, Arenas
  <2>4. QED
    BY <2>1, <2>3 DEF Nodes
<1>5. Ordered(Nodes')
  BY <1>2, ArenaOrdered DEF ShapeInv, ArenaInv, Nodes
<1>6. PICK nodes : nodes = Nodes'
  OBVIOUS
<1>7. \A t \in Stay : Tree(nodes, Moved(order, t)) = Tree(Nodes, t)
  BY <1>3, <1>4, <1>5, <1>6, CommitTrees
<1>8. QED
  BY <1>1, <1>3, <1>4, <1>5, <1>6, <1>7

LEMMA CommitMeaning ==
  ASSUME ShapeInv, StoreInv, Commit
  PROVE  /\ DOMAIN definitions' = DOMAIN definitions
         /\ \A d \in DOMAIN definitions : Meaning(Nodes', definitions'[d]) = Meaning(Nodes, definitions[d])
<1>1. PICK order \in Listings(Survivors) :
        /\ Committing
        /\ \A t \in Stay : Tree(Nodes', Moved(order, t)) = Tree(Nodes, t)
        /\ definitions' = [d \in DOMAIN definitions |-> MovedDefinition(order, definitions[d])]
  BY CommitMoves
<1>2. Open
  BY DEF Commit
<1>3. \A d \in DOMAIN definitions : definitions[d].value \in Stay /\ definitions[d].type \in Stay
  BY <1>1, <1>2, Needed
<1>4. ASSUME NEW d \in DOMAIN definitions
      PROVE  Meaning(Nodes', definitions'[d]) = Meaning(Nodes, definitions[d])
  <2>1. PICK S : S = [symbol : Symbols, value : Handles, type : Handles]
    OBVIOUS
  <2>2. definitions \in Seq(S)
    BY <2>1 DEF ShapeInv, TableInv, DefinitionTable
  <2>3. definitions[d] \in S
    BY <2>2
  <2>4. PICK e : e = definitions[d]
    OBVIOUS
  <2>5. PICK v, t : v = Moved(order, e.value) /\ t = Moved(order, e.type)
    OBVIOUS
  <2>6. definitions'[d] = [e EXCEPT !.value = v, !.type = t]
    BY <1>1, <2>4, <2>5 DEF MovedDefinition
  <2>7. definitions'[d].symbol = e.symbol /\ definitions'[d].value = v /\ definitions'[d].type = t
    BY <2>1, <2>3, <2>4, <2>6
  <2>8. Tree(Nodes', v) = Tree(Nodes, e.value) /\ Tree(Nodes', t) = Tree(Nodes, e.type)
    BY <1>1, <1>3, <2>4, <2>5
  <2>9. QED
    BY <2>4, <2>7, <2>8 DEF Meaning
<1>5. QED
  BY <1>1, <1>4

(* What no step but a rollback and a commit does.                          *)
LEMMA OtherSteps ==
  ASSUME StoreIInv, [Next]_vars, ~ Rollback, ~ Commit
  PROVE  /\ Grows(arena, arena')
         /\ \A d \in DOMAIN definitions : d \in DOMAIN definitions' /\ definitions'[d] = definitions[d]
         /\ Open => Open'
<1>1. ShapeInv /\ StoreInv /\ ArenaOK(arena)
  BY DEF StoreIInv, ShapeInv, ArenaInv
<1>2. CASE Term \/ FreshSymbol \/ SetOptimizations \/ Judge \/ Define \/ Lookup
             \/ SignatureBegin \/ SignatureConstructor \/ SignatureClose
  <2>1. Grows(arena, arena')
    BY <1>1, <1>2, TermKeeps, FreshSymbolKeeps, SetOptimizationsKeeps, JudgeKeeps, DefineKeeps, LookupKeeps, SignatureBeginKeeps,
       SignatureConstructorKeeps, SignatureCloseKeeps
  <2>2. checkpoint' = checkpoint
    BY <1>2 DEF Term, FreshSymbol, SetOptimizations, Judge, Define, Lookup, SignatureBegin,
       SignatureConstructor, SignatureClose
  <2>3. QED
    BY <1>1, <1>2, <2>1, <2>2, DefinitionsKept DEF Open
<1>3. CASE Refuse \/ ClearError \/ Whnf \/ CommitRefused \/ UNCHANGED vars
  <2>1. arena' = arena /\ definitions' = definitions /\ checkpoint' = checkpoint
    BY <1>3 DEF Refuse, ClearError, Whnf, CommitRefused, vars
  <2>2. QED
    BY <1>1, <2>1, GrowsNot DEF Open
<1>4. CASE Checkpoint
  <2>1. arena' = arena /\ definitions' = definitions /\ checkpoint'.count = Len(Nodes) + 1
    BY <1>4 DEF Checkpoint
  <2>2. Len(Nodes) + 1 # 0
    BY <1>1, ArenaShape
  <2>3. QED
    BY <1>1, <2>1, <2>2, GrowsNot DEF Open
<1>5. QED
  BY <1>2, <1>3, <1>4 DEF Next

LEMMA DefinitionsStep ==
  ASSUME StoreIInv, [Next]_vars
  PROVE  /\ \A d \in DOMAIN definitions \cap DOMAIN definitions' :
              Meaning(Nodes', definitions'[d]) = Meaning(Nodes, definitions[d])
         /\ Len(definitions') < Len(definitions) =>
              Open /\ Len(definitions') = checkpoint.definitions
<1>1. ShapeInv /\ StoreInv /\ ShapeInv'
  BY StoreStep DEF StoreIInv
<1>2. /\ Len(definitions) \in Nat /\ DOMAIN definitions = 1 .. Len(definitions)
      /\ Len(definitions') \in Nat /\ DOMAIN definitions' = 1 .. Len(definitions')
  BY <1>1 DEF ShapeInv, TableInv, DefinitionTable
<1>3. ASSUME DOMAIN definitions \subseteq DOMAIN definitions' PROVE ~ (Len(definitions') < Len(definitions))
  <2>1. CASE Len(definitions) = 0
    BY <1>2, <2>1
  <2>2. CASE Len(definitions) # 0
    <3>1. Len(definitions) \in 1 .. Len(definitions')
      BY <1>2, <1>3, <2>2
    <3>2. QED
      BY <1>2, <3>1
  <2>3. QED
    BY <2>1, <2>2
<1>4. CASE ~ Rollback /\ ~ Commit
  <2>1. /\ Grows(arena, arena')
        /\ \A d \in DOMAIN definitions : d \in DOMAIN definitions' /\ definitions'[d] = definitions[d]
    BY <1>4, OtherSteps
  <2>2. \A d \in DOMAIN definitions : Meaning(Nodes', definitions'[d]) = Meaning(Nodes, definitions[d])
    BY <1>1, <2>1, GrowsMeaning
  <2>3. QED
    BY <1>3, <2>1, <2>2
<1>5. CASE Rollback
  BY <1>1, <1>5, RollbackMeaning DEF Rollback
<1>6. CASE Commit
  BY <1>1, <1>3, <1>6, CommitMeaning
<1>7. QED
  BY <1>4, <1>5, <1>6

LEMMA RelocationStep ==
  ASSUME StoreIInv, [Next]_vars, Open, ~ Open', relocation' # relocation
  PROVE  /\ \A t \in Live(Nodes) :
              /\ Relocated(t)' # 0 => Tree(Nodes', Relocated(t)') = Tree(Nodes, t)
              /\ t < checkpoint.count \/ Kind(t) = "DEFREF" => Relocated(t)' # 0
         /\ \A t, u \in Live(Nodes) : Relocated(t)' = Relocated(u)' => t = u \/ Relocated(t)' = 0
         /\ \A s \in DOMAIN signatures :
              /\ Tree(Nodes', signatures'[s].former) = Tree(Nodes, signatures[s].former)
              /\ \A c \in DOMAIN signatures[s].constructors :
                   Tree(Nodes', signatures'[s].constructors[c].type) =
                     Tree(Nodes, signatures[s].constructors[c].type)
<1>1. ShapeInv /\ StoreInv
  BY DEF StoreIInv
<1>2. Commit
  <2>1. ~ Rollback
    BY DEF Rollback
  <2>2. QED
    BY <2>1, OtherSteps
<1>3. PICK order \in Listings(Survivors) :
        /\ Committing
        /\ Nodes' = Compacted(order) /\ Ordered(Nodes')
        /\ \A t \in Stay : Tree(Nodes', Moved(order, t)) = Tree(Nodes, t)
        /\ signatures' = [s \in DOMAIN signatures |-> MovedSignature(order, signatures[s])]
        /\ relocation' = [base |-> checkpoint.count, map |-> [t \in New |-> Moved(order, t)]]
  BY <1>1, <1>2, CommitMoves
<1>4. /\ checkpoint.count \in Nat /\ checkpoint.count >= 1 /\ Len(Nodes) \in Nat /\ Live(Nodes) = 1 .. Len(Nodes)
      /\ New = checkpoint.count .. Len(Nodes)
  BY <1>1, <1>3, ArenaShape DEF ShapeInv, RecallInv, ArenaInv, Committing, New
<1>5. ASSUME NEW t \in Live(Nodes) PROVE Relocated(t)' = Moved(order, t)
  <2>1. relocation'.base = checkpoint.count /\ relocation'.map = [u \in New |-> Moved(order, u)]
    BY <1>3
  <2>2. Relocated(t)' = IF t < relocation'.base THEN t
                        ELSE IF t \in DOMAIN relocation'.map THEN relocation'.map[t] ELSE 0
    BY DEF Relocated
  <2>3. CASE t < checkpoint.count
    <3>1. t \in 1 .. checkpoint.count - 1
      BY <1>4, <2>3
    <3>2. Moved(order, t) = t
      BY <1>3, <3>1, Places
    <3>3. QED
      BY <2>1, <2>2, <2>3, <3>2
  <2>4. CASE ~ (t < checkpoint.count)
    <3>1. t \in New
      BY <1>4, <2>4
    <3>2. QED
      BY <2>1, <2>2, <2>4, <3>1
  <2>5. QED
    BY <2>3, <2>4
<1>6. ASSUME NEW t \in Live(Nodes) PROVE t \in Stay \/ Moved(order, t) = 0
  <2>1. t \in 1 .. checkpoint.count - 1 \/ t \in New
    BY <1>4
  <2>2. QED
    BY <1>3, <2>1, Places DEF Stay
<1>7. /\ \A t \in Stay : Moved(order, t) \in Nat \ {0} /\ t \in Nat
      /\ \A t, u \in Stay : t < u => Moved(order, t) < Moved(order, u)
  <2>1. PICK nodes : nodes = Compacted(order)
    OBVIOUS
  <2>2. \A t \in Stay : Moved(order, t) \in Live(nodes)
    BY <1>3, <2>1, Moves
  <2>3. nodes \in Seq(NodeType)
    BY <1>3, <2>1, Moves
  <2>4. Live(nodes) \subseteq Nat \ {0}
    BY <2>3 DEF Live
  <2>5. \A t, u \in Stay : t < u => Moved(order, t) < Moved(order, u)
    BY <1>3, <2>1, Moves
  <2>6. \A t \in Stay : t \in Nat
    BY <1>3, <1>4, Stays
  <2>7. QED
    BY <2>2, <2>4, <2>5, <2>6
<1>8. ASSUME NEW t \in Live(Nodes)
      PROVE  /\ Moved(order, t) # 0 => Tree(Nodes', Moved(order, t)) = Tree(Nodes, t)
             /\ t < checkpoint.count \/ Kind(t) = "DEFREF" => Moved(order, t) # 0
  <2>1. Moved(order, t) # 0 => Tree(Nodes', Moved(order, t)) = Tree(Nodes, t)
    BY <1>3, <1>6
  <2>2. ASSUME t < checkpoint.count \/ Kind(t) = "DEFREF" PROVE t \in Stay
    <3>1. CASE t < checkpoint.count
      <4>1. t \in 1 .. checkpoint.count - 1
        BY <1>4, <3>1
      <4>2. QED
        BY <4>1 DEF Stay
    <3>2. CASE ~ (t < checkpoint.count)
      <4>1. t \in New /\ t \in ReferenceNodes
        BY <1>4, <2>2, <3>2 DEF ReferenceNodes
      <4>2. t \in Roots \cap New
        BY <4>1 DEF Roots
      <4>3. QED
        BY <4>2, SurvivorsClosed DEF Stay
    <3>3. QED
      BY <3>1, <3>2
  <2>3. QED
    BY <1>7, <2>1, <2>2
<1>9. ASSUME NEW t \in Live(Nodes), NEW u \in Live(Nodes), Moved(order, t) = Moved(order, u), Moved(order, t) # 0
      PROVE  t = u
  <2>1. t \in Stay /\ u \in Stay
    BY <1>6, <1>9
  <2>2. t \in Nat /\ u \in Nat /\ Moved(order, t) \in Nat /\ ~ (t < u) /\ ~ (u < t)
    BY <1>7, <1>9, <2>1
  <2>3. QED
    BY <2>2
<1>10. ASSUME NEW s \in DOMAIN signatures
       PROVE  /\ Tree(Nodes', signatures'[s].former) = Tree(Nodes, signatures[s].former)
              /\ \A c \in DOMAIN signatures[s].constructors :
                   Tree(Nodes', signatures'[s].constructors[c].type) =
                     Tree(Nodes, signatures[s].constructors[c].type)
  <2>1. PICK x : x = signatures[s]
    OBVIOUS
  <2>2. x \in Signatures
    <3>1. PICK S : S = Signatures
      OBVIOUS
    <3>2. signatures \in Seq(S)
      BY <1>1, <3>1 DEF ShapeInv, TableInv
    <3>3. QED
      BY <2>1, <3>1, <3>2
  <2>3. x.former \in Stay /\ \A c \in DOMAIN x.constructors : x.constructors[c].type \in Stay
    BY <1>1, <1>3, <2>1, Needed
  <2>4. \A t \in Stay : Moved(order, t) \in Handles
    <3>1. PICK nodes : nodes = Compacted(order)
      OBVIOUS
    <3>2. nodes \in Seq(NodeType) /\ Len(nodes) <= Len(Nodes) /\ \A t \in Stay : Moved(order, t) \in 1 .. Len(nodes)
      BY <1>3, <3>1, Moves DEF Live
    <3>3. Len(nodes) \in Nat /\ Len(Nodes) <= MaxHandle
      BY <1>1, <3>2, ArenaShape DEF ShapeInv, ArenaInv
    <3>4. QED
      BY <1>4, <3>2, <3>3, ArenaAssumption DEF Handles
  <2>5. /\ MovedSignature(order, x).former = Moved(order, x.former)
        /\ \A c \in DOMAIN x.constructors :
             MovedSignature(order, x).constructors[c].type = Moved(order, x.constructors[c].type)
    BY <2>2, <2>3, <2>4, MovedSignatures
  <2>6. signatures'[s] = MovedSignature(order, x)
    BY <1>3, <2>1
  <2>7. QED
    BY <1>3, <2>1, <2>3, <2>5, <2>6
<1>11. QED
  BY <1>5, <1>8, <1>9, <1>10

-----------------------------------------------------------------------------
(* The theorems.                                                           *)

LEMMA StoreTyped == ASSUME StoreIInv PROVE TypeOK
<1>1. TableInv /\ RecallInv /\ ArenaOK(arena) /\ WeakInv
  BY DEF StoreIInv, ShapeInv, ArenaInv
<1>2. StoreOK(Nodes, Len(Nodes), definitions, signatures, facts)
  BY DEF StoreIInv, StoreInv
<1>3. \A t \in 1 .. Len(Nodes) : t \in Handle
  BY <1>1, ArenaShape, LiveHandles
<1>4. arena.nodes \in Seq(NodeType) /\ Len(arena.nodes) <= MaxHandle /\ arena.sharing \in BOOLEAN
      /\ arena.nextSymbol \in 1 .. MaxSymbol
  BY <1>1 DEF ArenaOK, Arenas
<1>5. definitions \in Seq([symbol : Symbols, value : Handle, type : Handle])
  <2>1. PICK S, T : S = [symbol : Symbols, value : Handles, type : Handles]
                    /\ T = [symbol : Symbols, value : Handle, type : Handle]
    OBVIOUS
  <2>2. definitions \in Seq(S)
    BY <1>1, <2>1 DEF TableInv, DefinitionTable
  <2>3. ASSUME NEW d \in DOMAIN definitions PROVE definitions[d] \in T
    <3>1. PICK e \in S : e = definitions[d]
      BY <2>2
    <3>2. DefinitionStands(Nodes, Len(Nodes), definitions, signatures, d)
      BY <1>2 DEF StoreOK
    <3>3. e.value \in Handle /\ e.type \in Handle
      BY <1>3, <3>1, <3>2 DEF DefinitionStands, Stands
    <3>4. QED
      BY <2>1, <3>1, <3>3
  <2>4. definitions = [d \in 1 .. Len(definitions) |-> definitions[d]] /\ Len(definitions) \in Nat
        /\ \A d \in 1 .. Len(definitions) : definitions[d] \in T
    BY <2>2, <2>3
  <2>5. definitions \in Seq(T)
    BY <2>4
  <2>6. QED
    BY <2>1, <2>5
<1>6. facts \in Seq([kind : {"typing", "signature"}, term : Handle, type : Handle, pending : Nat])
  <2>1. PICK S, T : S = Facts
                    /\ T = [kind : {"typing", "signature"}, term : Handle, type : Handle, pending : Nat]
    OBVIOUS
  <2>2. facts \in Seq(S)
    BY <1>1, <2>1 DEF TableInv
  <2>3. ASSUME NEW i \in DOMAIN facts PROVE facts[i] \in T
    <3>1. PICK f \in S : f = facts[i]
      BY <2>2
    <3>2. FactStands(Nodes, Len(Nodes), definitions, signatures, f)
      BY <1>2, <3>1 DEF StoreOK
    <3>3. f.term \in Handle /\ f.type \in Handle
      BY <1>3, <3>2 DEF FactStands, Stands
    <3>4. QED
      BY <2>1, <3>1, <3>3 DEF Facts
  <2>4. facts = [i \in 1 .. Len(facts) |-> facts[i]] /\ Len(facts) \in Nat
        /\ \A i \in 1 .. Len(facts) : facts[i] \in T
    BY <2>2, <2>3
  <2>5. facts \in Seq(T)
    BY <2>4
  <2>6. QED
    BY <2>1, <2>5
<1>7. error \in {"none", "other", "resource"} /\ checkpoint.count \in Nat
  BY <1>1 DEF TableInv, RecallInv
<1>8. weak \in [Handle -> 0 .. MaxHandle]
  BY <1>1 DEF WeakInv, Handles
<1>9. QED
  BY <1>4, <1>5, <1>6, <1>7, <1>8 DEF TypeOK

(* The parts of the store have their types: what the tables name are       *)
(* handles, and the arena and the counts stay within their bounds.         *)
THEOREM StoreTypesAreCorrect == Spec => []TypeOK
<1>1. StoreIInv => TypeOK
  BY StoreTyped
<1>2. QED
  BY <1>1, StoreSafe, PTL

(* Whenever there is an index, a probe for the syntax of any live node     *)
(* ends, at a node with that syntax: identical syntax is one node while    *)
(* sharing is on (ck_intern, intern_reserve, ck_make), whatever was rolled *)
(* back, compacted or rebuilt.                                             *)
THEOREM TheIndexIsComplete == Spec => []IndexComplete
<1>1. StoreIInv => IndexComplete
  BY IndexFinds
<1>2. QED
  BY <1>1, StoreSafe, PTL

(* What a node, a definition, a signature, a judgement or a cache names is *)
(* live, and what judged syntax names is registered, after any checkpoint, *)
(* rollback or commit (kernel/src/checkpoint.c).                           *)
THEOREM NothingEverDangles == Spec => []NoDangling
<1>1. StoreIInv => NoDangling
  BY NothingDangles
<1>2. QED
  BY <1>1, StoreSafe, PTL

(* A cached weak head is the one that unfolding would find now (ck_whnf,   *)
(* and the caches a rollback and a commit clear).                          *)
THEOREM CachedHeadsAreTrue == Spec => []CacheTruth
<1>1. StoreIInv => CacheTruth
  BY CachesTrue
<1>2. QED
  BY <1>1, StoreSafe, PTL

(* The next symbol to be issued occurs in no live syntax (ck_fresh_symbol, *)
(* ck_make).                                                               *)
THEOREM FreshSymbolsAreUnused == Spec => []FreshUnused
<1>1. StoreIInv => FreshUnused
  BY SymbolsFresh
<1>2. QED
  BY <1>1, StoreSafe, PTL

(* A definition keeps its index, symbol and meaning through every step,    *)
(* unless a rollback takes it back to the checkpoint.                      *)
THEOREM DefinitionsArePermanent == Spec => DefinitionsPermanent
<1>1. StoreIInv /\ [Next]_vars =>
        [/\ \A d \in DOMAIN definitions \cap DOMAIN definitions' :
              Meaning(Nodes', definitions'[d]) = Meaning(Nodes, definitions[d])
         /\ Len(definitions') < Len(definitions) =>
              Open /\ Len(definitions') = checkpoint.definitions]_vars
  BY DefinitionsStep
<1>2. QED
  BY <1>1, StoreSafe, PTL DEF Spec, DefinitionsPermanent

(* The relocation a commit leaves is true of the syntax and of the         *)
(* signatures it moved (cc_kernel_commit_checkpoint, cc_kernel_relocated). *)
THEOREM RelocationsAreFaithful == Spec => RelocationFaithful
<1>1. StoreIInv /\ [Next]_vars =>
        [Open /\ ~ Open' /\ relocation' # relocation =>
           /\ \A t \in Live(Nodes) :
                /\ Relocated(t)' # 0 => Tree(Nodes', Relocated(t)') = Tree(Nodes, t)
                /\ t < checkpoint.count \/ Kind(t) = "DEFREF" => Relocated(t)' # 0
           /\ \A t, u \in Live(Nodes) : Relocated(t)' = Relocated(u)' => t = u \/ Relocated(t)' = 0
           /\ \A s \in DOMAIN signatures :
                /\ Tree(Nodes', signatures'[s].former) = Tree(Nodes, signatures[s].former)
                /\ \A c \in DOMAIN signatures[s].constructors :
                     Tree(Nodes', signatures'[s].constructors[c].type) =
                       Tree(Nodes, signatures[s].constructors[c].type)]_vars
  BY RelocationStep
<1>2. QED
  BY <1>1, StoreSafe, PTL DEF Spec, RelocationFaithful
=============================================================================
