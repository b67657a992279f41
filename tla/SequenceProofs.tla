---------------------------- MODULE SequenceProofs ----------------------------
(***************************************************************************)
(* Sequences of any elements, as the other proofs use them: appending,     *)
(* concatenating and cutting; and what a filter keeps, the elements at the *)
(* positions chosen, each of them, in their order, and none besides.  And  *)
(* the least of some numbers, by which the other proofs induct.            *)
(***************************************************************************)
EXTENDS Filter, FiniteSetTheorems, WellFoundedInduction, TLAPS

IsSeq(s) == \E S : s \in Seq(S)

(* A sequence that begins with another.                                    *)
Extends(s, t) == \A i \in DOMAIN s : i \in DOMAIN t /\ t[i] = s[i]

(* Numbers are well-founded.                                               *)
LEMMA LeastNat == ASSUME NEW T \in SUBSET Nat, T # {} PROVE \E m \in T : \A n \in T : m <= n
<1> DEFINE R == OpToRel(<, Nat)
<1>1. IsWellFoundedOn(R, Nat) BY NatLessThanWellFounded
<1>2. \A x, y \in Nat : y < x => <<y, x>> \in R BY DEF OpToRel
<1> HIDE DEF R
<1>3. PICK m \in T : \A n \in T : ~ (<<n, m>> \in R) BY <1>1, WFMin
<1>4. \A n \in T : ~ (n < m) BY <1>2, <1>3, Zenon
<1> QED BY <1>4

-----------------------------------------------------------------------------
(* Sequences of any elements.                                              *)

(* The shape of a sequence.                                                *)
LEMMA SeqShape ==
  ASSUME NEW s, IsSeq(s)
  PROVE  Len(s) \in Nat /\ DOMAIN s = 1 .. Len(s)
BY DEF IsSeq

(* Typed sequences are sequences.                                          *)
LEMMA SeqOfSet ==
  ASSUME NEW S, NEW s \in Seq(S)
  PROVE  IsSeq(s)
BY DEF IsSeq

(* Appending keeps every element and adds one.                             *)
LEMMA AppendShape ==
  ASSUME NEW s, IsSeq(s), NEW x
  PROVE  /\ IsSeq(Append(s, x)) /\ Extends(s, Append(s, x))
         /\ Len(Append(s, x)) = Len(s) + 1
         /\ DOMAIN Append(s, x) = DOMAIN s \cup {Len(s) + 1}
         /\ Len(s) + 1 \notin DOMAIN s
         /\ Append(s, x)[Len(s) + 1] = x
<1>1. PICK S : s \in Seq(S)
  BY DEF IsSeq
<1>2. s \in Seq(S \cup {x})
  BY <1>1
<1>3. Append(s, x) \in Seq(S \cup {x})
  BY <1>2
<1>4. IsSeq(Append(s, x))
  BY <1>3 DEF IsSeq
<1>5. Len(Append(s, x)) = Len(s) + 1 /\ Append(s, x)[Len(s) + 1] = x
  BY <1>2
<1>6. \A i \in 1 .. Len(s) : Append(s, x)[i] = s[i]
  BY <1>2
<1>7. Len(s) \in Nat /\ DOMAIN s = 1 .. Len(s) /\ DOMAIN Append(s, x) = 1 .. Len(s) + 1
  BY <1>2, <1>3, <1>5
<1>8. QED
  BY <1>4, <1>5, <1>6, <1>7 DEF Extends

(* Concatenating keeps every element and adds the others after them.       *)
LEMMA ConcatShape ==
  ASSUME NEW s, IsSeq(s), NEW t, IsSeq(t)
  PROVE  /\ IsSeq(s \o t) /\ Extends(s, s \o t)
         /\ Len(s \o t) = Len(s) + Len(t)
         /\ \A i \in DOMAIN t : (s \o t)[Len(s) + i] = t[i]
<1>1. PICK S : s \in Seq(S)
  BY DEF IsSeq
<1>2. PICK T : t \in Seq(T)
  BY DEF IsSeq
<1>3. s \in Seq(S \cup T) /\ t \in Seq(S \cup T)
  BY <1>1, <1>2
<1>4. s \o t \in Seq(S \cup T) /\ Len(s \o t) = Len(s) + Len(t)
  BY <1>3
<1>5. IsSeq(s \o t)
  BY <1>4 DEF IsSeq
<1>6. \A i \in 1 .. Len(s) : (s \o t)[i] = s[i]
  BY <1>3
<1>7. \A i \in 1 .. Len(t) : (s \o t)[Len(s) + i] = t[i]
  BY <1>3
<1>8. Len(s) \in Nat /\ Len(t) \in Nat /\ DOMAIN s = 1 .. Len(s) /\ DOMAIN t = 1 .. Len(t)
      /\ DOMAIN (s \o t) = 1 .. Len(s) + Len(t)
  BY <1>3, <1>4
<1>9. QED
  BY <1>4, <1>5, <1>6, <1>7, <1>8 DEF Extends

(* A prefix.                                                               *)
LEMMA PrefixShape ==
  ASSUME NEW s, IsSeq(s), NEW n \in 0 .. Len(s)
  PROVE  /\ IsSeq(SubSeq(s, 1, n)) /\ Len(SubSeq(s, 1, n)) = n
         /\ DOMAIN SubSeq(s, 1, n) = 1 .. n
         /\ \A i \in 1 .. n : SubSeq(s, 1, n)[i] = s[i]
<1>1. PICK S : s \in Seq(S)
  BY DEF IsSeq
<1>2. SubSeq(s, 1, n) \in Seq(S) /\ Len(SubSeq(s, 1, n)) = n
  BY <1>1
<1>3. \A i \in 1 .. n : SubSeq(s, 1, n)[i] = s[i]
  BY <1>1
<1>4. IsSeq(SubSeq(s, 1, n)) /\ DOMAIN SubSeq(s, 1, n) = 1 .. n
  BY <1>2 DEF IsSeq
<1>5. QED
  BY <1>2, <1>3, <1>4

-----------------------------------------------------------------------------
(* Filters.                                                                *)

(* Ranks number the positions: each of 1 .. n is the rank of one of them.  *)
LEMMA Ranks ==
  ASSUME NEW S \in SUBSET Nat, IsFiniteSet(S)
  PROVE  /\ Cardinality(S) \in Nat
         /\ \A p \in S : Rank(S, p) \in 1 .. Cardinality(S)
         /\ \A p, q \in S : p < q <=> Rank(S, p) < Rank(S, q)
         /\ \A k \in 1 .. Cardinality(S) : Nth(S, k) \in S /\ Rank(S, Nth(S, k)) = k
         /\ \A p \in S : Nth(S, Rank(S, p)) = p
<1> DEFINE Upto(p) == {q \in S : q <= p}
           n == Cardinality(S)
<1>1. n \in Nat BY FS_CardinalityType
<1>2. ASSUME NEW p \in S
      PROVE  /\ IsFiniteSet(Upto(p)) /\ Cardinality(Upto(p)) \in 1 .. n
             /\ Rank(S, p) = Cardinality(Upto(p))
  <2>1. Upto(p) \in SUBSET S /\ p \in Upto(p) OBVIOUS
  <2>2. Rank(S, p) = Cardinality(Upto(p)) BY DEF Rank
  <2> HIDE DEF Upto
  <2>3. IsFiniteSet(Upto(p)) /\ Cardinality(Upto(p)) <= n BY <2>1, FS_Subset
  <2>4. Cardinality(Upto(p)) \in Nat BY <2>3, FS_CardinalityType
  <2>5. Cardinality(Upto(p)) # 0 BY <2>1, <2>3, FS_EmptySet
  <2> QED BY <1>1, <2>2, <2>3, <2>4, <2>5
<1>3. ASSUME NEW p \in S, NEW q \in S, p < q PROVE Rank(S, p) < Rank(S, q)
  <2>0. p \in Nat /\ q \in Nat /\ \A x \in S : x \in Nat OBVIOUS
  <2>1. Upto(p) \in SUBSET Upto(q) /\ q \in Upto(q) /\ q \notin Upto(p)
    <3>1. \A x \in S : x <= p => x <= q BY <1>3, <2>0
    <3>2. q <= q /\ ~ (q <= p) BY <1>3, <2>0
    <3> QED BY <3>1, <3>2, Zenon
  <2>2. /\ IsFiniteSet(Upto(p)) /\ IsFiniteSet(Upto(q))
        /\ Cardinality(Upto(p)) \in Nat /\ Cardinality(Upto(q)) \in Nat
    BY <1>2
  <2> HIDE DEF Upto
  <2>3. Cardinality(Upto(p)) <= Cardinality(Upto(q)) BY <2>1, <2>2, FS_Subset
  <2>4. Cardinality(Upto(p)) # Cardinality(Upto(q)) BY <2>1, <2>2, FS_Subset
  <2> QED BY <1>2, <2>2, <2>3, <2>4
<1>4. \A p \in S : Rank(S, p) \in 1 .. n BY <1>2
<1>5. \A p, q \in S : p < q <=> Rank(S, p) < Rank(S, q)
  <2> SUFFICES ASSUME NEW p \in S, NEW q \in S PROVE p < q <=> Rank(S, p) < Rank(S, q) OBVIOUS
  <2>1. Rank(S, p) \in Nat /\ Rank(S, q) \in Nat BY <1>1, <1>4
  <2>2. p \in Nat /\ q \in Nat OBVIOUS
  <2>3. p < q => Rank(S, p) < Rank(S, q) BY <1>3
  <2>4. q < p => Rank(S, q) < Rank(S, p) BY <1>3
  <2>5. q = p => Rank(S, q) = Rank(S, p) OBVIOUS
  <2> QED BY <2>1, <2>2, <2>3, <2>4, <2>5
<1>6. \A p, q \in S : Rank(S, p) = Rank(S, q) => p = q
  <2> SUFFICES ASSUME NEW p \in S, NEW q \in S, Rank(S, p) = Rank(S, q) PROVE p = q OBVIOUS
  <2>1. p \in Nat /\ q \in Nat /\ Rank(S, p) \in Nat BY <1>4
  <2>2. ~ (p < q) /\ ~ (q < p) BY <1>5, <2>1
  <2> QED BY <2>1, <2>2
<1>7. \A k \in 1 .. n : \E p \in S : Rank(S, p) = k
  <2> DEFINE f == [p \in S |-> Rank(S, p)]
  <2>1. f \in Injection(S, 1 .. n) BY <1>4, <1>6 DEF Injection, IsInjective
  <2>2. IsFiniteSet(1 .. n) /\ Cardinality(1 .. n) = n BY <1>1, FS_Interval
  <2> HIDE DEF f
  <2>3. f \in Surjection(S, 1 .. n) BY <2>1, <2>2, FS_Injection
  <2> QED BY <2>3 DEF Surjection, f
<1>8. \A k \in 1 .. n : Nth(S, k) \in S /\ Rank(S, Nth(S, k)) = k BY <1>7 DEF Nth
<1>9. \A p \in S : Nth(S, Rank(S, p)) = p BY <1>4, <1>6, <1>8
<1> QED BY <1>1, <1>5, <1>4, <1>8, <1>9

(* The k-th element kept is at the k-th position.                          *)
LEMMA KeptPlaces ==
  ASSUME NEW T, NEW s \in Seq(T), NEW S \in SUBSET DOMAIN s, NEW g, g = Kept(s, S)
  PROVE  /\ g \in Seq(T)
         /\ \E place \in [DOMAIN g -> S] :
              /\ \A k \in DOMAIN g : g[k] = s[place[k]]
              /\ \A k, l \in DOMAIN g : k < l => place[k] < place[l]
              /\ \A p \in S : \E k \in DOMAIN g : place[k] = p
<1>1. DOMAIN s = 1 .. Len(s) /\ Len(s) \in Nat OBVIOUS
<1>2. IsFiniteSet(S) /\ S \in SUBSET Nat
  <2>1. IsFiniteSet(1 .. Len(s)) BY <1>1, FS_Interval
  <2> QED BY <1>1, <2>1, FS_Subset
<1> DEFINE n == Cardinality(S)
           place == [k \in 1 .. n |-> Nth(S, k)]
<1>3. /\ n \in Nat
      /\ \A k \in 1 .. n : Nth(S, k) \in S /\ Rank(S, Nth(S, k)) = k
      /\ \A p \in S : Rank(S, p) \in 1 .. n /\ Nth(S, Rank(S, p)) = p
      /\ \A p, q \in S : p < q <=> Rank(S, p) < Rank(S, q)
  BY <1>2, Ranks
<1> HIDE DEF n
<1>4. g = [k \in 1 .. n |-> s[Nth(S, k)]] BY DEF Kept, n
<1>5. \A k \in 1 .. n : s[Nth(S, k)] \in T BY <1>3
<1>6. g \in Seq(T) BY <1>3, <1>4, <1>5
<1>7. DOMAIN g = 1 .. n /\ \A k \in 1 .. n : g[k] = s[place[k]] BY <1>4
<1>8. place \in [1 .. n -> S] BY <1>3
<1>9. \A k, l \in 1 .. n : k < l => place[k] < place[l] BY <1>3
<1>10. \A p \in S : \E k \in 1 .. n : place[k] = p BY <1>3
<1> HIDE DEF place
<1>11. SUFFICES \E f \in [DOMAIN g -> S] :
                  /\ \A k \in DOMAIN g : g[k] = s[f[k]]
                  /\ \A k, l \in DOMAIN g : k < l => f[k] < f[l]
                  /\ \A p \in S : \E k \in DOMAIN g : f[k] = p
  BY <1>6
<1>12. place \in [DOMAIN g -> S] BY <1>7, <1>8
<1> WITNESS place \in [DOMAIN g -> S]
<1> QED BY <1>7, <1>9, <1>10

(* The elements kept are those at the positions, each of them once.        *)
LEMMA KeptElements ==
  ASSUME NEW T, NEW s \in Seq(T), NEW S \in SUBSET DOMAIN s, NEW g, g = Kept(s, S)
  PROVE  /\ g \in Seq(T)
         /\ \A k \in DOMAIN g : \E p \in S : g[k] = s[p]
         /\ \A p \in S : \E k \in DOMAIN g : g[k] = s[p]
         /\ \A k, l \in DOMAIN g : k # l => \E p, q \in S : p # q /\ g[k] = s[p] /\ g[l] = s[q]
<1>1. PICK place \in [DOMAIN g -> S] :
        /\ \A k \in DOMAIN g : g[k] = s[place[k]]
        /\ \A k, l \in DOMAIN g : k < l => place[k] < place[l]
        /\ \A p \in S : \E k \in DOMAIN g : place[k] = p
  BY KeptPlaces
<1>2. g \in Seq(T) BY KeptPlaces
<1>3. ASSUME NEW k \in DOMAIN g, NEW l \in DOMAIN g, k # l
      PROVE  \E p, q \in S : p # q /\ g[k] = s[p] /\ g[l] = s[q]
  <2>1. k \in Nat /\ l \in Nat BY <1>2
  <2>2. place[k] \in Nat /\ place[l] \in Nat OBVIOUS
  <2>3. place[k] # place[l] BY <1>1, <1>3, <2>1, <2>2
  <2> QED BY <1>1, <2>3
<1> QED BY <1>1, <1>2, <1>3
===============================================================================
