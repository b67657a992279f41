-------------------------- MODULE JudgementsProofs --------------------------
(***************************************************************************)
(* What module Judgements promises of contexts and definitions, proved for *)
(* every set of symbols, dimensions and definition symbols and for every   *)
(* bound.                                                                  *)
(*                                                                         *)
(* ContextsClosed, FreeInContext and DefinitionsClosed are not inductive:  *)
(* a rollback truncates the entries and the definitions under judgements   *)
(* made before the checkpoint, so one has to know that those name nothing  *)
(* made after it; and an instruction that gives dimensions entries relies  *)
(* on a remembered entry depending on nothing.  JInv says so.              *)
(***************************************************************************)
EXTENDS Judgements, SequenceProofs

Closed(es, C) == \A e \in C : es[e].context \subseteq C

(* What an entry and a judgement keep to, over the entries es and the      *)
(* first n definitions.                                                    *)
EntryOK(es, n, e) ==
  /\ es[e].context \subseteq 1 .. e - 1
  /\ Closed(es, es[e].context)
  /\ es[e].scope = es[e].context \cup {e}
  /\ es[e].free \subseteq NamesOf(es, es[e].context)
  /\ es[e].uses \subseteq 1 .. n
  /\ es[e].kind = "dimension" => es[e].context = {}

FactOK(es, n, f) ==
  /\ f.context \subseteq DOMAIN es
  /\ Closed(es, f.context)
  /\ f.free \subseteq NamesOf(es, f.context)
  /\ f.uses \subseteq 1 .. n

DefinitionOK(d, definition) ==
  /\ definition.free = {}
  /\ definition.uses \subseteq 1 .. d - 1

(* What stood at the checkpoint names nothing made after it.               *)
CheckpointOK ==
  checkpoint.open =>
    /\ checkpoint.facts \in 0 .. Len(facts)
    /\ checkpoint.entries \in 0 .. Len(entries)
    /\ checkpoint.definitions \in 0 .. Len(definitions)
    /\ \A i \in 1 .. checkpoint.facts :
         /\ facts[i].context \subseteq 1 .. checkpoint.entries
         /\ facts[i].uses \subseteq 1 .. checkpoint.definitions
    /\ \A e \in 1 .. checkpoint.entries : entries[e].uses \subseteq 1 .. checkpoint.definitions

JInv ==
  /\ IsSeq(facts) /\ IsSeq(entries) /\ IsSeq(definitions)
  /\ \A e \in DOMAIN entries : EntryOK(entries, Len(definitions), e)
  /\ \A i \in DOMAIN facts : FactOK(entries, Len(definitions), facts[i])
  /\ \A d \in DOMAIN definitions : DefinitionOK(d, definitions[d])
  /\ CheckpointOK

-----------------------------------------------------------------------------
(* Adding entries and definitions disturbs nothing.                        *)

(* The names of a context are those of its entries, wherever they stand.   *)
LEMMA NamesGrow ==
  ASSUME NEW es, NEW fs, Extends(es, fs), NEW C, C \subseteq DOMAIN es
  PROVE  NamesOf(fs, C) = NamesOf(es, C) /\ (Closed(es, C) => Closed(fs, C))
BY DEF NamesOf, Closed, Extends

(* A judgement that is sound stays so.                                     *)
LEMMA FactGrows ==
  ASSUME NEW es, NEW fs, Extends(es, fs), NEW n \in Nat, NEW m \in Nat, n <= m,
         NEW f, FactOK(es, n, f)
  PROVE  FactOK(fs, m, f)
<1>1. NamesOf(fs, f.context) = NamesOf(es, f.context) /\ Closed(fs, f.context)
  BY NamesGrow DEF FactOK
<1>2. f.context \subseteq DOMAIN fs
  BY DEF FactOK, Extends
<1>3. f.uses \subseteq 1 .. m
  BY DEF FactOK
<1>4. QED
  BY <1>1, <1>2, <1>3 DEF FactOK

(* An entry that is sound stays so.                                        *)
LEMMA EntryGrows ==
  ASSUME NEW es, IsSeq(es), NEW fs, Extends(es, fs), NEW n \in Nat, NEW m \in Nat, n <= m,
         NEW e \in DOMAIN es, EntryOK(es, n, e)
  PROVE  EntryOK(fs, m, e)
<1>1. fs[e] = es[e]
  BY DEF Extends
<1>2. es[e].context \subseteq DOMAIN es
  BY SeqShape DEF EntryOK
<1>3. NamesOf(fs, es[e].context) = NamesOf(es, es[e].context) /\ Closed(fs, es[e].context)
  BY <1>2, NamesGrow DEF EntryOK
<1>4. es[e].uses \subseteq 1 .. m
  BY DEF EntryOK
<1>5. QED
  BY <1>1, <1>3, <1>4 DEF EntryOK

(* The names and the closedness of a union.                                *)
LEMMA UnionNames ==
  ASSUME NEW es, NEW C, NEW D
  PROVE  /\ NamesOf(es, C \cup D) = NamesOf(es, C) \cup NamesOf(es, D)
         /\ Closed(es, C) /\ Closed(es, D) => Closed(es, C \cup D)
BY DEF NamesOf, Closed

(* Everything that only adds to the store preserves the invariant, when    *)
(* what it adds is sound.                                                  *)
LEMMA Growth ==
  ASSUME JInv, UNCHANGED checkpoint,
         IsSeq(facts'), IsSeq(entries'), IsSeq(definitions'),
         Extends(facts, facts'), Extends(entries, entries'), Extends(definitions, definitions'),
         \A e \in DOMAIN entries' \ DOMAIN entries : EntryOK(entries', Len(definitions'), e),
         \A i \in DOMAIN facts' \ DOMAIN facts : FactOK(entries', Len(definitions'), facts'[i]),
         \A d \in DOMAIN definitions' \ DOMAIN definitions : DefinitionOK(d, definitions'[d])
  PROVE  JInv'
<1> DEFINE n == Len(definitions)
           m == Len(definitions')
<1>1. /\ n \in Nat /\ m \in Nat
      /\ DOMAIN definitions = 1 .. n /\ DOMAIN definitions' = 1 .. m
      /\ Len(facts) \in Nat /\ DOMAIN facts = 1 .. Len(facts)
      /\ Len(facts') \in Nat /\ DOMAIN facts' = 1 .. Len(facts')
      /\ Len(entries) \in Nat /\ DOMAIN entries = 1 .. Len(entries)
      /\ Len(entries') \in Nat /\ DOMAIN entries' = 1 .. Len(entries')
  BY SeqShape DEF JInv
<1>2. n <= m /\ Len(facts) <= Len(facts') /\ Len(entries) <= Len(entries')
  <2>1. \A i \in 1 .. n : i \in 1 .. m
    BY <1>1 DEF Extends
  <2>2. \A i \in 1 .. Len(facts) : i \in 1 .. Len(facts')
    BY <1>1 DEF Extends
  <2>3. \A i \in 1 .. Len(entries) : i \in 1 .. Len(entries')
    BY <1>1 DEF Extends
  <2>4. n \in 1 .. n \/ n = 0
    BY <1>1
  <2>5. Len(facts) \in 1 .. Len(facts) \/ Len(facts) = 0
    BY <1>1
  <2>6. Len(entries) \in 1 .. Len(entries) \/ Len(entries) = 0
    BY <1>1
  <2>7. QED
    BY <1>1, <2>1, <2>2, <2>3, <2>4, <2>5, <2>6
<1>3. \A e \in DOMAIN entries' : EntryOK(entries', m, e)
  <2>1. SUFFICES ASSUME NEW e \in DOMAIN entries PROVE EntryOK(entries', m, e)
    OBVIOUS
  <2>2. EntryOK(entries, n, e)
    BY DEF JInv
  <2>3. QED
    BY <2>2, <1>1, <1>2, EntryGrows DEF JInv
<1>4. \A i \in DOMAIN facts' : FactOK(entries', m, facts'[i])
  <2>1. SUFFICES ASSUME NEW i \in DOMAIN facts PROVE FactOK(entries', m, facts'[i])
    OBVIOUS
  <2>2. FactOK(entries, n, facts[i]) /\ facts'[i] = facts[i]
    BY DEF JInv, Extends
  <2>3. QED
    BY <2>2, <1>1, <1>2, FactGrows
<1>5. \A d \in DOMAIN definitions' : DefinitionOK(d, definitions'[d])
  BY DEF JInv, Extends
<1>6. CheckpointOK'
  <2>1. SUFFICES ASSUME checkpoint.open PROVE CheckpointOK'
    BY DEF CheckpointOK
  <2>2. /\ checkpoint.facts \in 0 .. Len(facts)
        /\ checkpoint.entries \in 0 .. Len(entries)
        /\ checkpoint.definitions \in 0 .. n
    BY <2>1 DEF JInv, CheckpointOK
  <2>3. \A i \in 1 .. checkpoint.facts : facts'[i] = facts[i]
    BY <1>1, <2>2 DEF Extends
  <2>4. \A e \in 1 .. checkpoint.entries : entries'[e] = entries[e]
    BY <1>1, <2>2 DEF Extends
  <2>5. /\ checkpoint.facts \in 0 .. Len(facts')
        /\ checkpoint.entries \in 0 .. Len(entries')
        /\ checkpoint.definitions \in 0 .. m
    BY <1>1, <1>2, <2>2
  <2>6. QED
    BY <2>1, <2>3, <2>4, <2>5 DEF JInv, CheckpointOK
<1>7. QED
  BY <1>3, <1>4, <1>5, <1>6 DEF JInv

(* ... as when one sound judgement is published, and entries are made.     *)
LEMMA Publishes ==
  ASSUME JInv, NEW f, Publish(f), FactOK(entries', Len(definitions), f),
         IsSeq(entries'), Extends(entries, entries'),
         \A e \in DOMAIN entries' \ DOMAIN entries : EntryOK(entries', Len(definitions), e),
         UNCHANGED <<definitions, checkpoint>>
  PROVE  JInv'
<1>1. facts' = Append(facts, f)
  BY DEF Publish
<1>2. /\ IsSeq(facts') /\ Extends(facts, facts')
      /\ DOMAIN facts' = DOMAIN facts \cup {Len(facts) + 1} /\ facts'[Len(facts) + 1] = f
  BY <1>1, AppendShape DEF JInv
<1>3. \A i \in DOMAIN facts' \ DOMAIN facts : FactOK(entries', Len(definitions'), facts'[i])
  BY <1>2
<1>4. IsSeq(definitions') /\ Extends(definitions, definitions')
  BY DEF JInv, Extends
<1>5. QED
  BY <1>2, <1>3, <1>4, Growth

(* One entry more.                                                         *)
LEMMA AppendEntry ==
  ASSUME NEW es, IsSeq(es), NEW n \in Nat, NEW x,
         x.context \subseteq DOMAIN es, Closed(es, x.context),
         x.scope = x.context \cup {Len(es) + 1}, x.free \subseteq NamesOf(es, x.context),
         x.uses \subseteq 1 .. n, x.kind = "dimension" => x.context = {}
  PROVE  /\ IsSeq(Append(es, x)) /\ Extends(es, Append(es, x))
         /\ DOMAIN Append(es, x) = DOMAIN es \cup {Len(es) + 1}
         /\ Len(es) + 1 \notin DOMAIN es
         /\ Append(es, x)[Len(es) + 1] = x
         /\ EntryOK(Append(es, x), n, Len(es) + 1)
<1> DEFINE fs == Append(es, x)
<1>1. /\ IsSeq(fs) /\ Extends(es, fs)
      /\ DOMAIN fs = DOMAIN es \cup {Len(es) + 1} /\ fs[Len(es) + 1] = x
      /\ Len(es) + 1 \notin DOMAIN es
  BY AppendShape
<1>2. NamesOf(fs, x.context) = NamesOf(es, x.context) /\ Closed(fs, x.context)
  BY <1>1, NamesGrow
<1>3. x.context \subseteq 1 .. (Len(es) + 1) - 1
  BY SeqShape
<1>4. EntryOK(fs, n, Len(es) + 1)
  BY <1>1, <1>2, <1>3 DEF EntryOK
<1>5. QED
  BY <1>1, <1>4

(* The entries instructions make for dimensions.                           *)
LEMMA DimensionsSound ==
  ASSUME JInv, NEW D \in SUBSET Dims, NEW order \in Listings(Missing(D)), NEW n \in Nat
  PROVE  LET es == WithDimensions(order)
             C  == DimensionEntries(order, D)
         IN  /\ IsSeq(es) /\ Extends(entries, es)
             /\ \A e \in DOMAIN es \ DOMAIN entries : EntryOK(es, n, e)
             /\ C \subseteq DOMAIN es
             /\ \A e \in C : es[e].context = {}
             /\ D \subseteq NamesOf(es, C)
<1> DEFINE es   == WithDimensions(order)
           C    == DimensionEntries(order, D)
           made == [i \in DOMAIN order |-> Entry("dimension", order[i], {}, {}, {}, Len(entries) + i)]
<1>1. Cardinality(Missing(D)) \in Nat
  BY JudgementsAssumption, FS_Subset, FS_CardinalityType DEF Missing
<1>2. DOMAIN order = 1 .. Cardinality(Missing(D))
  BY DEF Listings
<1>3. made \in Seq({made[i] : i \in DOMAIN order})
  BY <1>1, <1>2
<1>4. IsSeq(made) /\ DOMAIN made = DOMAIN order /\ Len(made) = Cardinality(Missing(D))
  <2>1. DOMAIN made = 1 .. Cardinality(Missing(D))
    BY <1>2
  <2>2. HIDE DEF made
  <2>3. IsSeq(made)
    BY <1>3, SeqOfSet
  <2>4. QED
    BY <2>1, <2>3, <1>1, <1>2, SeqShape
<1>5. es = entries \o made
  BY DEF WithDimensions
<1>6. /\ IsSeq(es) /\ Extends(entries, es) /\ Len(es) = Len(entries) + Len(made)
      /\ \A i \in DOMAIN order : es[Len(entries) + i] = made[i]
  BY <1>4, <1>5, ConcatShape DEF JInv
<1>7. /\ Len(entries) \in Nat /\ DOMAIN entries = 1 .. Len(entries)
      /\ Len(es) \in Nat /\ DOMAIN es = 1 .. Len(es)
  BY <1>6, SeqShape DEF JInv
<1>8. \A i \in DOMAIN order :
        /\ Len(entries) + i \in DOMAIN es
        /\ es[Len(entries) + i].kind = "dimension" /\ es[Len(entries) + i].name = order[i]
        /\ es[Len(entries) + i].context = {} /\ es[Len(entries) + i].free = {}
        /\ es[Len(entries) + i].uses = {} /\ es[Len(entries) + i].scope = {Len(entries) + i}
  BY <1>1, <1>2, <1>4, <1>6, <1>7 DEF Entry
<1>9. \A e \in DOMAIN es \ DOMAIN entries : EntryOK(es, n, e)
  <2>1. SUFFICES ASSUME NEW e \in DOMAIN es \ DOMAIN entries PROVE EntryOK(es, n, e)
    OBVIOUS
  <2>2. PICK i \in DOMAIN order : e = Len(entries) + i
    <3>1. e - Len(entries) \in 1 .. Len(made) /\ e = Len(entries) + (e - Len(entries))
      BY <1>1, <1>4, <1>6, <1>7
    <3>2. QED
      BY <3>1, <1>2, <1>4
  <2>3. QED
    BY <2>2, <1>8 DEF EntryOK, Closed
<1>10. \A d \in D : \A e \in Remembered(d) :
         /\ e \in DOMAIN es /\ es[e] = entries[e] /\ es[e].context = {}
         /\ es[e].kind = "dimension" /\ es[e].name = d
  BY <1>6 DEF Remembered, JInv, EntryOK, Extends
<1>11. C \subseteq DOMAIN es /\ \A e \in C : es[e].context = {}
  BY <1>8, <1>10 DEF DimensionEntries
<1>12. D \subseteq NamesOf(es, C)
  <2>1. SUFFICES ASSUME NEW d \in D
                 PROVE  \E e \in C : es[e].kind = "dimension" /\ es[e].name = d
    BY DEF NamesOf
  <2>2. CASE Remembered(d) = {}
    <3>1. PICK i \in DOMAIN order : order[i] = d
      BY <2>2 DEF Missing, Listings
    <3>2. Len(entries) + i \in C
      BY DEF DimensionEntries
    <3>3. QED
      BY <3>1, <3>2, <1>8
  <2>3. CASE Remembered(d) # {}
    BY <2>3, <1>10 DEF DimensionEntries
  <2>4. QED
    BY <2>2, <2>3
<1>13. QED
  BY <1>6, <1>9, <1>11, <1>12

(* A context without what it may discharge is closed.                      *)
LEMMA DischargeCloses ==
  ASSUME NEW es, NEW C, NEW R, Closed(es, C), Dischargeable(es, C, R)
  PROVE  Closed(es, C \ R)
BY DEF Closed, Dischargeable

(* Only the discharged entry's name is lost, and a face has none.          *)
LEMMA DischargedNames ==
  ASSUME NEW es, NEW C
  PROVE  /\ \A e : NamesOf(es, C) \ {es[e].name} \subseteq NamesOf(es, C \ {e})
         /\ \A clause : NamesOf(es, C \ Implied(es, C, clause)) = NamesOf(es, C)
BY DEF NamesOf, Implied

(* The scope of an entry is closed, and has its names.                     *)
LEMMA ScopeSound ==
  ASSUME NEW es, IsSeq(es), NEW n, NEW e \in DOMAIN es, EntryOK(es, n, e)
  PROVE  /\ es[e].scope \subseteq DOMAIN es /\ Closed(es, es[e].scope) /\ e \in es[e].scope
         /\ es[e].context \subseteq DOMAIN es
         /\ es[e].free \subseteq NamesOf(es, es[e].scope)
         /\ es[e].kind # "face" => es[e].name \in NamesOf(es, es[e].scope)
BY SeqShape DEF EntryOK, Closed, NamesOf

(* A judgement under the contexts of two, about what they are about.       *)
LEMMA UnionSound ==
  ASSUME NEW es, NEW n, NEW f, FactOK(es, n, f), NEW g, FactOK(es, n, g), NEW h,
         h.context = f.context \cup g.context, h.free \subseteq f.free \cup g.free,
         h.uses \subseteq f.uses \cup g.uses
  PROVE  FactOK(es, n, h)
BY UnionNames DEF FactOK

-----------------------------------------------------------------------------
(* The instructions, one by one.                                           *)

(* A new variable is in the context its type is judged in.                  *)
LEMMA ExtendStep == ASSUME JInv, Extend PROVE JInv'
<1>1. PICK i \in DOMAIN facts, x \in Symbols :
        entries' = Append(entries,
          Entry("term", x, facts[i].free, facts[i].uses, facts[i].context, Len(entries) + 1))
  BY DEF Extend
<1>2. FactOK(entries, Len(definitions), facts[i]) /\ IsSeq(entries) /\ Len(definitions) \in Nat
  BY SeqShape DEF JInv
<1>3. /\ IsSeq(entries') /\ Extends(entries, entries')
      /\ DOMAIN entries' = DOMAIN entries \cup {Len(entries) + 1}
      /\ EntryOK(entries', Len(definitions), Len(entries) + 1)
  BY <1>1, <1>2, AppendEntry DEF FactOK, Entry
<1>4. UNCHANGED <<facts, definitions, checkpoint>>
  BY DEF Extend
<1>5. QED
  BY <1>3, <1>4, Growth DEF JInv, Extends

(* A universe variable depends on nothing.                                  *)
LEMMA LevelStep == ASSUME JInv, Level PROVE JInv'
<1>1. PICK x \in Symbols :
        entries' = Append(entries, Entry("level", x, {}, {}, {}, Len(entries) + 1))
  BY DEF Level
<1>2. IsSeq(entries) /\ Len(definitions) \in Nat
  BY SeqShape DEF JInv
<1>3. /\ IsSeq(entries') /\ Extends(entries, entries')
      /\ DOMAIN entries' = DOMAIN entries \cup {Len(entries) + 1}
      /\ EntryOK(entries', Len(definitions), Len(entries) + 1)
  BY <1>1, <1>2, AppendEntry DEF Closed, Entry
<1>4. UNCHANGED <<facts, definitions, checkpoint>>
  BY DEF Level
<1>5. QED
  BY <1>3, <1>4, Growth DEF JInv, Extends

(* The one dimension of cc_instr_dimension, as a list.                     *)
LEMMA OneDimension ==
  ASSUME NEW d \in Dims, Missing({d}) # {}
  PROVE  <<d>> \in Listings(Missing({d}))
<1>1. Missing({d}) = {d}
  BY DEF Missing
<1>2. Cardinality({d}) = 1
  BY FS_Singleton
<1>3. <<d>> \in [1 .. 1 -> {d}] /\ DOMAIN <<d>> = 1 .. 1 /\ <<d>>[1] = d
  OBVIOUS
<1>4. \A i, j \in 1 .. 1 : ~ i < j
  OBVIOUS
<1>5. <<d>> \in Listings({d})
  BY <1>2, <1>3, <1>4 DEF Listings
<1>6. QED
  BY <1>1, <1>5

(* A dimension depends on nothing.                                          *)
LEMMA DimensionStep == ASSUME JInv, Dimension PROVE JInv'
<1>1. PICK d \in Dims : Missing({d}) # {} /\ entries' = WithDimensions(<<d>>)
  BY DEF Dimension
<1>3. <<d>> \in Listings(Missing({d}))
  BY <1>1, OneDimension
<1>4. Len(definitions) \in Nat
  BY SeqShape DEF JInv
<1>5. /\ IsSeq(entries') /\ Extends(entries, entries')
      /\ \A e \in DOMAIN entries' \ DOMAIN entries : EntryOK(entries', Len(definitions), e)
  <2>1. {d} \in SUBSET Dims
    OBVIOUS
  <2>2. QED
    BY <1>1, <1>3, <1>4, <2>1, DimensionsSound
<1>6. UNCHANGED <<facts, definitions, checkpoint>>
  BY DEF Dimension
<1>7. QED
  BY <1>5, <1>6, Growth DEF JInv, Extends

(* An instruction that makes no entry.                                     *)
LEMMA PublishesOnly ==
  ASSUME JInv, NEW f, Publish(f), OnlyFacts, FactOK(entries, Len(definitions), f)
  PROVE  JInv'
<1>1. UNCHANGED <<entries, definitions, checkpoint>>
  BY DEF OnlyFacts
<1>2. IsSeq(entries') /\ Extends(entries, entries') /\ DOMAIN entries' = DOMAIN entries
  BY <1>1 DEF JInv, Extends
<1>3. FactOK(entries', Len(definitions), f)
  BY <1>1
<1>4. QED
  BY <1>1, <1>2, <1>3, Publishes

(* A constant is closed.                                                    *)
LEMMA ConstantStep == ASSUME JInv, Constant PROVE JInv'
<1> DEFINE f == Fact("typing", By("constant", <<>>, 0, {}), {}, {}, {})
<1>1. Publish(f) /\ OnlyFacts
  BY DEF Constant
<1>2. FactOK(entries, Len(definitions), f)
  BY DEF FactOK, Fact, Closed
<1>3. QED
  BY <1>1, <1>2, PublishesOnly

(* Every variable of a universe's level is in its context.                  *)
LEMMA UniverseStep == ASSUME JInv, Universe PROVE JInv'
<1>1. PICK X \in SUBSET Symbols \ {{}} :
        LET levels == UNION {Named(entries, x) : x \in X}
        IN  /\ \A x \in X : \E e \in Named(entries, x) : entries[e].kind = "level"
            /\ Publish(Fact("typing", By("universe", <<>>, 0, X), X, {},
                            UNION {entries[e].scope : e \in levels}))
  BY DEF Universe
<1> DEFINE levels  == UNION {Named(entries, x) : x \in X}
           context == UNION {entries[e].scope : e \in levels}
           f       == Fact("typing", By("universe", <<>>, 0, X), X, {}, context)
<1>2. \A e \in levels :
        /\ e \in DOMAIN entries
        /\ entries[e].scope \subseteq DOMAIN entries /\ Closed(entries, entries[e].scope)
        /\ e \in entries[e].scope
  <2>1. SUFFICES ASSUME NEW e \in levels
                 PROVE  /\ e \in DOMAIN entries
                        /\ entries[e].scope \subseteq DOMAIN entries
                        /\ Closed(entries, entries[e].scope) /\ e \in entries[e].scope
    OBVIOUS
  <2>2. e \in DOMAIN entries
    BY DEF Named
  <2>3. EntryOK(entries, Len(definitions), e) /\ IsSeq(entries)
    BY <2>2 DEF JInv
  <2>4. QED
    BY <2>2, <2>3, ScopeSound
<1>3. context \subseteq DOMAIN entries /\ Closed(entries, context)
  BY <1>2 DEF Closed
<1>4. X \subseteq NamesOf(entries, context)
  <2>1. SUFFICES ASSUME NEW x \in X PROVE x \in NamesOf(entries, context)
    OBVIOUS
  <2>2. PICK e \in Named(entries, x) : entries[e].kind = "level"
    BY <1>1
  <2>3. e \in context /\ entries[e].name = x
    BY <1>2 DEF Named
  <2>4. QED
    BY <2>2, <2>3 DEF NamesOf
<1>5. FactOK(entries, Len(definitions), f)
  BY <1>3, <1>4 DEF FactOK, Fact
<1>6. Publish(f) /\ OnlyFacts
  BY <1>1 DEF Universe
<1>7. QED
  BY <1>5, <1>6, PublishesOnly

(* A variable brings its entry's scope with it.                             *)
LEMMA VariableStep == ASSUME JInv, Variable PROVE JInv'
<1>1. PICK e \in DOMAIN entries :
        /\ entries[e].kind = "term"
        /\ Publish(Fact("typing", By("variable", <<>>, e, {}),
                        entries[e].free \cup {entries[e].name}, entries[e].uses, entries[e].scope))
  BY DEF Variable
<1> DEFINE f == Fact("typing", By("variable", <<>>, e, {}),
                     entries[e].free \cup {entries[e].name}, entries[e].uses, entries[e].scope)
<1>2. EntryOK(entries, Len(definitions), e) /\ IsSeq(entries)
  BY DEF JInv
<1>3. /\ entries[e].scope \subseteq DOMAIN entries /\ Closed(entries, entries[e].scope)
      /\ entries[e].free \subseteq NamesOf(entries, entries[e].scope)
      /\ entries[e].name \in NamesOf(entries, entries[e].scope)
  BY <1>1, <1>2, ScopeSound
<1>4. FactOK(entries, Len(definitions), f)
  BY <1>2, <1>3 DEF FactOK, Fact, EntryOK
<1>5. OnlyFacts
  BY DEF Variable
<1>6. QED
  BY <1>1, <1>4, <1>5, PublishesOnly

(* What two judgements are about is in the union of their contexts.         *)
LEMMA CombineStep == ASSUME JInv, Combine PROVE JInv'
<1>1. PICK i \in Typings, j \in Typings :
        Publish(Fact("typing", By("combine", <<i, j>>, 0, {}), facts[i].free \cup facts[j].free,
                     facts[i].uses \cup facts[j].uses, facts[i].context \cup facts[j].context))
  BY DEF Combine
<1> DEFINE f == Fact("typing", By("combine", <<i, j>>, 0, {}), facts[i].free \cup facts[j].free,
                     facts[i].uses \cup facts[j].uses, facts[i].context \cup facts[j].context)
<1>2. FactOK(entries, Len(definitions), facts[i]) /\ FactOK(entries, Len(definitions), facts[j])
  BY DEF JInv, Typings
<1>3. FactOK(entries, Len(definitions), f)
  BY <1>2, UnionSound DEF Fact
<1>4. OnlyFacts
  BY DEF Combine
<1>5. QED
  BY <1>1, <1>3, <1>4, PublishesOnly

(* A binder drops one name and keeps what the bound entry's type needs.     *)
LEMMA BindStep == ASSUME JInv, Bind PROVE JInv'
<1>1. PICK i \in Typings, e \in DOMAIN entries :
        /\ Dischargeable(entries, facts[i].context, {e})
        /\ Publish(Fact("typing", By("bind", <<i>>, e, {}),
                        (facts[i].free \ {entries[e].name}) \cup entries[e].free,
                        facts[i].uses \cup entries[e].uses, Under(facts[i].context, e)))
  BY DEF Bind
<1> DEFINE b == facts[i]
           f == Fact("typing", By("bind", <<i>>, e, {}), (b.free \ {entries[e].name}) \cup entries[e].free,
                     b.uses \cup entries[e].uses, Under(b.context, e))
<1>2. FactOK(entries, Len(definitions), b) /\ EntryOK(entries, Len(definitions), e) /\ IsSeq(entries)
  BY DEF JInv, Typings
<1>3. Closed(entries, b.context \ {e}) /\ Closed(entries, entries[e].context)
  BY <1>1, <1>2, DischargeCloses DEF FactOK, EntryOK
<1>4. Closed(entries, Under(b.context, e))
  BY <1>3, UnionNames DEF Under
<1>5. Under(b.context, e) \subseteq DOMAIN entries
  BY <1>2, ScopeSound DEF Under, FactOK
<1>6. b.free \ {entries[e].name} \subseteq NamesOf(entries, b.context \ {e})
  BY <1>2, DischargedNames DEF FactOK
<1>7. (b.free \ {entries[e].name}) \cup entries[e].free \subseteq NamesOf(entries, Under(b.context, e))
  BY <1>2, <1>6, UnionNames DEF Under, EntryOK
<1>8. FactOK(entries, Len(definitions), f)
  BY <1>2, <1>4, <1>5, <1>7 DEF FactOK, EntryOK, Fact
<1>9. OnlyFacts
  BY DEF Bind
<1>10. QED
  BY <1>1, <1>8, <1>9, PublishesOnly

(* A dimension fixed at an endpoint leaves the context with its name.       *)
LEMMA EndpointStep == ASSUME JInv, Endpoint PROVE JInv'
<1>1. PICK i \in Typings, e \in DOMAIN entries, end \in {0, 1} :
        /\ Dischargeable(entries, facts[i].context, {e})
        /\ Publish(Fact("typing", By("endpoint", <<i>>, e, {end}), facts[i].free \ {entries[e].name},
                        facts[i].uses, facts[i].context \ {e}))
  BY DEF Endpoint
<1> DEFINE f == Fact("typing", By("endpoint", <<i>>, e, {end}), facts[i].free \ {entries[e].name},
                     facts[i].uses, facts[i].context \ {e})
<1>2. FactOK(entries, Len(definitions), facts[i])
  BY DEF JInv, Typings
<1>3. /\ Closed(entries, facts[i].context \ {e})
      /\ facts[i].free \ {entries[e].name} \subseteq NamesOf(entries, facts[i].context \ {e})
  BY <1>1, <1>2, DischargeCloses, DischargedNames DEF FactOK
<1>4. FactOK(entries, Len(definitions), f)
  BY <1>2, <1>3 DEF FactOK, Fact
<1>5. OnlyFacts
  BY DEF Endpoint
<1>6. QED
  BY <1>1, <1>4, <1>5, PublishesOnly

(* A context of entries that depend on nothing is closed.                  *)
LEMMA IndependentClosed ==
  ASSUME NEW es, NEW C, \A e \in C : es[e].context = {}
  PROVE  Closed(es, C)
BY DEF Closed

(* The dimensions of a formula have entries before they are used.           *)
LEMMA PathAtStep == ASSUME JInv, PathAt PROVE JInv'
<1>1. PICK i \in Typings, D \in SUBSET Dims : \E order \in Listings(Missing(D)) :
        /\ entries' = WithDimensions(order)
        /\ Publish(Fact("typing", By("path_at", <<i>>, 0, D), facts[i].free \cup D,
                        facts[i].uses, facts[i].context \cup DimensionEntries(order, D)))
  BY DEF PathAt
<1>2. PICK order \in Listings(Missing(D)) :
        /\ entries' = WithDimensions(order)
        /\ Publish(Fact("typing", By("path_at", <<i>>, 0, D), facts[i].free \cup D,
                        facts[i].uses, facts[i].context \cup DimensionEntries(order, D)))
  BY <1>1
<1> DEFINE n == Len(definitions)
           C == DimensionEntries(order, D)
           f == Fact("typing", By("path_at", <<i>>, 0, D), facts[i].free \cup D, facts[i].uses,
                     facts[i].context \cup C)
<1>3. n \in Nat
  BY SeqShape DEF JInv
<1>4. /\ IsSeq(entries') /\ Extends(entries, entries')
      /\ \A e \in DOMAIN entries' \ DOMAIN entries : EntryOK(entries', n, e)
      /\ C \subseteq DOMAIN entries' /\ (\A e \in C : entries'[e].context = {})
      /\ D \subseteq NamesOf(entries', C)
  BY <1>2, <1>3, DimensionsSound
<1>5. FactOK(entries, n, facts[i])
  BY DEF JInv, Typings
<1>6. FactOK(entries', n, facts[i])
  BY <1>3, <1>4, <1>5, FactGrows
<1>7. Closed(entries', C)
  BY <1>4, IndependentClosed
<1>8. Closed(entries', facts[i].context \cup C)
  BY <1>6, <1>7, UnionNames DEF FactOK
<1>9. facts[i].free \cup D \subseteq NamesOf(entries', facts[i].context \cup C)
  BY <1>4, <1>6, UnionNames DEF FactOK
<1>10. FactOK(entries', n, f)
  BY <1>4, <1>6, <1>8, <1>9 DEF FactOK, Fact
<1>11. UNCHANGED <<definitions, checkpoint>>
  BY DEF PathAt
<1>12. QED
  BY <1>2, <1>4, <1>10, <1>11, Publishes

(* A judgement restricted to a clause, once the clause has its entry.      *)
LEMMA RestrictToSound ==
  ASSUME JInv, NEW i \in Typings, NEW clause, NEW es, NEW face \in DOMAIN es,
         RestrictTo(i, clause, es, face), UNCHANGED <<definitions, checkpoint>>,
         IsSeq(es), Extends(entries, es),
         \A e \in DOMAIN es \ DOMAIN entries : EntryOK(es, Len(definitions), e)
  PROVE  JInv'
<1> DEFINE n == Len(definitions)
           f == Fact("typing", By("restrict", <<i>>, 0, clause), facts[i].free \ DimsOf(clause),
                     facts[i].uses, facts[i].context \cup es[face].scope)
<1>1. entries' = es /\ Publish(f)
  BY DEF RestrictTo
<1>2. n \in Nat
  BY SeqShape DEF JInv
<1>3. EntryOK(es, n, face)
  <2>1. CASE face \in DOMAIN entries
    BY <2>1, <1>2, EntryGrows DEF JInv
  <2>2. QED
    BY <2>1
<1>4. es[face].scope \subseteq DOMAIN es /\ Closed(es, es[face].scope)
  BY <1>3, ScopeSound
<1>5. FactOK(es, n, facts[i])
  <2>1. FactOK(entries, n, facts[i])
    BY DEF JInv, Typings
  <2>2. QED
    BY <2>1, <1>2, FactGrows
<1>6. Closed(es, facts[i].context \cup es[face].scope)
  BY <1>4, <1>5, UnionNames DEF FactOK
<1>7. facts[i].free \ DimsOf(clause) \subseteq NamesOf(es, facts[i].context \cup es[face].scope)
  BY <1>5, UnionNames DEF FactOK
<1>8. FactOK(es, n, f)
  BY <1>4, <1>5, <1>6, <1>7 DEF FactOK, Fact
<1>9. QED
  BY <1>1, <1>8, Publishes

(* A restriction to a clause that has a face entry.                         *)
LEMMA RestrictKnownStep == ASSUME JInv, RestrictKnown PROVE JInv'
<1>1. PICK i \in Typings, clause \in Clauses :
        \E face \in FaceOf(entries, clause) : RestrictTo(i, clause, entries, face)
  BY DEF RestrictKnown
<1>2. PICK face \in FaceOf(entries, clause) : RestrictTo(i, clause, entries, face)
  BY <1>1
<1>3. face \in DOMAIN entries /\ IsSeq(entries) /\ Extends(entries, entries)
  BY DEF FaceOf, JInv, Extends
<1>4. UNCHANGED <<definitions, checkpoint>>
  BY DEF RestrictKnown
<1>5. QED
  BY <1>2, <1>3, <1>4, RestrictToSound

(* A restriction to a clause that has none yet.                             *)
LEMMA RestrictNewStep == ASSUME JInv, RestrictNew PROVE JInv'
<1>1. PICK i \in Typings, clause \in Clauses : \E order \in Listings(Missing(DimsOf(clause))) :
        LET dims == WithDimensions(order)
            face == Len(dims) + 1
        IN  RestrictTo(i, clause,
              Append(dims, FaceEntry(clause, DimensionEntries(order, DimsOf(clause)), face)), face)
  BY DEF RestrictNew
<1> DEFINE D == DimsOf(clause)
<1>2. PICK order \in Listings(Missing(D)) :
        RestrictTo(i, clause,
          Append(WithDimensions(order),
                 FaceEntry(clause, DimensionEntries(order, D), Len(WithDimensions(order)) + 1)),
          Len(WithDimensions(order)) + 1)
  BY <1>1
<1> DEFINE n    == Len(definitions)
           dims == WithDimensions(order)
           C    == DimensionEntries(order, D)
           face == Len(dims) + 1
           x    == FaceEntry(clause, C, face)
           es   == Append(dims, x)
<1>3. n \in Nat
  BY SeqShape DEF JInv
<1>4. D \in SUBSET Dims
  BY DEF Clauses, DimsOf
<1>5. /\ IsSeq(dims) /\ Extends(entries, dims)
      /\ \A e \in DOMAIN dims \ DOMAIN entries : EntryOK(dims, n, e)
      /\ C \subseteq DOMAIN dims /\ \A e \in C : dims[e].context = {}
  BY <1>3, <1>4, DimensionsSound
<1>6. /\ x.context = C /\ x.scope = C \cup {Len(dims) + 1} /\ x.free = {} /\ x.uses = {}
      /\ x.kind = "face"
  BY DEF FaceEntry
<1>7. Closed(dims, C)
  BY <1>5, IndependentClosed
<1>8. /\ IsSeq(es) /\ Extends(dims, es) /\ DOMAIN es = DOMAIN dims \cup {face}
      /\ EntryOK(es, n, face)
  <2> HIDE DEF x, C, dims
  <2>1. QED
    BY <1>3, <1>5, <1>6, <1>7, AppendEntry
<1>9. Extends(entries, es)
  <2> HIDE DEF es, dims
  <2>1. QED
    BY <1>5, <1>8 DEF Extends
<1>10. \A e \in DOMAIN es \ DOMAIN entries : EntryOK(es, n, e)
  <2> HIDE DEF es, dims
  <2>1. SUFFICES ASSUME NEW e \in DOMAIN dims \ DOMAIN entries PROVE EntryOK(es, n, e)
    BY <1>8
  <2>2. QED
    BY <1>3, <1>5, <1>8, EntryGrows
<1>11. UNCHANGED <<definitions, checkpoint>> /\ face \in DOMAIN es
  BY <1>8 DEF RestrictNew
<1>12. QED
  <2>1. RestrictTo(i, clause, es, face)
    BY <1>2
  <2> HIDE DEF es, face, n
  <2>2. QED
    BY <2>1, <1>8, <1>9, <1>10, <1>11, RestrictToSound DEF n

(* A system's judgement has the fields it is made of.                       *)
LEMMA SystemFields ==
  ASSUME NEW how, NEW free, NEW uses, NEW context, NEW tubes, NEW pending, NEW agreed
  PROVE  LET f == SystemFact(how, free, uses, context, tubes, pending, agreed)
         IN  f.context = context /\ f.free = free /\ f.uses = uses
BY DEF SystemFact, Fact

(* A system without tubes is about its line and its base.                   *)
LEMMA SystemStep == ASSUME JInv, System PROVE JInv'
<1>1. PICK i \in Typings, j \in Typings, e \in DOMAIN entries :
        Publish(SystemFact(By("system", <<i, j>>, e, {}), facts[i].free \cup facts[j].free,
                           facts[i].uses \cup facts[j].uses, facts[i].context \cup facts[j].context,
                           <<>>, {}, {}))
  BY DEF System
<1> DEFINE f == SystemFact(By("system", <<i, j>>, e, {}), facts[i].free \cup facts[j].free,
                           facts[i].uses \cup facts[j].uses, facts[i].context \cup facts[j].context,
                           <<>>, {}, {})
<1>2. FactOK(entries, Len(definitions), facts[i]) /\ FactOK(entries, Len(definitions), facts[j])
  BY DEF JInv, Typings
<1>3. FactOK(entries, Len(definitions), f)
  BY <1>2, UnionSound, SystemFields
<1>4. OnlyFacts
  BY DEF System
<1>5. QED
  BY <1>1, <1>3, <1>4, PublishesOnly

(* A tube on the face 0 joins the context all the same.                     *)
LEMMA SystemTubeNeverStep == ASSUME JInv, SystemTubeNever PROVE JInv'
<1>1. PICK s \in Systems, i \in Typings :
        Publish(SystemFact(By("system_tube", <<s, i>>, facts[s].how.entry, {}),
                           facts[s].free \cup facts[i].free, facts[s].uses \cup facts[i].uses,
                           facts[s].context \cup facts[i].context,
                           Append(facts[s].tubes, {}), {}, facts[s].agreed))
  BY DEF SystemTubeNever
<1> DEFINE f == SystemFact(By("system_tube", <<s, i>>, facts[s].how.entry, {}),
                           facts[s].free \cup facts[i].free, facts[s].uses \cup facts[i].uses,
                           facts[s].context \cup facts[i].context,
                           Append(facts[s].tubes, {}), {}, facts[s].agreed)
<1>2. FactOK(entries, Len(definitions), facts[s]) /\ FactOK(entries, Len(definitions), facts[i])
  BY DEF JInv, Typings, Systems
<1>3. FactOK(entries, Len(definitions), f)
  BY <1>2, UnionSound, SystemFields
<1>4. OnlyFacts
  BY DEF SystemTubeNever
<1>5. QED
  BY <1>1, <1>3, <1>4, PublishesOnly

(* What a judgement is about, once the faces a clause implies no longer    *)
(* have to be assumed.                                                     *)
LEMMA OnFaceSound ==
  ASSUME NEW es, NEW n, NEW f, FactOK(es, n, f), NEW clause, LeavesFace(es, f.context, clause)
  PROVE  LET C == OnFace(es, f.context, clause)
         IN  C \subseteq DOMAIN es /\ Closed(es, C) /\ f.free \subseteq NamesOf(es, C)
BY DischargeCloses, DischargedNames DEF FactOK, OnFace, LeavesFace

(* A tube on a clause brings the dimensions of the clause.                  *)
LEMMA SystemTubeStep == ASSUME JInv, SystemTube PROVE JInv'
<1>1. PICK s \in Systems, i \in Typings, j \in Typings, clause \in Clauses :
        \E order \in Listings(Missing(DimsOf(clause))) : SystemTubeOn(s, i, j, clause, order)
  BY DEF SystemTube
<1>2. PICK order \in Listings(Missing(DimsOf(clause))) : SystemTubeOn(s, i, j, clause, order)
  BY <1>1
<1> DEFINE D       == DimsOf(clause)
           f       == facts[s]
           u       == facts[i]
           e       == facts[j]
           es      == WithDimensions(order)
           n       == Len(definitions)
           C       == DimensionEntries(order, D)
           onU     == OnFace(es, u.context, clause)
           onE     == OnFace(es, e.context, clause)
           context == f.context \cup onU \cup onE \cup C
           g       == SystemFact(By("system_tube", <<s, i, j>>, f.how.entry, {clause}),
                        f.free \cup u.free \cup D, f.uses \cup u.uses, context,
                        Append(f.tubes, {clause}), Word(Overlapping(f.tubes, clause)), f.agreed)
<1>3. /\ LeavesFace(es, u.context, clause) /\ LeavesFace(es, e.context, clause)
      /\ entries' = es /\ Publish(g)
  BY <1>2 DEF SystemTubeOn
<1>4. n \in Nat /\ D \in SUBSET Dims
  BY SeqShape DEF JInv, Clauses, DimsOf
<1>5. /\ IsSeq(es) /\ Extends(entries, es)
      /\ \A x \in DOMAIN es \ DOMAIN entries : EntryOK(es, n, x)
      /\ C \subseteq DOMAIN es /\ (\A x \in C : es[x].context = {})
      /\ D \subseteq NamesOf(es, C)
  BY <1>4, DimensionsSound
<1>6. FactOK(entries, n, f) /\ FactOK(entries, n, u) /\ FactOK(entries, n, e)
  BY DEF JInv, Typings, Systems
<1>7. FactOK(es, n, f) /\ FactOK(es, n, u) /\ FactOK(es, n, e)
  BY <1>4, <1>5, <1>6, FactGrows
<1>8. /\ onU \subseteq DOMAIN es /\ Closed(es, onU) /\ u.free \subseteq NamesOf(es, onU)
      /\ onE \subseteq DOMAIN es /\ Closed(es, onE)
  BY <1>3, <1>7, OnFaceSound
<1>9. Closed(es, C)
  BY <1>5, IndependentClosed
<1> HIDE DEF D, f, u, e, es, n, C, onU, onE
<1>10. context \subseteq DOMAIN es
  BY <1>5, <1>7, <1>8 DEF FactOK
<1>11. Closed(es, context)
  BY <1>7, <1>8, <1>9, UnionNames DEF FactOK
<1>12. f.free \cup u.free \cup D \subseteq NamesOf(es, context)
  BY <1>5, <1>7, <1>8, UnionNames DEF FactOK
<1>13. g.context = context /\ g.free = f.free \cup u.free \cup D /\ g.uses = f.uses \cup u.uses
  BY SystemFields
<1>14. FactOK(es, n, g)
  <2> HIDE DEF g, context
  <2>1. QED
    BY <1>7, <1>10, <1>11, <1>12, <1>13 DEF FactOK
<1>15. UNCHANGED <<definitions, checkpoint>>
  BY DEF SystemTube
<1>16. QED
  <2> HIDE DEF g
  <2>1. QED
    BY <1>3, <1>5, <1>14, <1>15, Publishes DEF n

(* An agreement of tubes adds no name to the system.                        *)
LEMMA SystemOverlapStep == ASSUME JInv, SystemOverlap PROVE JInv'
<1>1. PICK s \in Systems, j \in Typings : \E k \in facts[s].pending : SystemOverlapAt(s, j, k)
  BY DEF SystemOverlap
<1>2. PICK k \in facts[s].pending : SystemOverlapAt(s, j, k)
  BY <1>1
<1> DEFINE f       == facts[s]
           overlap == UNION (f.tubes[k] \cup f.tubes[Len(f.tubes)])
           on      == OnFace(entries, facts[j].context, overlap)
           g       == SystemFact(By("system_overlap", <<s, j>>, f.how.entry, {k}), f.free, f.uses,
                        f.context \cup on, f.tubes,
                        f.pending \ {k}, f.agreed \cup {<<k, Len(f.tubes)>>})
           n       == Len(definitions)
<1>3. LeavesFace(entries, facts[j].context, overlap) /\ Publish(g)
  BY <1>2 DEF SystemOverlapAt
<1>4. FactOK(entries, n, f) /\ FactOK(entries, n, facts[j])
  BY DEF JInv, Typings, Systems
<1>5. on \subseteq DOMAIN entries /\ Closed(entries, on)
  BY <1>3, <1>4, OnFaceSound
<1> HIDE DEF on, f
<1>6. /\ f.context \cup on \subseteq DOMAIN entries
      /\ Closed(entries, f.context \cup on)
      /\ f.free \subseteq NamesOf(entries, f.context \cup on)
  <2>1. f.context \subseteq DOMAIN entries /\ Closed(entries, f.context)
        /\ f.free \subseteq NamesOf(entries, f.context)
    BY <1>4 DEF FactOK
  <2>2. Closed(entries, f.context \cup on)
    BY <1>5, <2>1, UnionNames
  <2>3. NamesOf(entries, f.context \cup on) = NamesOf(entries, f.context) \cup NamesOf(entries, on)
    BY UnionNames
  <2>4. QED
    BY <1>5, <2>1, <2>2, <2>3
<1>7. g.context = f.context \cup on /\ g.free = f.free /\ g.uses = f.uses
  BY SystemFields
<1>8. FactOK(entries, n, g)
  <2> HIDE DEF g
  <2>1. QED
    BY <1>4, <1>6, <1>7 DEF FactOK
<1>9. OnlyFacts
  BY DEF SystemOverlap
<1>10. QED
  <2> HIDE DEF g
  <2>1. QED
    BY <1>3, <1>8, <1>9, PublishesOnly

(* A composition binds the dimension of its system.                         *)
LEMMA ComposeStep == ASSUME JInv, Compose PROVE JInv'
<1>1. PICK s \in Systems :
        LET f == facts[s]
            e == f.how.entry
        IN  /\ Dischargeable(entries, f.context, {e})
            /\ Publish(Fact("typing", By("compose", <<s>>, e, {}), f.free \ {entries[e].name},
                            f.uses, f.context \ {e}))
  BY DEF Compose
<1> DEFINE f == facts[s]
           e == f.how.entry
           g == Fact("typing", By("compose", <<s>>, e, {}), f.free \ {entries[e].name},
                     f.uses, f.context \ {e})
<1>2. FactOK(entries, Len(definitions), f)
  BY DEF JInv, Systems
<1>3. /\ Closed(entries, f.context \ {e})
      /\ f.free \ {entries[e].name} \subseteq NamesOf(entries, f.context \ {e})
  BY <1>1, <1>2, DischargeCloses, DischargedNames DEF FactOK
<1>4. FactOK(entries, Len(definitions), g)
  BY <1>2, <1>3 DEF FactOK, Fact
<1>5. OnlyFacts
  BY DEF Compose
<1>6. QED
  BY <1>1, <1>4, <1>5, PublishesOnly

(* What is defined is closed, and uses what was registered before.          *)
LEMMA DefineStep == ASSUME JInv, Define PROVE JInv'
<1>1. PICK i \in Typings, symbol \in DefinitionSymbols :
        /\ Definable(i)
        /\ Publish(Fact("typing", By("define", <<i>>, 0, {symbol}), {},
                        facts[i].uses \cup {Len(definitions) + 1}, {}))
        /\ definitions' = Append(definitions,
             [symbol |-> symbol, free |-> facts[i].free, uses |-> facts[i].uses])
  BY DEF Define
<1> DEFINE n == Len(definitions)
           f == Fact("typing", By("define", <<i>>, 0, {symbol}), {}, facts[i].uses \cup {n + 1}, {})
           d == [symbol |-> symbol, free |-> facts[i].free, uses |-> facts[i].uses]
<1>2. n \in Nat /\ FactOK(entries, n, facts[i])
  BY SeqShape DEF JInv, Typings
<1>3. facts[i].free = {}
  BY <1>1, <1>2 DEF Definable, FactOK, NamesOf
<1>4. /\ IsSeq(definitions') /\ Extends(definitions, definitions') /\ Len(definitions') = n + 1
      /\ DOMAIN definitions' = DOMAIN definitions \cup {n + 1} /\ definitions'[n + 1] = d
  BY <1>1, AppendShape DEF JInv
<1>5. \A x \in DOMAIN definitions' \ DOMAIN definitions : DefinitionOK(x, definitions'[x])
  BY <1>2, <1>3, <1>4 DEF DefinitionOK, FactOK
<1>6. FactOK(entries, n + 1, f)
  BY <1>2 DEF FactOK, Fact, Closed
<1>7. facts' = Append(facts, f) /\ UNCHANGED <<entries, checkpoint>>
  BY <1>1 DEF Publish, Define
<1>8. /\ IsSeq(facts') /\ Extends(facts, facts')
      /\ DOMAIN facts' = DOMAIN facts \cup {Len(facts) + 1} /\ facts'[Len(facts) + 1] = f
  BY <1>7, AppendShape DEF JInv
<1>9. \A x \in DOMAIN facts' \ DOMAIN facts : FactOK(entries', Len(definitions'), facts'[x])
  BY <1>4, <1>6, <1>7, <1>8
<1>10. IsSeq(entries') /\ Extends(entries, entries') /\ DOMAIN entries' = DOMAIN entries
  BY <1>7 DEF JInv, Extends
<1>11. QED
  BY <1>4, <1>5, <1>7, <1>8, <1>9, <1>10, Growth

(* A definition looked up is closed.                                        *)
LEMMA LookupStep == ASSUME JInv, Lookup PROVE JInv'
<1>1. PICK d \in DOMAIN definitions :
        Publish(Fact("typing", By("lookup", <<>>, 0, {d}), {}, definitions[d].uses \cup {d}, {}))
  BY DEF Lookup
<1> DEFINE f == Fact("typing", By("lookup", <<>>, 0, {d}), {}, definitions[d].uses \cup {d}, {})
<1>2. Len(definitions) \in Nat /\ DOMAIN definitions = 1 .. Len(definitions)
  BY SeqShape DEF JInv
<1>3. definitions[d].uses \cup {d} \subseteq 1 .. Len(definitions)
  BY <1>2 DEF JInv, DefinitionOK
<1>4. FactOK(entries, Len(definitions), f)
  BY <1>3 DEF FactOK, Fact, Closed
<1>5. OnlyFacts
  BY DEF Lookup
<1>6. QED
  BY <1>1, <1>4, <1>5, PublishesOnly

-----------------------------------------------------------------------------
(* Checkpoints.                                                            *)

(* Everything recorded now names what there is now.                        *)
LEMMA CheckpointStep == ASSUME JInv, Checkpoint PROVE JInv'
<1>1. /\ UNCHANGED <<facts, entries, definitions>>
      /\ checkpoint' = [open |-> TRUE, facts |-> Len(facts), entries |-> Len(entries),
                        definitions |-> Len(definitions)]
  BY DEF Checkpoint
<1>2. /\ Len(facts) \in Nat /\ DOMAIN facts = 1 .. Len(facts)
      /\ Len(entries) \in Nat /\ DOMAIN entries = 1 .. Len(entries)
      /\ Len(definitions) \in Nat
  BY SeqShape DEF JInv
<1>3. CheckpointOK'
  BY <1>1, <1>2 DEF CheckpointOK, JInv, FactOK, EntryOK
<1>4. QED
  BY <1>1, <1>3 DEF JInv

(* What is left of the store after a truncation is sound, with every       *)
(* definition or with those of the checkpoint.                             *)
LEMMA Truncation ==
  ASSUME JInv, checkpoint.open, TruncateStore, checkpoint' = NoCheckpoint,
         \/ UNCHANGED definitions
         \/ definitions' = SubSeq(definitions, 1, checkpoint.definitions)
  PROVE  JInv'
<1> DEFINE cf == checkpoint.facts
           ce == checkpoint.entries
           cd == checkpoint.definitions
           n  == Len(definitions)
           m  == Len(definitions')
<1>1. /\ cf \in 0 .. Len(facts) /\ ce \in 0 .. Len(entries) /\ cd \in 0 .. n
      /\ \A i \in 1 .. cf : facts[i].context \subseteq 1 .. ce /\ facts[i].uses \subseteq 1 .. cd
      /\ \A e \in 1 .. ce : entries[e].uses \subseteq 1 .. cd
  BY DEF JInv, CheckpointOK
<1>2. /\ Len(facts) \in Nat /\ DOMAIN facts = 1 .. Len(facts)
      /\ Len(entries) \in Nat /\ DOMAIN entries = 1 .. Len(entries)
      /\ n \in Nat /\ DOMAIN definitions = 1 .. n
  BY SeqShape DEF JInv
<1>3. /\ IsSeq(facts') /\ DOMAIN facts' = 1 .. cf
      /\ \A i \in 1 .. cf : facts'[i] = facts[i]
  BY <1>1, PrefixShape DEF TruncateStore, JInv
<1>4. /\ IsSeq(entries') /\ DOMAIN entries' = 1 .. ce
      /\ \A e \in 1 .. ce : entries'[e] = entries[e]
  BY <1>1, PrefixShape DEF TruncateStore, JInv
<1>5. /\ IsSeq(definitions') /\ cd <= m /\ m \in Nat
      /\ \A d \in DOMAIN definitions' : d \in DOMAIN definitions /\ definitions'[d] = definitions[d]
  <2>1. CASE UNCHANGED definitions
    BY <2>1, <1>1, <1>2 DEF JInv
  <2>2. CASE definitions' = SubSeq(definitions, 1, cd)
    BY <2>2, <1>1, <1>2, PrefixShape DEF JInv
  <2>3. QED
    BY <2>1, <2>2
<1> HIDE DEF m, cf, ce, cd
<1>6. Extends(entries', entries)
  BY <1>1, <1>2, <1>4 DEF Extends
<1>7. \A C : C \subseteq 1 .. ce =>
        NamesOf(entries', C) = NamesOf(entries, C) /\ (Closed(entries, C) => Closed(entries', C))
  BY <1>4 DEF NamesOf, Closed
<1>8. \A e \in DOMAIN entries' : EntryOK(entries', m, e)
  <2>1. SUFFICES ASSUME NEW e \in 1 .. ce PROVE EntryOK(entries', m, e)
    BY <1>4
  <2>2. EntryOK(entries, n, e) /\ entries'[e] = entries[e]
    BY <1>1, <1>2, <1>4 DEF JInv, ce
  <2>3. entries[e].context \subseteq 1 .. ce
    BY <1>1, <2>2 DEF EntryOK
  <2>4. entries[e].uses \subseteq 1 .. m
    BY <1>1, <1>5
  <2>5. QED
    BY <1>7, <2>2, <2>3, <2>4 DEF EntryOK
<1>9. \A i \in DOMAIN facts' : FactOK(entries', m, facts'[i])
  <2>1. SUFFICES ASSUME NEW i \in 1 .. cf PROVE FactOK(entries', m, facts[i])
    BY <1>3
  <2>2. FactOK(entries, n, facts[i])
    BY <1>1, <1>2 DEF JInv
  <2>3. facts[i].context \subseteq 1 .. ce /\ facts[i].uses \subseteq 1 .. m
    BY <1>1, <1>5
  <2>4. QED
    BY <1>4, <1>7, <2>2, <2>3 DEF FactOK
<1>10. \A d \in DOMAIN definitions' : DefinitionOK(d, definitions'[d])
  BY <1>5 DEF JInv
<1>11. CheckpointOK'
  BY DEF CheckpointOK, NoCheckpoint
<1>12. QED
  BY <1>3, <1>4, <1>5, <1>8, <1>9, <1>10, <1>11 DEF JInv, m

-----------------------------------------------------------------------------
(* The theorems.                                                           *)

(* The empty graph is sound.                                                *)
LEMMA InitSound == Init => JInv
<1>1. IsSeq(<<>>) /\ DOMAIN <<>> = {}
  BY DEF IsSeq
<1>2. QED
  BY <1>1 DEF Init, JInv, CheckpointOK, NoCheckpoint

(* Every step keeps the graph sound.                                        *)
LEMMA StepSound == JInv /\ [Next]_vars => JInv'
<1> SUFFICES ASSUME JInv, [Next]_vars PROVE JInv'
  OBVIOUS
<1>1. CASE Extend
  BY <1>1, ExtendStep
<1>2. CASE Level
  BY <1>2, LevelStep
<1>3. CASE Dimension
  BY <1>3, DimensionStep
<1>4. CASE Constant
  BY <1>4, ConstantStep
<1>5. CASE Universe
  BY <1>5, UniverseStep
<1>6. CASE Variable
  BY <1>6, VariableStep
<1>7. CASE Combine
  BY <1>7, CombineStep
<1>8. CASE Bind
  BY <1>8, BindStep
<1>9. CASE Endpoint
  BY <1>9, EndpointStep
<1>10. CASE PathAt
  BY <1>10, PathAtStep
<1>11. CASE RestrictKnown
  BY <1>11, RestrictKnownStep
<1>12. CASE RestrictNew
  BY <1>12, RestrictNewStep
<1>13. CASE System
  BY <1>13, SystemStep
<1>14. CASE SystemTubeNever
  BY <1>14, SystemTubeNeverStep
<1>15. CASE SystemTube
  BY <1>15, SystemTubeStep
<1>16. CASE SystemOverlap
  BY <1>16, SystemOverlapStep
<1>17. CASE Compose
  BY <1>17, ComposeStep
<1>18. CASE Define
  BY <1>18, DefineStep
<1>19. CASE Lookup
  BY <1>19, LookupStep
<1>20. CASE Checkpoint
  BY <1>20, CheckpointStep
<1>21. CASE Rollback
  BY <1>21, Truncation DEF Rollback
<1>22. CASE Commit
  BY <1>22, Truncation DEF Commit
<1>23. CASE UNCHANGED vars
  BY <1>23 DEF vars, JInv, CheckpointOK
<1>24. QED
  BY <1>1, <1>2, <1>3, <1>4, <1>5, <1>6, <1>7, <1>8, <1>9, <1>10, <1>11, <1>12, <1>13, <1>14,
     <1>15, <1>16, <1>17, <1>18, <1>19, <1>20, <1>21, <1>22, <1>23 DEF Next

(* The invariant the others follow from holds in every reachable state.    *)
LEMMA JInvHolds == Spec => []JInv
  BY InitSound, StepSound, PTL DEF Spec

(* Contexts are closed under what their entries depend on, and name live   *)
(* entries only, through every instruction, rollback and commit.           *)
THEOREM ContextsAreClosed == Spec => []ContextsClosed
<1>1. JInv => ContextsClosed
  <2>1. SUFFICES ASSUME JInv PROVE ContextsClosed
    OBVIOUS
  <2>2. \A e \in DOMAIN entries : EntryOK(entries, Len(definitions), e)
    BY <2>1 DEF JInv
  <2>3. \A i \in DOMAIN facts : FactOK(entries, Len(definitions), facts[i])
    BY <2>1 DEF JInv
  <2>4. QED
    BY <2>2, <2>3 DEF ContextsClosed, ClosedContext, EntryOK, FactOK, Closed
<1>2. QED
  BY <1>1, JInvHolds, PTL

(* What occurs free in a judgement is in its context: ck_instr_merge and   *)
(* ck_instr_discharge never lose an entry a term still needs.              *)
THEOREM FreeNamesAreInContext == Spec => []FreeInContext
<1>1. JInv => FreeInContext
  BY DEF JInv, FreeInContext, EntryOK, FactOK
<1>2. QED
  BY <1>1, JInvHolds, PTL

(* A definition is closed syntax over earlier definitions, and nothing     *)
(* that survives a rollback refers to one that did not.                    *)
THEOREM DefinitionsAreClosed == Spec => []DefinitionsClosed
<1>1. JInv => DefinitionsClosed
  <2>1. SUFFICES ASSUME JInv PROVE DefinitionsClosed
    OBVIOUS
  <2>2. DOMAIN definitions = 1 .. Len(definitions)
    BY <2>1, SeqShape DEF JInv
  <2>3. QED
    BY <2>1, <2>2 DEF JInv, DefinitionsClosed, DefinitionOK, EntryOK, FactOK
<1>2. QED
  BY <1>1, JInvHolds, PTL

-----------------------------------------------------------------------------
(* On top of JInv: the types, that a name has one live entry, that the     *)
(* tubes of a system agree, and that a judgement assumes the faces its     *)
(* premises do.                                                            *)
(*                                                                         *)
(* OneEntryPerName rests on the table of remembered dimension entries: a   *)
(* live entry of a dimension is the one remembered for it, so that an      *)
(* instruction that finds none may make one.  PremisesHold follows from    *)
(* PInv: every face a premise assumes is assumed by the conclusion, and of *)
(* no dimension the rule binds, or is part of what is asked of the premise.*)

(* An entry as the table knows it.                                         *)
EntryType(es, table, e) ==
  /\ es[e].kind \in {"term", "level", "dimension", "face"}
  /\ es[e].kind # "face" => es[e].clause = {}
  /\ es[e].kind \in {"term", "level"} => es[e].name \in Symbols
  /\ es[e].kind = "dimension" => es[e].name \in Dims /\ table[es[e].name] = e
  /\ es[e].kind = "face" => es[e].name = 0 /\ es[e].clause \in Clauses

(* Two entries of a variable, or of a face, are one.                       *)
OneVariable(es) ==
  \A e, f \in DOMAIN es :
    /\ es[e].kind \in {"term", "level"} /\ es[f].kind \in {"term", "level"}
    /\ es[e].name = es[f].name
    => e = f

OneFace(es) ==
  \A e, f \in DOMAIN es :
    es[e].kind = "face" /\ es[f].kind = "face" /\ es[e].clause = es[f].clause => e = f

EInv ==
  /\ dimensionEntries \in [Dims -> Nat]
  /\ \A e \in DOMAIN entries : EntryType(entries, dimensionEntries, e)
  /\ OneVariable(entries) /\ OneFace(entries)

(* The tubes of one system agree, or still have to.                        *)
TubesOK(f) ==
  /\ IsSeq(f.tubes)
  /\ \A l \in DOMAIN f.tubes : \A k \in 1 .. l - 1 :
       (\E c \in f.tubes[k], d \in f.tubes[l] : Consistent(c \cup d)) =>
         <<k, l>> \in f.agreed \/ (l = Len(f.tubes) /\ k \in f.pending)

FactType(f) == f.kind \in {"typing", "system"} /\ (f.kind = "system" => TubesOK(f))

TInv == \A i \in DOMAIN facts : FactType(facts[i])

-----------------------------------------------------------------------------
(* The table of dimensions.                                                *)

(* Making the entries of dimensions that have none keeps one of each.      *)
LEMMA DimensionsTabled ==
  ASSUME JInv, EInv, NEW D \in SUBSET Dims, NEW order \in Listings(Missing(D)), DimensionsMade(order)
  PROVE  LET es == WithDimensions(order)
         IN  /\ dimensionEntries' \in [Dims -> Nat]
             /\ \A e \in DOMAIN es : EntryType(es, dimensionEntries', e)
             /\ \A e \in DOMAIN es \ DOMAIN entries : es[e].kind = "dimension"
<1> DEFINE es   == WithDimensions(order)
           made == [i \in DOMAIN order |-> Entry("dimension", order[i], {}, {}, {}, Len(entries) + i)]
<1>1. Cardinality(Missing(D)) \in Nat
  BY JudgementsAssumption, FS_Subset, FS_CardinalityType DEF Missing
<1>2. /\ DOMAIN order = 1 .. Cardinality(Missing(D))
      /\ \A i \in DOMAIN order : order[i] \in Missing(D)
      /\ \A i, j \in DOMAIN order : i < j => order[i] < order[j]
  BY DEF Listings
<1>3. \A i, j \in DOMAIN order : order[i] = order[j] => i = j
  <2>1. \A i \in DOMAIN order : order[i] \in Nat /\ i \in Nat
    <3>1. Missing(D) \subseteq Nat
      BY JudgementsAssumption DEF Missing
    <3>2. QED
      BY <1>1, <1>2, <3>1
  <2>2. QED
    BY <1>2, <2>1
<1>4. made \in Seq({made[i] : i \in DOMAIN order})
  BY <1>1, <1>2
<1>5. IsSeq(made) /\ DOMAIN made = DOMAIN order /\ Len(made) = Cardinality(Missing(D))
  <2>1. DOMAIN made = 1 .. Cardinality(Missing(D))
    BY <1>2
  <2>2. HIDE DEF made
  <2>3. IsSeq(made)
    BY <1>4, SeqOfSet
  <2>4. QED
    BY <2>1, <2>3, <1>1, <1>2, SeqShape
<1>6. es = entries \o made
  BY DEF WithDimensions
<1>7. /\ IsSeq(es) /\ Extends(entries, es) /\ Len(es) = Len(entries) + Len(made)
      /\ \A i \in DOMAIN order : es[Len(entries) + i] = made[i]
  BY <1>5, <1>6, ConcatShape DEF JInv
<1>8. /\ Len(entries) \in Nat /\ DOMAIN entries = 1 .. Len(entries)
      /\ Len(es) \in Nat /\ DOMAIN es = 1 .. Len(es)
  BY <1>7, SeqShape DEF JInv
<1>9. \A i \in DOMAIN order :
        /\ es[Len(entries) + i].kind = "dimension" /\ es[Len(entries) + i].name = order[i]
        /\ es[Len(entries) + i].clause = {}
  BY <1>7 DEF Entry, NoClause
<1>10. \A i \in DOMAIN order : dimensionEntries'[order[i]] = Len(entries) + i
  <2>1. SUFFICES ASSUME NEW i \in DOMAIN order PROVE dimensionEntries'[order[i]] = Len(entries) + i
    OBVIOUS
  <2>2. order[i] \in Dims
    BY <1>2 DEF Missing
  <2>3. (CHOOSE j \in DOMAIN order : order[j] = order[i]) = i
    BY <1>3
  <2>4. QED
    BY <2>2, <2>3 DEF DimensionsMade
<1>11. \A d \in Dims : (\A i \in DOMAIN order : order[i] # d) => dimensionEntries'[d] = dimensionEntries[d]
  BY DEF DimensionsMade
<1>12. dimensionEntries' \in [Dims -> Nat]
  <2>1. \A d \in Dims : dimensionEntries'[d] \in Nat
    <3>1. SUFFICES ASSUME NEW d \in Dims PROVE dimensionEntries'[d] \in Nat
      OBVIOUS
    <3>2. CASE \E i \in DOMAIN order : order[i] = d
      BY <3>2, <1>1, <1>2, <1>8, <1>10
    <3>3. CASE \A i \in DOMAIN order : order[i] # d
      BY <3>3, <1>11 DEF EInv
    <3>4. QED
      BY <3>2, <3>3
  <2>2. dimensionEntries' = [d \in Dims |-> dimensionEntries'[d]]
    BY DEF DimensionsMade
  <2>3. QED
    BY <2>1, <2>2
<1>13. \A e \in DOMAIN entries : EntryType(es, dimensionEntries', e)
  <2>1. SUFFICES ASSUME NEW e \in DOMAIN entries PROVE EntryType(es, dimensionEntries', e)
    OBVIOUS
  <2>2. es[e] = entries[e] /\ EntryType(entries, dimensionEntries, e)
    BY <1>7 DEF Extends, EInv
  <2>3. CASE entries[e].kind # "dimension"
    BY <2>2, <2>3 DEF EntryType
  <2>4. CASE entries[e].kind = "dimension"
    <3>1. e \in Remembered(entries[e].name) /\ entries[e].name \in Dims
      BY <2>2, <2>4 DEF EntryType, Remembered
    <3>2. \A i \in DOMAIN order : order[i] # entries[e].name
      BY <1>2, <3>1 DEF Missing
    <3>3. dimensionEntries'[entries[e].name] = e
      BY <1>11, <2>2, <2>4, <3>1, <3>2 DEF EntryType
    <3>4. QED
      BY <2>2, <2>4, <3>3 DEF EntryType
  <2>5. QED
    BY <2>3, <2>4
<1>14. \A e \in DOMAIN es \ DOMAIN entries :
         es[e].kind = "dimension" /\ EntryType(es, dimensionEntries', e)
  <2>1. SUFFICES ASSUME NEW e \in DOMAIN es \ DOMAIN entries
                 PROVE  es[e].kind = "dimension" /\ EntryType(es, dimensionEntries', e)
    OBVIOUS
  <2>2. PICK i \in DOMAIN order : e = Len(entries) + i
    <3>1. e - Len(entries) \in 1 .. Len(made) /\ e = Len(entries) + (e - Len(entries))
      BY <1>1, <1>5, <1>7, <1>8
    <3>2. QED
      BY <3>1, <1>2, <1>5
  <2>3. order[i] \in Dims
    BY <1>2 DEF Missing
  <2>4. QED
    BY <2>2, <2>3, <1>9, <1>10 DEF EntryType
<1>15. QED
  BY <1>12, <1>13, <1>14

(* New entries that are neither variables nor faces, or the only ones of   *)
(* their name or clause, keep names and clauses apart.                     *)
LEMMA NewDimensions ==
  ASSUME NEW es, NEW fs, Extends(es, fs), OneVariable(es), OneFace(es),
         \A e \in DOMAIN fs \ DOMAIN es : fs[e].kind = "dimension"
  PROVE  OneVariable(fs) /\ OneFace(fs)
BY DEF Extends, OneVariable, OneFace

(* Instructions that may make dimension entries and no other.              *)
LEMMA DimensionsKeep ==
  ASSUME JInv, EInv, NEW D \in SUBSET Dims, NEW order \in Listings(Missing(D)),
         entries' = WithDimensions(order), DimensionsMade(order)
  PROVE  EInv'
<1>1. /\ dimensionEntries' \in [Dims -> Nat]
      /\ \A e \in DOMAIN entries' : EntryType(entries', dimensionEntries', e)
      /\ \A e \in DOMAIN entries' \ DOMAIN entries : entries'[e].kind = "dimension"
  BY DimensionsTabled
<1>2. Len(definitions) \in Nat
  BY SeqShape DEF JInv
<1>3. Extends(entries, entries')
  BY <1>2, DimensionsSound
<1>4. OneVariable(entries') /\ OneFace(entries')
  BY <1>1, <1>3, NewDimensions DEF EInv
<1>5. QED
  BY <1>1, <1>4 DEF EInv

-----------------------------------------------------------------------------
(* The instructions that make entries.                                     *)

(* One entry more, of a variable or a face not yet there.                  *)
LEMMA AppendKeeps ==
  ASSUME NEW es, IsSeq(es), NEW table, NEW x,
         \A e \in DOMAIN es : EntryType(es, table, e), OneVariable(es), OneFace(es),
         \/ /\ x.kind \in {"term", "level"} /\ x.name \in Symbols /\ x.clause = {}
            /\ \A e \in DOMAIN es : es[e].kind \in {"term", "level"} => es[e].name # x.name
         \/ /\ x.kind = "face" /\ x.name = 0 /\ x.clause \in Clauses
            /\ \A e \in DOMAIN es : es[e].kind = "face" => es[e].clause # x.clause
  PROVE  LET fs == Append(es, x)
         IN  /\ \A e \in DOMAIN fs : EntryType(fs, table, e)
             /\ OneVariable(fs) /\ OneFace(fs)
<1> DEFINE fs == Append(es, x)
<1>1. /\ \A e \in DOMAIN es : fs[e] = es[e]
      /\ DOMAIN fs = DOMAIN es \cup {Len(es) + 1} /\ fs[Len(es) + 1] = x
  BY AppendShape DEF Extends
<1> HIDE DEF fs
<1>2. \A e \in DOMAIN fs : EntryType(fs, table, e)
  BY <1>1 DEF EntryType
<1>3. OneVariable(fs)
  BY <1>1 DEF OneVariable
<1>4. OneFace(fs)
  BY <1>1 DEF OneFace
<1>5. QED
  BY <1>2, <1>3, <1>4 DEF fs

(* Actions that leave the entries alone, or truncate them.                 *)
LEMMA PrefixKeeps ==
  ASSUME EInv, UNCHANGED dimensionEntries, Extends(entries', entries)
  PROVE  EInv'
BY DEF EInv, Extends, EntryType, OneVariable, OneFace

(* Entries and table left alone.                                            *)
LEMMA EntriesUnchanged ==
  ASSUME EInv, UNCHANGED <<entries, dimensionEntries>>
  PROVE  EInv'
BY DEF EInv

(* A symbol that names no entry is given to one.                            *)
LEMMA ExtendTabled == ASSUME JInv, EInv, Extend PROVE EInv'
<1>1. PICK i \in DOMAIN facts, x \in Symbols :
        /\ Named(entries, x) = {}
        /\ entries' = Append(entries,
             Entry("term", x, facts[i].free, facts[i].uses, facts[i].context, Len(entries) + 1))
  BY DEF Extend
<1> DEFINE entry == Entry("term", x, facts[i].free, facts[i].uses, facts[i].context, Len(entries) + 1)
<1>2. entry.kind = "term" /\ entry.name = x /\ entry.clause = {}
  BY DEF Entry, NoClause
<1>3. \A e \in DOMAIN entries : entries[e].kind \in {"term", "level"} => entries[e].name # x
  BY <1>1 DEF Named
<1>4. UNCHANGED dimensionEntries /\ entries' = Append(entries, entry)
  BY <1>1 DEF Extend
<1> HIDE DEF entry
<1>5. QED
  BY <1>2, <1>3, <1>4, AppendKeeps DEF EInv, JInv

(* So is the symbol of a universe variable.                                 *)
LEMMA LevelTabled == ASSUME JInv, EInv, Level PROVE EInv'
<1>1. PICK x \in Symbols :
        /\ Named(entries, x) = {}
        /\ entries' = Append(entries, Entry("level", x, {}, {}, {}, Len(entries) + 1))
  BY DEF Level
<1> DEFINE entry == Entry("level", x, {}, {}, {}, Len(entries) + 1)
<1>2. entry.kind = "level" /\ entry.name = x /\ entry.clause = {}
  BY DEF Entry, NoClause
<1>3. \A e \in DOMAIN entries : entries[e].kind \in {"term", "level"} => entries[e].name # x
  BY <1>1 DEF Named
<1>4. UNCHANGED dimensionEntries /\ entries' = Append(entries, entry)
  BY <1>1 DEF Level
<1> HIDE DEF entry
<1>5. QED
  BY <1>2, <1>3, <1>4, AppendKeeps DEF EInv, JInv

(* A dimension the table does not remember has no entry.                    *)
LEMMA DimensionTabled == ASSUME JInv, EInv, Dimension PROVE EInv'
<1>1. PICK d \in Dims :
        Missing({d}) # {} /\ entries' = WithDimensions(<<d>>) /\ DimensionsMade(<<d>>)
  BY DEF Dimension
<1>2. {d} \in SUBSET Dims /\ <<d>> \in Listings(Missing({d}))
  BY <1>1, OneDimension
<1>3. QED
  BY <1>1, <1>2, DimensionsKeep

(* The dimensions of a formula, likewise.                                   *)
LEMMA PathAtTabled == ASSUME JInv, EInv, PathAt PROVE EInv'
<1>1. PICK D \in SUBSET Dims : \E order \in Listings(Missing(D)) :
        entries' = WithDimensions(order) /\ DimensionsMade(order)
  BY DEF PathAt
<1>2. QED
  BY <1>1, DimensionsKeep

(* The dimensions of a clause, likewise.                                    *)
LEMMA SystemTubeTabled == ASSUME JInv, EInv, SystemTube PROVE EInv'
<1>1. PICK clause \in Clauses : \E order \in Listings(Missing(DimsOf(clause))) :
        entries' = WithDimensions(order) /\ DimensionsMade(order)
  BY DEF SystemTube, SystemTubeOn
<1>2. DimsOf(clause) \in SUBSET Dims
  BY DEF Clauses, DimsOf
<1>3. QED
  BY <1>1, <1>2, DimensionsKeep

(* A known face makes no entry.                                             *)
LEMMA RestrictKnownTabled == ASSUME JInv, EInv, RestrictKnown PROVE EInv'
<1>1. entries' = entries
  BY DEF RestrictKnown, RestrictTo
<1>2. QED
  BY <1>1, EntriesUnchanged DEF RestrictKnown

(* A face is made only where its clause has none.                           *)
LEMMA RestrictNewTabled == ASSUME JInv, EInv, RestrictNew PROVE EInv'
<1>1. PICK i \in Typings, clause \in Clauses : \E order \in Listings(Missing(DimsOf(clause))) :
        /\ FaceOf(entries, clause) = {}
        /\ DimensionsMade(order)
        /\ RestrictTo(i, clause,
             Append(WithDimensions(order),
                    FaceEntry(clause, DimensionEntries(order, DimsOf(clause)),
                              Len(WithDimensions(order)) + 1)),
             Len(WithDimensions(order)) + 1)
  BY DEF RestrictNew
<1>2. PICK order \in Listings(Missing(DimsOf(clause))) :
        /\ FaceOf(entries, clause) = {}
        /\ DimensionsMade(order)
        /\ RestrictTo(i, clause,
             Append(WithDimensions(order),
                    FaceEntry(clause, DimensionEntries(order, DimsOf(clause)),
                              Len(WithDimensions(order)) + 1)),
             Len(WithDimensions(order)) + 1)
  BY <1>1
<1> DEFINE dims == WithDimensions(order)
           x    == FaceEntry(clause, DimensionEntries(order, DimsOf(clause)), Len(dims) + 1)
<1>3. DimsOf(clause) \in SUBSET Dims /\ Len(definitions) \in Nat
  BY SeqShape DEF Clauses, DimsOf, JInv
<1>4. /\ dimensionEntries' \in [Dims -> Nat]
      /\ \A e \in DOMAIN dims : EntryType(dims, dimensionEntries', e)
      /\ \A e \in DOMAIN dims \ DOMAIN entries : dims[e].kind = "dimension"
  BY <1>2, <1>3, DimensionsTabled
<1>5. IsSeq(dims) /\ Extends(entries, dims)
  BY <1>3, DimensionsSound
<1>6. x.kind = "face" /\ x.name = 0 /\ x.clause = clause
  BY DEF FaceEntry
<1>7. entries' = Append(dims, x)
  BY <1>2 DEF RestrictTo
<1> HIDE DEF dims, x
<1>8. OneVariable(dims) /\ OneFace(dims)
  BY <1>4, <1>5, NewDimensions DEF EInv
<1>9. \A e \in DOMAIN dims : dims[e].kind = "face" => dims[e].clause # clause
  BY <1>2, <1>4, <1>5 DEF FaceOf, Extends
<1>10. /\ \A e \in DOMAIN entries' : EntryType(entries', dimensionEntries', e)
       /\ OneVariable(entries') /\ OneFace(entries')
  BY <1>4, <1>5, <1>6, <1>7, <1>8, <1>9, AppendKeeps
<1>11. QED
  BY <1>4, <1>10 DEF EInv

-----------------------------------------------------------------------------
(* The tubes of systems.                                                   *)

(* A judgement published over sound ones.                                  *)
LEMMA PublishTyped ==
  ASSUME JInv, TInv, NEW f, Publish(f), FactType(f)
  PROVE  TInv'
BY AppendShape DEF Publish, JInv, TInv, Extends

(* A typing has no tubes.                                                  *)
LEMMA TypingTyped ==
  ASSUME NEW how, NEW free, NEW uses, NEW context
  PROVE  FactType(Fact("typing", how, free, uses, context))
BY DEF FactType, Fact

(* The fields of a system's judgement its tubes are about.                 *)
LEMMA SystemTubes ==
  ASSUME NEW how, NEW free, NEW uses, NEW context, NEW tubes, NEW pending, NEW agreed
  PROVE  LET f == SystemFact(how, free, uses, context, tubes, pending, agreed)
         IN  f.kind = "system" /\ f.tubes = tubes /\ f.pending = pending /\ f.agreed = agreed
BY DEF SystemFact, Fact

(* A tube on a face adds the pairs it overlaps to what is pending.         *)
LEMMA TubeAdded ==
  ASSUME NEW f, TubesOK(f), f.pending = {}, NEW faces,
         NEW pending, \A k \in DOMAIN f.tubes : \A c \in f.tubes[k], d \in faces :
                        Consistent(c \cup d) => k \in pending,
         NEW g, g.tubes = Append(f.tubes, faces), g.pending = pending, g.agreed = f.agreed
  PROVE  TubesOK(g)
<1> DEFINE m == Len(f.tubes)
<1>1. /\ IsSeq(g.tubes) /\ Len(g.tubes) = m + 1 /\ m \in Nat /\ DOMAIN f.tubes = 1 .. m
      /\ DOMAIN g.tubes = 1 .. m + 1
      /\ \A k \in 1 .. m : g.tubes[k] = f.tubes[k]
      /\ g.tubes[m + 1] = faces
  BY AppendShape, SeqShape DEF TubesOK, Extends
<1>2. SUFFICES ASSUME NEW l \in 1 .. m + 1, NEW k \in 1 .. l - 1,
                      NEW c \in g.tubes[k], NEW d \in g.tubes[l], Consistent(c \cup d)
               PROVE  <<k, l>> \in g.agreed \/ (l = Len(g.tubes) /\ k \in g.pending)
  BY <1>1 DEF TubesOK
<1>3. CASE l = m + 1
  BY <1>1, <1>2, <1>3
<1>4. CASE l \in 1 .. m
  <2>1. k \in 1 .. m /\ c \in f.tubes[k] /\ d \in f.tubes[l]
    BY <1>1, <1>4
  <2>2. <<k, l>> \in f.agreed \/ (l = m /\ k \in f.pending)
    BY <1>1, <1>2, <1>4, <2>1 DEF TubesOK
  <2>3. QED
    BY <2>2
<1>5. QED
  BY <1>1, <1>3, <1>4

(* A new system has nothing to agree.                                       *)
LEMMA SystemTyped == ASSUME JInv, TInv, System PROVE TInv'
<1>1. PICK i \in Typings, j \in Typings, e \in DOMAIN entries :
        Publish(SystemFact(By("system", <<i, j>>, e, {}), facts[i].free \cup facts[j].free,
                           facts[i].uses \cup facts[j].uses, facts[i].context \cup facts[j].context,
                           <<>>, {}, {}))
  BY DEF System
<1> DEFINE f == SystemFact(By("system", <<i, j>>, e, {}), facts[i].free \cup facts[j].free,
                           facts[i].uses \cup facts[j].uses, facts[i].context \cup facts[j].context,
                           <<>>, {}, {})
<1>2. f.kind = "system" /\ f.tubes = <<>>
  BY SystemTubes
<1> HIDE DEF f
<1>3. IsSeq(f.tubes) /\ DOMAIN f.tubes = {}
  BY <1>2 DEF IsSeq
<1>4. FactType(f)
  BY <1>2, <1>3 DEF FactType, TubesOK
<1>5. QED
  BY <1>1, <1>4, PublishTyped DEF f

(* A tube on the face 0 meets no other.                                     *)
LEMMA SystemTubeNeverTyped == ASSUME JInv, TInv, SystemTubeNever PROVE TInv'
<1>1. PICK s \in Systems, i \in Typings :
        /\ facts[s].pending = {}
        /\ Publish(SystemFact(By("system_tube", <<s, i>>, facts[s].how.entry, {}),
                           facts[s].free \cup facts[i].free, facts[s].uses \cup facts[i].uses,
                           facts[s].context \cup facts[i].context,
                           Append(facts[s].tubes, {}), {}, facts[s].agreed))
  BY DEF SystemTubeNever
<1> DEFINE f == facts[s]
           g == SystemFact(By("system_tube", <<s, i>>, f.how.entry, {}),
                           f.free \cup facts[i].free, f.uses \cup facts[i].uses,
                           f.context \cup facts[i].context, Append(f.tubes, {}), {}, f.agreed)
<1>2. TubesOK(f)
  BY DEF TInv, FactType, Systems
<1>3. /\ g.kind = "system" /\ g.tubes = Append(f.tubes, {}) /\ g.pending = {}
      /\ g.agreed = f.agreed
  BY DEF SystemFact, Fact
<1>4. f.pending = {} /\ Publish(g)
  BY <1>1
<1> HIDE DEF f, g
<1>5. TubesOK(g)
  BY <1>2, <1>3, <1>4, TubeAdded
<1>6. FactType(g)
  BY <1>3, <1>5 DEF FactType
<1>7. QED
  BY <1>4, <1>6, PublishTyped

(* A tube on a clause leaves its overlaps pending.                          *)
LEMMA SystemTubeTyped == ASSUME JInv, TInv, SystemTube PROVE TInv'
<1>1. PICK s \in Systems, i \in Typings, j \in Typings, clause \in Clauses :
        \E order \in Listings(Missing(DimsOf(clause))) : SystemTubeOn(s, i, j, clause, order)
  BY DEF SystemTube
<1>2. PICK order \in Listings(Missing(DimsOf(clause))) : SystemTubeOn(s, i, j, clause, order)
  BY <1>1
<1> DEFINE f       == facts[s]
           es      == WithDimensions(order)
           context == f.context \cup OnFace(es, facts[i].context, clause)
                        \cup OnFace(es, facts[j].context, clause)
                        \cup DimensionEntries(order, DimsOf(clause))
           pending == Word(Overlapping(f.tubes, clause))
           g       == SystemFact(By("system_tube", <<s, i, j>>, f.how.entry, {clause}),
                        f.free \cup facts[i].free \cup DimsOf(clause), f.uses \cup facts[i].uses,
                        context, Append(f.tubes, {clause}), pending, f.agreed)
<1>3. f.pending = {} /\ Publish(g) /\ Overlapping(f.tubes, clause) \subseteq 1 .. OverlapLimit
  BY <1>2 DEF SystemTubeOn
<1>4. TubesOK(f)
  BY DEF TInv, FactType, Systems
<1>5. /\ g.kind = "system" /\ g.tubes = Append(f.tubes, {clause}) /\ g.pending = pending
      /\ g.agreed = f.agreed
  BY DEF SystemFact, Fact
<1>6. \A k \in DOMAIN f.tubes : \A c \in f.tubes[k], d \in {clause} : Consistent(c \cup d) => k \in pending
  BY <1>3 DEF Overlapping, Word
<1> HIDE DEF f, g, pending
<1>7. TubesOK(g)
  BY <1>3, <1>4, <1>5, <1>6, TubeAdded
<1>8. FactType(g)
  BY <1>5, <1>7 DEF FactType
<1>9. QED
  BY <1>3, <1>8, PublishTyped

(* An agreement moves one pair from pending to agreed.                      *)
LEMMA SystemOverlapTyped == ASSUME JInv, TInv, SystemOverlap PROVE TInv'
<1>1. PICK s \in Systems, j \in Typings : \E k \in facts[s].pending : SystemOverlapAt(s, j, k)
  BY DEF SystemOverlap
<1>2. PICK k \in facts[s].pending : SystemOverlapAt(s, j, k)
  BY <1>1
<1> DEFINE f       == facts[s]
           overlap == UNION (f.tubes[k] \cup f.tubes[Len(f.tubes)])
           agreed  == f.agreed \cup {<<k, Len(f.tubes)>>}
           g       == SystemFact(By("system_overlap", <<s, j>>, f.how.entry, {k}), f.free, f.uses,
                        f.context \cup OnFace(entries, facts[j].context, overlap), f.tubes,
                        f.pending \ {k}, agreed)
<1>3. Publish(g)
  BY <1>2 DEF SystemOverlapAt
<1>4. TubesOK(f)
  BY DEF TInv, FactType, Systems
<1>5. /\ g.kind = "system" /\ g.tubes = f.tubes /\ g.pending = f.pending \ {k}
      /\ g.agreed = f.agreed \cup {<<k, Len(f.tubes)>>}
  BY SystemTubes
<1> HIDE DEF f, g
<1>6. TubesOK(g)
  BY <1>4, <1>5 DEF TubesOK
<1>7. FactType(g)
  BY <1>5, <1>6 DEF FactType
<1>8. QED
  BY <1>3, <1>7, PublishTyped

(* The instructions whose conclusion is a typing.                          *)
PublishesTyping ==
  \E how, free, uses, context : Publish(Fact("typing", how, free, uses, context))

(* Instructions that publish a typing keep every system as it was.          *)
LEMMA TypingsTyped ==
  ASSUME JInv, TInv, PublishesTyping
  PROVE  TInv'
BY TypingTyped, PublishTyped DEF PublishesTyping

(* The instructions that publish a typing and nothing else.                 *)
LEMMA TypingInstructions ==
  ASSUME \/ Constant \/ Universe \/ Variable \/ Combine \/ Bind \/ Endpoint \/ PathAt
         \/ RestrictKnown \/ RestrictNew \/ Compose \/ Define \/ Lookup
  PROVE  PublishesTyping
<1>1. CASE Constant
  BY <1>1 DEF Constant, PublishesTyping
<1>2. CASE Universe
  BY <1>2 DEF Universe, PublishesTyping
<1>3. CASE Variable
  BY <1>3 DEF Variable, PublishesTyping
<1>4. CASE Combine
  BY <1>4 DEF Combine, PublishesTyping
<1>5. CASE Bind
  BY <1>5 DEF Bind, PublishesTyping
<1>6. CASE Endpoint
  BY <1>6 DEF Endpoint, PublishesTyping
<1>7. CASE PathAt
  BY <1>7 DEF PathAt, PublishesTyping
<1>8. CASE RestrictKnown
  BY <1>8 DEF RestrictKnown, RestrictTo, PublishesTyping
<1>9. CASE RestrictNew
  BY <1>9 DEF RestrictNew, RestrictTo, PublishesTyping
<1>10. CASE Compose
  BY <1>10 DEF Compose, PublishesTyping
<1>11. CASE Define
  BY <1>11 DEF Define, PublishesTyping
<1>12. CASE Lookup
  BY <1>12 DEF Lookup, PublishesTyping
<1>13. QED
  BY <1>1, <1>2, <1>3, <1>4, <1>5, <1>6, <1>7, <1>8, <1>9, <1>10, <1>11, <1>12

(* A truncation leaves prefixes.                                           *)
LEMMA TruncationTyped ==
  ASSUME JInv, EInv, TInv, checkpoint.open, TruncateStore, UNCHANGED dimensionEntries
  PROVE  EInv' /\ TInv'
<1>1. /\ checkpoint.facts \in 0 .. Len(facts) /\ checkpoint.entries \in 0 .. Len(entries)
      /\ Len(facts) \in Nat /\ DOMAIN facts = 1 .. Len(facts)
      /\ Len(entries) \in Nat /\ DOMAIN entries = 1 .. Len(entries)
  BY SeqShape DEF JInv, CheckpointOK
<1>2. /\ DOMAIN facts' = 1 .. checkpoint.facts
      /\ \A i \in DOMAIN facts' : facts'[i] = facts[i]
  BY <1>1, PrefixShape DEF TruncateStore, JInv
<1>3. /\ DOMAIN entries' = 1 .. checkpoint.entries
      /\ \A e \in DOMAIN entries' : entries'[e] = entries[e]
  BY <1>1, PrefixShape DEF TruncateStore, JInv
<1>4. TInv'
  BY <1>1, <1>2 DEF TInv
<1>5. Extends(entries', entries)
  BY <1>1, <1>3 DEF Extends
<1>6. QED
  BY <1>4, <1>5, PrefixKeeps

(* The instructions that change neither the entries nor their table.       *)
LEMMA EntriesKept ==
  ASSUME EInv,
         \/ Constant \/ Universe \/ Variable \/ Combine \/ Bind \/ Endpoint
         \/ System \/ SystemTubeNever \/ SystemOverlap \/ Compose
         \/ Define \/ Lookup \/ Checkpoint
  PROVE  EInv'
<1>1. UNCHANGED <<entries, dimensionEntries>>
  BY DEF Constant, Universe, Variable, Combine, Bind, Endpoint, System, SystemTubeNever,
         SystemOverlap, Compose, Define, Lookup, Checkpoint, OnlyFacts
<1>2. QED
  BY <1>1, EntriesUnchanged

-----------------------------------------------------------------------------
(* The theorems.                                                           *)

TableInv == JInv /\ EInv /\ TInv /\ checkpoint.open \in BOOLEAN

(* The empty table is in order.                                             *)
LEMMA TableInit == Init => TableInv
<1> SUFFICES ASSUME Init PROVE TableInv
  OBVIOUS
<1>1. JInv
  BY InitSound
<1>2. DOMAIN <<>> = {}
  OBVIOUS
<1>3. EInv
  BY <1>2 DEF Init, EInv, OneVariable, OneFace
<1>4. TInv /\ checkpoint.open \in BOOLEAN
  BY <1>2 DEF Init, TInv, NoCheckpoint
<1>5. QED
  BY <1>1, <1>3, <1>4 DEF TableInv

(* A checkpoint is open or it is not.                                       *)
LEMMA OpenIsBoolean ==
  ASSUME checkpoint.open \in BOOLEAN, [Next]_vars
  PROVE  checkpoint'.open \in BOOLEAN
<1>1. CASE Checkpoint
  <2>1. checkpoint'.open = TRUE
    BY <1>1 DEF Checkpoint
  <2>2. QED
    BY <2>1, Zenon
<1>2. CASE Rollback \/ Commit
  <2>1. checkpoint'.open = FALSE
    BY <1>2 DEF Rollback, Commit, NoCheckpoint
  <2>2. QED
    BY <2>1, Zenon
<1>3. CASE UNCHANGED checkpoint
  BY <1>3
<1>4. [Next]_vars => Checkpoint \/ Rollback \/ Commit \/ UNCHANGED checkpoint
  BY DEF Next, vars, Extend, Level, Dimension, Constant, Universe, Variable, Combine, Bind, Endpoint,
         PathAt, RestrictKnown, RestrictNew, System, SystemTubeNever, SystemTube, SystemOverlap,
         Compose, Define, Lookup, OnlyFacts
<1>5. QED
  BY <1>1, <1>2, <1>3, <1>4

(* Every step keeps the table, the types and the systems in order.          *)
LEMMA TableStep == TableInv /\ [Next]_vars => TableInv'
<1> SUFFICES ASSUME JInv, EInv, TInv, checkpoint.open \in BOOLEAN, [Next]_vars PROVE TableInv'
  BY DEF TableInv
<1>1. JInv' /\ checkpoint'.open \in BOOLEAN
  BY StepSound, OpenIsBoolean
<1>2. CASE Extend \/ Level \/ Dimension
  <2>1. EInv'
    BY <1>2, ExtendTabled, LevelTabled, DimensionTabled
  <2>2. facts' = facts
    BY <1>2 DEF Extend, Level, Dimension
  <2>3. QED
    BY <1>1, <2>1, <2>2 DEF TableInv, TInv
<1>3. CASE \/ Constant \/ Universe \/ Variable \/ Combine \/ Bind \/ Endpoint
           \/ Compose \/ Define \/ Lookup
  <2>1. TInv'
    BY <1>3, TypingInstructions, TypingsTyped
  <2>2. QED
    BY <1>1, <1>3, <2>1, EntriesKept DEF TableInv
<1>4. CASE PathAt \/ RestrictKnown \/ RestrictNew
  <2>1. TInv'
    BY <1>4, TypingInstructions, TypingsTyped
  <2>2. EInv'
    BY <1>4, PathAtTabled, RestrictKnownTabled, RestrictNewTabled
  <2>3. QED
    BY <1>1, <2>1, <2>2 DEF TableInv
<1>5. CASE System \/ SystemTubeNever \/ SystemOverlap
  <2>1. TInv'
    BY <1>5, SystemTyped, SystemTubeNeverTyped, SystemOverlapTyped
  <2>2. QED
    BY <1>1, <1>5, <2>1, EntriesKept DEF TableInv
<1>6. CASE SystemTube
  BY <1>1, <1>6, SystemTubeTyped, SystemTubeTabled DEF TableInv
<1>7. CASE Checkpoint
  <2>1. TInv'
    BY <1>7 DEF Checkpoint, TInv
  <2>2. QED
    BY <1>1, <1>7, <2>1, EntriesKept DEF TableInv
<1>8. CASE Rollback \/ Commit
  <2>1. checkpoint.open /\ TruncateStore /\ UNCHANGED dimensionEntries
    BY <1>8 DEF Rollback, Commit
  <2>2. QED
    BY <1>1, <2>1, TruncationTyped DEF TableInv
<1>9. CASE UNCHANGED vars
  <2>1. UNCHANGED <<facts, entries, dimensionEntries>>
    BY <1>9 DEF vars
  <2>2. QED
    BY <1>1, <2>1, EntriesUnchanged DEF TableInv, TInv
<1>10. QED
  BY <1>2, <1>3, <1>4, <1>5, <1>6, <1>7, <1>8, <1>9 DEF Next

(* The invariant these theorems follow from holds in every reachable state. *)
LEMMA TableHolds == Spec => []TableInv
  BY TableInit, TableStep, PTL DEF Spec

(* The types of entries, judgements, the table and the checkpoint.         *)
THEOREM TypesAreCorrect == Spec => []TypeOK
<1>1. TableInv => TypeOK
  <2> SUFFICES ASSUME JInv, EInv, TInv, checkpoint.open \in BOOLEAN PROVE TypeOK
    BY DEF TableInv
  <2>1. {} \in Clauses
    BY DEF Clauses, Consistent
  <2>2. \A e \in DOMAIN entries :
          /\ entries[e].kind \in {"term", "level", "dimension", "face"}
          /\ entries[e].kind \in {"term", "level"} => entries[e].name \in Symbols
          /\ entries[e].kind = "dimension" => entries[e].name \in Dims
          /\ entries[e].clause \in Clauses
    BY <2>1 DEF EInv, EntryType
  <2>3. \A i \in DOMAIN facts :
          /\ facts[i].kind \in {"typing", "system"}
          /\ facts[i].context \subseteq DOMAIN entries
          /\ facts[i].free \subseteq NamesOf(entries, facts[i].context)
    BY DEF JInv, TInv, FactType, FactOK
  <2>4. \A C : C \subseteq DOMAIN entries => NamesOf(entries, C) \subseteq Symbols \cup Dims
    BY <2>2 DEF NamesOf
  <2>5. \A i \in DOMAIN facts : facts[i].free \subseteq Symbols \cup Dims
    BY <2>3, <2>4
  <2>6. QED
    BY <2>2, <2>3, <2>5 DEF TypeOK, EInv
<1>2. QED
  BY <1>1, TableHolds, PTL

(* A name, a dimension or a clause is one live entry's, under the stale    *)
(* table a rollback leaves.                                                *)
THEOREM NamesAreUnique == Spec => []OneEntryPerName
<1>1. TableInv => OneEntryPerName
  <2> SUFFICES ASSUME EInv,
                      NEW e \in DOMAIN entries, NEW f \in DOMAIN entries,
                      (entries[e].kind = "face") = (entries[f].kind = "face"),
                      entries[e].name = entries[f].name, entries[e].clause = entries[f].clause
               PROVE  e = f
    BY DEF TableInv, OneEntryPerName
  <2>1. EntryType(entries, dimensionEntries, e) /\ EntryType(entries, dimensionEntries, f)
    BY DEF EInv
  <2>2. CASE entries[e].kind = "face"
    BY <2>2 DEF EInv, OneFace
  <2>3. CASE entries[e].kind = "dimension"
    BY <2>1, <2>3, JudgementsAssumption DEF EntryType
  <2>4. CASE entries[e].kind \in {"term", "level"}
    <3>1. entries[f].kind \in {"term", "level"}
      BY <2>1, <2>4, JudgementsAssumption DEF EntryType
    <3>2. QED
      BY <2>4, <3>1 DEF EInv, OneVariable
  <2>5. QED
    BY <2>1, <2>2, <2>3, <2>4 DEF EntryType
<1>2. QED
  BY <1>1, TableHolds, PTL

(* Every two tubes of a system that overlap were shown to agree, or are    *)
(* still pending on its last tube: cc_instr_comp composes no system with   *)
(* anything pending.                                                       *)
THEOREM SystemsAgree == Spec => []TubesAgree
<1>1. TableInv => TubesAgree
  BY DEF TableInv, TInv, FactType, TubesOK, TubesAgree, Systems
<1>2. QED
  BY <1>1, TableHolds, PTL

-----------------------------------------------------------------------------
(* Premises.  A face that a premise assumes is assumed by the conclusion,  *)
(* and of no dimension the rule binds, or is part of what is asked of the  *)
(* premise; and the rule's entry is a live one.                            *)

Binders == {"bind", "endpoint", "compose"}

BoundIn(es, how) ==
  {d \in Dims : how.rule \in Binders /\ es[how.entry].kind = "dimension" /\ es[how.entry].name = d}

AskedBy(f, g) ==
  CASE g.kind = "system"               -> {}
    [] f.how.rule = "system_tube"    -> UNION f.how.operand
    [] f.how.rule = "system_overlap" ->
         UNION (UNION {f.tubes[k] : k \in f.how.operand \cup {Len(f.tubes)}})
    [] OTHER                         -> {}

(* Of the premise g to the conclusion f.                                   *)
Carried(es, f, g) ==
  \A e \in g.context : es[e].kind = "face" =>
    \/ e \in f.context /\ \A p \in es[e].clause : p[1] \notin BoundIn(es, f.how)
    \/ es[e].clause \subseteq AskedBy(f, g)

(* A face depends on the dimensions of its clause.                         *)
FaceOK(es, e) ==
  es[e].kind = "face" =>
    \A p \in es[e].clause : \E x \in es[e].context : es[x].kind = "dimension" /\ es[x].name = p[1]

NeedsEntry(f) == f.how.rule \in Binders \/ f.kind = "system"

HowOK(es, f) ==
  /\ NeedsEntry(f) => f.how.entry \in DOMAIN es
  /\ f.kind = "system" => es[f.how.entry].kind = "dimension"

PremiseOK(es, fs, f, i, p) == p \in 1 .. i - 1 /\ Carried(es, f, fs[p])

PremisesOK(es, fs, i) ==
  \A n \in DOMAIN fs[i].how.premises : PremiseOK(es, fs, fs[i], i, fs[i].how.premises[n])

PInv ==
  /\ \A e \in DOMAIN entries : FaceOK(entries, e)
  /\ \A i \in DOMAIN facts : HowOK(entries, facts[i]) /\ PremisesOK(entries, facts, i)
  /\ checkpoint.open =>
       \A i \in 1 .. checkpoint.facts :
         NeedsEntry(facts[i]) => facts[i].how.entry \in 1 .. checkpoint.entries

(* What is carried stays so as entries come and go after those it is of.   *)
LEMMA CarriedStays ==
  ASSUME NEW es, NEW fs, Extends(es, fs), NEW f, NEW g,
         f.context \subseteq DOMAIN es, g.context \subseteq DOMAIN es,
         NeedsEntry(f) => f.how.entry \in DOMAIN es
  PROVE  Carried(es, f, g) <=> Carried(fs, f, g)
<1>1. \A e \in f.context \cup g.context : fs[e] = es[e]
  BY DEF Extends
<1>2. BoundIn(fs, f.how) = BoundIn(es, f.how)
  <2>1. CASE f.how.rule \in Binders
    <3>1. fs[f.how.entry] = es[f.how.entry]
      BY <2>1 DEF Extends, NeedsEntry
    <3>2. QED
      BY <3>1 DEF BoundIn
  <2>2. CASE f.how.rule \notin Binders
    BY <2>2 DEF BoundIn
  <2>3. QED
    BY <2>1, <2>2
<1>3. QED
  BY <1>1, <1>2 DEF Carried

(* So does what is known of a face.                                        *)
LEMMA FaceStays ==
  ASSUME NEW es, NEW fs, Extends(es, fs), NEW e \in DOMAIN es, es[e].context \subseteq DOMAIN es
  PROVE  FaceOK(es, e) <=> FaceOK(fs, e)
BY DEF Extends, FaceOK

(* A dimension has one entry.                                              *)
LEMMA OneOfDimension ==
  ASSUME EInv, NEW e \in DOMAIN entries, NEW b \in DOMAIN entries,
         entries[e].kind = "dimension", entries[b].kind = "dimension",
         entries[e].name = entries[b].name
  PROVE  e = b
BY DEF EInv, EntryType

(* A binder whose entry its body's context may be discharged of loses no   *)
(* face, and no face that is left is of the dimension it binds.            *)
LEMMA DischargeCarries ==
  ASSUME TableInv, PInv, NEW f, NEW g, NEW b \in DOMAIN entries,
         g.context \subseteq DOMAIN entries, entries[b].kind # "face",
         Dischargeable(entries, g.context, {b}),
         g.context \ {b} \subseteq f.context, f.how.entry = b
  PROVE  Carried(entries, f, g)
<1> SUFFICES ASSUME NEW e \in g.context, entries[e].kind = "face", NEW p \in entries[e].clause,
                    p[1] \in BoundIn(entries, f.how)
             PROVE  FALSE
  BY DEF Carried
<1>1. e \in g.context \ {b} /\ e \in DOMAIN entries
  OBVIOUS
<1>2. b \notin entries[e].context
  BY <1>1 DEF Dischargeable
<1>3. entries[b].kind = "dimension" /\ entries[b].name = p[1]
  BY DEF BoundIn
<1>4. PICK x \in entries[e].context : entries[x].kind = "dimension" /\ entries[x].name = p[1]
  BY <1>1 DEF PInv, FaceOK
<1>5. x \in DOMAIN entries
  BY <1>1, SeqShape DEF TableInv, JInv, EntryOK
<1>6. x = b
  BY <1>3, <1>4, <1>5, OneOfDimension DEF TableInv
<1>7. QED
  BY <1>2, <1>4, <1>6

(* A rule that binds nothing and keeps its premise's context.              *)
LEMMA KeptCarries ==
  ASSUME NEW es, NEW f, NEW g, f.how.rule \notin Binders, g.context \subseteq f.context
  PROVE  Carried(es, f, g)
BY DEF Carried, BoundIn

(* A rule that binds nothing, of a premise on a face it is asked for on.   *)
LEMMA OnFaceCarries ==
  ASSUME NEW es, NEW f, NEW g, NEW clause, f.how.rule \notin Binders,
         OnFace(es, g.context, clause) \subseteq f.context, clause \subseteq AskedBy(f, g)
  PROVE  Carried(es, f, g)
BY DEF Carried, BoundIn, OnFace, Implied

-----------------------------------------------------------------------------
(* A judgement published, with its premises carried.                       *)
LEMMA PublishCarries ==
  ASSUME TableInv, PInv, JInv', NEW f, Publish(f), UNCHANGED checkpoint,
         Extends(entries, entries'),
         \A e \in DOMAIN entries' \ DOMAIN entries : FaceOK(entries', e),
         HowOK(entries', f),
         \A n \in DOMAIN f.how.premises :
           /\ f.how.premises[n] \in DOMAIN facts
           /\ Carried(entries', f, facts[f.how.premises[n]])
  PROVE  PInv'
<1>1. /\ DOMAIN facts' = DOMAIN facts \cup {Len(facts) + 1} /\ facts'[Len(facts) + 1] = f
      /\ Extends(facts, facts')
  BY AppendShape DEF Publish, TableInv, JInv
<1>2. Len(facts) \in Nat /\ DOMAIN facts = 1 .. Len(facts)
  BY SeqShape DEF TableInv, JInv
<1>3. \A e \in DOMAIN entries' : FaceOK(entries', e)
  <2>1. SUFFICES ASSUME NEW e \in DOMAIN entries PROVE FaceOK(entries', e)
    OBVIOUS
  <2>2. FaceOK(entries, e) /\ EntryOK(entries, Len(definitions), e)
    BY DEF PInv, TableInv, JInv
  <2>3. entries[e].context \subseteq DOMAIN entries
    BY <2>2, SeqShape DEF TableInv, JInv, EntryOK
  <2>4. QED
    BY <2>2, <2>3, FaceStays
<1>4. \A i \in DOMAIN facts : HowOK(entries', facts'[i]) /\ PremisesOK(entries', facts', i)
  <2>1. SUFFICES ASSUME NEW i \in DOMAIN facts
                 PROVE  HowOK(entries', facts'[i]) /\ PremisesOK(entries', facts', i)
    OBVIOUS
  <2>2. facts'[i] = facts[i] /\ HowOK(entries, facts[i]) /\ PremisesOK(entries, facts, i)
    BY <1>1 DEF Extends, PInv
  <2>3. HowOK(entries', facts'[i])
    BY <2>2 DEF HowOK, Extends, NeedsEntry
  <2>4. SUFFICES ASSUME NEW n \in DOMAIN facts[i].how.premises
                 PROVE  PremiseOK(entries', facts', facts[i], i, facts[i].how.premises[n])
    BY <2>2, <2>3 DEF PremisesOK
  <2> DEFINE p == facts[i].how.premises[n]
  <2>5. p \in 1 .. i - 1 /\ Carried(entries, facts[i], facts[p])
    BY <2>2 DEF PremisesOK, PremiseOK
  <2>6. p \in DOMAIN facts /\ facts'[p] = facts[p]
    BY <1>1, <1>2, <2>5 DEF Extends
  <2>7. facts[i].context \subseteq DOMAIN entries /\ facts[p].context \subseteq DOMAIN entries
    BY <2>6 DEF TableInv, JInv, FactOK
  <2>8. NeedsEntry(facts[i]) => facts[i].how.entry \in DOMAIN entries
    BY <2>2 DEF HowOK
  <2> HIDE DEF p
  <2>9. Carried(entries', facts[i], facts[p])
    BY <2>5, <2>7, <2>8, CarriedStays
  <2>10. QED
    BY <2>5, <2>6, <2>9 DEF PremiseOK, p
<1>5. PremisesOK(entries', facts', Len(facts) + 1)
  <2>1. SUFFICES ASSUME NEW n \in DOMAIN f.how.premises
                 PROVE  PremiseOK(entries', facts', f, Len(facts) + 1, f.how.premises[n])
    BY <1>1 DEF PremisesOK
  <2> DEFINE p == f.how.premises[n]
  <2>2. p \in DOMAIN facts /\ Carried(entries', f, facts[p])
    OBVIOUS
  <2>3. facts'[p] = facts[p] /\ p \in 1 .. (Len(facts) + 1) - 1
    BY <1>1, <1>2, <2>2 DEF Extends
  <2>4. QED
    BY <2>2, <2>3 DEF PremiseOK
<1>6. checkpoint'.open =>
        \A i \in 1 .. checkpoint'.facts :
          NeedsEntry(facts'[i]) => facts'[i].how.entry \in 1 .. checkpoint'.entries
  <2>1. checkpoint.open => \A i \in 1 .. checkpoint.facts : facts'[i] = facts[i]
    BY <1>1, <1>2 DEF TableInv, JInv, CheckpointOK, Extends
  <2>2. QED
    BY <2>1 DEF PInv
<1>7. QED
  BY <1>1, <1>3, <1>4, <1>5, <1>6 DEF PInv

(* ... by an instruction that makes no entry.                              *)
LEMMA PublishOnlyCarries ==
  ASSUME TableInv, PInv, JInv', NEW f, Publish(f), UNCHANGED <<entries, checkpoint>>,
         HowOK(entries, f),
         \A n \in DOMAIN f.how.premises :
           /\ f.how.premises[n] \in DOMAIN facts
           /\ Carried(entries, f, facts[f.how.premises[n]])
  PROVE  PInv'
<1>1. Extends(entries, entries')
  BY DEF Extends
<1>2. HowOK(entries', f)
  BY DEF HowOK
<1>3. \A n \in DOMAIN f.how.premises : Carried(entries', f, facts[f.how.premises[n]])
  BY DEF Carried, BoundIn
<1>4. QED
  BY <1>1, <1>2, <1>3, PublishCarries

(* An entry added that is no face, or judgements left alone.               *)
LEMMA EntriesCarry ==
  ASSUME TableInv, PInv, UNCHANGED <<facts, checkpoint>>, Extends(entries, entries'),
         \A e \in DOMAIN entries' \ DOMAIN entries : entries'[e].kind # "face"
  PROVE  PInv'
<1>1. \A e \in DOMAIN entries' : FaceOK(entries', e)
  <2>1. SUFFICES ASSUME NEW e \in DOMAIN entries PROVE FaceOK(entries', e)
    BY DEF FaceOK
  <2>2. FaceOK(entries, e) /\ EntryOK(entries, Len(definitions), e)
    BY DEF PInv, TableInv, JInv
  <2>3. entries[e].context \subseteq DOMAIN entries
    BY <2>2, SeqShape DEF TableInv, JInv, EntryOK
  <2>4. QED
    BY <2>2, <2>3, FaceStays
<1>2. Len(facts) \in Nat /\ DOMAIN facts = 1 .. Len(facts)
  BY SeqShape DEF TableInv, JInv
<1>3. \A i \in DOMAIN facts : HowOK(entries', facts[i]) /\ PremisesOK(entries', facts, i)
  <2>1. SUFFICES ASSUME NEW i \in DOMAIN facts
                 PROVE  HowOK(entries', facts[i]) /\ PremisesOK(entries', facts, i)
    OBVIOUS
  <2>2. HowOK(entries, facts[i]) /\ PremisesOK(entries, facts, i)
    BY DEF PInv
  <2>3. HowOK(entries', facts[i])
    BY <2>2 DEF HowOK, Extends, NeedsEntry
  <2>4. SUFFICES ASSUME NEW n \in DOMAIN facts[i].how.premises
                 PROVE  PremiseOK(entries', facts, facts[i], i, facts[i].how.premises[n])
    BY <2>3 DEF PremisesOK
  <2> DEFINE p == facts[i].how.premises[n]
  <2>5. p \in 1 .. i - 1 /\ Carried(entries, facts[i], facts[p])
    BY <2>2 DEF PremisesOK, PremiseOK
  <2>6. p \in DOMAIN facts
    BY <1>2, <2>5
  <2>7. facts[i].context \subseteq DOMAIN entries /\ facts[p].context \subseteq DOMAIN entries
    BY <2>6 DEF TableInv, JInv, FactOK
  <2>8. NeedsEntry(facts[i]) => facts[i].how.entry \in DOMAIN entries
    BY <2>2 DEF HowOK
  <2> HIDE DEF p
  <2>9. Carried(entries', facts[i], facts[p])
    BY <2>5, <2>7, <2>8, CarriedStays
  <2>10. QED
    BY <2>5, <2>9 DEF PremiseOK, p
<1>4. QED
  BY <1>1, <1>3 DEF PInv

-----------------------------------------------------------------------------
(* The instructions: what each asks of its premises.                       *)

(* A judgement's context is of entries, and a premise is a judgement.      *)
LEMMA FactContext ==
  ASSUME TableInv, NEW i \in DOMAIN facts
  PROVE  facts[i].context \subseteq DOMAIN entries
BY DEF TableInv, JInv, FactOK

(* What an instruction without premises concludes needs none.              *)
LEMMA NothingCarried ==
  ASSUME NEW f, f.how.premises = <<>>
  PROVE  DOMAIN f.how.premises = {}
OBVIOUS

(* The fields of a typing.                                                 *)
LEMMA TypingFields ==
  ASSUME NEW rule, NEW premises, NEW entry, NEW operand, NEW free, NEW uses, NEW context, NEW f,
         f = Fact("typing", By(rule, premises, entry, operand), free, uses, context)
  PROVE  /\ f.kind = "typing" /\ f.context = context
         /\ f.how.rule = rule /\ f.how.premises = premises /\ f.how.entry = entry
         /\ f.how.operand = operand
BY DEF Fact, By

(* ... and of a system.                                                    *)
LEMMA SystemHow ==
  ASSUME NEW rule, NEW premises, NEW entry, NEW operand, NEW free, NEW uses, NEW context,
         NEW tubes, NEW pending, NEW agreed, NEW f,
         f = SystemFact(By(rule, premises, entry, operand), free, uses, context, tubes, pending, agreed)
  PROVE  /\ f.kind = "system" /\ f.context = context /\ f.tubes = tubes
         /\ f.how.rule = rule /\ f.how.premises = premises /\ f.how.entry = entry
         /\ f.how.operand = operand
BY DEF SystemFact, Fact, By

(* Constants, universes, variables and definitions looked up have no       *)
(* premise.                                                                *)
LEMMA AxiomCarries ==
  ASSUME TableInv, PInv, JInv', Constant \/ Universe \/ Variable \/ Lookup
  PROVE  PInv'
<1>1. PICK rule \in {"constant", "universe", "variable", "lookup"} : \E entry, operand, free, uses, context :
        Publish(Fact("typing", By(rule, <<>>, entry, operand), free, uses, context))
  <2>1. CASE Constant
    BY <2>1 DEF Constant
  <2>2. CASE Universe
    BY <2>2 DEF Universe
  <2>3. CASE Variable
    BY <2>3 DEF Variable
  <2>4. CASE Lookup
    BY <2>4 DEF Lookup
  <2>5. QED
    BY <2>1, <2>2, <2>3, <2>4
<1>2. PICK entry, operand, free, uses, context :
        Publish(Fact("typing", By(rule, <<>>, entry, operand), free, uses, context))
  BY <1>1
<1> DEFINE f == Fact("typing", By(rule, <<>>, entry, operand), free, uses, context)
<1>3. f.kind = "typing" /\ f.how.rule = rule /\ f.how.premises = <<>>
  BY TypingFields
<1>4. Publish(f) /\ UNCHANGED <<entries, checkpoint>>
  BY <1>2 DEF Constant, Universe, Variable, Lookup, OnlyFacts
<1> HIDE DEF f
<1>5. HowOK(entries, f)
  BY <1>3 DEF HowOK, NeedsEntry, Binders
<1>6. DOMAIN f.how.premises = {}
  BY <1>3, NothingCarried
<1>7. QED
  BY <1>4, <1>5, <1>6, PublishOnlyCarries

(* Two judgements put together, under both their contexts.                 *)
LEMMA CombineCarries == ASSUME TableInv, PInv, JInv', Combine PROVE PInv'
<1>1. PICK i \in Typings, j \in Typings :
        Publish(Fact("typing", By("combine", <<i, j>>, 0, {}), facts[i].free \cup facts[j].free,
                     facts[i].uses \cup facts[j].uses, facts[i].context \cup facts[j].context))
  BY DEF Combine
<1> DEFINE f == Fact("typing", By("combine", <<i, j>>, 0, {}), facts[i].free \cup facts[j].free,
                     facts[i].uses \cup facts[j].uses, facts[i].context \cup facts[j].context)
<1>2. /\ f.kind = "typing" /\ f.how.rule = "combine" /\ f.how.premises = <<i, j>>
      /\ f.context = facts[i].context \cup facts[j].context
  BY TypingFields
<1>3. Publish(f) /\ UNCHANGED <<entries, checkpoint>>
  BY <1>1 DEF Combine, OnlyFacts
<1> HIDE DEF f
<1>4. HowOK(entries, f)
  BY <1>2 DEF HowOK, NeedsEntry, Binders
<1>5. Carried(entries, f, facts[i]) /\ Carried(entries, f, facts[j])
  BY <1>2, KeptCarries DEF Binders
<1>6. i \in DOMAIN facts /\ j \in DOMAIN facts
  BY DEF Typings
<1>7. QED
  BY <1>2, <1>3, <1>4, <1>5, <1>6, PublishOnlyCarries

(* A binder, of an entry that is no face.                                  *)
LEMMA BindCarries == ASSUME TableInv, PInv, JInv', Bind PROVE PInv'
<1>1. PICK i \in Typings, e \in DOMAIN entries :
        /\ entries[e].kind # "face"
        /\ Dischargeable(entries, facts[i].context, {e})
        /\ Publish(Fact("typing", By("bind", <<i>>, e, {}),
                        (facts[i].free \ {entries[e].name}) \cup entries[e].free,
                        facts[i].uses \cup entries[e].uses, Under(facts[i].context, e)))
  BY DEF Bind
<1> DEFINE f == Fact("typing", By("bind", <<i>>, e, {}),
                     (facts[i].free \ {entries[e].name}) \cup entries[e].free,
                     facts[i].uses \cup entries[e].uses, Under(facts[i].context, e))
<1>2. /\ f.kind = "typing" /\ f.how.rule = "bind" /\ f.how.premises = <<i>> /\ f.how.entry = e
      /\ f.context = Under(facts[i].context, e)
  BY TypingFields
<1>3. Publish(f) /\ UNCHANGED <<entries, checkpoint>>
  BY <1>1 DEF Bind, OnlyFacts
<1> HIDE DEF f
<1>4. HowOK(entries, f)
  BY <1>2 DEF HowOK
<1>5. i \in DOMAIN facts /\ facts[i].context \subseteq DOMAIN entries
  BY FactContext DEF Typings
<1>6. facts[i].context \ {e} \subseteq f.context
  BY <1>2 DEF Under
<1>7. Carried(entries, f, facts[i])
  BY <1>1, <1>2, <1>5, <1>6, DischargeCarries
<1>8. QED
  BY <1>2, <1>3, <1>4, <1>5, <1>7, PublishOnlyCarries

(* A dimension fixed at an endpoint.                                       *)
LEMMA EndpointCarries == ASSUME TableInv, PInv, JInv', Endpoint PROVE PInv'
<1>1. PICK i \in Typings, e \in DOMAIN entries, end \in {0, 1} :
        /\ entries[e].kind = "dimension"
        /\ Dischargeable(entries, facts[i].context, {e})
        /\ Publish(Fact("typing", By("endpoint", <<i>>, e, {end}), facts[i].free \ {entries[e].name},
                        facts[i].uses, facts[i].context \ {e}))
  BY DEF Endpoint
<1> DEFINE f == Fact("typing", By("endpoint", <<i>>, e, {end}), facts[i].free \ {entries[e].name},
                     facts[i].uses, facts[i].context \ {e})
<1>2. /\ f.kind = "typing" /\ f.how.rule = "endpoint" /\ f.how.premises = <<i>> /\ f.how.entry = e
      /\ f.context = facts[i].context \ {e}
  BY TypingFields
<1>3. Publish(f) /\ UNCHANGED <<entries, checkpoint>>
  BY <1>1 DEF Endpoint, OnlyFacts
<1> HIDE DEF f
<1>4. HowOK(entries, f)
  BY <1>2 DEF HowOK
<1>5. i \in DOMAIN facts /\ facts[i].context \subseteq DOMAIN entries
  BY FactContext DEF Typings
<1>6. facts[i].context \ {e} \subseteq f.context /\ entries[e].kind # "face"
  BY <1>1, <1>2
<1>7. Carried(entries, f, facts[i])
  BY <1>1, <1>2, <1>5, <1>6, DischargeCarries
<1>8. QED
  BY <1>2, <1>3, <1>4, <1>5, <1>7, PublishOnlyCarries

(* A composition, which binds its system's dimension.                      *)
LEMMA ComposeCarries == ASSUME TableInv, PInv, JInv', Compose PROVE PInv'
<1>1. PICK s \in Systems :
        LET f == facts[s]
            e == f.how.entry
        IN  /\ Dischargeable(entries, f.context, {e})
            /\ Publish(Fact("typing", By("compose", <<s>>, e, {}), f.free \ {entries[e].name},
                            f.uses, f.context \ {e}))
  BY DEF Compose
<1> DEFINE g == facts[s]
           e == g.how.entry
           f == Fact("typing", By("compose", <<s>>, e, {}), g.free \ {entries[e].name},
                     g.uses, g.context \ {e})
<1>2. /\ f.kind = "typing" /\ f.how.rule = "compose" /\ f.how.premises = <<s>> /\ f.how.entry = e
      /\ f.context = g.context \ {e}
  BY TypingFields
<1>3. /\ Publish(f) /\ UNCHANGED <<entries, checkpoint>> /\ Dischargeable(entries, g.context, {e})
  BY <1>1 DEF Compose, OnlyFacts
<1>4. s \in DOMAIN facts /\ g.context \subseteq DOMAIN entries
  BY FactContext DEF Systems
<1>5. e \in DOMAIN entries /\ entries[e].kind = "dimension"
  BY <1>4 DEF PInv, HowOK, NeedsEntry, Systems
<1> HIDE DEF f
<1>6. HowOK(entries, f)
  BY <1>2, <1>5 DEF HowOK
<1>7. g.context \ {e} \subseteq f.context /\ entries[e].kind # "face"
  BY <1>2, <1>5
<1>8. Carried(entries, f, g)
  <2> HIDE DEF g, e
  <2>1. QED
    BY <1>2, <1>3, <1>4, <1>5, <1>7, DischargeCarries
<1>9. QED
  BY <1>2, <1>3, <1>4, <1>6, <1>8, PublishOnlyCarries

(* A definition's body is closed.                                          *)
LEMMA DefineCarries == ASSUME TableInv, PInv, JInv', Define PROVE PInv'
<1>1. PICK i \in Typings, symbol \in DefinitionSymbols :
        Publish(Fact("typing", By("define", <<i>>, 0, {symbol}), {},
                     facts[i].uses \cup {Len(definitions) + 1}, {})) /\ Definable(i)
  BY DEF Define
<1> DEFINE f == Fact("typing", By("define", <<i>>, 0, {symbol}), {},
                     facts[i].uses \cup {Len(definitions) + 1}, {})
<1>2. f.kind = "typing" /\ f.how.rule = "define" /\ f.how.premises = <<i>> /\ f.context = {}
  BY TypingFields
<1>3. Publish(f) /\ UNCHANGED <<entries, checkpoint>>
  BY <1>1 DEF Define
<1> HIDE DEF f
<1>4. HowOK(entries, f)
  BY <1>2 DEF HowOK, NeedsEntry, Binders
<1>5. Carried(entries, f, facts[i]) /\ i \in DOMAIN facts
  BY <1>1, <1>2, KeptCarries DEF Binders, Definable, Typings
<1>6. QED
  BY <1>2, <1>3, <1>4, <1>5, PublishOnlyCarries

(* The entries made for dimensions are no faces.                           *)
LEMMA DimensionsNoFace ==
  ASSUME TableInv, NEW D \in SUBSET Dims, NEW order \in Listings(Missing(D)), DimensionsMade(order)
  PROVE  LET es == WithDimensions(order)
         IN  /\ Extends(entries, es)
             /\ \A e \in DOMAIN es \ DOMAIN entries : es[e].kind = "dimension" /\ FaceOK(es, e)
<1>1. Len(definitions) \in Nat
  BY SeqShape DEF TableInv, JInv
<1>2. Extends(entries, WithDimensions(order))
  BY <1>1, DimensionsSound DEF TableInv
<1>3. \A e \in DOMAIN WithDimensions(order) \ DOMAIN entries : WithDimensions(order)[e].kind = "dimension"
  BY DimensionsTabled DEF TableInv
<1>4. QED
  BY <1>2, <1>3 DEF FaceOK

(* A path at a formula keeps its premise's context.                        *)
LEMMA PathAtCarries == ASSUME TableInv, PInv, JInv', PathAt PROVE PInv'
<1>1. PICK i \in Typings, D \in SUBSET Dims : \E order \in Listings(Missing(D)) :
        /\ entries' = WithDimensions(order) /\ DimensionsMade(order)
        /\ Publish(Fact("typing", By("path_at", <<i>>, 0, D), facts[i].free \cup D,
                        facts[i].uses, facts[i].context \cup DimensionEntries(order, D)))
  BY DEF PathAt
<1>2. PICK order \in Listings(Missing(D)) :
        /\ entries' = WithDimensions(order) /\ DimensionsMade(order)
        /\ Publish(Fact("typing", By("path_at", <<i>>, 0, D), facts[i].free \cup D,
                        facts[i].uses, facts[i].context \cup DimensionEntries(order, D)))
  BY <1>1
<1> DEFINE f == Fact("typing", By("path_at", <<i>>, 0, D), facts[i].free \cup D,
                     facts[i].uses, facts[i].context \cup DimensionEntries(order, D))
<1>3. /\ f.kind = "typing" /\ f.how.rule = "path_at" /\ f.how.premises = <<i>>
      /\ f.context = facts[i].context \cup DimensionEntries(order, D)
  BY TypingFields
<1>4. Publish(f) /\ UNCHANGED checkpoint
  BY <1>2 DEF PathAt
<1> HIDE DEF f
<1>5. HowOK(entries', f)
  BY <1>3 DEF HowOK, NeedsEntry, Binders
<1>6. Carried(entries', f, facts[i]) /\ i \in DOMAIN facts
  BY <1>3, KeptCarries DEF Binders, Typings
<1>7. /\ Extends(entries, entries')
      /\ \A e \in DOMAIN entries' \ DOMAIN entries : FaceOK(entries', e)
  BY <1>2, DimensionsNoFace
<1>8. QED
  BY <1>3, <1>4, <1>5, <1>6, <1>7, PublishCarries

(* A judgement restricted to a clause keeps its premise's context.         *)
LEMMA RestrictCarries ==
  ASSUME TableInv, PInv, JInv', UNCHANGED checkpoint,
         NEW i \in Typings, NEW clause, NEW es, NEW face, RestrictTo(i, clause, es, face),
         Extends(entries, es), \A e \in DOMAIN es \ DOMAIN entries : FaceOK(es, e)
  PROVE  PInv'
<1> DEFINE f == Fact("typing", By("restrict", <<i>>, 0, clause), facts[i].free \ DimsOf(clause),
                     facts[i].uses, facts[i].context \cup es[face].scope)
<1>1. /\ f.kind = "typing" /\ f.how.rule = "restrict" /\ f.how.premises = <<i>>
      /\ f.context = facts[i].context \cup es[face].scope
  BY TypingFields
<1>2. Publish(f) /\ entries' = es
  BY DEF RestrictTo
<1> HIDE DEF f
<1>3. HowOK(entries', f)
  BY <1>1 DEF HowOK, NeedsEntry, Binders
<1>4. Carried(entries', f, facts[i]) /\ i \in DOMAIN facts
  BY <1>1, KeptCarries DEF Binders, Typings
<1>5. QED
  BY <1>1, <1>2, <1>3, <1>4, PublishCarries

(* ... at a clause that has its face,                                      *)
LEMMA RestrictKnownCarries == ASSUME TableInv, PInv, JInv', RestrictKnown PROVE PInv'
<1>1. PICK i \in Typings, clause \in Clauses, face \in DOMAIN entries : RestrictTo(i, clause, entries, face)
  BY DEF RestrictKnown, FaceOf
<1>2. Extends(entries, entries) /\ UNCHANGED checkpoint
  BY DEF Extends, RestrictKnown
<1>3. QED
  BY <1>1, <1>2, RestrictCarries

(* ... and at one whose face is made with it, on its dimensions' entries.  *)
LEMMA RestrictNewCarries == ASSUME TableInv, PInv, JInv', RestrictNew PROVE PInv'
<1>1. PICK i \in Typings, clause \in Clauses : \E order \in Listings(Missing(DimsOf(clause))) :
        /\ DimensionsMade(order)
        /\ RestrictTo(i, clause,
             Append(WithDimensions(order),
                    FaceEntry(clause, DimensionEntries(order, DimsOf(clause)),
                              Len(WithDimensions(order)) + 1)),
             Len(WithDimensions(order)) + 1)
  BY DEF RestrictNew
<1>2. PICK order \in Listings(Missing(DimsOf(clause))) :
        /\ DimensionsMade(order)
        /\ RestrictTo(i, clause,
             Append(WithDimensions(order),
                    FaceEntry(clause, DimensionEntries(order, DimsOf(clause)),
                              Len(WithDimensions(order)) + 1)),
             Len(WithDimensions(order)) + 1)
  BY <1>1
<1> DEFINE dims == WithDimensions(order)
           C    == DimensionEntries(order, DimsOf(clause))
           x    == FaceEntry(clause, C, Len(dims) + 1)
           es   == Append(dims, x)
<1>3. DimsOf(clause) \in SUBSET Dims /\ Len(definitions) \in Nat
  BY SeqShape DEF Clauses, DimsOf, TableInv, JInv
<1>4. /\ Extends(entries, dims)
      /\ \A e \in DOMAIN dims \ DOMAIN entries : dims[e].kind = "dimension"
  BY <1>2, <1>3, DimensionsNoFace
<1>5. /\ IsSeq(dims) /\ C \subseteq DOMAIN dims
      /\ DimsOf(clause) \subseteq NamesOf(dims, C)
  BY <1>3, DimensionsSound DEF TableInv
<1>6. \A e \in DOMAIN dims : EntryType(dims, dimensionEntries', e)
  BY <1>2, <1>3, DimensionsTabled DEF TableInv
<1>7. x.kind = "face" /\ x.clause = clause /\ x.context = C
  BY DEF FaceEntry
<1>8. RestrictTo(i, clause, es, Len(dims) + 1)
  BY <1>2
<1> HIDE DEF dims, C, x
<1>9. /\ Extends(dims, es) /\ DOMAIN es = DOMAIN dims \cup {Len(dims) + 1}
      /\ es[Len(dims) + 1] = x
  BY <1>5, AppendShape
<1> HIDE DEF es
<1>10. Extends(entries, es)
  BY <1>4, <1>9 DEF Extends
<1>11. FaceOK(es, Len(dims) + 1)
  <2>1. SUFFICES ASSUME NEW p \in clause
                 PROVE  \E y \in C : es[y].kind = "dimension" /\ es[y].name = p[1]
    BY <1>7, <1>9 DEF FaceOK
  <2>2. PICK y \in C : dims[y].kind # "face" /\ dims[y].name = p[1]
    BY <1>5 DEF DimsOf, NamesOf
  <2>3. es[y] = dims[y] /\ y \in DOMAIN dims
    BY <1>5, <1>9 DEF Extends
  <2>4. p[1] \in Dims
    BY <1>3 DEF DimsOf
  <2>5. dims[y].kind = "dimension"
    BY <1>6, <2>2, <2>3, <2>4, JudgementsAssumption DEF EntryType
  <2>6. QED
    BY <2>2, <2>3, <2>5
<1>12. \A e \in DOMAIN es \ DOMAIN entries : FaceOK(es, e)
  <2>1. SUFFICES ASSUME NEW e \in DOMAIN dims \ DOMAIN entries PROVE FaceOK(es, e)
    BY <1>9, <1>11
  <2>2. es[e].kind = "dimension"
    BY <1>4, <1>9 DEF Extends
  <2>3. QED
    BY <2>2 DEF FaceOK
<1>13. UNCHANGED checkpoint
  BY DEF RestrictNew
<1>14. QED
  BY <1>8, <1>10, <1>12, <1>13, RestrictCarries

(* A system's entry is a dimension's, and its premises' contexts are kept. *)
LEMMA SystemCarries == ASSUME TableInv, PInv, JInv', System PROVE PInv'
<1>1. PICK i \in Typings, j \in Typings, e \in DOMAIN entries :
        /\ entries[e].kind = "dimension"
        /\ Publish(SystemFact(By("system", <<i, j>>, e, {}), facts[i].free \cup facts[j].free,
                           facts[i].uses \cup facts[j].uses, facts[i].context \cup facts[j].context,
                           <<>>, {}, {}))
  BY DEF System
<1> DEFINE f == SystemFact(By("system", <<i, j>>, e, {}), facts[i].free \cup facts[j].free,
                           facts[i].uses \cup facts[j].uses, facts[i].context \cup facts[j].context,
                           <<>>, {}, {})
<1>2. /\ f.kind = "system" /\ f.how.rule = "system" /\ f.how.premises = <<i, j>> /\ f.how.entry = e
      /\ f.context = facts[i].context \cup facts[j].context
  BY SystemHow
<1>3. Publish(f) /\ UNCHANGED <<entries, checkpoint>>
  BY <1>1 DEF System, OnlyFacts
<1> HIDE DEF f
<1>4. HowOK(entries, f)
  BY <1>1, <1>2 DEF HowOK
<1>5. Carried(entries, f, facts[i]) /\ Carried(entries, f, facts[j])
  BY <1>2, KeptCarries DEF Binders
<1>6. i \in DOMAIN facts /\ j \in DOMAIN facts
  BY DEF Typings
<1>7. QED
  BY <1>2, <1>3, <1>4, <1>5, <1>6, PublishOnlyCarries

(* A tube that is never used is asked for on no clause.                    *)
LEMMA SystemTubeNeverCarries == ASSUME TableInv, PInv, JInv', SystemTubeNever PROVE PInv'
<1>1. PICK s \in Systems, i \in Typings :
        Publish(SystemFact(By("system_tube", <<s, i>>, facts[s].how.entry, {}),
                           facts[s].free \cup facts[i].free, facts[s].uses \cup facts[i].uses,
                           facts[s].context \cup facts[i].context,
                           Append(facts[s].tubes, {}), {}, facts[s].agreed))
  BY DEF SystemTubeNever
<1> DEFINE f == SystemFact(By("system_tube", <<s, i>>, facts[s].how.entry, {}),
                           facts[s].free \cup facts[i].free, facts[s].uses \cup facts[i].uses,
                           facts[s].context \cup facts[i].context,
                           Append(facts[s].tubes, {}), {}, facts[s].agreed)
<1>2. /\ f.kind = "system" /\ f.how.rule = "system_tube" /\ f.how.premises = <<s, i>>
      /\ f.how.entry = facts[s].how.entry
      /\ f.context = facts[s].context \cup facts[i].context
  BY SystemHow
<1>3. Publish(f) /\ UNCHANGED <<entries, checkpoint>>
  BY <1>1 DEF SystemTubeNever, OnlyFacts
<1> HIDE DEF f
<1>4. HowOK(entries, f)
  BY <1>2 DEF HowOK, PInv, Systems, NeedsEntry
<1>5. Carried(entries, f, facts[s]) /\ Carried(entries, f, facts[i])
  BY <1>2, KeptCarries DEF Binders
<1>6. s \in DOMAIN facts /\ i \in DOMAIN facts
  BY DEF Typings, Systems
<1>7. QED
  BY <1>2, <1>3, <1>4, <1>5, <1>6, PublishOnlyCarries

(* A tube and its equality are asked for on the tube's clause.             *)
LEMMA SystemTubeCarries == ASSUME TableInv, PInv, JInv', SystemTube PROVE PInv'
<1>1. PICK s \in Systems, i \in Typings, j \in Typings, clause \in Clauses :
        \E order \in Listings(Missing(DimsOf(clause))) : SystemTubeOn(s, i, j, clause, order)
  BY DEF SystemTube
<1>2. PICK order \in Listings(Missing(DimsOf(clause))) : SystemTubeOn(s, i, j, clause, order)
  BY <1>1
<1> DEFINE g       == facts[s]
           es      == WithDimensions(order)
           context == g.context \cup OnFace(es, facts[i].context, clause)
                        \cup OnFace(es, facts[j].context, clause)
                        \cup DimensionEntries(order, DimsOf(clause))
           f       == SystemFact(By("system_tube", <<s, i, j>>, g.how.entry, {clause}),
                        g.free \cup facts[i].free \cup DimsOf(clause), g.uses \cup facts[i].uses,
                        context, Append(g.tubes, {clause}), Word(Overlapping(g.tubes, clause)), g.agreed)
<1>3. /\ f.kind = "system" /\ f.how.rule = "system_tube" /\ f.how.premises = <<s, i, j>>
      /\ f.how.entry = g.how.entry /\ f.how.operand = {clause} /\ f.context = context
  BY SystemHow
<1>4. Publish(f) /\ entries' = es /\ DimensionsMade(order)
  BY <1>2 DEF SystemTubeOn
<1>5. UNCHANGED checkpoint
  BY DEF SystemTube
<1> HIDE DEF f
<1>6. DimsOf(clause) \in SUBSET Dims
  BY DEF Clauses, DimsOf
<1>7. /\ Extends(entries, entries')
      /\ \A e \in DOMAIN entries' \ DOMAIN entries : FaceOK(entries', e)
  BY <1>4, <1>6, DimensionsNoFace
<1>8. HowOK(entries', f)
  <2>1. g.how.entry \in DOMAIN entries /\ entries[g.how.entry].kind = "dimension"
    BY DEF PInv, HowOK, NeedsEntry, Systems
  <2>2. QED
    BY <1>3, <1>7, <2>1 DEF HowOK, Extends
<1>9. s \in DOMAIN facts /\ i \in DOMAIN facts /\ j \in DOMAIN facts
      /\ facts[i].kind = "typing" /\ facts[j].kind = "typing"
  BY DEF Typings, Systems
<1>10. f.how.rule \notin Binders
  BY <1>3 DEF Binders
<1>11. Carried(entries', f, g)
  BY <1>3, <1>10, KeptCarries
<1>12. AskedBy(f, facts[i]) = clause /\ AskedBy(f, facts[j]) = clause
  BY <1>3, <1>9 DEF AskedBy
<1>13. OnFace(entries', facts[i].context, clause) \subseteq f.context
       /\ OnFace(entries', facts[j].context, clause) \subseteq f.context
  BY <1>3, <1>4
<1>14. Carried(entries', f, facts[i]) /\ Carried(entries', f, facts[j])
  BY <1>10, <1>12, <1>13, OnFaceCarries
<1>15. QED
  BY <1>3, <1>4, <1>5, <1>7, <1>8, <1>9, <1>11, <1>14, PublishCarries

(* An agreement of two tubes is asked for where both are.                  *)
LEMMA SystemOverlapCarries == ASSUME TableInv, PInv, JInv', SystemOverlap PROVE PInv'
<1>1. PICK s \in Systems, j \in Typings : \E k \in facts[s].pending : SystemOverlapAt(s, j, k)
  BY DEF SystemOverlap
<1>2. PICK k \in facts[s].pending : SystemOverlapAt(s, j, k)
  BY <1>1
<1> DEFINE g       == facts[s]
           overlap == UNION (g.tubes[k] \cup g.tubes[Len(g.tubes)])
           f       == SystemFact(By("system_overlap", <<s, j>>, g.how.entry, {k}), g.free, g.uses,
                        g.context \cup OnFace(entries, facts[j].context, overlap), g.tubes,
                        g.pending \ {k}, g.agreed \cup {<<k, Len(g.tubes)>>})
<1>3. /\ f.kind = "system" /\ f.how.rule = "system_overlap" /\ f.how.premises = <<s, j>>
      /\ f.how.entry = g.how.entry /\ f.how.operand = {k} /\ f.tubes = g.tubes
      /\ f.context = g.context \cup OnFace(entries, facts[j].context, overlap)
  BY DEF SystemFact, Fact, By
<1>4. Publish(f) /\ UNCHANGED <<entries, checkpoint>>
  BY <1>2 DEF SystemOverlap, SystemOverlapAt, OnlyFacts
<1> HIDE DEF f
<1>5. HowOK(entries, f)
  BY <1>3 DEF HowOK, PInv, Systems, NeedsEntry
<1>6. s \in DOMAIN facts /\ j \in DOMAIN facts /\ facts[j].kind = "typing"
  BY DEF Typings, Systems
<1>7. f.how.rule \notin Binders
  BY <1>3 DEF Binders
<1>8. Carried(entries, f, g)
  BY <1>3, <1>7, KeptCarries
<1>9. AskedBy(f, facts[j]) = overlap
  <2>1. AskedBy(f, facts[j]) = UNION (UNION {f.tubes[m] : m \in f.how.operand \cup {Len(f.tubes)}})
    BY <1>3, <1>6 DEF AskedBy
  <2>2. QED
    BY <1>3, <2>1
<1>10. OnFace(entries, facts[j].context, overlap) \subseteq f.context
  BY <1>3
<1>11. Carried(entries, f, facts[j])
  <2> HIDE DEF overlap
  <2>1. QED
    BY <1>7, <1>9, <1>10, OnFaceCarries
<1>12. QED
  BY <1>3, <1>4, <1>5, <1>6, <1>8, <1>11, PublishOnlyCarries

-----------------------------------------------------------------------------
(* Entries, checkpoints and truncations.                                   *)

(* New variables and dimensions are no faces.                              *)
LEMMA EntriesMadeCarry == ASSUME TableInv, PInv, Extend \/ Level \/ Dimension PROVE PInv'
<1>1. UNCHANGED <<facts, checkpoint>>
  BY DEF Extend, Level, Dimension
<1>2. /\ Extends(entries, entries')
      /\ \A e \in DOMAIN entries' \ DOMAIN entries : entries'[e].kind # "face"
  <2>1. CASE Extend \/ Level
    <3>1. PICK x : entries' = Append(entries, x) /\ x.kind # "face"
      <4>1. CASE Extend
        <5>1. PICK i \in DOMAIN facts, y \in Symbols :
                entries' = Append(entries,
                  Entry("term", y, facts[i].free, facts[i].uses, facts[i].context, Len(entries) + 1))
          BY <4>1 DEF Extend
        <5>2. QED
          BY <5>1 DEF Entry
      <4>2. CASE Level
        <5>1. PICK y \in Symbols :
                entries' = Append(entries, Entry("level", y, {}, {}, {}, Len(entries) + 1))
          BY <4>2 DEF Level
        <5>2. QED
          BY <5>1 DEF Entry
      <4>3. QED
        BY <2>1, <4>1, <4>2
    <3>2. QED
      BY <3>1, AppendShape DEF TableInv, JInv
  <2>2. CASE Dimension
    <3>1. PICK d \in Dims :
            Missing({d}) # {} /\ entries' = WithDimensions(<<d>>) /\ DimensionsMade(<<d>>)
      BY <2>2 DEF Dimension
    <3>2. {d} \in SUBSET Dims /\ <<d>> \in Listings(Missing({d}))
      BY <3>1, OneDimension
    <3>3. /\ Extends(entries, entries')
          /\ \A e \in DOMAIN entries' \ DOMAIN entries : entries'[e].kind = "dimension"
      BY <3>1, <3>2, DimensionsNoFace
    <3>4. QED
      BY <3>3
  <2>3. QED
    BY <2>1, <2>2
<1>3. QED
  BY <1>1, <1>2, EntriesCarry

(* A checkpoint records what there is.                                     *)
LEMMA CheckpointCarries == ASSUME TableInv, PInv, Checkpoint PROVE PInv'
<1>1. /\ UNCHANGED <<facts, entries>>
      /\ checkpoint' = [open |-> TRUE, facts |-> Len(facts), entries |-> Len(entries),
                        definitions |-> Len(definitions)]
  BY DEF Checkpoint
<1>2. /\ Len(facts) \in Nat /\ DOMAIN facts = 1 .. Len(facts)
      /\ Len(entries) \in Nat /\ DOMAIN entries = 1 .. Len(entries)
  BY SeqShape DEF TableInv, JInv
<1>3. \A i \in 1 .. Len(facts) : NeedsEntry(facts[i]) => facts[i].how.entry \in 1 .. Len(entries)
  BY <1>2 DEF PInv, HowOK
<1>4. QED
  BY <1>1, <1>3 DEF PInv, PremisesOK, PremiseOK, HowOK

(* A truncation keeps a judgement with its premises, their entries and the *)
(* rule's.                                                                 *)
LEMMA TruncationCarries ==
  ASSUME TableInv, PInv, checkpoint.open, TruncateStore, checkpoint' = NoCheckpoint
  PROVE  PInv'
<1> DEFINE cf == checkpoint.facts
           ce == checkpoint.entries
<1>1. /\ cf \in 0 .. Len(facts) /\ ce \in 0 .. Len(entries)
      /\ \A i \in 1 .. cf : facts[i].context \subseteq 1 .. ce
      /\ \A i \in 1 .. cf : NeedsEntry(facts[i]) => facts[i].how.entry \in 1 .. ce
  BY DEF TableInv, JInv, CheckpointOK, PInv
<1>2. /\ Len(facts) \in Nat /\ DOMAIN facts = 1 .. Len(facts)
      /\ Len(entries) \in Nat /\ DOMAIN entries = 1 .. Len(entries)
  BY SeqShape DEF TableInv, JInv
<1>3. DOMAIN facts' = 1 .. cf /\ \A i \in 1 .. cf : facts'[i] = facts[i]
  BY <1>1, PrefixShape DEF TruncateStore, TableInv, JInv
<1>4. DOMAIN entries' = 1 .. ce /\ \A e \in 1 .. ce : entries'[e] = entries[e]
  BY <1>1, PrefixShape DEF TruncateStore, TableInv, JInv
<1> HIDE DEF cf, ce
<1>5. Extends(entries', entries)
  BY <1>1, <1>2, <1>4 DEF Extends
<1>6. \A e \in DOMAIN entries' : FaceOK(entries', e)
  <2>1. SUFFICES ASSUME NEW e \in DOMAIN entries' PROVE FaceOK(entries', e)
    OBVIOUS
  <2>2. e \in DOMAIN entries /\ entries'[e] = entries[e]
    BY <1>1, <1>2, <1>4
  <2>3. FaceOK(entries, e) /\ entries[e].context \subseteq 1 .. e - 1
    BY <2>2 DEF PInv, TableInv, JInv, EntryOK
  <2>4. entries'[e].context \subseteq DOMAIN entries'
    BY <1>1, <1>2, <1>4, <2>2, <2>3
  <2>5. QED
    BY <1>5, <2>3, <2>4, FaceStays
<1>7. \A i \in DOMAIN facts' : HowOK(entries', facts'[i]) /\ PremisesOK(entries', facts', i)
  <2>1. SUFFICES ASSUME NEW i \in 1 .. cf
                 PROVE  HowOK(entries', facts'[i]) /\ PremisesOK(entries', facts', i)
    BY <1>3
  <2>2. facts'[i] = facts[i] /\ i \in DOMAIN facts
    BY <1>1, <1>2, <1>3
  <2>3. HowOK(entries, facts[i]) /\ PremisesOK(entries, facts, i)
    BY <2>2 DEF PInv
  <2>4. NeedsEntry(facts[i]) => facts[i].how.entry \in DOMAIN entries'
    BY <1>1, <1>4
  <2>5. HowOK(entries', facts'[i])
    BY <1>4, <2>2, <2>3, <2>4 DEF HowOK, NeedsEntry
  <2>6. SUFFICES ASSUME NEW n \in DOMAIN facts[i].how.premises
                 PROVE  PremiseOK(entries', facts', facts[i], i, facts[i].how.premises[n])
    BY <2>2, <2>5 DEF PremisesOK
  <2> DEFINE p == facts[i].how.premises[n]
  <2>7. p \in 1 .. i - 1 /\ Carried(entries, facts[i], facts[p])
    BY <2>3 DEF PremisesOK, PremiseOK
  <2>8. p \in 1 .. cf /\ facts'[p] = facts[p]
    BY <1>1, <1>2, <1>3, <2>7
  <2>9. facts[i].context \subseteq DOMAIN entries' /\ facts[p].context \subseteq DOMAIN entries'
    BY <1>1, <1>4, <2>8
  <2> HIDE DEF p
  <2>10. Carried(entries', facts[i], facts[p])
    BY <1>5, <2>4, <2>7, <2>9, CarriedStays
  <2>11. QED
    BY <2>7, <2>8, <2>10 DEF PremiseOK, p
<1>8. QED
  BY <1>6, <1>7 DEF PInv, NoCheckpoint

-----------------------------------------------------------------------------
(* Every step carries the faces premises assume.                           *)
LEMMA PremisesStep == TableInv /\ PInv /\ [Next]_vars => PInv'
<1> SUFFICES ASSUME TableInv, PInv, [Next]_vars PROVE PInv'
  OBVIOUS
<1>1. JInv'
  BY StepSound DEF TableInv
<1>2. CASE Extend \/ Level \/ Dimension
  BY <1>2, EntriesMadeCarry
<1>3. CASE Constant \/ Universe \/ Variable \/ Lookup
  BY <1>1, <1>3, AxiomCarries
<1>4. CASE Combine \/ Bind \/ Endpoint
  BY <1>1, <1>4, CombineCarries, BindCarries, EndpointCarries
<1>5. CASE PathAt \/ RestrictKnown \/ RestrictNew
  BY <1>1, <1>5, PathAtCarries, RestrictKnownCarries, RestrictNewCarries
<1>6. CASE System \/ SystemTubeNever \/ SystemTube \/ SystemOverlap
  BY <1>1, <1>6, SystemCarries, SystemTubeNeverCarries, SystemTubeCarries, SystemOverlapCarries
<1>7. CASE Compose \/ Define
  BY <1>1, <1>7, ComposeCarries, DefineCarries
<1>8. CASE Checkpoint
  BY <1>8, CheckpointCarries
<1>9. CASE Rollback \/ Commit
  BY <1>9, TruncationCarries DEF Rollback, Commit
<1>10. CASE UNCHANGED vars
  BY <1>10 DEF vars, PInv, HowOK, NeedsEntry, PremisesOK, PremiseOK, FaceOK, Carried, BoundIn
<1>11. QED
  BY <1>2, <1>3, <1>4, <1>5, <1>6, <1>7, <1>8, <1>9, <1>10 DEF Next

(* The empty graph has no premises.                                        *)
LEMMA PremisesInit == Init => PInv
<1>1. DOMAIN <<>> = {}
  OBVIOUS
<1>2. QED
  BY <1>1 DEF Init, PInv, NoCheckpoint

(* A face carried holds wherever the conclusion's context does: the value  *)
(* of a dimension the rule binds is not what it is about.                  *)
LEMMA CarriedHolds ==
  ASSUME TableInv, NEW f, NEW g, Carried(entries, f, g), g.context \subseteq DOMAIN entries,
         NEW e \in g.context, entries[e].kind = "face",
         NEW v \in Values, Assumed(v, f.context), NEW w \in Values,
         \A d \in Dims \ BoundIn(entries, f.how) : w[d] = v[d],
         Holds(w, AskedBy(f, g))
  PROVE  Holds(w, entries[e].clause)
<1>1. CASE entries[e].clause \subseteq AskedBy(f, g)
  BY <1>1 DEF Holds
<1>2. CASE e \in f.context /\ \A p \in entries[e].clause : p[1] \notin BoundIn(entries, f.how)
  <2>1. entries[e].clause \in Clauses
    BY DEF TableInv, EInv, EntryType
  <2>2. \A p \in entries[e].clause : p[1] \in Dims
    BY <2>1 DEF Clauses
  <2>3. Holds(v, entries[e].clause)
    BY <1>2 DEF Assumed
  <2>4. QED
    BY <1>2, <2>2, <2>3 DEF Holds
<1>3. QED
  BY <1>1, <1>2 DEF Carried

(* No judgement leaves a face its premises were derived on: what every     *)
(* rule discharges, binds or restricts keeps what its premises assumed.    *)
THEOREM PremisesAreHeld == Spec => []PremisesHold
<1>1. TableInv /\ PInv => PremisesHold
  <2> SUFFICES ASSUME TableInv, PInv,
                      NEW i \in DOMAIN facts, NEW n \in DOMAIN facts[i].how.premises,
                      NEW e \in facts[facts[i].how.premises[n]].context, entries[e].kind = "face",
                      NEW v \in Values, Assumed(v, facts[i].context), NEW w \in Values,
                      \A d \in Dims \ BoundBy(facts[i].how) : w[d] = v[d],
                      Holds(w, AskedOf(i, facts[i].how.premises[n]))
               PROVE  Holds(w, entries[e].clause)
    BY DEF PremisesHold
  <2> DEFINE p == facts[i].how.premises[n]
  <2>1. p \in 1 .. i - 1 /\ Carried(entries, facts[i], facts[p])
    BY DEF PInv, PremisesOK, PremiseOK
  <2>2. p \in DOMAIN facts
    BY <2>1, SeqShape DEF TableInv, JInv
  <2>3. BoundBy(facts[i].how) = BoundIn(entries, facts[i].how)
    BY DEF BoundBy, BoundIn, Binders
  <2>4. AskedOf(i, p) = AskedBy(facts[i], facts[p])
    BY DEF AskedOf, AskedBy
  <2> HIDE DEF p
  <2>5. facts[p].context \subseteq DOMAIN entries
    BY <2>2, FactContext
  <2>6. e \in facts[p].context /\ Holds(w, AskedOf(i, p))
    BY DEF p
  <2>7. QED
    BY <2>1, <2>3, <2>4, <2>5, <2>6, CarriedHolds
<1>2. Spec => []PInv
  <2>1. TableInv /\ PInv /\ [Next]_vars => (TableInv /\ PInv)'
    BY TableStep, PremisesStep
  <2>2. QED
    BY TableInit, PremisesInit, <2>1, PTL DEF Spec
<1>3. QED
  BY <1>1, <1>2, TableHolds, PTL
=============================================================================
