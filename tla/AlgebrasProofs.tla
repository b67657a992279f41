--------------------------- MODULE AlgebrasProofs ---------------------------
(***************************************************************************)
(* The two algebras the kernel decides, proved for any dimensions,         *)
(* variables and bounds: the normal forms of levels (module Levels) and    *)
(* the formulas of faces and intervals (module Lattices).                  *)
(*                                                                         *)
(* The ordinals up to a level's value are read off the parts of its form   *)
(* (InValue); each operation on forms is shown to do to that set what it   *)
(* does to ordinals, and a form within the others' values is compared part *)
(* by part: an assignment that gives one variable the largest value and    *)
(* the others zero tells its offset apart (LeqIsComplete).                 *)
(*                                                                         *)
(* Inserting clauses into a formula one by one leaves the least of them,   *)
(* whatever their order, and what is left decides equality and entailment. *)
(* A set of clauses is its own witness: where a clause of a formula holds  *)
(* by itself, a clause of every formula that means the same is within it.  *)
(* Formulas are built by folds over sets of clauses; a fold is a function  *)
(* (FoldExists), and what it has built of a part of the set is that part's *)
(* union or intersection of meanings (JoinAllMeans, MeetAllMeans).  So     *)
(* either way of substituting a term for i means what the formula did      *)
(* where i has the term's value (SubstitutedIs).                           *)
(***************************************************************************)
EXTENDS Levels, Lattices, SequenceProofs

USE LevelsAssumption

(* Naturals. *)

(* Every set of naturals below a bound has a greatest one.                 *)
LEMMA GreatestNat ==
  ASSUME NEW bound \in Nat, NEW S, S \subseteq 0 .. bound, S # {}
  PROVE  \E m \in S : \A n \in S : m >= n
<1> DEFINE T == {k \in Nat : bound - k \in S}
<1>1. T # {}
  <2>1. PICK n \in S : TRUE OBVIOUS
  <2> QED BY <2>1, bound - n \in Nat, bound - (bound - n) = n
<1>2. PICK k \in T : \A j \in T : k <= j BY <1>1, LeastNat
<1>3. ASSUME NEW n \in S PROVE bound - k >= n
  <2>0. n \in Nat /\ n <= bound /\ k \in Nat OBVIOUS
  <2>1. bound - n \in T BY <2>0, bound - (bound - n) = n, bound - n \in Nat
  <2>2. k <= bound - n BY <1>2, <2>1
  <2> QED BY <2>0, <2>2
<1> QED BY <1>2, <1>3

(* Forms. *)

(* What a form is made of: no offset exceeds its constant, and a constant  *)
(* of tier 1 or above has no variables left.                               *)
LEMMA FormParts ==
  ASSUME NEW f \in Forms
  PROVE  /\ f = Form(f.tier, f.constant, f.offsets)
         /\ f.tier \in 0 .. TierMax /\ f.constant \in 0 .. LevelMax
         /\ DOMAIN f.offsets \subseteq LevelVariables
         /\ f.offsets = [x \in DOMAIN f.offsets |-> f.offsets[x]]
         /\ \A x \in DOMAIN f.offsets : f.offsets[x] \in 0 .. f.constant
         /\ f.tier # 0 => DOMAIN f.offsets = {}
<1>1. CASE f \in FiniteForms
  <2>1. PICK c \in 0 .. LevelMax : f \in [tier : {0}, constant : {c}, offsets : OffsetsUpTo(c)]
    BY <1>1 DEF FiniteForms
  <2>2. f.offsets \in OffsetsUpTo(c) BY <2>1
  <2>3. PICK S \in SUBSET LevelVariables : f.offsets \in [S -> 0 .. c] BY <2>2 DEF OffsetsUpTo
  <2>4. f = Form(f.tier, f.constant, f.offsets) /\ f.tier = 0 /\ f.constant = c BY <2>1 DEF Form
  <2> QED BY <2>3, <2>4
<1>2. CASE f \in AbsorbingForms
  <2>1. f = Form(f.tier, f.constant, f.offsets) /\ f.tier \in 1 .. TierMax /\ f.constant \in 0 .. LevelMax
    BY <1>2 DEF AbsorbingForms, Form
  <2>2. f.offsets = NoOffsets BY <1>2 DEF AbsorbingForms
  <2>3. f.offsets = [x \in {} |-> 0] BY <2>2 DEF NoOffsets
  <2>4. DOMAIN f.offsets = {} BY <2>3
  <2> QED BY <2>1, <2>3, <2>4
<1> QED BY <1>1, <1>2 DEF Forms

(* The parts of a form are numbers within the bounds.                      *)
LEMMA FormBounds ==
  ASSUME NEW f \in Forms
  PROVE  /\ f.tier \in Nat /\ f.constant \in Nat
         /\ \A x \in DOMAIN f.offsets : f.offsets[x] \in Nat /\ f.offsets[x] \in 0 .. LevelMax
<1>1. f.tier \in 0 .. TierMax /\ f.constant \in 0 .. LevelMax /\ \A x \in DOMAIN f.offsets : f.offsets[x] \in 0 .. f.constant
  BY FormParts
<1>2. f.tier \in Nat /\ f.constant \in Nat BY <1>1
<1>3. ASSUME NEW x \in DOMAIN f.offsets PROVE f.offsets[x] \in Nat /\ f.offsets[x] \in 0 .. LevelMax BY <1>1
<1> QED BY <1>2, <1>3

(* Offsets up to a constant make a form.                                   *)
LEMMA FormIntro ==
  ASSUME NEW c \in 0 .. LevelMax, NEW S \in SUBSET LevelVariables, NEW g \in [S -> 0 .. c]
  PROVE  Form(0, c, g) \in Forms
<1>1. g \in OffsetsUpTo(c) BY DEF OffsetsUpTo
<1>2. Form(0, c, g) \in [tier : {0}, constant : {c}, offsets : OffsetsUpTo(c)] BY <1>1 DEF Form
<1> QED BY <1>2 DEF Forms, FiniteForms

(* A constant of any tier is a form.                                       *)
LEMMA ConstantIntro ==
  ASSUME NEW t \in 0 .. TierMax, NEW c \in 0 .. LevelMax
  PROVE  ConstantForm(t, c) \in Forms
<1>1. NoOffsets \in [{} -> 0 .. c] BY DEF NoOffsets
<1>2. CASE t = 0
  <2>1. Form(0, c, NoOffsets) \in Forms BY <1>1, FormIntro, {} \in SUBSET LevelVariables
  <2> QED BY <1>2, <2>1 DEF ConstantForm
<1>3. CASE t # 0 BY <1>3 DEF ConstantForm, Form, Forms, AbsorbingForms
<1> QED BY <1>2, <1>3

(* Ordinals, and what forms stand for. *)

(* The parts of an ordinal.                                                *)
LEMMA OrdinalParts ==
  ASSUME NEW o \in Ordinals
  PROVE  o.tier \in 0 .. TierMax /\ o.value \in 0 .. (Largest + LevelMax) /\ o = Ordinal(o.tier, o.value)
BY DEF Ordinals, Ordinal

(* Variables are assigned finite ordinals.                                 *)
LEMMA AssignedParts ==
  ASSUME NEW v \in Assignments, NEW x \in LevelVariables
  PROVE  v[x].tier = 0 /\ v[x].value \in 0 .. Largest /\ v[x] = Ordinal(0, v[x].value)
BY DEF Assignments, Ordinal

(* An ordinal is within a form when it is below its constant or below one  *)
(* of its variables with the offset.                                       *)
LEMMA InValue ==
  ASSUME NEW f, NEW v, NEW o
  PROVE  o \in Value(f, v) <=>
           /\ o \in Ordinals
           /\ \/ Below(o, Ordinal(f.tier, f.constant))
              \/ \E x \in DOMAIN f.offsets : Below(o, Plus(v[x], f.offsets[x]))
BY DEF Value

(* A constant form stands for its constant.                                *)
LEMMA ValueOfConstant ==
  ASSUME NEW t, NEW n, NEW v
  PROVE  Value(ConstantForm(t, n), v) = UpTo(Ordinal(t, n))
<1>1. DOMAIN NoOffsets = {} BY DEF NoOffsets
<1> QED BY <1>1 DEF Value, UpTo, ConstantForm, Form

(* A variable form stands for what the variable is given.                  *)
LEMMA ValueOfVariable ==
  ASSUME NEW v \in Assignments, NEW x \in LevelVariables
  PROVE  Value(VariableForm(x), v) = UpTo(v[x])
<1>1. v[x].tier = 0 /\ v[x].value \in 0 .. Largest /\ v[x] = Ordinal(0, v[x].value) BY AssignedParts
<1>2. Plus(v[x], 0) = v[x]
  <2>1. v[x].value + 0 = v[x].value BY <1>1
  <2>2. Plus(v[x], 0) = Ordinal(v[x].tier, v[x].value) BY <2>1 DEF Plus
  <2> QED BY <1>1, <2>2
<1> DEFINE f == VariableForm(x)
<1>3. f.tier = 0 /\ f.constant = 0 /\ DOMAIN f.offsets = {x} /\ f.offsets[x] = 0 BY DEF VariableForm, Form
<1>4. ASSUME NEW o \in Ordinals, Below(o, Ordinal(0, 0)) PROVE Below(o, v[x])
  BY <1>1, <1>4, OrdinalParts DEF Below, Ordinal
<1> HIDE DEF f
<1>5. \A o : o \in Value(f, v) <=> o \in Ordinals /\ (Below(o, Ordinal(0, 0)) \/ Below(o, v[x]))
  BY <1>2, <1>3, InValue
<1>6. Value(f, v) = UpTo(v[x]) BY <1>4, <1>5 DEF UpTo
<1> QED BY <1>6 DEF f

(* Adding to both sides keeps the order of ordinals.                       *)
LEMMA BelowTransitive ==
  ASSUME NEW o \in Ordinals, NEW p \in Ordinals, NEW t \in Nat, NEW n \in Nat, NEW m \in Nat,
         Below(o, Plus(p, m)), Below(p, Ordinal(t, n))
  PROVE  Below(o, Ordinal(t, n + m))
BY OrdinalParts DEF Below, Plus, Ordinal

(* Raising every part of a form raises what it stands for (add).           *)
LEMMA ValueOfSuccessor ==
  ASSUME NEW f \in Forms, NEW n \in Nat, f.constant + n <= LevelMax, NEW v \in Assignments
  PROVE  Value(SuccessorForm(f, n), v) = {o \in Ordinals : \E p \in Value(f, v) : Below(o, Plus(p, n))}
<1> DEFINE g == SuccessorForm(f, n)
<1>1. /\ f.tier \in 0 .. TierMax /\ f.constant \in 0 .. LevelMax /\ DOMAIN f.offsets \subseteq LevelVariables
      /\ \A x \in DOMAIN f.offsets : f.offsets[x] \in 0 .. f.constant
  BY FormParts
<1>2. /\ g.tier = f.tier /\ g.constant = f.constant + n /\ DOMAIN g.offsets = DOMAIN f.offsets
      /\ \A x \in DOMAIN f.offsets : g.offsets[x] = f.offsets[x] + n
  BY DEF SuccessorForm, Form
<1> HIDE DEF g
<1>3. ASSUME NEW o \in Value(g, v) PROVE \E p \in Value(f, v) : Below(o, Plus(p, n))
  <2>1. CASE Below(o, Ordinal(g.tier, g.constant))
    <3>1. Ordinal(f.tier, f.constant) \in Ordinals BY <1>1 DEF Ordinal, Ordinals
    <3>2. Below(Ordinal(f.tier, f.constant), Ordinal(f.tier, f.constant)) BY <1>1 DEF Below, Ordinal
    <3>3. Ordinal(f.tier, f.constant) \in Value(f, v) BY <3>1, <3>2, InValue
    <3>4. Below(o, Plus(Ordinal(f.tier, f.constant), n)) BY <2>1, <1>2 DEF Plus, Ordinal
    <3> QED BY <3>3, <3>4
  <2>2. ASSUME NEW x \in DOMAIN f.offsets, Below(o, Plus(v[x], g.offsets[x])) PROVE \E p \in Value(f, v) : Below(o, Plus(p, n))
    <3> DEFINE p == Plus(v[x], f.offsets[x])
    <3>1. v[x].tier = 0 /\ v[x].value \in 0 .. Largest /\ f.offsets[x] \in 0 .. LevelMax BY <1>1, AssignedParts
    <3>2. p \in Ordinals BY <3>1 DEF Plus, Ordinal, Ordinals
    <3>3. Below(p, p) BY <3>1 DEF Plus, Below, Ordinal
    <3>4. p \in Value(f, v) BY <3>2, <3>3, InValue
    <3>5. Plus(p, n) = Plus(v[x], g.offsets[x]) BY <3>1, <1>2 DEF Plus, Ordinal
    <3> QED BY <3>4, <3>5, <2>2
  <2> QED BY <1>2, <2>1, <2>2, InValue
<1>4. ASSUME NEW o \in Ordinals, NEW p \in Value(f, v), Below(o, Plus(p, n)) PROVE o \in Value(g, v)
  <2>1. p \in Ordinals BY InValue
  <2>2. CASE Below(p, Ordinal(f.tier, f.constant))
    <3>1. Below(o, Ordinal(f.tier, f.constant + n)) BY <1>1, <1>4, <2>1, <2>2, BelowTransitive
    <3> QED BY <1>2, <3>1, InValue
  <2>3. ASSUME NEW x \in DOMAIN f.offsets, Below(p, Plus(v[x], f.offsets[x])) PROVE o \in Value(g, v)
    <3>1. v[x].tier = 0 /\ v[x].value \in 0 .. Largest /\ f.offsets[x] \in 0 .. LevelMax BY <1>1, AssignedParts
    <3>2. Below(p, Ordinal(0, v[x].value + f.offsets[x])) BY <2>3, <3>1 DEF Plus
    <3>3. Below(o, Ordinal(0, v[x].value + f.offsets[x] + n)) BY <1>4, <2>1, <3>1, <3>2, BelowTransitive
    <3>4. Below(o, Plus(v[x], g.offsets[x])) BY <3>1, <3>3, <1>2 DEF Plus
    <3> QED BY <1>2, <3>4, InValue
  <2> QED BY <2>2, <2>3, InValue
<1>5. Value(g, v) = {o \in Ordinals : \E p \in Value(f, v) : Below(o, Plus(p, n))} BY <1>3, <1>4, InValue
<1> QED BY <1>5 DEF g

(* A successor within the bound is a form.                                 *)
LEMMA SuccessorCloses ==
  ASSUME NEW f \in Forms, NEW n \in Nat, f.constant + n <= LevelMax
  PROVE  SuccessorForm(f, n) \in Forms
<1>1. /\ f = Form(f.tier, f.constant, f.offsets)
      /\ f.tier \in 0 .. TierMax /\ f.constant \in 0 .. LevelMax /\ DOMAIN f.offsets \subseteq LevelVariables
      /\ \A x \in DOMAIN f.offsets : f.offsets[x] \in 0 .. f.constant
      /\ f.tier # 0 => DOMAIN f.offsets = {}
  BY FormParts
<1> DEFINE c == f.constant + n
           g == [x \in DOMAIN f.offsets |-> f.offsets[x] + n]
<1>2. c \in 0 .. LevelMax BY <1>1
<1>3. CASE f.tier = 0
  <2>1. g \in [DOMAIN f.offsets -> 0 .. c] BY <1>1, <1>2
  <2> HIDE DEF g, c
  <2>2. Form(0, c, g) \in Forms BY <1>1, <1>2, <2>1, FormIntro
  <2> QED BY <1>3, <2>2 DEF SuccessorForm, g, c
<1>4. CASE f.tier # 0
  <2>1. g = NoOffsets BY <1>1, <1>4 DEF NoOffsets
  <2>2. ConstantForm(f.tier, c) \in Forms BY <1>1, <1>2, ConstantIntro
  <2> QED BY <2>1, <2>2 DEF SuccessorForm, ConstantForm
<1> QED BY <1>3, <1>4

(* The parts of the maximum of two forms without tier.                     *)
LEMMA MaximumParts ==
  ASSUME NEW a \in Forms, NEW b \in Forms, a.tier = 0, b.tier = 0
  PROVE  LET g == MaximumForm(a, b) IN
         /\ g.tier = 0 /\ g.constant = Larger(a.constant, b.constant)
         /\ DOMAIN g.offsets = DOMAIN a.offsets \cup DOMAIN b.offsets
         /\ \A x \in DOMAIN g.offsets :
              g.offsets[x] = IF x \notin DOMAIN a.offsets THEN b.offsets[x]
                             ELSE IF x \notin DOMAIN b.offsets THEN a.offsets[x] ELSE Larger(a.offsets[x], b.offsets[x])
BY DEF MaximumForm, Form, LargerOffsets

(* The maximum of two forms is a form.                                     *)
LEMMA MaximumCloses ==
  ASSUME NEW a \in Forms, NEW b \in Forms
  PROVE  MaximumForm(a, b) \in Forms
<1>1. /\ a.tier \in 0 .. TierMax /\ a.constant \in 0 .. LevelMax /\ DOMAIN a.offsets \subseteq LevelVariables
      /\ \A x \in DOMAIN a.offsets : a.offsets[x] \in 0 .. a.constant
  BY FormParts
<1>2. /\ b.tier \in 0 .. TierMax /\ b.constant \in 0 .. LevelMax /\ DOMAIN b.offsets \subseteq LevelVariables
      /\ \A x \in DOMAIN b.offsets : b.offsets[x] \in 0 .. b.constant
  BY FormParts
<1>3. CASE a.tier = 0 /\ b.tier = 0
  <2> DEFINE c == Larger(a.constant, b.constant)
             g == LargerOffsets(a.offsets, b.offsets)
  <2>1. c \in 0 .. LevelMax /\ a.constant <= c /\ b.constant <= c BY <1>1, <1>2 DEF Larger
  <2>2. \A x \in DOMAIN a.offsets \cup DOMAIN b.offsets : g[x] \in 0 .. c BY <1>1, <1>2, <2>1 DEF Larger, LargerOffsets
  <2>3. g \in [DOMAIN a.offsets \cup DOMAIN b.offsets -> 0 .. c] BY <2>2 DEF LargerOffsets
  <2> HIDE DEF g, c
  <2>4. Form(0, c, g) \in Forms BY <1>1, <1>2, <2>1, <2>3, FormIntro
  <2> QED BY <1>3, <2>4 DEF MaximumForm, g, c
<1>4. CASE ~ (a.tier = 0 /\ b.tier = 0)
  <2>1. ConstantForm(a.tier, a.constant) \in Forms /\ ConstantForm(b.tier, b.constant) \in Forms BY <1>1, <1>2, ConstantIntro
  <2> QED BY <1>4, <2>1 DEF MaximumForm
<1> QED BY <1>3, <1>4

(* The maximum of two forms stands for what either stands for              *)
(* (join).                                                                 *)
LEMMA ValueOfMaximum ==
  ASSUME NEW a \in Forms, NEW b \in Forms, NEW v \in Assignments
  PROVE  Value(MaximumForm(a, b), v) = Value(a, v) \cup Value(b, v)
<1>1. /\ a.tier \in 0 .. TierMax /\ a.constant \in 0 .. LevelMax /\ DOMAIN a.offsets \subseteq LevelVariables
      /\ \A x \in DOMAIN a.offsets : a.offsets[x] \in 0 .. a.constant
      /\ a.tier # 0 => DOMAIN a.offsets = {}
  BY FormParts
<1>2. /\ b.tier \in 0 .. TierMax /\ b.constant \in 0 .. LevelMax /\ DOMAIN b.offsets \subseteq LevelVariables
      /\ \A x \in DOMAIN b.offsets : b.offsets[x] \in 0 .. b.constant
      /\ b.tier # 0 => DOMAIN b.offsets = {}
  BY FormParts
<1> DEFINE g == MaximumForm(a, b)
<1>3. CASE a.tier = 0 /\ b.tier = 0
  <2>1. /\ g.tier = 0 /\ g.constant = Larger(a.constant, b.constant)
        /\ DOMAIN g.offsets = DOMAIN a.offsets \cup DOMAIN b.offsets
        /\ \A x \in DOMAIN g.offsets :
             g.offsets[x] = IF x \notin DOMAIN a.offsets THEN b.offsets[x]
                            ELSE IF x \notin DOMAIN b.offsets THEN a.offsets[x] ELSE Larger(a.offsets[x], b.offsets[x])
    BY <1>3, MaximumParts
  <2> HIDE DEF g
  <2>2. ASSUME NEW o \in Ordinals
        PROVE  Below(o, Ordinal(0, g.constant)) <=> Below(o, Ordinal(0, a.constant)) \/ Below(o, Ordinal(0, b.constant))
    BY <1>1, <1>2, <2>1, OrdinalParts DEF Below, Ordinal, Larger
  <2>3. ASSUME NEW o \in Ordinals, NEW x \in DOMAIN g.offsets
        PROVE  Below(o, Plus(v[x], g.offsets[x])) <=>
                 \/ x \in DOMAIN a.offsets /\ Below(o, Plus(v[x], a.offsets[x]))
                 \/ x \in DOMAIN b.offsets /\ Below(o, Plus(v[x], b.offsets[x]))
    <3>1. v[x].tier = 0 /\ v[x].value \in Nat BY <1>1, <1>2, <2>1, AssignedParts
    <3>2. o.tier \in Nat /\ o.value \in Nat BY OrdinalParts
    <3>3. x \in DOMAIN a.offsets => a.offsets[x] \in Nat BY <1>1
    <3>4. x \in DOMAIN b.offsets => b.offsets[x] \in Nat BY <1>2
    <3> QED BY <2>1, <3>1, <3>2, <3>3, <3>4 DEF Below, Plus, Ordinal, Larger
  <2>4. Value(g, v) = Value(a, v) \cup Value(b, v) BY <1>3, <2>1, <2>2, <2>3, InValue
  <2> QED BY <2>4 DEF g
<1>4. CASE ~ (a.tier = 0 /\ b.tier = 0)
  <2> DEFINE c == IF a.tier < b.tier \/ (a.tier = b.tier /\ a.constant < b.constant) THEN b ELSE a
  <2>1. g = ConstantForm(c.tier, c.constant) /\ c.tier \in Nat /\ c.tier # 0 /\ c.constant \in Nat
    BY <1>1, <1>2, <1>4 DEF MaximumForm
  <2>2. ASSUME NEW o \in Ordinals PROVE Below(o, Ordinal(a.tier, a.constant)) \/ Below(o, Ordinal(b.tier, b.constant)) <=> Below(o, Ordinal(c.tier, c.constant))
    BY <1>1, <1>2, OrdinalParts DEF Below, Ordinal
  <2>3. ASSUME NEW o \in Ordinals, NEW d \in {a, b}, NEW x \in DOMAIN d.offsets, Below(o, Plus(v[x], d.offsets[x]))
        PROVE  Below(o, Ordinal(c.tier, c.constant))
    <3>1. x \in LevelVariables /\ v[x].tier = 0 BY <1>1, <1>2, AssignedParts
    <3>2. o.tier = 0 BY <2>3, <3>1, OrdinalParts DEF Below, Plus, Ordinal
    <3> QED BY <2>1, <3>2 DEF Below, Ordinal
  <2>4. Value(a, v) \cup Value(b, v) = UpTo(Ordinal(c.tier, c.constant)) BY <2>2, <2>3, InValue DEF UpTo
  <2> QED BY <2>1, <2>4, ValueOfConstant
<1> QED BY <1>3, <1>4

(* Comparing forms. *)

(* A form that compares as at most another is never more.                  *)
LEMMA LeqIsSound ==
  ASSUME NEW a \in Forms, NEW b \in Forms, Leq(a, b), NEW v \in Assignments
  PROVE  Value(a, v) \subseteq Value(b, v)
<1>1. /\ a.tier \in Nat /\ a.constant \in Nat /\ DOMAIN a.offsets \subseteq LevelVariables
      /\ \A x \in DOMAIN a.offsets : a.offsets[x] \in Nat
      /\ a.tier # 0 => DOMAIN a.offsets = {}
  BY FormParts, FormBounds
<1>2. /\ b.tier \in Nat /\ b.constant \in Nat
      /\ \A x \in DOMAIN b.offsets : b.offsets[x] \in Nat
  BY FormParts, FormBounds
<1> SUFFICES ASSUME NEW o \in Value(a, v) PROVE o \in Value(b, v) OBVIOUS
<1>3. o \in Ordinals /\ o.tier \in Nat /\ o.value \in Nat BY InValue, OrdinalParts
<1>4. CASE Below(o, Ordinal(a.tier, a.constant))
  <2>1. Below(o, Ordinal(b.tier, b.constant)) BY <1>1, <1>2, <1>3, <1>4 DEF Leq, Below, Ordinal
  <2> QED BY <1>3, <2>1, InValue
<1>5. ASSUME NEW x \in DOMAIN a.offsets, Below(o, Plus(v[x], a.offsets[x])) PROVE o \in Value(b, v)
  <2>1. v[x].tier = 0 /\ v[x].value \in Nat /\ a.tier = 0 BY <1>1, AssignedParts
  <2>2. CASE b.tier = 0
    <3>1. x \in DOMAIN b.offsets /\ a.offsets[x] <= b.offsets[x] BY <2>1, <2>2 DEF Leq
    <3>2. a.offsets[x] \in Nat /\ b.offsets[x] \in Nat BY <1>1, <1>2, <3>1
    <3>3. Below(o, Plus(v[x], b.offsets[x])) BY <1>3, <1>5, <2>1, <3>1, <3>2 DEF Below, Plus, Ordinal
    <3> QED BY <1>3, <3>1, <3>3, InValue
  <2>3. CASE b.tier # 0
    <3>1. o.tier = 0 BY <1>3, <1>5, <2>1 DEF Below, Plus, Ordinal
    <3>2. Below(o, Ordinal(b.tier, b.constant)) BY <1>2, <2>3, <3>1 DEF Below, Ordinal
    <3> QED BY <1>3, <3>2, InValue
  <2> QED BY <2>2, <2>3
<1> QED BY <1>4, <1>5, InValue

(* A form that is never more than another compares as at most it.          *)
LEMMA LeqIsComplete ==
  ASSUME NEW a \in Forms, NEW b \in Forms, ~ Leq(a, b)
  PROVE  \E v \in Assignments : ~ (Value(a, v) \subseteq Value(b, v))
<1>1. /\ a.tier \in 0 .. TierMax /\ a.constant \in 0 .. LevelMax /\ DOMAIN a.offsets \subseteq LevelVariables
      /\ \A x \in DOMAIN a.offsets : a.offsets[x] \in 0 .. LevelMax
  BY FormParts, FormBounds
<1>2. /\ b.tier \in 0 .. TierMax /\ b.constant \in 0 .. LevelMax /\ DOMAIN b.offsets \subseteq LevelVariables
      /\ \A x \in DOMAIN b.offsets : b.offsets[x] \in 0 .. b.constant
      /\ b.tier # 0 => DOMAIN b.offsets = {}
  BY FormParts, FormBounds
<1> DEFINE Least == [y \in LevelVariables |-> Ordinal(0, 0)]
           Large(x) == [y \in LevelVariables |-> IF y = x THEN Ordinal(0, Largest) ELSE Ordinal(0, 0)]
<1>3. Least \in Assignments /\ \A x : Large(x) \in Assignments BY DEF Assignments, Ordinal
<1>4. CASE ~ (a.tier = 0 /\ b.tier = 0) \/ a.constant > b.constant
  <2> DEFINE o == Ordinal(a.tier, a.constant)
  <2>1. o \in Ordinals /\ Below(o, o) BY <1>1 DEF Ordinals, Ordinal, Below
  <2>2. o \in Value(a, Least) BY <2>1, InValue
  <2>3. ~ Below(o, Ordinal(b.tier, b.constant)) BY <1>1, <1>2, <1>4 DEF Leq, Below, Ordinal
  <2>4. ASSUME NEW x \in DOMAIN b.offsets PROVE ~ Below(o, Plus(Least[x], b.offsets[x]))
    <3>1. Least[x] = Ordinal(0, 0) /\ b.tier = 0 /\ b.offsets[x] \in 0 .. b.constant BY <1>2
    <3>2. Plus(Least[x], b.offsets[x]) = Ordinal(0, b.offsets[x]) BY <3>1 DEF Plus, Ordinal
    <3>3. a.tier > 0 \/ a.constant > b.constant BY <1>1, <1>4, <3>1
    <3> QED BY <1>1, <1>2, <3>1, <3>2, <3>3 DEF Below, Ordinal
  <2>5. o \notin Value(b, Least) BY <2>3, <2>4, InValue
  <2> QED BY <1>3, <2>2, <2>5
<1>5. CASE a.tier = 0 /\ b.tier = 0 /\ ~ (a.constant > b.constant)
  <2>1. PICK x \in DOMAIN a.offsets : ~ (x \in DOMAIN b.offsets /\ a.offsets[x] <= b.offsets[x]) BY <1>1, <1>2, <1>5 DEF Leq
  <2> DEFINE v == Large(x)
             o == Plus(v[x], a.offsets[x])
  <2>2. v[x] = Ordinal(0, Largest) /\ a.offsets[x] \in 0 .. LevelMax BY <1>1, <2>1
  <2>3. o = Ordinal(0, Largest + a.offsets[x]) BY <2>2 DEF Plus, Ordinal
  <2>4. o \in Ordinals /\ Below(o, o) BY <2>2, <2>3 DEF Ordinals, Ordinal, Below
  <2>5. o \in Value(a, v) BY <2>1, <2>4, InValue
  <2>6. ~ Below(o, Ordinal(b.tier, b.constant)) BY <1>2, <1>5, <2>2, <2>3 DEF Below, Ordinal
  <2>7. ASSUME NEW y \in DOMAIN b.offsets PROVE ~ Below(o, Plus(v[y], b.offsets[y]))
    <3>1. b.offsets[y] \in 0 .. LevelMax BY <1>2
    <3>2. CASE y = x
      <4>1. a.offsets[x] > b.offsets[x] BY <2>1, <2>2, <3>1, <3>2
      <4> QED BY <2>2, <2>3, <3>1, <3>2, <4>1 DEF Below, Plus, Ordinal
    <3>3. CASE y # x
      <4>1. v[y] = Ordinal(0, 0) BY <1>2, <3>3
      <4>2. Plus(v[y], b.offsets[y]) = Ordinal(0, b.offsets[y]) BY <3>1, <4>1 DEF Plus, Ordinal
      <4> HIDE DEF v, o
      <4> QED BY <2>2, <2>3, <3>1, <4>2 DEF Below, Ordinal
    <3> QED BY <3>2, <3>3
  <2>8. o \notin Value(b, v) BY <2>6, <2>7, InValue
  <2> QED BY <1>3, <2>5, <2>8
<1> QED BY <1>4, <1>5

(* Comparing forms decides the order of levels (nf_leq).                   *)
LEMMA LeqDecides ==
  ASSUME NEW a \in Forms, NEW b \in Forms
  PROVE  Leq(a, b) <=> \A v \in Assignments : Value(a, v) \subseteq Value(b, v)
BY LeqIsSound, LeqIsComplete

(* Forms that compare as at most each other are one form.                  *)
LEMMA LeqAntisymmetric ==
  ASSUME NEW a \in Forms, NEW b \in Forms, Leq(a, b), Leq(b, a)
  PROVE  a = b
<1>1. /\ a = Form(a.tier, a.constant, a.offsets) /\ a.tier \in Nat /\ a.constant \in Nat
      /\ a.offsets = [x \in DOMAIN a.offsets |-> a.offsets[x]]
      /\ \A x \in DOMAIN a.offsets : a.offsets[x] \in Nat
      /\ a.tier # 0 => DOMAIN a.offsets = {}
  BY FormParts, FormBounds
<1>2. /\ b = Form(b.tier, b.constant, b.offsets) /\ b.tier \in Nat /\ b.constant \in Nat
      /\ b.offsets = [x \in DOMAIN b.offsets |-> b.offsets[x]]
      /\ \A x \in DOMAIN b.offsets : b.offsets[x] \in Nat
      /\ b.tier # 0 => DOMAIN b.offsets = {}
  BY FormParts, FormBounds
<1>3. a.tier = b.tier /\ a.constant = b.constant BY <1>1, <1>2 DEF Leq
<1>4. DOMAIN a.offsets = DOMAIN b.offsets /\ \A x \in DOMAIN a.offsets : a.offsets[x] = b.offsets[x]
  <2>1. CASE a.tier = 0 BY <1>1, <1>2, <1>3, <2>1 DEF Leq
  <2>2. CASE a.tier # 0 BY <1>1, <1>2, <1>3, <2>2
  <2> QED BY <2>1, <2>2
<1>5. a.offsets = b.offsets BY <1>1, <1>2, <1>4
<1> QED BY <1>1, <1>2, <1>3, <1>5

(* Equal forms stand for equal levels and the other way about              *)
(* (nf_equal).                                                             *)
LEMMA EqualDecides ==
  ASSUME NEW a \in Forms, NEW b \in Forms
  PROVE  a = b <=> \A v \in Assignments : Value(a, v) = Value(b, v)
BY LeqDecides, LeqAntisymmetric

(* Canonical nodes. *)

(* What a node reads back as: the largest of its constant and its offsets  *)
(* is the constant of the form.                                            *)
LEMMA ReadBackParts ==
  ASSUME NEW S, NEW c \in 0 .. LevelMax, NEW g \in [S -> 0 .. LevelMax]
  PROVE  LET r == ReadBack(Form(0, c, g)) IN
         /\ r = Form(0, r.constant, g) /\ r.constant \in 0 .. LevelMax
         /\ r.constant = c \/ \E x \in S : r.constant = g[x]
         /\ r.constant >= c /\ \A x \in S : r.constant >= g[x]
<1> DEFINE T == {c} \cup {g[x] : x \in S}
<1>1. T \subseteq 0 .. LevelMax /\ T # {} OBVIOUS
<1>2. Max(T) \in T /\ \A k \in T : Max(T) >= k BY <1>1, GreatestNat DEF Max
<1> DEFINE f == Form(0, c, g)
<1>3. f.tier = 0 /\ f.constant = c /\ f.offsets = g BY DEF Form
<1>4. ReadBack(f) = Form(0, Max(T), g)
  <2>1. {f.offsets[x] : x \in DOMAIN f.offsets} = {g[x] : x \in S} BY <1>3
  <2> QED BY <1>3, <2>1 DEF ReadBack
<1> HIDE DEF f
<1>5. ReadBack(f).constant = Max(T) BY <1>4 DEF Form
<1>6. \A x \in S : g[x] \in T OBVIOUS
<1>7. c \in T OBVIOUS
<1> QED BY <1>1, <1>2, <1>4, <1>5, <1>6, <1>7 DEF f

(* The canonical node of a form is read back as the form, though it leaves *)
(* out a constant that an offset reaches.                                  *)
LEMMA BuiltIsReadBack ==
  ASSUME NEW f \in Forms
  PROVE  ReadBack(Built(f)) = f
<1>1. /\ f = Form(f.tier, f.constant, f.offsets) /\ f.constant \in 0 .. LevelMax
      /\ \A x \in DOMAIN f.offsets : f.offsets[x] \in 0 .. f.constant
      /\ f.offsets = [x \in DOMAIN f.offsets |-> f.offsets[x]]
  BY FormParts
<1> DEFINE reached == \E x \in DOMAIN f.offsets : f.constant <= f.offsets[x]
           c == IF reached THEN 0 ELSE f.constant
           T == {c} \cup {f.offsets[x] : x \in DOMAIN f.offsets}
           node == Form(f.tier, c, f.offsets)
<1>2. Built(f) = [f EXCEPT !.constant = c] BY DEF Built
<1>3. Built(f) = node BY <1>1, <1>2 DEF Form
<1>4. f.constant \in T /\ \A k \in T : f.constant >= k
  <2>1. CASE reached
    <3>1. PICK x \in DOMAIN f.offsets : f.constant <= f.offsets[x] BY <2>1
    <3>2. f.constant = f.offsets[x] BY <1>1, <3>1
    <3> QED BY <1>1, <2>1, <3>2
  <2>2. CASE ~ reached BY <1>1, <2>2
  <2> QED BY <2>1, <2>2
<1>5. T \subseteq Nat BY <1>1
<1>6. Max(T) = f.constant
  <2>1. \A m \in T : (\A k \in T : m >= k) => m = f.constant BY <1>4, <1>5
  <2> HIDE DEF T
  <2> QED BY <1>4, <2>1 DEF Max
<1>7. node.tier = f.tier /\ node.constant = c /\ node.offsets = f.offsets BY DEF Form
<1>8. ReadBack(node) = Form(f.tier, Max(T), f.offsets)
  <2> HIDE DEF node
  <2> QED BY <1>7 DEF ReadBack
<1> QED BY <1>1, <1>3, <1>6, <1>8

(* The level of a function type. *)

(* A form has a variable exactly when its value differs between zero and   *)
(* the largest value of it.                                                *)
LEMMA LimitDecided ==
  ASSUME NEW f \in Forms, NEW x \in LevelVariables
  PROVE  LET at(v, n) == [v EXCEPT ![x] = Ordinal(0, n)]
         IN x \notin DOMAIN f.offsets <=> \A v \in Assignments : Value(f, at(v, 0)) = Value(f, at(v, Largest))
<1> DEFINE at(v, n) == [v EXCEPT ![x] = Ordinal(0, n)]
<1>1. /\ f.constant \in 0 .. LevelMax /\ f.tier \in Nat /\ DOMAIN f.offsets \subseteq LevelVariables
      /\ \A y \in DOMAIN f.offsets : f.offsets[y] \in 0 .. f.constant
      /\ f.tier # 0 => DOMAIN f.offsets = {}
  BY FormParts, FormBounds
<1>2. ASSUME x \notin DOMAIN f.offsets, NEW v \in Assignments PROVE Value(f, at(v, 0)) = Value(f, at(v, Largest))
  <2>1. \A y \in DOMAIN f.offsets : at(v, 0)[y] = v[y] /\ at(v, Largest)[y] = v[y] BY <1>1, <1>2 DEF Assignments
  <2> HIDE DEF at
  <2> QED BY <2>1 DEF Value
<1>3. ASSUME x \in DOMAIN f.offsets PROVE \E v \in Assignments : Value(f, at(v, 0)) # Value(f, at(v, Largest))
  <2> DEFINE zero == [y \in LevelVariables |-> Ordinal(0, 0)]
             o == Ordinal(0, Largest + f.offsets[x])
  <2>1. zero \in Assignments BY DEF Assignments, Ordinal
  <2>2. f.offsets[x] \in 0 .. LevelMax /\ f.tier = 0 BY <1>1, <1>3
  <2>3. o \in Ordinals BY <2>2 DEF Ordinals, Ordinal
  <2>4. at(zero, Largest)[x] = Ordinal(0, Largest) OBVIOUS
  <2>5. Below(o, Plus(at(zero, Largest)[x], f.offsets[x])) BY <2>2, <2>4 DEF Below, Plus, Ordinal
  <2>6. o \in Value(f, at(zero, Largest)) BY <1>3, <2>3, <2>5, InValue
  <2>7. ~ Below(o, Ordinal(f.tier, f.constant)) BY <1>1, <2>2 DEF Below, Ordinal
  <2>8. ASSUME NEW y \in DOMAIN f.offsets PROVE ~ Below(o, Plus(at(zero, 0)[y], f.offsets[y]))
    <3>1. at(zero, 0)[y] = Ordinal(0, 0) BY <1>1
    <3>2. f.offsets[y] \in 0 .. LevelMax BY <1>1
    <3>3. Plus(at(zero, 0)[y], f.offsets[y]) = Ordinal(0, f.offsets[y]) BY <3>1, <3>2 DEF Plus, Ordinal
    <3> QED BY <2>2, <3>2, <3>3 DEF Below, Ordinal
  <2>9. o \notin Value(f, at(zero, 0)) BY <2>7, <2>8, InValue
  <2> HIDE DEF at, zero, o
  <2> QED BY <2>1, <2>6, <2>9
<1> HIDE DEF at
<1> QED BY <1>2, <1>3 DEF at

(* A level in the place of a variable. *)

(* Nothing is below zero: every level has it.                              *)
LEMMA ZeroInValue ==
  ASSUME NEW by \in Forms, NEW v
  PROVE  Ordinal(0, 0) \in Value(by, v)
<1>1. by.tier \in Nat /\ by.constant \in Nat BY FormBounds
<1>2. Ordinal(0, 0) \in Ordinals BY DEF Ordinal, Ordinals
<1>3. Below(Ordinal(0, 0), Ordinal(by.tier, by.constant)) BY <1>1 DEF Below, Ordinal
<1> QED BY <1>2, <1>3, InValue

(* The form of a level without one of its variables, as its canonical node *)
(* is read back.                                                           *)
LEMMA RestParts ==
  ASSUME NEW f \in Forms, NEW x \in DOMAIN f.offsets
  PROVE  LET rest == ReadBack(Without(Built(f), x)) IN
         /\ rest \in Forms /\ rest.tier = 0 /\ rest.constant \in 0 .. f.constant
         /\ DOMAIN rest.offsets = DOMAIN f.offsets \ {x}
         /\ \A y \in DOMAIN f.offsets \ {x} : rest.offsets[y] = f.offsets[y]
         /\ rest.constant = f.constant \/ f.offsets[x] = f.constant
<1>1. /\ f = Form(f.tier, f.constant, f.offsets) /\ f.constant \in 0 .. LevelMax
      /\ DOMAIN f.offsets \subseteq LevelVariables /\ f.tier = 0
      /\ \A y \in DOMAIN f.offsets : f.offsets[y] \in 0 .. f.constant
  BY FormParts
<1> DEFINE reached == \E y \in DOMAIN f.offsets : f.constant <= f.offsets[y]
           c == IF reached THEN 0 ELSE f.constant
           S == DOMAIN f.offsets \ {x}
           g == [y \in S |-> f.offsets[y]]
           node == Form(0, c, g)
           rest == ReadBack(node)
<1>2. Built(f) = [f EXCEPT !.constant = c] BY DEF Built
<1>3. Built(f) = Form(0, c, f.offsets) BY <1>1, <1>2 DEF Form
<1>4. Without(Built(f), x) = node BY <1>3 DEF Without, Form
<1>5. c \in 0 .. f.constant /\ c \in 0 .. LevelMax BY <1>1
<1>6. g \in [S -> 0 .. LevelMax] BY <1>1
<1>7. /\ rest = Form(0, rest.constant, g) /\ rest.constant \in 0 .. LevelMax
      /\ rest.constant = c \/ \E y \in S : rest.constant = g[y]
      /\ rest.constant >= c /\ \A y \in S : rest.constant >= g[y]
  <2> HIDE DEF c, g, S
  <2> QED BY <1>5, <1>6, ReadBackParts
<1> HIDE DEF rest
<1>8. rest.constant \in 0 .. f.constant
  <2>1. \A y \in S : g[y] \in 0 .. f.constant BY <1>1
  <2> QED BY <1>5, <1>7, <2>1
<1>9. rest.tier = 0 /\ rest.offsets = g BY <1>7 DEF Form
<1>10. rest \in Forms
  <2>1. S \in SUBSET LevelVariables BY <1>1
  <2>2. \A y \in S : g[y] \in 0 .. rest.constant BY <1>1, <1>7
  <2>3. g \in [S -> 0 .. rest.constant] BY <2>2
  <2> HIDE DEF S, g
  <2> QED BY <1>7, <2>1, <2>3, FormIntro
<1>11. rest.constant = f.constant \/ f.offsets[x] = f.constant
  <2>1. CASE reached
    <3>1. PICK y \in DOMAIN f.offsets : f.constant <= f.offsets[y] BY <2>1
    <3>2. f.offsets[y] = f.constant BY <1>1, <3>1
    <3>3. CASE y = x BY <3>2, <3>3
    <3>4. CASE y # x
      <4>1. y \in S /\ g[y] = f.constant BY <3>2, <3>4
      <4>2. rest.constant >= f.constant BY <1>7, <4>1
      <4> QED BY <1>1, <1>8, <4>2
    <3> QED BY <3>3, <3>4
  <2>2. CASE ~ reached
    <3>1. c = f.constant BY <2>2
    <3> QED BY <1>1, <1>7, <1>8, <3>1
  <2> QED BY <2>1, <2>2
<1> QED BY <1>4, <1>8, <1>9, <1>10, <1>11 DEF rest

(* An instance within the bound is a form.                                 *)
LEMMA InstanceCloses ==
  ASSUME NEW f \in Forms, NEW by \in Forms, NEW x,
         x \in DOMAIN f.offsets => by.constant + f.offsets[x] <= LevelMax
  PROVE  Instance(f, x, by) \in Forms
<1>1. CASE x \in DOMAIN f.offsets
  <2>1. ReadBack(Without(Built(f), x)) \in Forms BY <1>1, RestParts
  <2>2. SuccessorForm(by, f.offsets[x]) \in Forms BY <1>1, FormBounds, SuccessorCloses
  <2> QED BY <1>1, <2>1, <2>2, MaximumCloses DEF Instance
<1> QED BY <1>1 DEF Instance

(* An instance stands for the level with the variable given what is put in *)
(* its place.                                                              *)
LEMMA ValueOfInstance ==
  ASSUME NEW f \in Forms, NEW by \in Forms, NEW x \in LevelVariables, NEW v \in Assignments,
         x \in DOMAIN f.offsets => by.constant + f.offsets[x] <= LevelMax
  PROVE  Value(Instance(f, x, by), v) = UNION {Value(f, [v EXCEPT ![x] = p]) : p \in Value(by, v)}
<1> DEFINE at(p) == [v EXCEPT ![x] = p]
<1>1. /\ f.tier \in Nat /\ f.constant \in Nat /\ DOMAIN f.offsets \subseteq LevelVariables
      /\ \A y \in DOMAIN f.offsets : f.offsets[y] \in Nat
      /\ f.tier # 0 => DOMAIN f.offsets = {}
  BY FormParts, FormBounds
<1>2. \A p : at(p)[x] = p /\ \A y \in LevelVariables \ {x} : at(p)[y] = v[y] BY DEF Assignments
<1>3. Ordinal(0, 0) \in Value(by, v) BY ZeroInValue
<1> HIDE DEF at
<1>4. CASE x \notin DOMAIN f.offsets
  <2>1. \A p : Value(f, at(p)) = Value(f, v) BY <1>1, <1>2, <1>4 DEF Value
  <2>2. Value(f, v) = UNION {Value(f, at(p)) : p \in Value(by, v)} BY <1>3, <2>1
  <2> QED BY <1>4, <2>2 DEF Instance, at
<1>5. CASE x \in DOMAIN f.offsets
  <2> DEFINE k == f.offsets[x]
             rest == ReadBack(Without(Built(f), x))
             moved == SuccessorForm(by, k)
  <2>1. /\ rest \in Forms /\ rest.tier = 0 /\ rest.constant \in 0 .. f.constant
        /\ DOMAIN rest.offsets = DOMAIN f.offsets \ {x}
        /\ \A y \in DOMAIN f.offsets \ {x} : rest.offsets[y] = f.offsets[y]
        /\ rest.constant = f.constant \/ k = f.constant
    BY <1>5, RestParts
  <2>2. k \in Nat /\ f.tier = 0 /\ by.constant + k <= LevelMax BY <1>1, <1>5
  <2> HIDE DEF rest, k
  <2>3. moved \in Forms /\ Value(moved, v) = {o \in Ordinals : \E p \in Value(by, v) : Below(o, Plus(p, k))}
    BY <2>2, SuccessorCloses, ValueOfSuccessor
  <2> HIDE DEF moved
  <2>4. Value(Instance(f, x, by), v) = Value(rest, v) \cup Value(moved, v)
    BY <1>5, <2>1, <2>3, ValueOfMaximum DEF Instance, rest, moved, k
  <2>5. ASSUME NEW o \in Value(rest, v) PROVE o \in Value(f, at(Ordinal(0, 0)))
    <3>1. o \in Ordinals /\ o.tier \in Nat /\ o.value \in Nat BY InValue, OrdinalParts
    <3>2. CASE Below(o, Ordinal(0, rest.constant))
      <4>1. Below(o, Ordinal(0, f.constant)) BY <1>1, <2>1, <3>1, <3>2 DEF Below, Ordinal
      <4> QED BY <2>2, <3>1, <4>1, InValue
    <3>3. ASSUME NEW y \in DOMAIN rest.offsets, Below(o, Plus(v[y], rest.offsets[y])) PROVE o \in Value(f, at(Ordinal(0, 0)))
      BY <1>1, <1>2, <2>1, <3>1, <3>3, InValue
    <3> QED BY <2>1, <3>2, <3>3, InValue
  <2>6. ASSUME NEW o \in Value(moved, v) PROVE \E p \in Value(by, v) : o \in Value(f, at(p))
    <3>1. PICK p \in Value(by, v) : Below(o, Plus(p, k)) BY <2>3
    <3>2. o \in Ordinals BY <2>3
    <3> QED BY <1>2, <1>5, <3>1, <3>2, InValue DEF k
  <2>7. ASSUME NEW p \in Value(by, v), NEW o \in Value(f, at(p)) PROVE o \in Value(rest, v) \cup Value(moved, v)
    <3>1. o \in Ordinals /\ o.tier \in Nat /\ o.value \in Nat BY InValue, OrdinalParts
    <3>2. CASE Below(o, Ordinal(0, f.constant))
      <4>1. CASE rest.constant = f.constant BY <2>1, <3>1, <3>2, <4>1, InValue
      <4>2. CASE k = f.constant
        <5>1. Plus(Ordinal(0, 0), k) = Ordinal(0, k) BY <2>2 DEF Plus, Ordinal
        <5> QED BY <1>3, <2>3, <3>1, <3>2, <4>2, <5>1
      <4> QED BY <2>1, <4>1, <4>2
    <3>3. ASSUME NEW y \in DOMAIN f.offsets, y # x, Below(o, Plus(at(p)[y], f.offsets[y])) PROVE o \in Value(rest, v)
      BY <1>1, <1>2, <2>1, <3>1, <3>3, InValue
    <3>4. CASE Below(o, Plus(p, k)) BY <2>3, <3>1, <3>4
    <3> QED BY <1>2, <1>5, <2>2, <3>2, <3>3, <3>4, InValue DEF k
  <2>8. Value(Instance(f, x, by), v) = UNION {Value(f, at(p)) : p \in Value(by, v)}
    BY <1>3, <2>4, <2>5, <2>6, <2>7
  <2> QED BY <2>8 DEF at
<1> QED BY <1>4, <1>5

(* The invariant. *)

Meant(l) == l.form \in Forms /\ l.meaning = [v \in Assignments |-> Value(l.form, v)]

(* A form whose value is the meaning decides every question that is asked  *)
(* of it.                                                                  *)
LEMMA MeantDecides ==
  ASSUME NEW l, Meant(l)
  PROVE  /\ l.form \in Forms /\ ReadBack(Built(l.form)) = l.form
         /\ \A v \in Assignments : Value(l.form, v) = l.meaning[v]
         /\ \A other \in Forms :
              /\ Leq(l.form, other) <=> \A v \in Assignments : l.meaning[v] \subseteq Value(other, v)
              /\ Leq(other, l.form) <=> \A v \in Assignments : Value(other, v) \subseteq l.meaning[v]
              /\ l.form = other <=> \A v \in Assignments : l.meaning[v] = Value(other, v)
<1>1. l.form \in Forms /\ \A v \in Assignments : l.meaning[v] = Value(l.form, v) BY DEF Meant
<1>2. ReadBack(Built(l.form)) = l.form BY <1>1, BuiltIsReadBack
<1>3. ASSUME NEW other \in Forms
      PROVE  /\ Leq(l.form, other) <=> \A v \in Assignments : l.meaning[v] \subseteq Value(other, v)
             /\ Leq(other, l.form) <=> \A v \in Assignments : Value(other, v) \subseteq l.meaning[v]
             /\ l.form = other <=> \A v \in Assignments : l.meaning[v] = Value(other, v)
  <2>1. Leq(l.form, other) <=> \A v \in Assignments : Value(l.form, v) \subseteq Value(other, v) BY <1>1, LeqDecides
  <2>2. Leq(other, l.form) <=> \A v \in Assignments : Value(other, v) \subseteq Value(l.form, v) BY <1>1, LeqDecides
  <2>3. l.form = other <=> \A v \in Assignments : Value(l.form, v) = Value(other, v) BY <1>1, EqualDecides
  <2> QED BY <1>1, <2>1, <2>2, <2>3
<1> QED BY <1>1, <1>2, <1>3

(* The form computed last has the value of the level it was computed for.  *)
LevelsMeant == \A l \in levels : Meant(l)

(* A step that computes a form with its value keeps the invariant.         *)
LEMMA ComputedMeant ==
  ASSUME NEW form \in Forms, NEW meaning, Computed(form, meaning),
         meaning = [v \in Assignments |-> Value(form, v)]
  PROVE  LevelsMeant'
BY DEF Computed, LevelsMeant, Meant

(* Whatever levels are built, their normal forms stand for them, are read  *)
(* back from their canonical nodes, and decide equality and order          *)
(* (levels.c). The invariant is that the form computed has the value that  *)
(* the meaning says.                                                       *)
THEOREM NormalFormsAreTrue == LevelSpec => []NormalFormsDecide
<1>1. LevelInit => LevelsMeant BY DEF LevelInit, LevelsMeant
<1>2. LevelsMeant /\ [LevelNext]_levels => LevelsMeant'
  <2> SUFFICES ASSUME LevelsMeant, [LevelNext]_levels PROVE LevelsMeant' OBVIOUS
  <2>0. \A l \in levels : l.form \in Forms /\ \A v \in Assignments : l.meaning[v] = Value(l.form, v)
    BY DEF LevelsMeant, Meant
  <2>1. ASSUME NEW tier \in 0 .. TierMax, NEW n \in 0 .. LevelMax, LConst(tier, n) PROVE LevelsMeant'
    BY <2>1, ConstantIntro, ValueOfConstant, ComputedMeant DEF LConst
  <2>2. ASSUME NEW x \in LevelVariables, LVar(x) PROVE LevelsMeant'
    <3>1. VariableForm(x) \in Forms
      <4>1. [y \in {x} |-> 0] \in [{x} -> 0 .. 0] OBVIOUS
      <4> QED BY <4>1, FormIntro, {x} \in SUBSET LevelVariables DEF VariableForm
    <3> QED BY <2>2, <3>1, ValueOfVariable, ComputedMeant DEF LVar
  <2>3. ASSUME NEW l \in levels, NEW n \in 1 .. LevelMax, LSucc(l, n) PROVE LevelsMeant'
    <3>1. l.form.constant + n <= LevelMax BY <2>3 DEF LSucc
    <3>2. SuccessorForm(l.form, n) \in Forms BY <2>0, <3>1, SuccessorCloses
    <3>3. \A v \in Assignments : Value(SuccessorForm(l.form, n), v) = {o \in Ordinals : \E p \in l.meaning[v] : Below(o, Plus(p, n))}
      BY <2>0, <3>1, ValueOfSuccessor
    <3> QED BY <2>3, <3>2, <3>3, ComputedMeant DEF LSucc
  <2>4. ASSUME NEW l \in levels, NEW other \in Forms, LMax(l, other) PROVE LevelsMeant'
    <3>1. MaximumForm(l.form, other) \in Forms BY <2>0, MaximumCloses
    <3>2. \A v \in Assignments : Value(MaximumForm(l.form, other), v) = l.meaning[v] \cup Value(other, v)
      BY <2>0, ValueOfMaximum
    <3> QED BY <2>4, <3>1, <3>2, ComputedMeant DEF LMax
  <2>5. ASSUME NEW l \in levels, NEW x \in LevelVariables, Limit(l, x) PROVE LevelsMeant'
    <3> DEFINE at(v, n) == [v EXCEPT ![x] = Ordinal(0, n)]
               bounded == \A v \in Assignments : l.meaning[at(v, 0)] = l.meaning[at(v, Largest)]
    <3>1. \A v \in Assignments : at(v, 0) \in Assignments /\ at(v, Largest) \in Assignments BY DEF Assignments, Ordinal
    <3>2. x \notin DOMAIN l.form.offsets <=> \A v \in Assignments : Value(l.form, at(v, 0)) = Value(l.form, at(v, Largest))
      BY <2>0, LimitDecided
    <3>3. Computed(IF x \in DOMAIN l.form.offsets THEN ConstantForm(1, 0) ELSE l.form,
                   IF bounded THEN l.meaning ELSE [v \in Assignments |-> UpTo(Ordinal(1, 0))])
      BY <2>5 DEF Limit
    <3> HIDE DEF at
    <3>4. bounded <=> x \notin DOMAIN l.form.offsets BY <2>0, <3>1, <3>2
    <3> HIDE DEF bounded
    <3>5. CASE bounded
      <4>1. Computed(l.form, l.meaning) BY <3>3, <3>4, <3>5
      <4> QED BY <4>1, ComputedMeant DEF LevelsMeant, Meant
    <3>6. CASE ~ bounded
      <4>1. Computed(ConstantForm(1, 0), [v \in Assignments |-> UpTo(Ordinal(1, 0))]) BY <3>3, <3>4, <3>6
      <4>2. ConstantForm(1, 0) \in Forms BY ConstantIntro
      <4> QED BY <4>1, <4>2, ValueOfConstant, ComputedMeant
    <3> QED BY <3>5, <3>6
  <2>6. ASSUME NEW l \in levels, NEW x \in LevelVariables, NEW by \in Forms, Instantiate(l, x, by) PROVE LevelsMeant'
    <3>1. x \in DOMAIN l.form.offsets => by.constant + l.form.offsets[x] <= LevelMax BY <2>6 DEF Instantiate
    <3>2. Instance(l.form, x, by) \in Forms BY <2>0, <3>1, InstanceCloses
    <3>3. \A v \in Assignments :
            Value(Instance(l.form, x, by), v) = UNION {Value(l.form, [v EXCEPT ![x] = p]) : p \in Value(by, v)}
      BY <2>0, <3>1, ValueOfInstance
    <3> QED BY <2>6, <3>2, <3>3, ComputedMeant DEF Instantiate
  <2>7. CASE UNCHANGED levels BY <2>7 DEF LevelsMeant
  <2> QED BY <2>1, <2>2, <2>3, <2>4, <2>5, <2>6, <2>7 DEF LevelNext
<1>3. LevelsMeant => NormalFormsDecide BY MeantDecides DEF LevelsMeant, NormalFormsDecide
<1> QED BY <1>1, <1>2, <1>3, PTL DEF LevelSpec

-----------------------------------------------------------------------------
(* Formulas.                                                               *)

Consistent(sort, c) == sort = "face" => ~ Contradictory(c)

(* f is what is left of the clauses: those that are consistent and have no *)
(* other within them.                                                      *)
Compacts(sort, f, clauses) ==
  /\ f \subseteq {c \in clauses : Consistent(sort, c)}
  /\ Antichain(f)
  /\ \A c \in clauses : Consistent(sort, c) => \E d \in f : d \subseteq c

(* Inserting a clause after others leaves what is left of all of them:     *)
(* cc_insert, and the loop of canonical.                                   *)
THEOREM InsertionCompacts ==
  ASSUME NEW sort, NEW clauses, NEW f, NEW c, Compacts(sort, f, clauses)
  PROVE  Compacts(sort, Insert(sort, c, f), clauses \cup {c})
<1> DEFINE g == Insert(sort, c, f)
<1>1. /\ f \subseteq {d \in clauses : Consistent(sort, d)}
      /\ \A d, e \in f : d \subseteq e => d = e
      /\ \A d \in clauses : Consistent(sort, d) => \E e \in f : e \subseteq d
  BY DEF Compacts, Antichain
<1>2. CASE ~ Consistent(sort, c)
  <2>1. g = f BY <1>2 DEF Insert, Consistent
  <2> QED BY <1>1, <1>2, <2>1 DEF Compacts, Antichain
<1>3. CASE Consistent(sort, c) /\ \E d \in f : d \subseteq c
  <2>1. g = f BY <1>3 DEF Insert
  <2> QED BY <1>1, <1>3, <2>1 DEF Compacts, Antichain
<1>4. CASE Consistent(sort, c) /\ ~ \E d \in f : d \subseteq c
  <2>1. g = {d \in f : ~ (c \subseteq d)} \cup {c} BY <1>4 DEF Insert, Consistent
  <2>2. g \subseteq {d \in clauses \cup {c} : Consistent(sort, d)} BY <1>1, <1>4, <2>1
  <2>3. Antichain(g)
    <3>1. \A d, e \in g : d \subseteq e => d = e BY <1>1, <1>4, <2>1
    <3> QED BY <3>1 DEF Antichain
  <2>4. ASSUME NEW d \in clauses \cup {c}, Consistent(sort, d) PROVE \E e \in g : e \subseteq d
    <3>1. CASE d = c BY <2>1, <3>1
    <3>2. CASE d \in clauses
      <4>1. PICK e \in f : e \subseteq d BY <1>1, <2>4, <3>2
      <4>2. CASE c \subseteq e BY <2>1, <4>1, <4>2
      <4>3. CASE ~ (c \subseteq e) BY <2>1, <4>1, <4>3
      <4> QED BY <4>2, <4>3
    <3> QED BY <3>1, <3>2
  <2> QED BY <2>2, <2>3, <2>4 DEF Compacts
<1> QED BY <1>2, <1>3, <1>4

(* What is left depends on the clauses alone, not on their order.          *)
THEOREM CompactionIsUnique ==
  ASSUME NEW sort, NEW clauses, NEW f, NEW g, Compacts(sort, f, clauses), Compacts(sort, g, clauses)
  PROVE  f = g
<1>1. ASSUME NEW h, NEW k, Compacts(sort, h, clauses), Compacts(sort, k, clauses) PROVE h \subseteq k
  <2> SUFFICES ASSUME NEW c \in h PROVE c \in k OBVIOUS
  <2>1. c \in clauses /\ Consistent(sort, c) BY <1>1 DEF Compacts
  <2>2. PICK d \in k : d \subseteq c BY <1>1, <2>1 DEF Compacts
  <2>3. d \in clauses /\ Consistent(sort, d) BY <1>1 DEF Compacts
  <2>4. PICK e \in h : e \subseteq d BY <1>1, <2>3 DEF Compacts
  <2>5. e = c BY <1>1, <2>2, <2>4 DEF Compacts, Antichain
  <2>6. d = c BY <2>2, <2>4, <2>5
  <2> QED BY <2>6
<1> QED BY <1>1

(* What is left means what all of the clauses do: at a point of the        *)
(* lattice, only consistent clauses hold.                                  *)
LEMMA CompactionMeans ==
  ASSUME NEW sort, NEW clauses, NEW f, Compacts(sort, f, clauses)
  PROVE  Meaning(sort, f) = Meaning(sort, clauses)
<1>1. ASSUME NEW v \in Points(sort), NEW c \in clauses, c \subseteq v PROVE \E d \in f : d \subseteq v
  <2>1. Consistent(sort, c) BY <1>1 DEF Consistent, Points, ClausesOf, Contradictory
  <2>2. PICK d \in f : d \subseteq c BY <2>1 DEF Compacts
  <2> QED BY <1>1, <2>2
<1>2. f \subseteq clauses BY DEF Compacts
<1> QED BY <1>1, <1>2 DEF Meaning

(* A clause of the lattice is a point of it, the least where it holds.     *)
LEMMA EntailmentDecides ==
  ASSUME NEW sort, NEW f \in SUBSET ClausesOf(sort), NEW g \in SUBSET ClausesOf(sort)
  PROVE  Entails(f, g) <=> Meaning(sort, f) \subseteq Meaning(sort, g)
<1>1. ASSUME Entails(f, g) PROVE Meaning(sort, f) \subseteq Meaning(sort, g)
  <2> SUFFICES ASSUME NEW v \in Points(sort), NEW c \in f, c \subseteq v PROVE \E d \in g : d \subseteq v
    BY DEF Meaning
  <2>1. PICK d \in g : d \subseteq c BY <1>1 DEF Entails
  <2> QED BY <2>1
<1>2. ASSUME Meaning(sort, f) \subseteq Meaning(sort, g), NEW c \in f PROVE \E d \in g : d \subseteq c
  <2>1. c \in Meaning(sort, f) BY DEF Meaning, Points
  <2> QED BY <1>2, <2>1 DEF Meaning
<1> QED BY <1>1, <1>2 DEF Entails

(* Comparing the clauses of formulas decides whether they mean the same,   *)
(* and whether one entails the other: cc_equal and cc_face_entails.        *)
THEOREM ComparisonsDecide ==
  ASSUME NEW sort,
         NEW f \in SUBSET ClausesOf(sort), Antichain(f),
         NEW g \in SUBSET ClausesOf(sort), Antichain(g)
  PROVE  /\ Entails(f, g) <=> Meaning(sort, f) \subseteq Meaning(sort, g)
         /\ f = g <=> Meaning(sort, f) = Meaning(sort, g)
<1>1. Entails(f, g) <=> Meaning(sort, f) \subseteq Meaning(sort, g) BY EntailmentDecides
<1>2. Entails(g, f) <=> Meaning(sort, g) \subseteq Meaning(sort, f) BY EntailmentDecides
<1>3. ASSUME NEW h, NEW k, Antichain(h), Entails(h, k), Entails(k, h) PROVE h \subseteq k
  <2> SUFFICES ASSUME NEW c \in h PROVE c \in k OBVIOUS
  <2>1. PICK d \in k : d \subseteq c BY <1>3 DEF Entails
  <2>2. PICK e \in h : e \subseteq d BY <1>3 DEF Entails
  <2>3. e = c BY <1>3, <2>1, <2>2 DEF Antichain
  <2>4. d = c BY <2>1, <2>2, <2>3
  <2> QED BY <2>4
<1>4. ASSUME Meaning(sort, f) = Meaning(sort, g) PROVE f = g
  <2>1. Entails(f, g) /\ Entails(g, f) BY <1>1, <1>2, <1>4
  <2>2. f \subseteq g /\ g \subseteq f BY <1>3, <2>1
  <2> QED BY <2>2
<1> QED BY <1>1, <1>4

-----------------------------------------------------------------------------
(* Recursion over a finite set, as FoldSet does it.                        *)

First(s) == CHOOSE x \in s : TRUE

(* What holds of the empty set, and of a set if of it without its first    *)
(* element, holds of a finite set.                                         *)
LEMMA ByFirst ==
  ASSUME NEW S, IsFiniteSet(S), NEW B \in SUBSET SUBSET S, {} \in B,
         \A s \in SUBSET S : s # {} /\ s \ {First(s)} \in B => s \in B
  PROVE  S \in B
<1> DEFINE Bad == {k \in Nat : \E s \in SUBSET S : Cardinality(s) = k /\ s \notin B}
<1>1. ASSUME NEW s \in SUBSET S
      PROVE  /\ IsFiniteSet(s) /\ Cardinality(s) \in Nat
             /\ s # {} => Cardinality(s \ {First(s)}) = Cardinality(s) - 1
  <2>1. IsFiniteSet(s)
    BY FS_Subset
  <2>2. Cardinality(s) \in Nat
    BY <2>1, FS_CardinalityType
  <2>3. s # {} => First(s) \in s
    BY DEF First
  <2>4. s # {} => Cardinality(s \ {First(s)}) = Cardinality(s) - 1
    <3>1. Cardinality(s \ {First(s)}) = IF First(s) \in s THEN Cardinality(s) - 1 ELSE Cardinality(s)
      BY <2>1, FS_RemoveElement, Zenon
    <3>2. QED
      BY <2>3, <3>1
  <2>5. QED
    BY <2>1, <2>2, <2>4
<1>2. Bad = {}
  <2>1. SUFFICES ASSUME Bad # {} PROVE FALSE
    OBVIOUS
  <2>2. PICK k \in Bad : \A n \in Bad : k <= n
    <3>1. Bad \in SUBSET Nat
      OBVIOUS
    <3> HIDE DEF Bad
    <3>2. QED
      BY <2>1, <3>1, LeastNat
  <2>3. PICK s \in SUBSET S : Cardinality(s) = k /\ s \notin B
    BY <2>2
  <2>4. s # {}
    BY <2>3
  <2>5. s \ {First(s)} \in SUBSET S
    OBVIOUS
  <2>6. Cardinality(s \ {First(s)}) = k - 1 /\ k - 1 \in Nat
    <3>1. Cardinality(s \ {First(s)}) = Cardinality(s) - 1
      BY <1>1, <2>4
    <3>2. Cardinality(s \ {First(s)}) \in Nat
      BY <1>1, <2>5
    <3>3. QED
      BY <2>3, <3>1, <3>2
  <2>7. s \ {First(s)} \notin B
    BY <2>3, <2>4
  <2>8. k - 1 \in Bad
    BY <2>5, <2>6, <2>7
  <2>9. QED
    BY <2>2, <2>6, <2>8
<1>3. QED
  BY <1>1, <1>2

(* f is the fold of step over every part of S.                             *)
FoldOf(f, S, D, base, step) ==
  /\ f \in [SUBSET S -> D]
  /\ \A s \in SUBSET S : f[s] = IF s = {} THEN base ELSE step[<<First(s), f[s \ {First(s)}]>>]

(* The recursion has a value.                                              *)
LEMMA FoldExists ==
  ASSUME NEW S, IsFiniteSet(S), NEW D, NEW base \in D, NEW step \in [S \X D -> D]
  PROVE  \E f : FoldOf(f, S, D, base, step)
<1> DEFINE Upto(f, k) == \A s \in SUBSET S : Cardinality(s) <= k =>
                           f[s] = IF s = {} THEN base ELSE step[<<First(s), f[s \ {First(s)}]>>]
           Bad == {k \in Nat : ~ \E f \in [SUBSET S -> D] : Upto(f, k)}
<1>1. ASSUME NEW s \in SUBSET S
      PROVE  /\ Cardinality(s) \in Nat /\ (Cardinality(s) = 0 => s = {})
             /\ s # {} => First(s) \in s /\ First(s) \in S /\ Cardinality(s \ {First(s)}) = Cardinality(s) - 1
  <2>1. IsFiniteSet(s)
    BY FS_Subset
  <2>2. Cardinality(s) \in Nat /\ (Cardinality(s) = 0 => s = {})
    BY <2>1, FS_CardinalityType, FS_EmptySet
  <2>3. s # {} => First(s) \in s
    BY DEF First
  <2>4. s # {} => Cardinality(s \ {First(s)}) = Cardinality(s) - 1
    <3>1. Cardinality(s \ {First(s)}) = IF First(s) \in s THEN Cardinality(s) - 1 ELSE Cardinality(s)
      BY <2>1, FS_RemoveElement, Zenon
    <3>2. QED
      BY <2>3, <3>1
  <2>5. QED
    BY <2>2, <2>3, <2>4
<1>2. 0 \notin Bad
  <2>1. [s \in SUBSET S |-> base] \in [SUBSET S -> D]
    OBVIOUS
  <2>2. ASSUME NEW s \in SUBSET S, Cardinality(s) <= 0
        PROVE  s = {}
    <3>1. Cardinality(s) \in Nat /\ (Cardinality(s) = 0 => s = {})
      BY <1>1
    <3>2. QED
      BY <2>2, <3>1
  <2>3. Upto([s \in SUBSET S |-> base], 0)
    BY <2>2
  <2>4. QED
    BY <2>1, <2>3
<1>3. ASSUME NEW k \in Nat, k \notin Bad
      PROVE  k + 1 \notin Bad
  <2>1. PICK f \in [SUBSET S -> D] : Upto(f, k)
    BY <1>3
  <2> DEFINE g == [s \in SUBSET S |-> IF s = {} \/ Cardinality(s) <= k THEN f[s]
                                      ELSE step[<<First(s), f[s \ {First(s)}]>>]]
  <2>2. ASSUME NEW s \in SUBSET S
        PROVE  g[s] \in D
    <3>1. s # {} => <<First(s), f[s \ {First(s)}]>> \in S \X D
      BY <1>1
    <3>2. QED
      BY <3>1
  <2>3. g \in [SUBSET S -> D]
    BY <2>2
  <2>4. ASSUME NEW s \in SUBSET S, Cardinality(s) <= k + 1
        PROVE  g[s] = IF s = {} THEN base ELSE step[<<First(s), g[s \ {First(s)}]>>]
    <3>1. CASE s = {}
      <4>1. Cardinality(s) <= k
        BY <3>1, FS_EmptySet
      <4>2. QED
        BY <2>1, <3>1, <4>1
    <3>2. CASE s # {}
      <4>1. s \ {First(s)} \in SUBSET S /\ Cardinality(s \ {First(s)}) <= k
        BY <1>1, <2>4, <3>2
      <4>2. g[s \ {First(s)}] = f[s \ {First(s)}]
        BY <4>1
      <4>3. g[s] = step[<<First(s), f[s \ {First(s)}]>>]
        BY <2>1, <3>2
      <4>4. QED
        BY <3>2, <4>2, <4>3
    <3>3. QED
      BY <3>1, <3>2
  <2>5. QED
    BY <2>3, <2>4
<1>4. Bad = {}
  <2>1. SUFFICES ASSUME Bad # {} PROVE FALSE
    OBVIOUS
  <2>2. Bad \in SUBSET Nat
    OBVIOUS
  <2> HIDE DEF Bad
  <2>3. PICK k \in Bad : \A n \in Bad : k <= n
    BY <2>1, <2>2, LeastNat
  <2>4. k \in Nat /\ k # 0
    BY <1>2, <2>2
  <2>5. k - 1 \in Nat /\ k - 1 \notin Bad
    BY <2>3, <2>4
  <2>6. (k - 1) + 1 \notin Bad
    BY <1>3, <2>5
  <2>7. QED
    BY <2>4, <2>6
<1>5. Cardinality(S) \in Nat
  BY FS_CardinalityType
<1>6. PICK f \in [SUBSET S -> D] : Upto(f, Cardinality(S))
  BY <1>4, <1>5
<1>7. \A s \in SUBSET S : Cardinality(s) <= Cardinality(S)
  BY FS_Subset
<1>8. QED
  BY <1>6, <1>7 DEF FoldOf

-----------------------------------------------------------------------------
(* The operations.                                                         *)

Sorts == {"interval", "face"}
Clauses == SUBSET Literals

LEMMA Finite ==
  /\ IsFiniteSet(Literals)
  /\ \A c \in Clauses : IsFiniteSet(c)
  /\ \A f \in SUBSET Clauses : IsFiniteSet(f)
<1>1. IsFiniteSet({0, 1})
  <2>1. IsFiniteSet({0}) /\ {0, 1} = {0} \cup {1}
    BY FS_Singleton
  <2>2. QED
    BY <2>1, FS_AddElement
<1>2. IsFiniteSet(Literals)
  BY <1>1, FS_Product, LatticesAssumption DEF Literals
<1>3. IsFiniteSet(Clauses)
  BY <1>2, FS_SUBSET DEF Clauses
<1>4. QED
  BY <1>2, <1>3, FS_Subset DEF Clauses

LEMMA InsertIn ==
  ASSUME NEW sort, NEW c \in Clauses, NEW f \in SUBSET Clauses
  PROVE  Insert(sort, c, f) \in SUBSET Clauses
BY DEF Insert

LEMMA CompactFold ==
  ASSUME NEW sort, NEW S,
         NEW f, f = [s \in SUBSET S |-> IF s = {} THEN Zero ELSE Insert(sort, First(s), f[s \ {First(s)}])]
  PROVE  \E g : /\ g = [s \in SUBSET S |-> IF s = {} THEN Zero ELSE Insert(sort, First(s), g[s \ {First(s)}])]
                /\ Compact(sort, S) = g[S]
<1> DEFINE iter == CHOOSE g : g = [s \in SUBSET S |-> IF s = {} THEN Zero ELSE Insert(sort, First(s), g[s \ {First(s)}])]
<1>1. Compact(sort, S) = iter[S]
  BY DEF Compact, FoldSet, MapThenFoldSet, First
<1>2. iter = [s \in SUBSET S |-> IF s = {} THEN Zero ELSE Insert(sort, First(s), iter[s \ {First(s)}])]
  OBVIOUS
<1>3. QED
  BY <1>1, <1>2

(* However clauses are inserted, what is left is what canonical promises.  *)
LEMMA Compacted ==
  ASSUME NEW sort, NEW S \in SUBSET Clauses
  PROVE  Compacts(sort, Compact(sort, S), S)
<1>1. IsFiniteSet(S)
  BY Finite
<1> DEFINE step == [p \in S \X SUBSET Clauses |-> Insert(sort, p[1], p[2])]
<1>2. step \in [S \X SUBSET Clauses -> SUBSET Clauses]
  BY InsertIn
<1>3. Zero \in SUBSET Clauses
  BY DEF Zero
<1>4. PICK f : FoldOf(f, S, SUBSET Clauses, Zero, step)
  <2> HIDE DEF step
  <2>1. QED
    BY <1>1, <1>2, <1>3, FoldExists, Zenon
<1>5. \A s \in SUBSET S : s # {} => First(s) \in S
  BY DEF First
<1>6. \A s \in SUBSET S : s # {} => step[<<First(s), f[s \ {First(s)}]>>] = Insert(sort, First(s), f[s \ {First(s)}])
  BY <1>4, <1>5 DEF FoldOf
<1>7. f = [s \in SUBSET S |-> IF s = {} THEN Zero ELSE Insert(sort, First(s), f[s \ {First(s)}])]
  <2> HIDE DEF step
  <2>1. QED
    BY <1>4, <1>6 DEF FoldOf
<1>8. PICK g : /\ g = [s \in SUBSET S |-> IF s = {} THEN Zero ELSE Insert(sort, First(s), g[s \ {First(s)}])]
               /\ Compact(sort, S) = g[S]
  BY <1>7, CompactFold
<1> DEFINE B == {s \in SUBSET S : Compacts(sort, g[s], s)}
<1>9. {} \in B
  <2>1. g[{}] = {}
    BY <1>8 DEF Zero
  <2>2. Compacts(sort, {}, {})
    BY DEF Compacts, Antichain
  <2>3. QED
    BY <2>1, <2>2
<1>10. ASSUME NEW s \in SUBSET S, s # {}, s \ {First(s)} \in B
       PROVE  s \in B
  <2>1. g[s] = Insert(sort, First(s), g[s \ {First(s)}])
    BY <1>8, <1>10
  <2>2. Compacts(sort, g[s \ {First(s)}], s \ {First(s)})
    BY <1>10
  <2>3. Compacts(sort, g[s], (s \ {First(s)}) \cup {First(s)})
    BY <2>1, <2>2, InsertionCompacts
  <2>4. First(s) \in s
    BY <1>10 DEF First
  <2>5. (s \ {First(s)}) \cup {First(s)} = s
    BY <2>4
  <2>6. QED
    BY <2>3, <2>5
<1>11. S \in B
  <2>1. B \in SUBSET SUBSET S
    OBVIOUS
  <2> HIDE DEF B
  <2>2. QED
    BY <1>1, <1>9, <1>10, <2>1, ByFirst
<1>12. QED
  BY <1>8, <1>11

(* A set of formulas all of which mean m; and all of which are within the  *)
(* bound.                                                                  *)
Formula(sort, h) == h \subseteq ClausesOf(sort) /\ Antichain(h)
AllMean(sort, hs, m) == \A h \in hs : Formula(sort, h) /\ Meaning(sort, h) = m
Within(hs) == \A h \in hs : Cardinality(h) <= MaxClauses

LEMMA CompactIs ==
  ASSUME NEW sort, NEW S \in SUBSET Clauses
  PROVE  /\ Formula(sort, Compact(sort, S)) /\ Meaning(sort, Compact(sort, S)) = Meaning(sort, S)
         /\ IsFiniteSet(S) /\ Cardinality(S) \in Nat /\ Cardinality(Compact(sort, S)) <= Cardinality(S)
<1>1. Compacts(sort, Compact(sort, S), S)
  BY Compacted
<1>2. Compact(sort, S) \subseteq S /\ Antichain(Compact(sort, S))
  BY <1>1 DEF Compacts
<1>3. Compact(sort, S) \subseteq ClausesOf(sort)
  BY <1>1 DEF Compacts, Consistent, ClausesOf, Clauses
<1>4. Meaning(sort, Compact(sort, S)) = Meaning(sort, S)
  BY <1>1, CompactionMeans
<1>5. IsFiniteSet(S)
  BY Finite
<1>6. Cardinality(S) \in Nat /\ Cardinality(Compact(sort, S)) <= Cardinality(S)
  BY <1>2, <1>5, FS_CardinalityType, FS_Subset
<1>7. QED
  BY <1>2, <1>3, <1>4, <1>5, <1>6 DEF Formula

LEMMA FormulaIn ==
  ASSUME NEW sort, NEW h, Formula(sort, h)
  PROVE  h \in SUBSET Clauses /\ IsFiniteSet(h) /\ Cardinality(h) \in Nat
<1>1. h \in SUBSET Clauses
  BY DEF Formula, ClausesOf, Clauses
<1>2. QED
  BY <1>1, Finite, FS_CardinalityType

(* A join means what both mean.                                            *)
LEMMA JoinedMeans ==
  ASSUME NEW sort, NEW f, NEW g, Formula(sort, f), Formula(sort, g), NEW h \in Joined(sort, f, g)
  PROVE  /\ Formula(sort, h) /\ Cardinality(h) <= MaxClauses
         /\ Meaning(sort, h) = Meaning(sort, f) \cup Meaning(sort, g)
<1>1. Cardinality(f) + Cardinality(g) <= MaxClauses /\ h = Compact(sort, f \cup g)
  BY FormulaIn, LatticesAssumption DEF Joined
<1>2. f \in SUBSET Clauses /\ g \in SUBSET Clauses /\ f \cup g \in SUBSET Clauses
  BY FormulaIn
<1>3. Cardinality(f \cup g) <= Cardinality(f) + Cardinality(g)
  <2>1. IsFiniteSet(f) /\ IsFiniteSet(g) /\ Cardinality(f) \in Nat /\ Cardinality(g) \in Nat
    BY FormulaIn
  <2>2. Cardinality(f \cup g) = Cardinality(f) + Cardinality(g) - Cardinality(f \cap g)
    BY <2>1, FS_Union
  <2>3. Cardinality(f \cap g) \in Nat
    BY <2>1, FS_Intersection, FS_CardinalityType
  <2>4. QED
    BY <2>1, <2>2, <2>3
<1>4. /\ Formula(sort, h) /\ Meaning(sort, h) = Meaning(sort, f \cup g)
      /\ Cardinality(h) <= Cardinality(f \cup g) /\ Cardinality(f \cup g) \in Nat
  BY <1>1, <1>2, CompactIs
<1>5. Cardinality(h) \in Nat /\ Cardinality(f) \in Nat /\ Cardinality(g) \in Nat /\ MaxClauses \in Nat
  BY <1>4, FormulaIn, LatticesAssumption
<1>6. Meaning(sort, f \cup g) = Meaning(sort, f) \cup Meaning(sort, g)
  BY DEF Meaning
<1>7. Cardinality(h) <= MaxClauses
  BY <1>1, <1>3, <1>4, <1>5
<1>8. QED
  BY <1>4, <1>6, <1>7

(* The unions of a clause of each are no more than there are pairs.        *)
Unions(f, g) == {c \cup d : c \in f, d \in g}

LEMMA PairsBounded ==
  ASSUME NEW f, NEW g, IsFiniteSet(f), IsFiniteSet(g)
  PROVE  Cardinality(Unions(f, g)) <= Cardinality(f) * Cardinality(g)
<1> DEFINE T == Unions(f, g)
           both == [p \in f \X g |-> p[1] \cup p[2]]
<1>1. IsFiniteSet(f \X g) /\ Cardinality(f \X g) = Cardinality(f) * Cardinality(g)
  BY FS_Product
<1>2. both \in Surjection(f \X g, T)
  <2>1. both \in [f \X g -> T]
    BY DEF Unions
  <2>2. ASSUME NEW t \in T
        PROVE  \E p \in f \X g : both[p] = t
    <3>1. PICK c \in f, d \in g : t = c \cup d
      BY DEF Unions
    <3>2. <<c, d>> \in f \X g /\ both[<<c, d>>] = t
      BY <3>1
    <3>3. QED
      BY <3>2
  <2> HIDE DEF both, T
  <2>3. QED
    BY <2>1, <2>2 DEF Surjection
<1> HIDE DEF both
<1>3. Cardinality(T) <= Cardinality(f \X g)
  BY <1>1, <1>2, FS_Surjection
<1>4. QED
  BY <1>1, <1>3

(* A meet means what both do.                                              *)
LEMMA MetMeans ==
  ASSUME NEW sort, NEW f, NEW g, Formula(sort, f), Formula(sort, g), NEW h \in Met(sort, f, g)
  PROVE  /\ Formula(sort, h) /\ Cardinality(h) <= MaxClauses
         /\ Meaning(sort, h) = Meaning(sort, f) \cap Meaning(sort, g)
<1>1. IsFiniteSet(f) /\ IsFiniteSet(g) /\ Cardinality(f) \in Nat /\ Cardinality(g) \in Nat /\ MaxClauses \in Nat
  BY FormulaIn, LatticesAssumption
<1>2. PICK k \in Nat : k = Cardinality(f) * Cardinality(g)
  BY <1>1
<1>3. k <= MaxClauses /\ h = Compact(sort, Unions(f, g))
  BY <1>1, <1>2 DEF Met, Unions
<1>4. Unions(f, g) \in SUBSET Clauses
  <2>1. f \in SUBSET Clauses /\ g \in SUBSET Clauses
    BY FormulaIn
  <2>2. QED
    BY <2>1 DEF Clauses, Unions
<1>5. Meaning(sort, Unions(f, g)) = Meaning(sort, f) \cap Meaning(sort, g)
  <2>1. ASSUME NEW v \in Points(sort)
        PROVE  (\E t \in Unions(f, g) : t \subseteq v) <=> (\E c \in f : c \subseteq v) /\ (\E d \in g : d \subseteq v)
    <3>1. ASSUME NEW c \in f, NEW d \in g, c \subseteq v, d \subseteq v
          PROVE  \E t \in Unions(f, g) : t \subseteq v
      <4>1. c \cup d \in Unions(f, g) /\ c \cup d \subseteq v
        BY <3>1 DEF Unions
      <4>2. QED
        BY <4>1
    <3>2. ASSUME NEW t \in Unions(f, g), t \subseteq v
          PROVE  (\E c \in f : c \subseteq v) /\ (\E d \in g : d \subseteq v)
      BY <3>2 DEF Unions
    <3>3. QED
      BY <3>1, <3>2
  <2>2. QED
    BY <2>1 DEF Meaning
<1>6. Cardinality(Unions(f, g)) <= k
  BY <1>1, <1>2, PairsBounded
<1>7. /\ Formula(sort, h) /\ Meaning(sort, h) = Meaning(sort, Unions(f, g))
      /\ Cardinality(h) <= Cardinality(Unions(f, g)) /\ Cardinality(Unions(f, g)) \in Nat
  BY <1>3, <1>4, CompactIs
<1>8. Cardinality(h) \in Nat
  BY <1>7, FormulaIn
<1>9. Cardinality(h) <= MaxClauses
  BY <1>1, <1>3, <1>6, <1>7, <1>8
<1>10. QED
  BY <1>5, <1>7, <1>9

LEMMA JoinsMean ==
  ASSUME NEW sort, NEW fs, NEW gs, NEW m, NEW n, AllMean(sort, fs, m), AllMean(sort, gs, n)
  PROVE  AllMean(sort, Joins(sort, fs, gs), m \cup n) /\ Within(Joins(sort, fs, gs))
<1> SUFFICES ASSUME NEW h \in Joins(sort, fs, gs)
             PROVE  Formula(sort, h) /\ Meaning(sort, h) = m \cup n /\ Cardinality(h) <= MaxClauses
  BY Zenon DEF AllMean, Within
<1>1. PICK f \in fs, g \in gs : h \in Joined(sort, f, g)
  BY DEF Joins
<1>2. Formula(sort, f) /\ Formula(sort, g) /\ Meaning(sort, f) = m /\ Meaning(sort, g) = n
  BY Zenon DEF AllMean
<1>3. QED
  BY <1>1, <1>2, JoinedMeans

LEMMA MeetsMean ==
  ASSUME NEW sort, NEW fs, NEW gs, NEW m, NEW n, AllMean(sort, fs, m), AllMean(sort, gs, n)
  PROVE  AllMean(sort, Meets(sort, fs, gs), m \cap n) /\ Within(Meets(sort, fs, gs))
<1> SUFFICES ASSUME NEW h \in Meets(sort, fs, gs)
             PROVE  Formula(sort, h) /\ Meaning(sort, h) = m \cap n /\ Cardinality(h) <= MaxClauses
  BY Zenon DEF AllMean, Within
<1>1. PICK f \in fs, g \in gs : h \in Met(sort, f, g)
  BY DEF Meets
<1>2. Formula(sort, f) /\ Formula(sort, g) /\ Meaning(sort, f) = m /\ Meaning(sort, g) = n
  BY Zenon DEF AllMean
<1>3. QED
  BY <1>1, <1>2, MetMeans

(* The joins, or meets, of a family mean what all of its members do.       *)
Families == SUBSET SUBSET Clauses

LEMMA FamiliesClosed ==
  ASSUME NEW sort, NEW fs \in Families, NEW gs \in Families
  PROVE  Joins(sort, fs, gs) \in Families /\ Meets(sort, fs, gs) \in Families
<1>1. \A S \in SUBSET Clauses : Compact(sort, S) \in SUBSET Clauses
  BY CompactIs, FormulaIn, Zenon
<1>2. ASSUME NEW f \in SUBSET Clauses, NEW g \in SUBSET Clauses
      PROVE  Joined(sort, f, g) \subseteq SUBSET Clauses /\ Met(sort, f, g) \subseteq SUBSET Clauses
  <2>1. f \cup g \in SUBSET Clauses /\ Unions(f, g) \in SUBSET Clauses
    BY DEF Clauses, Unions
  <2>2. Compact(sort, f \cup g) \in SUBSET Clauses /\ Compact(sort, Unions(f, g)) \in SUBSET Clauses
    BY <1>1, <2>1, Zenon
  <2>3. Joined(sort, f, g) \subseteq {Compact(sort, f \cup g)} /\ Met(sort, f, g) \subseteq {Compact(sort, Unions(f, g))}
    BY DEF Joined, Met, Unions
  <2>4. QED
    BY <2>2, <2>3, Zenon
<1>3. \A f \in fs : f \in SUBSET Clauses
  BY DEF Families
<1>4. \A g \in gs : g \in SUBSET Clauses
  BY DEF Families
<1>5. ASSUME NEW h \in Joins(sort, fs, gs)
      PROVE  h \in SUBSET Clauses
  <2>1. PICK f \in fs, g \in gs : h \in Joined(sort, f, g)
    BY DEF Joins
  <2>2. f \in SUBSET Clauses /\ g \in SUBSET Clauses
    BY <1>3, <1>4
  <2>3. Joined(sort, f, g) \subseteq SUBSET Clauses
    BY <1>2, <2>2, Zenon
  <2>4. QED
    BY <2>1, <2>3, Zenon
<1>6. ASSUME NEW h \in Meets(sort, fs, gs)
      PROVE  h \in SUBSET Clauses
  <2>1. PICK f \in fs, g \in gs : h \in Met(sort, f, g)
    BY DEF Meets
  <2>2. f \in SUBSET Clauses /\ g \in SUBSET Clauses
    BY <1>3, <1>4
  <2>3. Met(sort, f, g) \subseteq SUBSET Clauses
    BY <1>2, <2>2, Zenon
  <2>4. QED
    BY <2>1, <2>3, Zenon
<1>7. QED
  BY <1>5, <1>6 DEF Families

LEMMA FamilyIn ==
  ASSUME NEW sort, NEW hs, NEW m, AllMean(sort, hs, m)
  PROVE  hs \in Families
<1>1. \A h \in hs : h \in SUBSET Clauses
  BY FormulaIn, Zenon DEF AllMean
<1>2. QED
  BY <1>1 DEF Families

JoinStep(sort, g, h, s) == IF s = {} THEN {Zero} ELSE Joins(sort, h[s \ {First(s)}], g[First(s)])
MeetStep(sort, g, h, s) == IF s = {} THEN {One} ELSE Meets(sort, h[s \ {First(s)}], g[First(s)])
JoinsFrom(sort, S, g, h) == h = [s \in SUBSET S |-> JoinStep(sort, g, h, s)]
MeetsFrom(sort, S, g, h) == h = [s \in SUBSET S |-> MeetStep(sort, g, h, s)]

LEMMA JoinFold ==
  ASSUME NEW sort, NEW S, NEW g \in [S -> Families], NEW f, JoinsFrom(sort, S, g, f)
  PROVE  \E h : JoinsFrom(sort, S, g, h) /\ JoinAll(sort, g) = h[S]
<1> DEFINE iter == CHOOSE h : h = [s \in SUBSET S |-> JoinStep(sort, g, h, s)]
<1>1. JoinAll(sort, g) = iter[S]
  <2>1. DOMAIN g = S
    OBVIOUS
  <2>2. QED
    BY <2>1 DEF JoinAll, FoldSet, MapThenFoldSet, First, JoinStep
<1>2. iter = [s \in SUBSET S |-> JoinStep(sort, g, iter, s)]
  BY DEF JoinsFrom
<1> HIDE DEF iter
<1>3. QED
  BY <1>1, <1>2 DEF JoinsFrom

LEMMA MeetFold ==
  ASSUME NEW sort, NEW S, NEW g \in [S -> Families], NEW f, MeetsFrom(sort, S, g, f)
  PROVE  \E h : MeetsFrom(sort, S, g, h) /\ MeetAll(sort, g) = h[S]
<1> DEFINE iter == CHOOSE h : h = [s \in SUBSET S |-> MeetStep(sort, g, h, s)]
<1>1. MeetAll(sort, g) = iter[S]
  <2>1. DOMAIN g = S
    OBVIOUS
  <2>2. QED
    BY <2>1 DEF MeetAll, FoldSet, MapThenFoldSet, First, MeetStep
<1>2. iter = [s \in SUBSET S |-> MeetStep(sort, g, iter, s)]
  BY DEF MeetsFrom
<1> HIDE DEF iter
<1>3. QED
  BY <1>1, <1>2 DEF MeetsFrom

LEMMA JoinFoldExists ==
  ASSUME NEW sort, NEW S, IsFiniteSet(S), NEW g \in [S -> Families]
  PROVE  \E f : JoinsFrom(sort, S, g, f)
<1> DEFINE step == [p \in S \X Families |-> Joins(sort, p[2], g[p[1]])]
<1>1. step \in [S \X Families -> Families]
  <2>1. ASSUME NEW p \in S \X Families
        PROVE  Joins(sort, p[2], g[p[1]]) \in Families
    <3>1. p[2] \in Families /\ g[p[1]] \in Families
      OBVIOUS
    <3>2. QED
      BY <3>1, FamiliesClosed, Zenon
  <2>2. QED
    BY <2>1
<1>2. {Zero} \in Families
  BY DEF Zero, Families
<1>3. PICK f : FoldOf(f, S, Families, {Zero}, step)
  <2> HIDE DEF step
  <2>1. QED
    BY <1>1, <1>2, FoldExists, Zenon
<1>4. \A s \in SUBSET S : s # {} => First(s) \in S
  BY DEF First
<1>5. ASSUME NEW s \in SUBSET S, s # {}
      PROVE  step[<<First(s), f[s \ {First(s)}]>>] = Joins(sort, f[s \ {First(s)}], g[First(s)])
  <2>1. First(s) \in S /\ f[s \ {First(s)}] \in Families
    BY <1>3, <1>4, <1>5 DEF FoldOf
  <2>2. QED
    BY <2>1
<1> HIDE DEF step
<1>6. \A s \in SUBSET S : f[s] = JoinStep(sort, g, f, s)
  BY <1>3, <1>5 DEF FoldOf, JoinStep
<1>7. JoinsFrom(sort, S, g, f)
  BY <1>3, <1>6 DEF FoldOf, JoinsFrom
<1>8. QED
  BY <1>7

LEMMA MeetFoldExists ==
  ASSUME NEW sort, NEW S, IsFiniteSet(S), NEW g \in [S -> Families]
  PROVE  \E f : MeetsFrom(sort, S, g, f)
<1> DEFINE step == [p \in S \X Families |-> Meets(sort, p[2], g[p[1]])]
<1>1. step \in [S \X Families -> Families]
  <2>1. ASSUME NEW p \in S \X Families
        PROVE  Meets(sort, p[2], g[p[1]]) \in Families
    <3>1. p[2] \in Families /\ g[p[1]] \in Families
      OBVIOUS
    <3>2. QED
      BY <3>1, FamiliesClosed, Zenon
  <2>2. QED
    BY <2>1
<1>2. {One} \in Families
  BY DEF One, Families, Clauses
<1>3. PICK f : FoldOf(f, S, Families, {One}, step)
  <2> HIDE DEF step
  <2>1. QED
    BY <1>1, <1>2, FoldExists, Zenon
<1>4. \A s \in SUBSET S : s # {} => First(s) \in S
  BY DEF First
<1>5. ASSUME NEW s \in SUBSET S, s # {}
      PROVE  step[<<First(s), f[s \ {First(s)}]>>] = Meets(sort, f[s \ {First(s)}], g[First(s)])
  <2>1. First(s) \in S /\ f[s \ {First(s)}] \in Families
    BY <1>3, <1>4, <1>5 DEF FoldOf
  <2>2. QED
    BY <2>1
<1> HIDE DEF step
<1>6. \A s \in SUBSET S : f[s] = MeetStep(sort, g, f, s)
  BY <1>3, <1>5 DEF FoldOf, MeetStep
<1>7. MeetsFrom(sort, S, g, f)
  BY <1>3, <1>6 DEF FoldOf, MeetsFrom
<1>8. QED
  BY <1>7

AnyOf(sort, S, m) == {v \in Points(sort) : \E x \in S : v \in m[x]}
AllOf(sort, S, m) == {v \in Points(sort) : \A x \in S : v \in m[x]}

LEMMA UnitsMean ==
  ASSUME NEW sort
  PROVE  /\ AllMean(sort, {Zero}, {}) /\ AllMean(sort, {One}, Points(sort))
         /\ Within({Zero}) /\ Within({One})
<1>1. Formula(sort, Zero) /\ Meaning(sort, Zero) = {}
  BY DEF Formula, Antichain, Zero, Meaning
<1>2. Formula(sort, One) /\ Meaning(sort, One) = Points(sort)
  BY DEF Formula, Antichain, One, Meaning, ClausesOf, Contradictory
<1>3. Cardinality(Zero) = 0 /\ Cardinality(One) = 1
  BY FS_EmptySet, FS_Singleton DEF Zero, One
<1>4. QED
  BY <1>1, <1>2, <1>3, LatticesAssumption DEF AllMean, Within

LEMMA JoinAllMeans ==
  ASSUME NEW sort, NEW S, IsFiniteSet(S), NEW g \in [S -> Families], NEW m,
         \A x \in S : AllMean(sort, g[x], m[x]) /\ m[x] \subseteq Points(sort)
  PROVE  AllMean(sort, JoinAll(sort, g), AnyOf(sort, S, m)) /\ Within(JoinAll(sort, g))
<1>1. PICK h : JoinsFrom(sort, S, g, h) /\ JoinAll(sort, g) = h[S]
  <2>1. PICK f : JoinsFrom(sort, S, g, f)
    BY JoinFoldExists, Zenon
  <2>2. QED
    BY <2>1, JoinFold, Zenon
<1> DEFINE B == {s \in SUBSET S : AllMean(sort, h[s], AnyOf(sort, s, m)) /\ Within(h[s])}
<1>2. {} \in B
  <2>1. h[{}] = {Zero}
    BY <1>1 DEF JoinStep, JoinsFrom
  <2>2. AnyOf(sort, {}, m) = {}
    BY DEF AnyOf
  <2>3. QED
    BY <2>1, <2>2, UnitsMean
<1>3. ASSUME NEW s \in SUBSET S, s # {}, s \ {First(s)} \in B
      PROVE  s \in B
  <2>1. First(s) \in s /\ First(s) \in S
    BY <1>3 DEF First
  <2>2. h[s] = Joins(sort, h[s \ {First(s)}], g[First(s)])
    BY <1>1, <1>3 DEF JoinStep, JoinsFrom
  <2>3. AllMean(sort, h[s \ {First(s)}], AnyOf(sort, s \ {First(s)}, m)) /\ AllMean(sort, g[First(s)], m[First(s)])
    BY <1>3, <2>1
  <2>4. AnyOf(sort, s \ {First(s)}, m) \cup m[First(s)] = AnyOf(sort, s, m)
    BY <2>1 DEF AnyOf
  <2>5. AllMean(sort, h[s], AnyOf(sort, s \ {First(s)}, m) \cup m[First(s)]) /\ Within(h[s])
    <3>1. PICK a, b : a = AnyOf(sort, s \ {First(s)}, m) /\ b = m[First(s)]
      OBVIOUS
    <3>2. AllMean(sort, Joins(sort, h[s \ {First(s)}], g[First(s)]), a \cup b) /\ Within(Joins(sort, h[s \ {First(s)}], g[First(s)]))
      BY <2>3, <3>1, JoinsMean, Zenon
    <3>3. QED
      BY <2>2, <3>1, <3>2, Zenon
  <2>6. QED
    BY <2>4, <2>5
<1>4. S \in B
  <2>1. B \in SUBSET SUBSET S
    OBVIOUS
  <2> HIDE DEF B
  <2>2. QED
    BY <1>2, <1>3, <2>1, ByFirst
<1>5. QED
  BY <1>1, <1>4

LEMMA MeetAllMeans ==
  ASSUME NEW sort, NEW S, IsFiniteSet(S), NEW g \in [S -> Families], NEW m,
         \A x \in S : AllMean(sort, g[x], m[x]) /\ m[x] \subseteq Points(sort)
  PROVE  AllMean(sort, MeetAll(sort, g), AllOf(sort, S, m)) /\ Within(MeetAll(sort, g))
<1>1. PICK h : MeetsFrom(sort, S, g, h) /\ MeetAll(sort, g) = h[S]
  <2>1. PICK f : MeetsFrom(sort, S, g, f)
    BY MeetFoldExists, Zenon
  <2>2. QED
    BY <2>1, MeetFold, Zenon
<1> DEFINE B == {s \in SUBSET S : AllMean(sort, h[s], AllOf(sort, s, m)) /\ Within(h[s])}
<1>2. {} \in B
  <2>1. h[{}] = {One}
    BY <1>1 DEF MeetStep, MeetsFrom
  <2>2. AllOf(sort, {}, m) = Points(sort)
    BY DEF AllOf
  <2>3. QED
    BY <2>1, <2>2, UnitsMean
<1>3. ASSUME NEW s \in SUBSET S, s # {}, s \ {First(s)} \in B
      PROVE  s \in B
  <2>1. First(s) \in s /\ First(s) \in S
    BY <1>3 DEF First
  <2>2. h[s] = Meets(sort, h[s \ {First(s)}], g[First(s)])
    BY <1>1, <1>3 DEF MeetStep, MeetsFrom
  <2>3. AllMean(sort, h[s \ {First(s)}], AllOf(sort, s \ {First(s)}, m)) /\ AllMean(sort, g[First(s)], m[First(s)])
    BY <1>3, <2>1
  <2>4. AllOf(sort, s \ {First(s)}, m) \cap m[First(s)] = AllOf(sort, s, m)
    BY <2>1 DEF AllOf
  <2>5. AllMean(sort, h[s], AllOf(sort, s \ {First(s)}, m) \cap m[First(s)]) /\ Within(h[s])
    <3>1. PICK a, b : a = AllOf(sort, s \ {First(s)}, m) /\ b = m[First(s)]
      OBVIOUS
    <3>2. AllMean(sort, Meets(sort, h[s \ {First(s)}], g[First(s)]), a \cap b) /\ Within(Meets(sort, h[s \ {First(s)}], g[First(s)]))
      BY <2>3, <3>1, MeetsMean, Zenon
    <3>3. QED
      BY <2>2, <3>1, <3>2, Zenon
  <2>6. QED
    BY <2>4, <2>5
<1>4. S \in B
  <2>1. B \in SUBSET SUBSET S
    OBVIOUS
  <2> HIDE DEF B
  <2>2. QED
    BY <1>2, <1>3, <2>1, ByFirst
<1>5. QED
  BY <1>1, <1>4

-----------------------------------------------------------------------------
(* Endpoints and substitution.                                             *)

AtMeans(sort, r, end) ==
  {v \in Points(sort) : IF end = 1 THEN v \in Meaning("interval", r) ELSE Swapped(v) \notin Meaning("interval", r)}

LEMMA PointsAre ==
  ASSUME NEW sort
  PROVE  /\ Points("interval") = Clauses /\ Points(sort) \subseteq Clauses
         /\ \A l \in Literals : Opposite(l) \in Literals /\ Opposite(Opposite(l)) = l
         /\ \A v : Swapped(v) \in Points("interval")
<1>1. Points("interval") = Clauses /\ Points(sort) \subseteq Clauses
  BY DEF Points, ClausesOf, Clauses
<1>2. \A l \in Literals : Opposite(l) \in Literals /\ Opposite(Opposite(l)) = l
  BY DEF Literals, Opposite
<1>3. \A v : Swapped(v) \in Clauses
  BY DEF Swapped, Clauses
<1>4. QED
  BY <1>1, <1>2, <1>3

LEMMA AtIs ==
  ASSUME NEW sort, NEW r, Formula("interval", r), Cardinality(r) <= MaxClauses, NEW end \in {0, 1}
  PROVE  AllMean(sort, At(sort, r, end), AtMeans(sort, r, end)) /\ Within(At(sort, r, end))
<1>1. r \in SUBSET Clauses /\ IsFiniteSet(r) /\ Cardinality(r) \in Nat
  BY FormulaIn
<1>2. CASE end = 1
  <2>1. At(sort, r, end) = {Compact(sort, r)}
    BY <1>2 DEF At
  <2>2. /\ Formula(sort, Compact(sort, r)) /\ Meaning(sort, Compact(sort, r)) = Meaning(sort, r)
        /\ Cardinality(Compact(sort, r)) <= Cardinality(r)
    BY <1>1, CompactIs
  <2>3. Meaning(sort, r) = AtMeans(sort, r, 1)
    BY PointsAre DEF Meaning, AtMeans
  <2>4. Cardinality(Compact(sort, r)) <= MaxClauses
    <3>1. Cardinality(Compact(sort, r)) \in Nat
      BY <2>2, FormulaIn
    <3>2. QED
      BY <1>1, <2>2, <3>1, LatticesAssumption
  <2>5. QED
    BY <1>2, <2>1, <2>2, <2>3, <2>4 DEF AllMean, Within
<1>3. CASE end = 0
  <2> DEFINE some(c) == {{Opposite(l)} : l \in c}
             g == [c \in r |-> {Compact(sort, some(c))}]
             m == [c \in r |-> {v \in Points(sort) : \E l \in c : Opposite(l) \in v}]
  <2>1. At(sort, r, end) = MeetAll(sort, g)
    BY <1>3 DEF At
  <2>2. ASSUME NEW c \in r
        PROVE  AllMean(sort, {Compact(sort, some(c))}, {v \in Points(sort) : \E l \in c : Opposite(l) \in v})
    <3>1. some(c) \in SUBSET Clauses
      <4>1. \A l \in c : l \in Literals
        BY <1>1 DEF Clauses
      <4>2. QED
        BY <4>1, PointsAre DEF Clauses
    <3>2. Meaning(sort, some(c)) = {v \in Points(sort) : \E l \in c : Opposite(l) \in v}
      <4>1. ASSUME NEW v
            PROVE  (\E d \in some(c) : d \subseteq v) <=> \E l \in c : Opposite(l) \in v
        <5>1. ASSUME NEW l \in c, Opposite(l) \in v
              PROVE  {Opposite(l)} \in some(c) /\ {Opposite(l)} \subseteq v
          BY <5>1
        <5>2. ASSUME NEW d \in some(c), d \subseteq v
              PROVE  \E l \in c : Opposite(l) \in v
          BY <5>2
        <5> HIDE DEF some
        <5>3. QED
          BY <5>1, <5>2
      <4> HIDE DEF some
      <4>2. QED
        BY <4>1 DEF Meaning
    <3> HIDE DEF some
    <3>3. Formula(sort, Compact(sort, some(c))) /\ Meaning(sort, Compact(sort, some(c))) = Meaning(sort, some(c))
      BY <3>1, CompactIs
    <3>4. QED
      BY <3>2, <3>3 DEF AllMean
  <2> HIDE DEF some
  <2>3. g \in [r -> Families]
    <3>1. \A c \in r : {Compact(sort, some(c))} \in Families
      BY <2>2, FamilyIn, Zenon
    <3>2. QED
      BY <3>1
  <2>4. \A c \in r : AllMean(sort, g[c], m[c]) /\ m[c] \subseteq Points(sort)
    BY <2>2
  <2> HIDE DEF g
  <2>5. AllOf(sort, r, m) = AtMeans(sort, r, 0)
    <3>1. ASSUME NEW v \in Points(sort)
          PROVE  (\A c \in r : v \in m[c]) <=> Swapped(v) \notin Meaning("interval", r)
      <4>1. \A c \in r : c \subseteq Swapped(v) <=> v \notin m[c]
        BY <1>1 DEF Swapped, Clauses
      <4>2. Swapped(v) \in Meaning("interval", r) <=> \E c \in r : c \subseteq Swapped(v)
        BY PointsAre DEF Meaning
      <4>3. QED
        BY <4>1, <4>2
    <3> HIDE DEF m
    <3>2. QED
      BY <3>1 DEF AllOf, AtMeans
  <2> HIDE DEF m
  <2>6. AllMean(sort, MeetAll(sort, g), AllOf(sort, r, m)) /\ Within(MeetAll(sort, g))
    BY <1>1, <2>3, <2>4, MeetAllMeans, Zenon
  <2>7. QED
    BY <1>3, <2>1, <2>5, <2>6
<1>4. QED
  BY <1>2, <1>3

(* A clause holds where the term stands for i: its equations of others,    *)
(* and of the term those it had of i.                                      *)
LEMMA MovedHolds ==
  ASSUME NEW sort, NEW c \in Clauses, NEW v \in Points(sort), NEW i, NEW r
  PROVE  c \subseteq Moved(v, i, r) <=>
           /\ Off(c, i) \subseteq v
           /\ <<i, 1>> \in c => v \in AtMeans(sort, r, 1)
           /\ <<i, 0>> \in c => v \in AtMeans(sort, r, 0)
<1>1. \A l \in c : l[1] = i => l = <<i, 1>> \/ l = <<i, 0>>
  BY DEF Clauses, Literals
<1>2. \A l \in c : l[1] # i => (l \in Moved(v, i, r) <=> l \in v)
  BY DEF Moved, Off
<1>3. <<i, 1>> \in Moved(v, i, r) <=> v \in AtMeans(sort, r, 1)
  BY DEF Moved, Off, AtMeans
<1>4. <<i, 0>> \in Moved(v, i, r) <=> v \in AtMeans(sort, r, 0)
  BY DEF Moved, Off, AtMeans
<1>5. Off(c, i) \subseteq v <=> \A l \in c : l[1] # i => l \in v
  BY DEF Off
<1>6. <<i, 1>>[1] = i /\ <<i, 0>>[1] = i
  OBVIOUS
<1>7. c \subseteq Moved(v, i, r) <=>
        /\ \A l \in c : l[1] # i => l \in v
        /\ <<i, 1>> \in c => <<i, 1>> \in Moved(v, i, r)
        /\ <<i, 0>> \in c => <<i, 0>> \in Moved(v, i, r)
  BY <1>1, <1>2, <1>6
<1>8. QED
  BY <1>3, <1>4, <1>5, <1>7, Zenon

(* A point of the faces stays one: the term is not both one and zero.      *)
LEMMA MovedIn ==
  ASSUME NEW sort, NEW v \in Points(sort), NEW i \in Dimensions, NEW r, Formula("interval", r)
  PROVE  Moved(v, i, r) \in Points(sort)
<1>1. v \in Clauses
  BY PointsAre
<1>2. Moved(v, i, r) \in SUBSET Literals
  BY <1>1 DEF Moved, Off, Clauses, Literals
<1>3. ASSUME ~ Contradictory(v)
      PROVE  ~ Contradictory(Moved(v, i, r))
  <2>1. ~ (<<i, 1>> \in Moved(v, i, r) /\ <<i, 0>> \in Moved(v, i, r))
    <3>1. SUFFICES ASSUME v \in Meaning("interval", r), Swapped(v) \notin Meaning("interval", r)
                   PROVE  FALSE
      BY DEF Moved, Off
    <3>2. PICK c \in r : c \subseteq v
      BY <3>1 DEF Meaning
    <3>3. ~ (c \subseteq Swapped(v))
      BY <3>1, PointsAre DEF Meaning
    <3>4. c \in Clauses
      BY FormulaIn
    <3>5. PICK l \in c : Opposite(l) \in v
      BY <3>3, <3>4 DEF Swapped, Clauses
    <3>6. l \in v
      BY <3>2
    <3>7. QED
      BY <1>3, <3>5, <3>6 DEF Contradictory
  <2>2. SUFFICES ASSUME NEW l \in Moved(v, i, r), Opposite(l) \in Moved(v, i, r)
                 PROVE  FALSE
    BY DEF Contradictory
  <2>3. l \in Literals
    BY <1>2
  <2>4. CASE l[1] = i
    <3>1. (l = <<i, 1>> /\ Opposite(l) = <<i, 0>>) \/ (l = <<i, 0>> /\ Opposite(l) = <<i, 1>>)
      BY <2>3, <2>4 DEF Literals, Opposite
    <3>2. QED
      BY <2>1, <2>2, <3>1
  <2>5. CASE l[1] # i
    <3>1. Opposite(l)[1] # i
      BY <2>5 DEF Opposite
    <3>2. l \in v /\ Opposite(l) \in v
      BY <2>2, <2>5, <3>1 DEF Moved, Off
    <3>3. QED
      BY <1>3, <3>2 DEF Contradictory
  <2>6. QED
    BY <2>4, <2>5
<1>4. QED
  BY <1>2, <1>3 DEF Points, ClausesOf

HoldsMoved(sort, c, i, r) == {v \in Points(sort) : c \subseteq Moved(v, i, r)}

LEMMA SingleMeans ==
  ASSUME NEW sort, NEW c \in ClausesOf(sort)
  PROVE  /\ AllMean(sort, {{c}}, {v \in Points(sort) : c \subseteq v}) /\ Within({{c}})
<1>1. Cardinality({c}) = 1
  BY FS_Singleton
<1>2. Formula(sort, {c}) /\ Meaning(sort, {c}) = {v \in Points(sort) : c \subseteq v}
  BY DEF Formula, Antichain, Meaning
<1>3. AllMean(sort, {{c}}, {v \in Points(sort) : c \subseteq v})
  BY <1>2, Zenon DEF AllMean
<1>4. Within({{c}})
  BY <1>1, LatticesAssumption DEF Within
<1>5. QED
  BY <1>3, <1>4

(* As the kernel multiplies a clause out.                                  *)
LEMMA ProductIs ==
  ASSUME NEW sort, NEW c \in ClausesOf(sort), NEW i, NEW r, Formula("interval", r), Cardinality(r) <= MaxClauses
  PROVE  AllMean(sort, Product(sort, c, i, r), HoldsMoved(sort, c, i, r))
<1> DEFINE rest == {v \in Points(sort) : Off(c, i) \subseteq v}
           one == IF <<i, 1>> \in c THEN Meets(sort, {{Off(c, i)}}, At(sort, r, 1)) ELSE {{Off(c, i)}}
           mOne == IF <<i, 1>> \in c THEN rest \cap AtMeans(sort, r, 1) ELSE rest
<1>1. Off(c, i) \in ClausesOf(sort)
  BY DEF Off, ClausesOf, Contradictory
<1>2. AllMean(sort, {{Off(c, i)}}, rest)
  BY <1>1, SingleMeans
<1>3. AllMean(sort, At(sort, r, 1), AtMeans(sort, r, 1)) /\ AllMean(sort, At(sort, r, 0), AtMeans(sort, r, 0))
  BY AtIs
<1> HIDE DEF rest
<1>4. AllMean(sort, one, mOne)
  <2>1. CASE <<i, 1>> \in c
    BY <1>2, <1>3, <2>1, MeetsMean, Zenon
  <2>2. CASE <<i, 1>> \notin c
    BY <1>2, <2>2, Zenon
  <2>3. QED
    BY <2>1, <2>2
<1>5. Product(sort, c, i, r) = IF <<i, 0>> \in c THEN Meets(sort, one, At(sort, r, 0)) ELSE one
  BY DEF Product
<1> HIDE DEF one
<1> DEFINE mBoth == IF <<i, 0>> \in c THEN mOne \cap AtMeans(sort, r, 0) ELSE mOne
<1>6. AllMean(sort, Product(sort, c, i, r), mBoth)
  <2> HIDE DEF mOne
  <2>1. CASE <<i, 0>> \in c
    <3>1. AllMean(sort, Meets(sort, one, At(sort, r, 0)), mOne \cap AtMeans(sort, r, 0))
      BY <1>3, <1>4, MeetsMean, Zenon
    <3>2. Product(sort, c, i, r) = Meets(sort, one, At(sort, r, 0))
      BY <1>5, <2>1
    <3>3. QED
      BY <2>1, <3>1, <3>2
  <2>2. CASE <<i, 0>> \notin c
    BY <1>4, <1>5, <2>2, Zenon
  <2>3. QED
    BY <2>1, <2>2
<1>7. mBoth = HoldsMoved(sort, c, i, r)
  <2>1. c \in Clauses
    BY DEF ClausesOf, Clauses
  <2>2. ASSUME NEW v \in Points(sort)
        PROVE  v \in mBoth <=> c \subseteq Moved(v, i, r)
    <3>1. v \in rest <=> Off(c, i) \subseteq v
      BY DEF rest
    <3>2. c \subseteq Moved(v, i, r) <=>
            /\ v \in rest
            /\ <<i, 1>> \in c => v \in AtMeans(sort, r, 1)
            /\ <<i, 0>> \in c => v \in AtMeans(sort, r, 0)
      BY <2>1, <3>1, MovedHolds
    <3>3. QED
      BY <3>2
  <2>3. mBoth \subseteq Points(sort)
    BY DEF rest
  <2> HIDE DEF mBoth
  <2>4. QED
    BY <2>2, <2>3 DEF HoldsMoved
<1>8. QED
  BY <1>6, <1>7

(* As the translator does, a literal at a time.                            *)
LEMMA ProductByLiteralIs ==
  ASSUME NEW sort, NEW c \in ClausesOf(sort), NEW i, NEW r, Formula("interval", r), Cardinality(r) <= MaxClauses
  PROVE  AllMean(sort, ProductByLiteral(sort, c, i, r), HoldsMoved(sort, c, i, r))
<1> DEFINE g == [l \in c |-> IF l[1] = i THEN At(sort, r, l[2]) ELSE {{{l}}}]
           m == [l \in c |-> IF l[1] = i THEN AtMeans(sort, r, l[2]) ELSE {v \in Points(sort) : l \in v}]
<1>1. ProductByLiteral(sort, c, i, r) = MeetAll(sort, g)
  BY DEF ProductByLiteral
<1>2. c \in Clauses /\ IsFiniteSet(c)
  BY Finite DEF ClausesOf, Clauses
<1>3. ASSUME NEW l \in c
      PROVE  AllMean(sort, g[l], m[l]) /\ m[l] \subseteq Points(sort)
  <2>1. CASE l[1] = i
    <3>1. l[2] \in {0, 1}
      BY <1>2 DEF Clauses, Literals
    <3>2. AllMean(sort, At(sort, r, l[2]), AtMeans(sort, r, l[2]))
      BY <3>1, AtIs
    <3>3. AtMeans(sort, r, l[2]) \subseteq Points(sort)
      BY DEF AtMeans
    <3>4. QED
      BY <2>1, <3>2, <3>3
  <2>2. CASE l[1] # i
    <3>1. {l} \in ClausesOf(sort)
      BY DEF ClausesOf, Contradictory
    <3>2. AllMean(sort, {{{l}}}, {v \in Points(sort) : {l} \subseteq v})
      BY <3>1, SingleMeans
    <3>3. {v \in Points(sort) : {l} \subseteq v} = {v \in Points(sort) : l \in v}
      OBVIOUS
    <3>4. QED
      BY <2>2, <3>2, <3>3
  <2>3. QED
    BY <2>1, <2>2
<1>4. g \in [c -> Families]
  <2>1. \A l \in c : g[l] \in Families
    BY <1>3, FamilyIn, Zenon
  <2>2. g = [l \in c |-> g[l]]
    OBVIOUS
  <2> HIDE DEF g
  <2>3. QED
    BY <2>1, <2>2
<1>5. AllOf(sort, c, m) = HoldsMoved(sort, c, i, r)
  <2>1. ASSUME NEW v \in Points(sort)
        PROVE  (\A l \in c : v \in m[l]) <=> c \subseteq Moved(v, i, r)
    <3>1. \A l \in c : l[1] = i => l = <<i, 1>> \/ l = <<i, 0>>
      BY <1>2 DEF Clauses, Literals
    <3>2. c \subseteq Moved(v, i, r) <=>
            /\ \A l \in c : l[1] # i => l \in v
            /\ <<i, 1>> \in c => v \in AtMeans(sort, r, 1)
            /\ <<i, 0>> \in c => v \in AtMeans(sort, r, 0)
      BY <1>2, MovedHolds DEF Off
    <3>3. \A l \in c : v \in m[l] <=> IF l[1] = i THEN v \in AtMeans(sort, r, l[2]) ELSE l \in v
      OBVIOUS
    <3>4. <<i, 1>>[1] = i /\ <<i, 0>>[1] = i /\ <<i, 1>>[2] = 1 /\ <<i, 0>>[2] = 0
      OBVIOUS
    <3> HIDE DEF m
    <3>5. QED
      BY <3>1, <3>2, <3>3, <3>4
  <2> HIDE DEF m
  <2>2. QED
    BY <2>1 DEF AllOf, HoldsMoved
<1> HIDE DEF g, m
<1>6. AllMean(sort, MeetAll(sort, g), AllOf(sort, c, m))
  BY <1>2, <1>3, <1>4, MeetAllMeans, Zenon
<1>7. QED
  BY <1>1, <1>5, <1>6

(* Either way, a formula with a term for i means what it did where i has   *)
(* the term's value.                                                       *)
LEMMA SubstitutedIs ==
  ASSUME NEW sort, NEW f, NEW i \in Dimensions, NEW r, Formula(sort, f),
         Formula("interval", r), Cardinality(r) <= MaxClauses,
         NEW h \in Substituted(sort, f, i, r) \cup SubstitutedByLiteral(sort, f, i, r)
  PROVE  /\ Formula(sort, h) /\ Cardinality(h) <= MaxClauses
         /\ Meaning(sort, h) = {v \in Points(sort) : Moved(v, i, r) \in Meaning(sort, f)}
<1> DEFINE m == [c \in f |-> HoldsMoved(sort, c, i, r)]
           g == [c \in f |-> Product(sort, c, i, r)]
           k == [c \in f |-> ProductByLiteral(sort, c, i, r)]
<1>1. IsFiniteSet(f) /\ f \subseteq ClausesOf(sort)
  BY FormulaIn DEF Formula
<1>2. \A c \in f : AllMean(sort, g[c], m[c]) /\ m[c] \subseteq Points(sort)
  BY <1>1, ProductIs DEF HoldsMoved
<1>3. \A c \in f : AllMean(sort, k[c], m[c]) /\ m[c] \subseteq Points(sort)
  BY <1>1, ProductByLiteralIs DEF HoldsMoved
<1>4. g \in [f -> Families] /\ k \in [f -> Families]
  <2>1. \A c \in f : g[c] \in Families /\ k[c] \in Families
    BY <1>2, <1>3, FamilyIn, Zenon
  <2>2. g = [c \in f |-> g[c]] /\ k = [c \in f |-> k[c]]
    OBVIOUS
  <2> HIDE DEF g, k
  <2>3. QED
    BY <2>1, <2>2
<1>5. h \in JoinAll(sort, g) \cup JoinAll(sort, k)
  BY DEF Substituted, SubstitutedByLiteral
<1>6. AnyOf(sort, f, m) = {v \in Points(sort) : Moved(v, i, r) \in Meaning(sort, f)}
  <2>1. ASSUME NEW v \in Points(sort)
        PROVE  (\E c \in f : v \in m[c]) <=> Moved(v, i, r) \in Meaning(sort, f)
    <3>1. Moved(v, i, r) \in Points(sort)
      BY MovedIn
    <3>2. \A c \in f : v \in m[c] <=> c \subseteq Moved(v, i, r)
      BY DEF HoldsMoved
    <3> HIDE DEF m
    <3>3. QED
      BY <3>1, <3>2 DEF Meaning
  <2> HIDE DEF m
  <2>2. QED
    BY <2>1 DEF AnyOf
<1> HIDE DEF g, k, m
<1>7. /\ AllMean(sort, JoinAll(sort, g), AnyOf(sort, f, m)) /\ Within(JoinAll(sort, g))
      /\ AllMean(sort, JoinAll(sort, k), AnyOf(sort, f, m)) /\ Within(JoinAll(sort, k))
  BY <1>1, <1>2, <1>3, <1>4, JoinAllMeans, Zenon
<1>8. Formula(sort, h) /\ Meaning(sort, h) = AnyOf(sort, f, m) /\ Cardinality(h) <= MaxClauses
  BY <1>5, <1>7 DEF AllMean, Within
<1>9. QED
  BY <1>6, <1>8

-----------------------------------------------------------------------------
(* Every formula that is built means what its operations do.               *)
Means(f) ==
  /\ f.sort \in Sorts /\ Formula(f.sort, f.clauses) /\ Cardinality(f.clauses) <= MaxClauses
  /\ Meaning(f.sort, f.clauses) = f.meaning
FormulasInv == \A f \in formulas : Means(f)

LEMMA OperandIs ==
  ASSUME NEW sort, NEW g \in Operands(sort)
  PROVE  Formula(sort, g) /\ IsFiniteSet(g) /\ Cardinality(g) <= MaxClauses
<1>0. PICK n \in 0 .. OperandClauses : g \in {Range(c) : c \in [1 .. n -> ClausesOf(sort)]}
  BY DEF Operands
<1>1. PICK c \in [1 .. n -> ClausesOf(sort)] : g = Range(c)
  BY <1>0
<1>2. n \in Nat /\ n <= MaxClauses
  BY LatticesAssumption
<1>3. c \in Surjection(1 .. n, g)
  <2>1. g = {c[x] : x \in 1 .. n}
    BY <1>1 DEF Range
  <2>2. c \in [1 .. n -> g] /\ \A t \in g : \E x \in 1 .. n : c[x] = t
    BY <2>1
  <2>3. QED
    BY <2>2 DEF Surjection
<1>4. Cardinality(g) <= n
  BY <1>2, <1>3, FS_SurjCardinalityBound DEF ExistsSurjection
<1>5. g \subseteq ClausesOf(sort)
  BY <1>1 DEF Range
<1>6. Formula(sort, g)
  BY <1>5 DEF Operands, Formula
<1>7. IsFiniteSet(g) /\ Cardinality(g) \in Nat
  BY <1>6, FormulaIn
<1>8. QED
  BY <1>2, <1>4, <1>6, <1>7, LatticesAssumption

LEMMA FormedIs ==
  ASSUME NEW sort \in Sorts, NEW h, NEW m, Formed(sort, h, m),
         Formula(sort, h), Cardinality(h) <= MaxClauses, Meaning(sort, h) = m
  PROVE  FormulasInv'
BY DEF Formed, FormulasInv, Means, Sorts

LEMMA FormulasStep ==
  ASSUME FormulasInv, FormulasNext
  PROVE  FormulasInv'
<1>1. ASSUME NEW sort \in Sorts, NEW g \in Operands(sort), Given(sort, g)
      PROVE  FormulasInv'
  BY <1>1, OperandIs, FormedIs DEF Given, Sorts
<1>2. ASSUME NEW f \in formulas
      PROVE  Means(f)
  BY DEF FormulasInv
<1>3. ASSUME NEW f \in formulas, NEW g \in Operands(f.sort), JoinWith(f, g)
      PROVE  FormulasInv'
  <2>1. PICK h \in Joined(f.sort, f.clauses, g) : Formed(f.sort, h, f.meaning \cup Meaning(f.sort, g))
    BY <1>3 DEF JoinWith
  <2>2. /\ Formula(f.sort, h) /\ Cardinality(h) <= MaxClauses
        /\ Meaning(f.sort, h) = Meaning(f.sort, f.clauses) \cup Meaning(f.sort, g)
    BY <1>2, OperandIs, JoinedMeans DEF Means, Sorts
  <2>3. QED
    BY <1>2, <2>1, <2>2, FormedIs DEF Means, Sorts
<1>4. ASSUME NEW f \in formulas, NEW g \in Operands(f.sort), MeetWith(f, g)
      PROVE  FormulasInv'
  <2>1. PICK h \in Met(f.sort, f.clauses, g) : Formed(f.sort, h, f.meaning \cap Meaning(f.sort, g))
    BY <1>4 DEF MeetWith
  <2>2. /\ Formula(f.sort, h) /\ Cardinality(h) <= MaxClauses
        /\ Meaning(f.sort, h) = Meaning(f.sort, f.clauses) \cap Meaning(f.sort, g)
    BY <1>2, OperandIs, MetMeans DEF Means, Sorts
  <2>3. QED
    BY <1>2, <2>1, <2>2, FormedIs DEF Means, Sorts
<1>5. ASSUME NEW f \in formulas, f.sort = "interval", NEW sort, NEW end \in {0, 1}, NEW h \in At(sort, f.clauses, end)
      PROVE  /\ Formula(sort, h) /\ Cardinality(h) <= MaxClauses
             /\ Meaning(sort, h) = AtMeans(sort, f.clauses, end) /\ Meaning("interval", f.clauses) = f.meaning
  <2>1. Formula("interval", f.clauses) /\ Cardinality(f.clauses) <= MaxClauses /\ Meaning("interval", f.clauses) = f.meaning
    BY <1>2, <1>5 DEF Means
  <2>2. AllMean(sort, At(sort, f.clauses, end), AtMeans(sort, f.clauses, end)) /\ Within(At(sort, f.clauses, end))
    BY <2>1, AtIs
  <2>3. Formula(sort, h) /\ Cardinality(h) <= MaxClauses /\ Meaning(sort, h) = AtMeans(sort, f.clauses, end)
    BY <2>2, Zenon DEF AllMean, Within
  <2>4. QED
    BY <2>1, <2>3
<1>6. ASSUME NEW f \in formulas, Reverse(f)
      PROVE  FormulasInv'
  <2>1. f.sort = "interval"
    BY <1>6 DEF Reverse
  <2>2. PICK h \in At("interval", f.clauses, 0) :
          Formed("interval", h, {v \in Points("interval") : Swapped(v) \notin f.meaning})
    BY <1>6 DEF Reverse
  <2>3. /\ Formula("interval", h) /\ Cardinality(h) <= MaxClauses
        /\ Meaning("interval", h) = AtMeans("interval", f.clauses, 0) /\ Meaning("interval", f.clauses) = f.meaning
    BY <1>5, <2>1, 0 \in {0, 1}, Zenon
  <2>4. AtMeans("interval", f.clauses, 0) = {v \in Points("interval") : Swapped(v) \notin f.meaning}
    BY <2>3 DEF AtMeans
  <2>5. QED
    BY <2>2, <2>3, <2>4, FormedIs DEF Sorts
<1>7. ASSUME NEW f \in formulas, NEW end \in {0, 1}, AtEndpoint(f, end)
      PROVE  FormulasInv'
  <2>1. f.sort = "interval"
    BY <1>7 DEF AtEndpoint
  <2>2. PICK h \in At("face", f.clauses, end) :
          Formed("face", h, {v \in Points("face") : IF end = 1 THEN v \in f.meaning ELSE Swapped(v) \notin f.meaning})
    BY <1>7 DEF AtEndpoint
  <2>3. /\ Formula("face", h) /\ Cardinality(h) <= MaxClauses
        /\ Meaning("face", h) = AtMeans("face", f.clauses, end) /\ Meaning("interval", f.clauses) = f.meaning
    BY <1>5, <2>1, Zenon
  <2>4. AtMeans("face", f.clauses, end) = {v \in Points("face") : IF end = 1 THEN v \in f.meaning ELSE Swapped(v) \notin f.meaning}
    BY <2>3 DEF AtMeans
  <2>5. QED
    BY <2>2, <2>3, <2>4, FormedIs DEF Sorts
<1>8. ASSUME NEW f \in formulas, NEW i \in Dimensions, ForAllIn(f, i)
      PROVE  FormulasInv'
  <2>1. f.sort = "face" /\ Formed("face", ForAll(f.clauses, i), {v \in Points("face") : Off(v, i) \in f.meaning})
    BY <1>8 DEF ForAllIn
  <2>2. /\ Formula("face", f.clauses) /\ Cardinality(f.clauses) <= MaxClauses
        /\ Meaning("face", f.clauses) = f.meaning
    BY <1>2, <2>1 DEF Means, Sorts
  <2>3. ForAll(f.clauses, i) \subseteq f.clauses
    BY DEF ForAll
  <2>4. Formula("face", ForAll(f.clauses, i))
    BY <2>2, <2>3 DEF Formula, Antichain
  <2>5. Cardinality(ForAll(f.clauses, i)) <= MaxClauses
    <3>1. IsFiniteSet(f.clauses) /\ Cardinality(f.clauses) \in Nat /\ Cardinality(ForAll(f.clauses, i)) \in Nat
      BY <2>2, <2>4, FormulaIn
    <3>2. Cardinality(ForAll(f.clauses, i)) <= Cardinality(f.clauses)
      BY <2>3, <3>1, FS_Subset
    <3>3. QED
      BY <2>2, <3>1, <3>2, LatticesAssumption
  <2>6. ASSUME NEW v \in Points("face")
        PROVE  (\E c \in ForAll(f.clauses, i) : c \subseteq v) <=> Off(v, i) \in Meaning("face", f.clauses)
    <3>1. Off(v, i) \in Points("face")
      BY DEF Points, ClausesOf, Off, Contradictory
    <3>2. \A c : c \subseteq Off(v, i) <=> c \subseteq v /\ Off(c, i) = c
      BY DEF Off
    <3>3. QED
      BY <3>1, <3>2 DEF Meaning, ForAll
  <2>7. Meaning("face", ForAll(f.clauses, i)) = {v \in Points("face") : Off(v, i) \in f.meaning}
    BY <2>2, <2>6 DEF Meaning
  <2>8. QED
    BY <2>1, <2>4, <2>5, <2>7, FormedIs DEF Sorts
<1>9. ASSUME NEW f \in formulas, NEW i \in Dimensions, NEW r \in Operands("interval"), Substitute(f, i, r)
      PROVE  FormulasInv'
  <2>1. PICK h \in Substituted(f.sort, f.clauses, i, r) \cup SubstitutedByLiteral(f.sort, f.clauses, i, r) :
          Formed(f.sort, h, {v \in Points(f.sort) : Moved(v, i, r) \in f.meaning})
    BY <1>9 DEF Substitute
  <2>2. f.sort \in Sorts /\ Formula(f.sort, f.clauses) /\ Meaning(f.sort, f.clauses) = f.meaning
    BY <1>2 DEF Means, Sorts
  <2>3. Formula("interval", r) /\ Cardinality(r) <= MaxClauses
    BY OperandIs
  <2>4. /\ Formula(f.sort, h) /\ Cardinality(h) <= MaxClauses
        /\ Meaning(f.sort, h) = {v \in Points(f.sort) : Moved(v, i, r) \in f.meaning}
    BY <2>2, <2>3, SubstitutedIs
  <2>5. QED
    BY <2>1, <2>2, <2>4, FormedIs DEF Sorts
<1>10. QED
  BY <1>1, <1>3, <1>4, <1>6, <1>7, <1>8, <1>9 DEF FormulasNext, Sorts

(* However a formula was built, of joins, meets, reversals, endpoints,     *)
(* quantification and either way of substitution, it means what they do,   *)
(* it is compact and within the bound, and comparing clauses decides.      *)
THEOREM FormulasAreTrue == FormulasSpec => []FormulasMean
<1>1. FormulasInit => FormulasInv
  BY DEF FormulasInit, FormulasInv
<1>2. FormulasInv /\ [FormulasNext]_formulas => FormulasInv'
  <2>1. FormulasInv /\ FormulasNext => FormulasInv'
    BY FormulasStep
  <2>2. FormulasInv /\ UNCHANGED formulas => FormulasInv'
    BY DEF FormulasInv
  <2>3. QED
    BY <2>1, <2>2
<1>3. FormulasInv => FormulasMean
  <2> SUFFICES ASSUME FormulasInv, NEW f \in formulas
               PROVE  /\ f.clauses \subseteq ClausesOf(f.sort) /\ Cardinality(f.clauses) <= MaxClauses /\ Antichain(f.clauses)
                      /\ Meaning(f.sort, f.clauses) = f.meaning
                      /\ \A g \in Operands(f.sort) :
                           /\ f.clauses = g <=> f.meaning = Meaning(f.sort, g)
                           /\ f.sort = "face" => /\ Entails(f.clauses, g) <=> f.meaning \subseteq Meaning("face", g)
                                                 /\ Entails(g, f.clauses) <=> Meaning("face", g) \subseteq f.meaning
    BY Zenon DEF FormulasMean
  <2>1. /\ f.clauses \subseteq ClausesOf(f.sort) /\ Antichain(f.clauses)
        /\ Cardinality(f.clauses) <= MaxClauses /\ Meaning(f.sort, f.clauses) = f.meaning
    BY DEF FormulasInv, Means, Formula
  <2>2. ASSUME NEW g \in Operands(f.sort)
        PROVE  /\ f.clauses = g <=> f.meaning = Meaning(f.sort, g)
               /\ Entails(f.clauses, g) <=> f.meaning \subseteq Meaning(f.sort, g)
               /\ Entails(g, f.clauses) <=> Meaning(f.sort, g) \subseteq f.meaning
    <3>1. g \subseteq ClausesOf(f.sort) /\ Antichain(g)
      BY OperandIs DEF Formula
    <3>2. QED
      BY <2>1, <3>1, ComparisonsDecide
  <2>3. QED
    BY <2>1, <2>2
<1>4. QED
  BY <1>1, <1>2, <1>3, PTL DEF FormulasSpec
=============================================================================
