------------------------------- MODULE Levels -------------------------------
(***************************************************************************)
(* Universe levels (kernel/src/levels.c; the driver computes the same      *)
(* normal forms to steer, web/cubical-levels.mjs).  A level is an ordinal  *)
(* below omega squared: a constant omega * tier + n, a variable that       *)
(* ranges over the natural numbers, a successor or a maximum.  The kernel  *)
(* compares normal forms instead: a constant and an offset for each        *)
(* variable, or a constant of tier 1 or above, which absorbs variables.    *)
(*                                                                         *)
(* A behaviour builds a level, one form around or into another at a step.  *)
(* A level beyond the bounds is refused: no step is taken.                 *)
(***************************************************************************)
EXTENDS Naturals, FiniteSetsExt

CONSTANTS
  LevelVariables,
  LevelMax, TierMax,  \* CC_LEVEL_MAX, CC_TIER_MAX
  Largest             \* the largest value that an assignment gives

\* An assignment may give a variable more than any constant has.
ASSUME LevelsAssumption ==
  /\ LevelMax \in Nat /\ TierMax \in Nat \ {0}
  /\ Largest \in Nat /\ LevelMax < Largest

VARIABLE levels   \* the level computed last, none at first: its normal form and
                  \* the ordinals up to what it stands for, by assignment

-----------------------------------------------------------------------------
(* Normal forms.                                                           *)

NoOffsets == [x \in {} |-> 0]
Form(tier, constant, offsets) == [tier |-> tier, constant |-> constant, offsets |-> offsets]
ConstantForm(tier, constant) == Form(tier, constant, NoOffsets)
VariableForm(x) == Form(0, 0, [y \in {x} |-> 0])

\* A mutant raises the constant only.
SuccessorOfConstant(inner, count) == Form(inner.tier, inner.constant + count, inner.offsets)
SuccessorForm(inner, count) ==
  Form(inner.tier, inner.constant + count, [x \in DOMAIN inner.offsets |-> inner.offsets[x] + count])

Larger(m, n) == IF m < n THEN n ELSE m
LargerOffsets(f, g) ==
  [x \in DOMAIN f \cup DOMAIN g |->
     IF x \notin DOMAIN f THEN g[x] ELSE IF x \notin DOMAIN g THEN f[x] ELSE Larger(f[x], g[x])]
MaximumForm(a, b) ==
  IF a.tier = 0 /\ b.tier = 0
  THEN Form(0, Larger(a.constant, b.constant), LargerOffsets(a.offsets, b.offsets))
  ELSE IF a.tier < b.tier \/ (a.tier = b.tier /\ a.constant < b.constant)
  THEN ConstantForm(b.tier, b.constant) ELSE ConstantForm(a.tier, a.constant)

Leq(a, b) ==
  IF a.tier = 0 /\ b.tier = 0
  THEN /\ a.constant <= b.constant
       /\ \A x \in DOMAIN a.offsets : x \in DOMAIN b.offsets /\ a.offsets[x] <= b.offsets[x]
  ELSE a.tier < b.tier \/ (a.tier = b.tier /\ a.constant <= b.constant)

\* The canonical node drops a constant that some offset reaches; reading it
\* back, each variable's part has its offset as a constant.
Built(nf) == [nf EXCEPT !.constant = IF \E x \in DOMAIN nf.offsets : @ <= nf.offsets[x] THEN 0 ELSE @]
ReadBack(node) ==
  Form(node.tier, Max({node.constant} \cup {node.offsets[x] : x \in DOMAIN node.offsets}), node.offsets)

\* The level with another in the place of x (ck_level_instantiate).
Without(node, x) == [node EXCEPT !.offsets = [y \in DOMAIN node.offsets \ {x} |-> node.offsets[y]]]
Instance(nf, x, by) ==
  IF x \notin DOMAIN nf.offsets THEN nf
  ELSE MaximumForm(ReadBack(Without(Built(nf), x)), SuccessorForm(by, nf.offsets[x]))

\* No offset exceeds the constant of its form.
OffsetsUpTo(c) == UNION {[S -> 0 .. c] : S \in SUBSET LevelVariables}
FiniteForms == UNION {[tier : {0}, constant : {c}, offsets : OffsetsUpTo(c)] : c \in 0 .. LevelMax}
AbsorbingForms == [tier : 1 .. TierMax, constant : 0 .. LevelMax, offsets : {NoOffsets}]
Forms == FiniteForms \cup AbsorbingForms

-----------------------------------------------------------------------------
(* What levels stand for.  An ordinal is given by those up to it: the      *)
(* maximum is a union, and the order inclusion.                            *)

Ordinal(tier, value) == [tier |-> tier, value |-> value]
Ordinals == [tier : 0 .. TierMax, value : 0 .. (Largest + LevelMax)]
Below(o, p) == o.tier < p.tier \/ (o.tier = p.tier /\ o.value <= p.value)
Plus(o, n) == Ordinal(o.tier, o.value + n)
UpTo(p) == {o \in Ordinals : Below(o, p)}

Assignments == [LevelVariables -> [tier : {0}, value : 0 .. Largest]]

Value(nf, v) ==
  {o \in Ordinals : \/ Below(o, Ordinal(nf.tier, nf.constant))
                    \/ \E x \in DOMAIN nf.offsets : Below(o, Plus(v[x], nf.offsets[x]))}

-----------------------------------------------------------------------------

LevelInit == levels = {}

Computed(form, meaning) == levels' = {[form |-> form, meaning |-> meaning]}

LConst(tier, n) == Computed(ConstantForm(tier, n), [v \in Assignments |-> UpTo(Ordinal(tier, n))])

LVar(x) == Computed(VariableForm(x), [v \in Assignments |-> UpTo(v[x])])

\* The bound is checked of the constant alone, which no offset exceeds.
LSucc(l, n) ==
  /\ l.form.constant + n <= LevelMax
  /\ Computed(SuccessorForm(l.form, n),
              [v \in Assignments |-> {o \in Ordinals : \E p \in l.meaning[v] : Below(o, Plus(p, n))}])

LMax(l, other) ==
  Computed(MaximumForm(l.form, other), [v \in Assignments |-> l.meaning[v] \cup Value(other, v)])

\* The level of a function type whose domain is the levels below omega: the
\* least that is above its result's for every value of x.
Limit(l, x) ==
  LET at(v, n) == [v EXCEPT ![x] = Ordinal(0, n)]
      bounded == \A v \in Assignments : l.meaning[at(v, 0)] = l.meaning[at(v, Largest)]
  IN Computed(IF x \in DOMAIN l.form.offsets THEN ConstantForm(1, 0) ELSE l.form,
              IF bounded THEN l.meaning ELSE [v \in Assignments |-> UpTo(Ordinal(1, 0))])

Instantiate(l, x, by) ==
  /\ x \in DOMAIN l.form.offsets => by.constant + l.form.offsets[x] <= LevelMax
  /\ Computed(Instance(l.form, x, by),
              [v \in Assignments |-> UNION {Value(l.form, [v EXCEPT ![x] = p]) : p \in Value(by, v)}])

LevelNext ==
  \/ \E tier \in 0 .. TierMax, n \in 0 .. LevelMax : LConst(tier, n)
  \/ \E x \in LevelVariables : LVar(x)
  \/ \E l \in levels :
       \/ \E n \in 1 .. LevelMax : LSucc(l, n)
       \/ \E other \in Forms : LMax(l, other)
       \/ \E x \in LevelVariables : Limit(l, x) \/ \E by \in Forms : Instantiate(l, x, by)

LevelSpec == LevelInit /\ [][LevelNext]_levels

-----------------------------------------------------------------------------

\* The normal form is within the bounds and stands for what the level does,
\* its canonical node is read back as itself, and comparing normal forms
\* decides equality and order at every assignment: nf_leq and nf_equal.
NormalFormsDecide ==
  \A l \in levels :
    /\ l.form \in Forms /\ ReadBack(Built(l.form)) = l.form
    /\ \A v \in Assignments : Value(l.form, v) = l.meaning[v]
    /\ \A other \in Forms :
         /\ Leq(l.form, other) <=> \A v \in Assignments : l.meaning[v] \subseteq Value(other, v)
         /\ Leq(other, l.form) <=> \A v \in Assignments : Value(other, v) \subseteq l.meaning[v]
         /\ l.form = other <=> \A v \in Assignments : l.meaning[v] = Value(other, v)
=============================================================================
