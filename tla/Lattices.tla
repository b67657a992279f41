------------------------------ MODULE Lattices ------------------------------
(***************************************************************************)
(* Interval terms and faces (kernel/src/formula.c, interval.c, faces.c;    *)
(* the translator has both again, web/translator/lattice.mjs).  Each is a  *)
(* formula in a free distributive lattice: a join of clauses, a clause a   *)
(* meet of literals, no clause within another.  The literal <<i, 1>> is    *)
(* the dimension i in an interval term and the equation i = 1 in a face,   *)
(* <<i, 0>> its reversal, or i = 0.  Only in a face do they contradict.    *)
(*                                                                         *)
(* A behaviour builds a formula, one operation at a step.  An operation    *)
(* returns the set of its results: none when it refuses its operands as    *)
(* too large.  Only refusals depend on the order of clauses, which is      *)
(* left open; refusals for the work that is counted are left out.          *)
(***************************************************************************)
EXTENDS Naturals, FiniteSetsExt, Functions

CONSTANTS
  Dimensions,
  MaxClauses,      \* CC_MAX_CLAUSES
  OperandClauses   \* of a formula that is given

ASSUME LatticesAssumption ==
  IsFiniteSet(Dimensions) /\ MaxClauses \in Nat \ {0} /\ OperandClauses \in 0 .. MaxClauses

VARIABLE formulas   \* the formula built last, none at first, with what it means

-----------------------------------------------------------------------------
(* Formulas.                                                               *)

Literals == Dimensions \X {0, 1}
Opposite(l) == <<l[1], 1 - l[2]>>
Contradictory(c) == \E l \in c : Opposite(l) \in c
ClausesOf(sort) == {c \in SUBSET Literals : sort = "face" => ~ Contradictory(c)}

Zero == {}
One == {{}}

\* cc_insert: what is within another clause is absorbed.
Insert(sort, c, f) ==
  IF (sort = "face" /\ Contradictory(c)) \/ \E d \in f : d \subseteq c THEN f
  ELSE {d \in f : ~ (c \subseteq d)} \cup {c}

Compact(sort, clauses) == FoldSet(LAMBDA c, f : Insert(sort, c, f), Zero, clauses)

Joined(sort, f, g) ==
  IF Cardinality(f) + Cardinality(g) > MaxClauses THEN {} ELSE {Compact(sort, f \cup g)}
Met(sort, f, g) ==
  IF Cardinality(f) * Cardinality(g) > MaxClauses THEN {} ELSE {Compact(sort, {c \cup d : c \in f, d \in g})}

Joins(sort, fs, gs) == UNION {Joined(sort, f, g) : f \in fs, g \in gs}
Meets(sort, fs, gs) == UNION {Met(sort, f, g) : f \in fs, g \in gs}

\* Of all that g gives, one after the other.
JoinAll(sort, g) == FoldSet(LAMBDA x, results : Joins(sort, results, g[x]), {Zero}, DOMAIN g)
MeetAll(sort, g) == FoldSet(LAMBDA x, results : Meets(sort, results, g[x]), {One}, DOMAIN g)

\* Where an interval term is 1 or 0, as a face; as an interval term, the
\* term itself and its reversal.  One and zero, meet and join, i and its
\* opposite change places.
At(sort, r, end) ==
  IF end = 1 THEN {Compact(sort, r)}
  ELSE MeetAll(sort, [c \in r |-> {Compact(sort, {{Opposite(l)} : l \in c})}])

\* A term for dimension i.  The kernel starts each clause from its other
\* literals, the translator takes all of them in turn.
Off(c, i) == {l \in c : l[1] # i}
Product(sort, c, i, r) ==
  LET one == IF <<i, 1>> \in c THEN Meets(sort, {{Off(c, i)}}, At(sort, r, 1)) ELSE {{Off(c, i)}}
  IN IF <<i, 0>> \in c THEN Meets(sort, one, At(sort, r, 0)) ELSE one
ProductByLiteral(sort, c, i, r) ==
  MeetAll(sort, [l \in c |-> IF l[1] = i THEN At(sort, r, l[2]) ELSE {{{l}}}])

Substituted(sort, f, i, r) == JoinAll(sort, [c \in f |-> Product(sort, c, i, r)])
SubstitutedByLiteral(sort, f, i, r) == JoinAll(sort, [c \in f |-> ProductByLiteral(sort, c, i, r)])

\* The greatest face independent of i that is within f.  A mutant forgets
\* the equations of i instead of the clauses that have one.
Projected(f, i) == Compact("face", {Off(c, i) : c \in f})
ForAll(f, i) == {c \in f : Off(c, i) = c}

Entails(f, g) == \A c \in f : \E d \in g : d \subseteq c

-----------------------------------------------------------------------------
(* What formulas mean: where they hold.  A face holds at the sets of       *)
(* equations that it follows from; an interval term in the free algebra    *)
(* is given by the literals that are 1.                                    *)

Points(sort) == ClausesOf(sort)
Meaning(sort, f) == {v \in Points(sort) : \E c \in f : c \subseteq v}

\* A reversal holds where the term does not, each literal taken as the
\* opposite of its opposite.
Swapped(v) == {l \in Literals : Opposite(l) \notin v}

\* Where i has the value of r at v.
Moved(v, i, r) ==
  Off(v, i) \cup {l \in {<<i, 1>>} : v \in Meaning("interval", r)}
            \cup {l \in {<<i, 0>>} : Swapped(v) \notin Meaning("interval", r)}

Antichain(f) == \A c, d \in f : c \subseteq d => c = d
Operands(sort) ==
  {f \in UNION {{Range(c) : c \in [1 .. n -> ClausesOf(sort)]} : n \in 0 .. OperandClauses} : Antichain(f)}

-----------------------------------------------------------------------------

FormulasInit == formulas = {}

Formed(sort, clauses, meaning) == formulas' = {[sort |-> sort, clauses |-> clauses, meaning |-> meaning]}

Given(sort, f) == Formed(sort, f, Meaning(sort, f))

JoinWith(f, g) ==
  \E h \in Joined(f.sort, f.clauses, g) : Formed(f.sort, h, f.meaning \cup Meaning(f.sort, g))

MeetWith(f, g) ==
  \E h \in Met(f.sort, f.clauses, g) : Formed(f.sort, h, f.meaning \cap Meaning(f.sort, g))

Reverse(f) ==
  /\ f.sort = "interval"
  /\ \E h \in At("interval", f.clauses, 0) :
       Formed("interval", h, {v \in Points("interval") : Swapped(v) \notin f.meaning})

AtEndpoint(f, end) ==
  /\ f.sort = "interval"
  /\ \E h \in At("face", f.clauses, end) :
       Formed("face", h, {v \in Points("face") : IF end = 1 THEN v \in f.meaning ELSE Swapped(v) \notin f.meaning})

Substitute(f, i, r) ==
  \E h \in Substituted(f.sort, f.clauses, i, r) \cup SubstitutedByLiteral(f.sort, f.clauses, i, r) :
    Formed(f.sort, h, {v \in Points(f.sort) : Moved(v, i, r) \in f.meaning})

ForAllIn(f, i) ==
  /\ f.sort = "face"
  /\ Formed("face", ForAll(f.clauses, i), {v \in Points("face") : Off(v, i) \in f.meaning})

FormulasNext ==
  \/ formulas = {} /\ \E sort \in {"interval", "face"} : \E g \in Operands(sort) : Given(sort, g)
  \/ \E f \in formulas :
       \/ \E g \in Operands(f.sort) : JoinWith(f, g) \/ MeetWith(f, g)
       \/ Reverse(f) \/ \E end \in {0, 1} : AtEndpoint(f, end)
       \/ \E i \in Dimensions : ForAllIn(f, i) \/ \E r \in Operands("interval") : Substitute(f, i, r)

FormulasSpec == FormulasInit /\ [][FormulasNext]_formulas

-----------------------------------------------------------------------------

\* However it was built, a formula within the bound means what its
\* operations do, no clause of it is within another, and comparing clauses
\* decides equality of formulas (cc_equal) and entailment of faces
\* (cc_face_entails).
FormulasMean ==
  \A f \in formulas :
    /\ f.clauses \subseteq ClausesOf(f.sort) /\ Cardinality(f.clauses) <= MaxClauses /\ Antichain(f.clauses)
    /\ Meaning(f.sort, f.clauses) = f.meaning
    /\ \A g \in Operands(f.sort) :
         /\ f.clauses = g <=> f.meaning = Meaning(f.sort, g)
         /\ f.sort = "face" => /\ Entails(f.clauses, g) <=> f.meaning \subseteq Meaning("face", g)
                               /\ Entails(g, f.clauses) <=> Meaning("face", g) \subseteq f.meaning
=============================================================================
