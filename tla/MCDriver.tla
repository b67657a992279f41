------------------------------ MODULE MCDriver ------------------------------
(* The instruction driver on small instances: terms derived in contexts    *)
(* whose variables shadow one another and whose types depend on one        *)
(* another and on dimensions.  And the machine that shows values: closed   *)
(* terms that repeat calls, at the top, in a function and behind a         *)
(* definition, closures over terms and types, and functions that only      *)
(* apply another.                                                          *)
EXTENDS Derivation, RuntimeQuery

VARIABLE part

NameX == <<"x">>
NameY == <<"y">>
TypeA == Const(<<"A">>)
TypeAt == PApp(Var(NameX), 0)
Assume(name, type) == [name |-> name, type |-> type]
MCAssumptions ==
  {<<>>, <<Assume(NameX, TypeA)>>, <<Assume(NameX, TypeA), Assume(NameY, TypeA)>>, <<Assume(NameX, TypeA), Assume(NameY, Var(NameX))>>,
   <<Assume(NameX, TypeA), Assume(NameX, TypeA)>>, <<Assume(NameX, TypeA), Assume(NameY, TypeAt)>>,
   <<Assume(NameX, TypeA), Assume(NameY, TypeAt), Assume(NameX, TypeA)>>,
   <<Assume(NameY, TypeA), Assume(NameX, PApp(Var(NameY), 0)), Assume(NameY, Var(NameX))>>}

AVariable == {Var(NameX), Var(NameY)}
Around(S) ==
  {Lam(n, d, t) : n \in {NameX, NameY}, d \in {TypeA, Var(NameX), TypeAt}, t \in S}
    \cup {PLam(i, t) : i \in {0, 1}, t \in S} \cup {PApp(t, i) : i \in {0, 1}, t \in S}
    \cup {PLamIn(0, TypeAt, t) : t \in S}
MCRepeatedTerms == AVariable \cup Around(AVariable)
MCSourceTerms ==
  MCRepeatedTerms \cup Around(Around(AVariable))
    \cup {App(f, a) : f \in AVariable \cup Around(AVariable), a \in AVariable}

-----------------------------------------------------------------------------
X == Name("x")
Y == Name("y")
TypeVar == Name("A")
NatFun(n, body) == Fun(n, Nat_, body)
TypeFun(n, f) == Fun("A", Universe, Fun(n, TypeVar, f))
Inc(a) == Call(Def("inc"), a)
One == Def("one")
MCDefinition ==
  [d \in {"inc", "one", "both", "double"} |->
     CASE d = "inc" -> NatFun("x", Call(Suc, X))
       [] d = "one" -> Inc(Zero)
       [] d = "both" -> NatFun("x", PairOf(Nat_, Inc(X), Inc(Inc(X))))
       [] d = "double" -> Elim(Zero, NatFun("x", NatFun("y", Call(Suc, Call(Suc, Y)))))]
Computed == {One, Call(Def("double"), One), Call(NatFun("x", Call(NatFun("x", Inc(X)), Call(Suc, X))), Zero)}
Repeating(c) == PairOf(Nat_, c, PairOf(Nat_, c, Inc(c)))
Repeated ==
  {Repeating(Inc(Zero)), Repeating(One)} \cup {Call(NatFun("x", Repeating(c)), Zero) : c \in {Inc(X), Fst(PairOf(Nat_, X, Zero))}}
    \cup {Fst(Call(Def("both"), n)) : n \in {Zero, One}} \cup {Call(Def("both"), Zero)}
Closures ==
  {Call(NatFun("x", NatFun("y", b)), One) : b \in {X, PairOf(Nat_, X, Inc(Y)), Call(Def("double"), X)}}
    \cup {Call(Call(TypeFun("x", f), Nat_), Zero) : f \in {Fun("y", TypeVar, X), Fun("A", TypeVar, X), Pi("y", TypeVar, TypeVar), Fun("y", TypeVar, Inc(X))}}
    \cup {Call(Call(Fun("x", Universe, Fun("x", X, NatFun("y", X))), Nat_), Zero)}
BothProjections == Call(NatFun("x", PairOf(Nat_, Fst(PairOf(Nat_, X, X)), Snd(PairOf(Nat_, X, X)))), Zero)
\* The same pair's projections, where one is written with another bound name.
RenamedPair(n) == Call(NatFun(n, PairOf(Nat_, X, Name(n))), X)
RenamedProjections == Call(NatFun("x", PairOf(Nat_, Fst(RenamedPair("y")), Snd(RenamedPair("z")))), Zero)
Contracting ==
  {Call(Fun("x", Pi("x", Nat_, Nat_), NatFun("y", Call(X, Y))), Def(d)) : d \in {"inc", "double"}}
    \cup {NatFun("y", Call(Call(NatFun("x", NatFun("y", X)), Zero), Y))}
MCQueryTerms == Computed \cup Repeated \cup Closures \cup Contracting \cup {BothProjections, RenamedProjections, Call(Fun("A", Universe, PairOf(TypeVar, Zero, Zero)), Nat_)}
MCReleasingTerms == Computed \cup {Call(Def("both"), Zero)}

DriverInit ==
  /\ part \in {"derivations", "values"}
  /\ DerivationInit /\ RuntimeInit
  /\ part = "derivations" => published.handles = {[cell |-> Root, means |-> One]} /\ query.origins
DriverNext ==
  /\ UNCHANGED part
  /\ \/ part = "derivations" /\ DerivationNext /\ UNCHANGED runtimeVars
     \/ part = "values" /\ RuntimeNext /\ UNCHANGED derivationVars
DriverSpec == DriverInit /\ [][DriverNext]_<<derivationVars, runtimeVars, part>>
=============================================================================
