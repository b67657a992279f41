----------------------------- MODULE PatternMatch -----------------------------
(***************************************************************************)
(* Matches on several values and with nested patterns                      *)
(* (web/translator/patterns.mjs): clauses tried in order are compiled,     *)
(* value by value, into matches on one value each, which bind a            *)
(* constructor's arguments.  The compiled match is a tree; running it says *)
(* which clause takes a case and what the clause's names are there.        *)
(*                                                                         *)
(* A declared type is a sequence of constructors [name, fields]; path      *)
(* constructors, whose clauses may be left out, are not modelled.  A       *)
(* pattern is a bare name or a constructor over patterns.  Names are paths *)
(* of labels: <<"x">> is spelled in the source, longer ones in no source.  *)
(***************************************************************************)
EXTENDS Naturals, SequencesExt, FiniteSets

CONSTANTS
  Types,        \* the declared types: a function from names to constructors
  Problems,     \* sequences of types of the values matched; "other" is declared nowhere
  Patterns,     \* the patterns explored for each type
  MaxClauses, ValueDepth   \* bounds of the exploration; values deeper than the patterns

VARIABLES matched, clauses   \* the types of the values, and the clauses written so far

matchVars == <<matched, clauses>>

Name(x) == [kind |-> "name", text |-> x, args |-> <<>>]
Con(c, args) == [kind |-> "constructor", text |-> c, args |-> args]
Wildcard == Name("_")

Constructors(type) == IF type = "other" THEN <<>> ELSE Types[type]
NamesOf(type) == {c.name : c \in ToSet(Constructors(type))}
Shape(type, name) == CHOOSE c \in ToSet(Constructors(type)) : c.name = name
Nullary(type) == {c.name : c \in {d \in ToSet(Constructors(type)) : d.fields = <<>>}}

(* mayBeConstructor: a name that some declared type may read otherwise.    *)
MayBeConstructor == UNION {Nullary(type) : type \in DOMAIN Types}

-----------------------------------------------------------------------------
(* The compiled matches.                                                   *)

Leaf(row) == [tree |-> "leaf", clause |-> row.clause, bindings |-> row.bindings]
Switch(on, arms) == [tree |-> "switch", on |-> on, arms |-> arms]
Refusal(why) == [tree |-> "refused", why |-> why]

(* A clause names each variable once (bindClauseName).                     *)
Unnamed(text) == text = "_"
BindOnce(row, text) ==
  IF Unnamed(text) THEN row
  ELSE [row EXCEPT !.bound = @ \union {text}, !.twice = @ \/ text \in row.bound]

(* What a bare name is, at the type matched there.  At a type that is not  *)
(* declared, a constructor in scope without arguments is one.              *)
Resolved(pattern, type) ==
  LET constructor == IF type = "other" THEN MayBeConstructor ELSE Nullary(type)
  IN IF pattern.kind = "name" /\ pattern.text \in constructor THEN Con(pattern.text, <<>>) ELSE pattern

(* A pattern that can only be a variable.                                 *)
IsVariable(pattern) == pattern.kind = "name" /\ ~Unnamed(pattern.text) /\ pattern.text \notin MayBeConstructor

(* A variable of some clause that takes an argument apart names it.        *)
DirectOfSome(heads, k) ==
  LET named == {head.args[k].text : head \in {h \in heads : h.kind = "constructor" /\ IsVariable(h.args[k])}}
  IN IF Cardinality(named) = 1 THEN CHOOSE x \in named : TRUE ELSE "_"

(* A variable of every clause that takes an argument apart names it.       *)
Direct(heads, k) ==
  LET named == {IF head.kind = "constructor" /\ IsVariable(head.args[k]) THEN head.args[k].text ELSE "_" : head \in heads}
  IN IF Cardinality(named) = 1 THEN CHOOSE x \in named : TRUE ELSE "_"

Wildcards(n) == [k \in 1 .. n |-> Wildcard]
Bound(row, text, target) ==
  IF Unnamed(text) THEN row
  ELSE [BindOnce(row, text) EXCEPT !.bindings = Append(@, [name |-> text, target |-> target])]

(* A row whose first pattern fits a constructor, over its arguments.       *)
Specialized(row, head, constructor, args, direct) ==
  LET arity == Len(constructor.fields)
      rest == [row EXCEPT !.patterns = Tail(@)]
      named == FoldLeft(BindOnce, rest, direct)
  IN IF head.kind = "name"
     THEN LET bound == Bound(rest, head.text, [con |-> constructor.name, args |-> args])
          IN [bound EXCEPT !.patterns = Wildcards(arity) \o @]
     ELSE [named EXCEPT !.patterns =
             [k \in 1 .. arity |-> IF Unnamed(direct[k]) THEN head.args[k] ELSE Wildcard] \o @]

RECURSIVE Compile(_, _)

Arm(column, others, rows, heads, constructor) ==
  LET fits(r) == heads[r].kind = "name" \/ heads[r].text = constructor.name
      fitting == SelectSeq([r \in DOMAIN rows |-> r], fits)
      arity == Len(constructor.fields)
      direct == [k \in 1 .. arity |-> Direct({heads[fitting[j]] : j \in DOMAIN fitting}, k)]
      args == [k \in 1 .. arity |-> IF Unnamed(direct[k]) THEN column.name \o <<constructor.name, ToString(k)>>
                                    ELSE <<direct[k]>>]
      next == [j \in DOMAIN fitting |-> Specialized(rows[fitting[j]], heads[fitting[j]], constructor, args, direct)]
      columns == [k \in 1 .. arity |-> [name |-> args[k], type |-> constructor.fields[k]]]
      malformed == \E j \in DOMAIN fitting :
                     heads[fitting[j]].kind = "constructor" /\ Len(heads[fitting[j]].args) # arity
  IN IF fitting = <<>> THEN Refusal("missing")
     ELSE IF malformed THEN Refusal("arguments")
     ELSE IF \E j \in DOMAIN next : next[j].twice THEN Refusal("twice")
     ELSE [tree |-> "arm", args |-> args, columns |-> columns \o others, rows |-> next]

(* compile: every constructor's clause is made before one is elaborated.   *)
Compile(columns, rows) ==
  IF columns = <<>> THEN IF rows = <<>> THEN Refusal("no row") ELSE Leaf(rows[1])
  ELSE
    LET column == Head(columns)
        heads == [r \in DOMAIN rows |-> Resolved(rows[r].patterns[1], column.type)]
        foreign == \E r \in DOMAIN rows : heads[r].kind = "constructor" /\ heads[r].text \notin NamesOf(column.type)
        naming == [r \in DOMAIN rows |-> Bound([rows[r] EXCEPT !.patterns = Tail(@)], heads[r].text,
                                               [con |-> "", args |-> <<column.name>>])]
        constructors == Constructors(column.type)
        made == [c \in DOMAIN constructors |-> Arm(column, Tail(columns), rows, heads, constructors[c])]
        bad == SelectInSeq(made, LAMBDA arm : arm.tree = "refused")
    IN IF foreign THEN Refusal("constructor")
       ELSE IF \A r \in DOMAIN rows : heads[r].kind = "name"
       THEN IF \E r \in DOMAIN rows : naming[r].twice THEN Refusal("twice") ELSE Compile(Tail(columns), naming)
       ELSE IF bad # 0 THEN made[bad]
       ELSE Switch(column.name,
              [name \in NamesOf(column.type) |->
                 LET arm == made[CHOOSE c \in DOMAIN constructors : constructors[c].name = name]
                 IN [args |-> arm.args, body |-> Compile(arm.columns, arm.rows)]])

(* The clauses that take a case, and the first refusal met.                *)
RECURSIVE Used(_), Refusals(_)
Used(t) == CASE t.tree = "leaf" -> {t.clause}
             [] t.tree = "switch" -> UNION {Used(t.arms[c].body) : c \in DOMAIN t.arms}
             [] OTHER -> {}
Refusals(t) == CASE t.tree = "refused" -> {t.why}
                 [] t.tree = "switch" -> UNION {Refusals(t.arms[c].body) : c \in DOMAIN t.arms}
                 [] OTHER -> {}

(* compileMatch.                                                           *)
Columns == [k \in DOMAIN matched |-> [name |-> <<"value", ToString(k)>>, type |-> matched[k]]]
Rows == [r \in DOMAIN clauses |->
           [patterns |-> clauses[r], bindings |-> <<>>, bound |-> {}, twice |-> FALSE, clause |-> r]]
Compiled == Compile(Columns, Rows)
Accepted(t) == Refusals(t) = {} /\ Used(t) = DOMAIN clauses

-----------------------------------------------------------------------------
(* Running a compiled match in an environment.                             *)

Holds(env, x, v) == [y \in DOMAIN env \union {x} |-> IF y = x THEN v ELSE env[y]]
Value(env, target) == IF target.con = "" THEN env[target.args[1]]
                      ELSE [con |-> target.con, args |-> [k \in DOMAIN target.args |-> env[target.args[k]]]]
RECURSIVE Run(_, _)
Run(t, env) ==
  IF t.tree = "leaf"
  THEN [clause |-> t.clause,
        env |-> FoldLeft(LAMBDA e, b : Holds(e, <<b.name>>, Value(e, b.target)), env, t.bindings)]
  ELSE LET value == env[t.on]
           arm == t.arms[value.con]
       IN Run(arm.body, FoldLeft(LAMBDA e, k : Holds(e, arm.args[k], value.args[k]), env,
                                 [k \in DOMAIN arm.args |-> k]))

-----------------------------------------------------------------------------
(* What the clauses mean, pattern by pattern.                              *)

RECURSIVE Values(_, _), Fits(_, _, _), Meaning(_, _, _), Names(_, _), WellFormed(_, _)

Values(type, depth) ==
  IF type = "other" THEN {[con |-> "opaque", args |-> <<>>]}
  ELSE UNION {LET f == c.fields IN
                IF f = <<>> THEN {[con |-> c.name, args |-> <<>>]}
                ELSE IF depth = 0 THEN {}
                ELSE {[con |-> c.name, args |-> args] :
                        args \in {s \in [DOMAIN f -> UNION {Values(f[k], depth - 1) : k \in DOMAIN f}] :
                                    \A k \in DOMAIN f : s[k] \in Values(f[k], depth - 1)}}
              : c \in ToSet(Types[type])}

IsName(p, type) == Resolved(p, type).kind = "name"
WellFormed(p, type) ==
  IsName(p, type) \/ /\ p.text \in NamesOf(type)
                     /\ Len(p.args) = Len(Shape(type, p.text).fields)
                     /\ \A k \in DOMAIN p.args : WellFormed(p.args[k], Shape(type, p.text).fields[k])
Fits(p, v, type) ==
  IsName(p, type) \/ /\ v.con = p.text
                     /\ \A k \in DOMAIN p.args : Fits(p.args[k], v.args[k], Shape(type, p.text).fields[k])
\* Each name's places in a pattern, with its value in a case that fits.
Meaning(p, v, type) ==
  IF IsName(p, type) THEN IF Unnamed(p.text) THEN {} ELSE {<<p.text, v>>}
  ELSE UNION {Meaning(p.args[k], v.args[k], Shape(type, p.text).fields[k]) : k \in DOMAIN p.args}
\* How often a clause binds each name: its names, in order.
Names(p, type) ==
  IF IsName(p, type) THEN IF Unnamed(p.text) THEN <<>> ELSE <<p.text>>
  ELSE FlattenSeq([k \in DOMAIN p.args |-> Names(p.args[k], Shape(type, p.text).fields[k])])

Cases == {c \in [DOMAIN matched -> UNION {Values(matched[k], ValueDepth) : k \in DOMAIN matched}] :
            \A k \in DOMAIN matched : c[k] \in Values(matched[k], ValueDepth)}
Takes(r, case) == \A k \in DOMAIN matched : Fits(clauses[r][k], case[k], matched[k])
First(case) == LET fits == {r \in DOMAIN clauses : Takes(r, case)}
               IN IF fits = {} THEN 0 ELSE CHOOSE r \in fits : \A s \in fits : r <= s
ClauseNames(r) == FlattenSeq([k \in DOMAIN matched |-> Names(clauses[r][k], matched[k])])
Legible == \A r \in DOMAIN clauses :
             /\ \A k \in DOMAIN matched : WellFormed(clauses[r][k], matched[k])
             /\ IsInjective(ClauseNames(r))

-----------------------------------------------------------------------------
MatchInit == matched \in Problems /\ clauses = <<>>
AddClause ==
  /\ Len(clauses) < MaxClauses
  /\ \E ps \in [DOMAIN matched -> UNION {Patterns[t] : t \in DOMAIN Patterns}] :
       /\ \A k \in DOMAIN matched : ps[k] \in Patterns[matched[k]]
       /\ clauses' = Append(clauses, ps)
  /\ UNCHANGED matched
MatchSpec == MatchInit /\ [][AddClause]_matchVars

(* A match is refused exactly when it should be: a clause is ill-formed or *)
(* names a variable twice, some case is taken by no clause, or a clause    *)
(* takes no case.  An accepted match takes each case by the first clause   *)
(* that fits it, and there each of the clause's names is what its pattern  *)
(* says: no generated argument, shared argument name or constructor        *)
(* rebuilt for a variable is captured on the way (compileMatch, bind).     *)
FirstFit ==
  LET compiled == Compiled
      accepted == Accepted(compiled)
      values == {Columns[k].name : k \in DOMAIN matched}
      column(x) == CHOOSE k \in DOMAIN matched : Columns[k].name = x
  IN clauses # <<>> =>
       /\ accepted <=> (Legible /\ {First(case) : case \in Cases} = DOMAIN clauses)
       /\ accepted =>
            \A case \in Cases :
              LET ran == Run(compiled, [x \in values |-> case[column(x)]])
              IN /\ ran.clause = First(case)
                 /\ \A k \in DOMAIN matched : \A m \in Meaning(clauses[ran.clause][k], case[k], matched[k]) :
                      ran.env[<<m[1]>>] = m[2]
=============================================================================
