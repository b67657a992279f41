------------------------------- MODULE Notation -------------------------------
(***************************************************************************)
(* Printing a term in source syntax (web/cubical-source-text.mjs) and      *)
(* reading it back (web/cubist/parser.mjs): precedence and parentheses,    *)
(* binders with and without groups, the tight dot of a projection, forms   *)
(* that leave a name out, and operators of selected notations.             *)
(*                                                                         *)
(* A term is [tag, names, kids]: the names it binds and its subterms.  A   *)
(* text is a sequence of tokens.  ".1", ".f" and "unat.(" are tokens with  *)
(* their tight dots; the dot after a quantifier's type is ". ".  Display   *)
(* names and the printer's limit are left out.                             *)
(***************************************************************************)
EXTENDS Naturals, SequencesExt

CONSTANTS
  Operations,  \* the declared operations: functions from names to [notation, operator, view]
  Numerals,    \* the notation that reads numerals as themselves
  Siblings,    \* the terms beside the one that grows
  Formulas,    \* interval formulas: sequences of conjunctions of literals
  MaxDepth     \* bound of the exploration

VARIABLES term, depth

notationVars == <<term, depth>>

T(tag, names, kids) == [tag |-> tag, names |-> names, kids |-> kids]
Var(x) == T("Var", <<x>>, <<>>)
None == "none"

(* The subterms each form's names are bound in: names[k] in Scope[tag][k]. *)
ScopeOf(tag) ==
  CASE tag \in {"Pi", "Sigma", "Lam"} -> <<{2}>>
    [] tag \in {"LPi", "LLam", "Fun", "PLam"} -> <<{1}>>
    [] tag = "Path" -> <<{1}>>
    [] tag = "Comp" -> <<{1, 3}>>
    [] tag = "SumRec" -> <<{2}, {3}, {4}>>
    [] OTHER -> <<>>

\* The face of a composition's tube.
FaceText == <<"i", "=", "0", "and", "j", "=", "1">>

RECURSIVE Mentions(_, _), Varies(_, _), Forget(_)
Mentions(t, x) ==
  IF t.tag = "Var" THEN t.names[1] = x
  ELSE \/ t.tag = "PApp" /\ \E clause \in ToSet(t.names) : \E l \in ToSet(clause) : l.dim = x
       \/ \E k \in DOMAIN t.kids :
            /\ ~\E j \in DOMAIN ScopeOf(t.tag) : t.names[j] = x /\ k \in ScopeOf(t.tag)[j]
            /\ Mentions(t.kids[k], x)
\* A dimension is looked for by its literals, also under one of its name.
Varies(t, i) ==
  \/ t.tag = "PApp" /\ \E clause \in ToSet(t.names) : \E l \in ToSet(clause) : l.dim = i
  \/ t.tag = "Comp" /\ i \in ToSet(FaceText)
  \/ \E k \in DOMAIN t.kids : Varies(t.kids[k], i)
Uses(t, j) ==
  \E k \in ScopeOf(t.tag)[j] :
    IF t.tag \in {"Path", "PLam"} THEN Varies(t.kids[k], t.names[j]) ELSE Mentions(t.kids[k], t.names[j])

(* What a text leaves out: the family of an equation whose sides share a   *)
(* type, and the names of binders nothing mentions.                        *)
Forget(t) ==
  LET kids == [k \in DOMAIN t.kids |-> Forget(t.kids[k])]
      kept == [t EXCEPT !.kids = IF t.tag = "Path" /\ ~Uses(t, 1) THEN <<Var("_")>> \o Tail(kids) ELSE kids]
  IN [kept EXCEPT !.names = [j \in DOMAIN t.names |->
        IF j \in DOMAIN ScopeOf(t.tag) /\ ~Uses(kept, j) THEN "_" ELSE t.names[j]]]

-----------------------------------------------------------------------------
(* Printing: a text and the level of its outermost form.                   *)

Level == [binder |-> 0, arrow |-> 2, or |-> 4, and |-> 6, compare |-> 8, plus |-> 10, times |-> 12,
          power |-> 13, at |-> 14, atom |-> 18]
OperatorLevel(op) == CASE op \in {"+", "-"} -> Level.plus
                       [] op \in {"*", "/"} -> Level.times
                       [] op = "^" -> Level.power
                       [] OTHER -> Level.compare
AboveItself(level) == level
Above(level) == level + 2

Join(texts, separator) ==
  FoldLeft(LAMBDA all, text : IF all = <<>> THEN text ELSE all \o separator \o text, <<>>, texts)
Literal(l) == IF l.end = "0" THEN <<"~", l.dim>> ELSE <<l.dim>>
Conjunction(clause) == Join([k \in DOMAIN clause |-> Literal(clause[k])], <<"&">>)
Interval(formula) == Join([k \in DOMAIN formula |-> Conjunction(formula[k])], <<"|">>)

RECURSIVE Written(_, _), LamGroups(_, _, _)
Show(t, sel) == Written(t, sel).text
Sub(t, sel, needed) == IF Written(t, sel).level < needed THEN <<"(">> \o Show(t, sel) \o <<")">> ELSE Show(t, sel)
At(text, level) == [text |-> text, level |-> level]
Atom(text) == At(text, Level.atom)
Infix(l, lneed, op, r, rneed, sel, level) == At(Sub(l, sel, lneed) \o <<op>> \o Sub(r, sel, rneed), level)

(* Binders of one type that mention none of each other share a group.      *)
LamGroups(groups, t, sel) ==
  IF t.tag # "Lam" THEN [groups |-> groups, body |-> t]
  ELSE LET domain == Show(t.kids[1], sel)
           n == Len(groups)
           joins == IF n = 0 THEN FALSE
                    ELSE groups[n].domain = domain /\ ~\E x \in ToSet(groups[n].names) : Mentions(t.kids[1], x)
       IN LamGroups(IF joins THEN [groups EXCEPT ![n].names = Append(@, t.names[1])]
                    ELSE Append(groups, [names |-> t.names, domain |-> domain]),
                    t.kids[2], sel)
PrintLam(t, sel) ==
  LET g == LamGroups(<<>>, t, sel)
      group(k) == Join([j \in DOMAIN g.groups[k].names |-> <<g.groups[k].names[j]>>], <<",">>)
                    \o <<":">> \o g.groups[k].domain
  IN <<"fun", "(">> \o Join([k \in DOMAIN g.groups |-> group(k)], <<",">>) \o <<")", "=>">> \o Show(g.body, sel)

PrintBinder(t, sel) ==
  IF Uses(t, 1)
  THEN At(<<IF t.tag = "Pi" THEN "forall" ELSE "exists", t.names[1], ":">> \o Show(t.kids[1], sel)
            \o <<". ">> \o Show(t.kids[2], sel), Level.binder)
  ELSE LET level == IF t.tag = "Pi" THEN Level.arrow ELSE Level.and
       IN Infix(t.kids[1], Above(level), IF t.tag = "Pi" THEN "->" ELSE "and", t.kids[2], level, sel, level)

(* infixText: each operand in the view its rule gives it, or the           *)
(* operation's own notation, which is named where it is not selected.      *)
PrintOperation(t, sel) ==
  LET o == Operations[t.names[1]]
      level == OperatorLevel(o.operator)
      lneed == IF o.operator = "^" THEN Above(level) ELSE IF level = Level.compare THEN Above(level) ELSE level
      rneed == IF o.operator = "^" THEN level ELSE Above(level)
      text == Sub(t.kids[1], o.notation, lneed) \o <<o.operator>>
                \o Sub(t.kids[2], IF o.view = None THEN o.notation ELSE o.view, rneed)
  IN IF sel = o.notation THEN At(text, level) ELSE Atom(<<o.notation, ".(">> \o text \o <<")">>)
PrintNumeral(t, sel) == Atom(IF sel = Numerals THEN <<"3">> ELSE <<Numerals, ".(", "3", ")">>)

RECURSIVE Spine(_), Items(_)
Spine(t) == IF t.tag = "App" THEN [Spine(t.kids[1]) EXCEPT !.args = Append(@, t.kids[2])]
            ELSE [head |-> t, args |-> <<>>]
Items(t) == IF t.tag = "Pair" THEN <<t.kids[1]>> \o Items(t.kids[2]) ELSE <<t>>
PrintList(ts, sel) == Join([k \in DOMAIN ts |-> Show(ts[k], sel)], <<",">>)

Clause(t, k, constructor, sel) == <<constructor, t.names[k], "=>">> \o Show(t.kids[k + 1], sel) \o <<";">>
PrintMatch(t, sel) ==
  <<"match">> \o Show(t.kids[1], sel) \o (IF Uses(t, 1) THEN <<"as", t.names[1]>> ELSE <<>>)
    \o <<"return">> \o Show(t.kids[2], sel) \o <<"{">>
    \o Clause(t, 2, "left", sel) \o Clause(t, 3, "right", sel) \o <<"}">>

PrintBox(t, sel) ==
  <<"compose", t.names[1], "in">> \o Show(t.kids[1], sel) \o <<"from">> \o Show(t.kids[2], sel)
    \o <<"{", "on">> \o FaceText \o <<"=>">> \o Show(t.kids[3], sel) \o <<";", "}">>

Written(t, sel) ==
  CASE t.tag = "Var" -> Atom(t.names)
    [] t.tag = "Num" -> PrintNumeral(t, sel)
    [] t.tag \in {"Pi", "Sigma"} -> PrintBinder(t, sel)
    [] t.tag = "Sum" -> Infix(t.kids[1], Above(Level.or), "or", t.kids[2], Level.or, sel, Level.or)
    [] t.tag = "LPi" -> At(<<"forall", t.names[1], "<", "UU0", ". ">> \o Show(t.kids[1], sel), Level.binder)
    [] t.tag = "LLam" -> At(<<"fun", "(", t.names[1], "<", "UU0", ")", "=>">> \o Show(t.kids[1], sel), Level.binder)
    [] t.tag = "Lam" -> At(PrintLam(t, sel), Level.binder)
    [] t.tag = "Fun" -> At(<<"fun", t.names[1], "=>">> \o Show(t.kids[1], sel), Level.binder)
    [] t.tag = "App" -> Atom(Sub(Spine(t).head, sel, Level.atom) \o <<"(">> \o PrintList(Spine(t).args, sel) \o <<")">>)
    [] t.tag = "Op" -> PrintOperation(t, sel)
    [] t.tag = "Pair" -> Atom(<<"(">> \o PrintList(Items(t), sel) \o <<")">>)
    [] t.tag \in {"Fst", "Snd"} -> Atom(Sub(t.kids[1], sel, Level.atom) \o <<IF t.tag = "Fst" THEN ".1" ELSE ".2">>)
    [] t.tag = "Inl" -> Atom(<<"left", "(">> \o Show(t.kids[1], sel) \o <<")">>)
    [] t.tag = "PApp" -> At(Sub(t.kids[1], sel, Above(Level.at)) \o <<"@">> \o Interval(t.names), Level.at)
    [] t.tag = "Path" -> IF Uses(t, 1)
         THEN Atom(<<"PathP", "(", "fun", "(", t.names[1], ":", "Interval", ")", "=>">> \o Show(t.kids[1], sel)
                   \o <<",">> \o PrintList(Tail(t.kids), sel) \o <<")">>)
         ELSE Infix(t.kids[2], Above(Level.compare), "=", t.kids[3], Above(Level.compare), sel, Level.compare)
    [] t.tag = "PLam" -> IF Uses(t, 1) THEN At(<<"path", t.names[1], "=>">> \o Show(t.kids[1], sel), Level.binder)
                         ELSE Atom(<<"refl", "(">> \o Show(t.kids[1], sel) \o <<")">>)
    [] t.tag = "SumRec" -> At(PrintMatch(t, sel), Level.binder)
    [] t.tag = "Comp" -> Atom(PrintBox(t, sel))

-----------------------------------------------------------------------------
(* Reading: an operator's precedence, and what each token starts.          *)

Prec == [x \in {"->", "or", "and", "=", "<", "<=", "++", "+", "-", "*", "/", "^", "@", "|", "&"} |->
           CASE x = "->" -> 10 [] x = "or" -> 20 [] x = "and" -> 30 [] x \in {"=", "<", "<="} -> 40
             [] x = "++" -> 50 [] x \in {"+", "-"} -> 60 [] x \in {"*", "/"} -> 70 [] x = "^" -> 77
             [] x = "@" -> 80 [] x = "|" -> 90 [] x = "&" -> 100]
RightAssociative == {"->", "and", "or", "^"}
RightMinimum(op) ==
  LET higher == {Prec[x] : x \in {y \in DOMAIN Prec : Prec[y] > Prec[op]}}
  IN IF op \in RightAssociative THEN Prec[op]
     ELSE IF higher = {} THEN 110 ELSE CHOOSE p \in higher : \A q \in higher : p <= q
PREFIX == 110

(* What a reading is of is [t, at]: a term and the token after it.  A      *)
(* reading that a token does not fit is Bad.                               *)
Bad == T("Bad", <<>>, <<>>)
Got(t, at) == [t |-> t, at |-> at]

(* What an operator makes of its operands where `sel` is selected.         *)
OperationOf(op, sel) ==
  LET found == {o \in DOMAIN Operations : Operations[o].notation = sel /\ Operations[o].operator = op}
  IN IF found = {} THEN None ELSE CHOOSE o \in found : TRUE
ViewOf(op, sel) ==
  LET o == OperationOf(op, sel)
  IN IF o = None THEN sel ELSE IF Operations[o].view = None THEN sel ELSE Operations[o].view
Binary(op, l, r, sel) ==
  CASE op = "->" -> T("Pi", <<"_">>, <<l, r>>)
    [] op = "and" -> T("Sigma", <<"_">>, <<l, r>>)
    [] op = "or" -> T("Sum", <<>>, <<l, r>>)
    [] op = "=" -> T("Path", <<"_">>, <<Var("_"), l, r>>)
    [] op \in {"&", "|"} -> T(op, <<>>, <<l, r>>)
    [] OTHER -> LET o == OperationOf(op, sel) IN IF o = None THEN Bad ELSE T("Op", <<o>>, <<l, r>>)

(* A coordinate read as a formula: a join of meets of literals.            *)
RECURSIVE FormulaOf(_)
FormulaOf(t) ==
  CASE t.tag = "|" -> FormulaOf(t.kids[1]) \o FormulaOf(t.kids[2])
    [] t.tag = "&" -> <<FormulaOf(t.kids[1])[1] \o FormulaOf(t.kids[2])[1]>>
    [] t.tag = "~" -> <<<<[dim |-> t.kids[1].names[1], end |-> "0"]>>>>
    [] OTHER -> <<<<[dim |-> t.names[1], end |-> "1"]>>>>

Apply(f, args) == FoldLeft(LAMBDA g, a : T("App", <<>>, <<g, a>>), f, args)
Called(f, args) ==
  CASE f = Var("left") -> T("Inl", <<>>, args)
    [] f = Var("refl") -> T("PLam", <<"_">>, args)
    [] f = Var("PathP") -> T("Path", args[1].names, <<args[1].kids[2]>> \o Tail(args))
    [] OTHER -> Apply(f, args)
Tuple(items) == FoldRight(LAMBDA a, rest : T("Pair", <<>>, <<a, rest>>), Front(items), Last(items))

RECURSIVE Expr(_, _, _, _), Loop(_, _, _, _), Prefix(_, _, _), ListOf(_, _, _), GroupsAt(_, _, _), NamesAt(_, _)

(* A list of expressions up to the parenthesis that closes it.             *)
ListOf(ts, i, sel) ==
  LET e == Expr(ts, i, 0, sel)
  IN IF ts[e.at] = "," THEN LET rest == ListOf(ts, e.at + 1, sel) IN [ts |-> <<e.t>> \o rest.ts, at |-> rest.at]
     ELSE [ts |-> <<e.t>>, at |-> e.at + 1]
NamesAt(ts, i) ==
  IF ts[i + 1] = "," THEN LET rest == NamesAt(ts, i + 2) IN [names |-> <<ts[i]>> \o rest.names, at |-> rest.at]
  ELSE [names |-> <<ts[i]>>, at |-> i + 1]

(* fun's binder groups: <<name, type>> in order, or a universe's name.     *)
GroupsAt(ts, i, sel) ==
  LET g == NamesAt(ts, i)
      e == Expr(ts, g.at + 1, 0, sel)
      own == [k \in DOMAIN g.names |-> [name |-> g.names[k], bound |-> ts[g.at] = "<", type |-> e.t]]
  IN IF ts[e.at] = "," THEN LET rest == GroupsAt(ts, e.at + 1, sel) IN [binders |-> own \o rest.binders, at |-> rest.at]
     ELSE [binders |-> own, at |-> e.at + 1]
Lambda(ts, i, sel) ==
  IF ts[i] # "(" THEN LET b == Expr(ts, i + 2, 0, sel) IN Got(T("Fun", <<ts[i]>>, <<b.t>>), b.at)
  ELSE LET g == GroupsAt(ts, i + 1, sel)
           b == Expr(ts, g.at + 1, 0, sel)
       IN Got(FoldRight(LAMBDA x, body : IF x.bound THEN T("LLam", <<x.name>>, <<body>>)
                                         ELSE T("Lam", <<x.name>>, <<x.type, body>>), g.binders, b.t), b.at)
Quantifier(ts, i, sel, tag) ==
  LET e == Expr(ts, i + 2, 0, sel)
      b == Expr(ts, e.at + 1, 0, sel)
  IN IF ts[e.at] # ". " THEN Got(Bad, e.at)
     ELSE Got(IF ts[i + 1] = "<" THEN T("LPi", <<ts[i]>>, <<b.t>>) ELSE T(tag, <<ts[i]>>, <<e.t, b.t>>), b.at)
Match(ts, i, sel) ==
  LET v == Expr(ts, i, 0, sel)
      named == ts[v.at] = "as"
      r == Expr(ts, IF named THEN v.at + 3 ELSE v.at + 1, 0, sel)
      left == Expr(ts, r.at + 4, 0, sel)
      right == Expr(ts, left.at + 4, 0, sel)
  IN IF ts[r.at] # "{" \/ ts[right.at + 1] # "}" THEN Got(Bad, right.at)
     ELSE Got(T("SumRec", <<IF named THEN ts[v.at + 1] ELSE "_", ts[r.at + 2], ts[left.at + 2]>>,
                <<v.t, r.t, left.t, right.t>>), right.at + 2)
Box(ts, i, sel) ==
  LET family == Expr(ts, i + 2, 0, sel)
      base == Expr(ts, family.at + 1, 0, sel)
      face == Expr(ts, base.at + 2, 0, Numerals)
      wall == Expr(ts, face.at + 1, 0, sel)
  IN IF ts[face.at] # "=>" \/ ts[wall.at + 1] # "}" THEN Got(Bad, wall.at)
     ELSE Got(T("Comp", <<ts[i]>>, <<family.t, base.t, wall.t>>), wall.at + 2)

Prefix(ts, i, sel) ==
  CASE ts[i] = "fun" -> Lambda(ts, i + 1, sel)
    [] ts[i] \in {"forall", "exists"} -> Quantifier(ts, i + 1, sel, IF ts[i] = "forall" THEN "Pi" ELSE "Sigma")
    [] ts[i] = "match" -> Match(ts, i + 1, sel)
    [] ts[i] = "compose" -> Box(ts, i + 1, sel)
    [] ts[i] = "path" -> LET b == Expr(ts, i + 3, 0, sel) IN Got(T("PLam", <<ts[i + 1]>>, <<b.t>>), b.at)
    [] ts[i] = "~" -> LET o == Expr(ts, i + 1, PREFIX, sel) IN Got(T("~", <<>>, <<o.t>>), o.at)
    [] ts[i] = "(" -> LET items == ListOf(ts, i + 1, sel) IN Got(Tuple(items.ts), items.at)
    [] ts[i] \in {"0", "1", "3"} -> Got(IF sel = Numerals THEN T("Num", <<>>, <<>>) ELSE Bad, i + 1)
    [] OTHER -> Got(Var(ts[i]), i + 1)

(* What follows: calls, a selected notation, projections and operators.    *)
Loop(ts, a, min, sel) ==
  LET op == ts[a.at] IN
  CASE op = "(" -> LET args == ListOf(ts, a.at + 1, sel) IN Loop(ts, Got(Called(a.t, args.ts), args.at), min, sel)
    [] op = ".(" -> LET e == Expr(ts, a.at + 1, 0, a.t.names[1]) IN Loop(ts, Got(e.t, e.at + 1), min, sel)
    [] op \in {".1", ".2"} -> Loop(ts, Got(T(IF op = ".1" THEN "Fst" ELSE "Snd", <<>>, <<a.t>>), a.at + 1), min, sel)
    [] op \in DOMAIN Prec -> IF Prec[op] < min THEN a
         ELSE LET r == Expr(ts, a.at + 1, RightMinimum(op), ViewOf(op, sel))
                  t == IF op = "@" THEN T("PApp", FormulaOf(r.t), <<a.t>>) ELSE Binary(op, a.t, r.t, sel)
              IN Loop(ts, Got(t, r.at), min, sel)
    [] OTHER -> a
Expr(ts, i, min, sel) == Loop(ts, Prefix(ts, i, sel), min, sel)

Read(text, sel) == LET e == Expr(text \o <<"EOF">>, 1, 0, sel) IN IF e.at = Len(text) + 1 THEN e.t ELSE Bad

-----------------------------------------------------------------------------
(* Terms, one form around another.                                         *)

Around(t) ==
  LET x == Var("x")
      with(tag, names) == {T(tag, names, <<t, x>>), T(tag, names, <<x, t>>)}
      three(tag, names) == {T(tag, names, <<t, x, x>>), T(tag, names, <<x, t, x>>), T(tag, names, <<x, x, t>>)}
      operation(o) == UNION {{T("Op", <<o>>, <<t, s>>), T("Op", <<o>>, <<s, t>>)} : s \in Siblings}
      one(tag, names) == {T(tag, names, <<t>>)}
  IN with("Pi", <<"x">>) \union with("Sigma", <<"x">>) \union with("Lam", <<"x">>) \union with("Sum", <<>>)
     \union with("Pair", <<>>) \union with("App", <<>>) \union UNION {operation(o) : o \in DOMAIN Operations}
     \union one("LPi", <<"x">>) \union one("LLam", <<"x">>) \union one("Fun", <<"x">>) \union one("PLam", <<"i">>)
     \union one("Fst", <<>>) \union one("Inl", <<>>) \union UNION {one("PApp", f) : f \in Formulas}
     \union three("Path", <<"i">>) \union three("Comp", <<"i">>)
     \union {T("SumRec", <<"x", "y", "z">>, [k \in 1 .. 4 |-> IF k = at THEN t ELSE x]) : at \in 1 .. 4}

NotationInit == term \in Siblings /\ depth = 0
Grow == depth < MaxDepth /\ depth' = depth + 1 /\ term' \in Around(term)
NotationSpec == NotationInit /\ [][Grow]_notationVars

(* A printed term reads back as itself, whatever notation is selected      *)
(* around it, up to the names and families its text leaves out: the        *)
(* parentheses print leaves out are those the parser's precedence puts     *)
(* back, and no form takes in what follows it.                             *)
Selections == {Numerals} \union {Operations[o].notation : o \in DOMAIN Operations}
ReadsBack == \A sel \in Selections : Forget(Read(Show(term, sel), sel)) = Forget(term)
=============================================================================
