---------------------------- MODULE RuntimeQuery ----------------------------
(***************************************************************************)
(* The lazy machine that shows values (web/cubical-runtime.mjs): a cell    *)
(* delays a code under an environment and is forced at most once, a call   *)
(* that a scope delays several times is one cell in each instance of the   *)
(* scope, syntax is copied from the kernel when it is first demanded, and  *)
(* a forced cell is read back as a closed term.  What a handle stands for  *)
(* is a closed term, evaluated here by substitution.                       *)
(*                                                                         *)
(* A code is its term: the kernel shares equal syntax.  Forms that run as  *)
(* another one does are left out: level functions (functions), sums and    *)
(* the unit (the eliminator), injections (pairs), and the type a query has *)
(* beside its term.  So are hypotheses over functions, and levels.         *)
(***************************************************************************)
EXTENDS Naturals, Sequences, FiniteSets, SequencesExt, FiniteSetsExt

CONSTANTS
  Definition,    \* the value of each definition, a closed code
  QueryTerms,    \* closed codes that are executed for readback with origins
  ReleasingTerms,  \* those that are also executed without them
  MaxDeviations,    \* operations stopped, kernels moved, queries closed; and
                    \* observations out of the order handles were given, or again
  MaxFailures,      \* observations that fail
  MaxReadings       \* values read back

VARIABLES
  query,      \* cells, frames, shared calls, copies of syntax
  machine,    \* the observation that runs
  published,  \* the observations made, and what was read back
  world       \* the kernel's handles held or not, the query open or not

runtimeVars == <<query, machine, published, world>>

-----------------------------------------------------------------------------
(* Codes.  The first child of a pair is its type, of a function its domain. *)

Code(kind, payload, kids) == [kind |-> kind, payload |-> payload, kids |-> kids]
NoCode == Code("none", "", <<>>)
Name(x) == Code("Var", x, <<>>)
Fun(x, domain, body) == Code("Lam", x, <<domain, body>>)
Pi(x, domain, body) == Code("Pi", x, <<domain, body>>)
Call(fn, arg) == Code("App", "", <<fn, arg>>)
PairOf(type, a, b) == Code("Pair", "", <<type, a, b>>)
Fst(p) == Code("Fst", "", <<p>>)
Snd(p) == Code("Snd", "", <<p>>)
Def(d) == Code("DefRef", d, <<>>)
Zero == Code("Con", "zero", <<>>)
Suc == Code("Con", "suc", <<>>)
Elim(zero, suc) == Code("Elim", "nat", <<zero, suc>>)
Nat_ == Code("Sort", "nat", <<>>)
Universe == Code("U", "", <<>>)

Arity(con) == IF con = "suc" THEN 1 ELSE 0
Clause(con) == IF con = "suc" THEN 2 ELSE 1
TypeKinds == {"Pi", "Sort", "U"}
BinderKinds == {"Lam", "Pi"}
Data == {"Con", "Pair"}
Calls == {"App", "Fst", "Snd"}

Scoped(c, i, S) == IF c.kind \in BinderKinds /\ i = 2 THEN S \ {c.payload} ELSE S
RECURSIVE FreeVars(_), Definitions(_)
FreeVars(c) == IF c.kind = "Var" THEN {c.payload} ELSE UNION {Scoped(c, i, FreeVars(c.kids[i])) : i \in DOMAIN c.kids}
\* The definitions outside the binders of a code.
Definitions(c) ==
  IF c.kind = "DefRef" THEN {c.payload} ELSE IF c.kind \in BinderKinds THEN {} ELSE UNION {Definitions(c.kids[i]) : i \in DOMAIN c.kids}
\* A code up to the names it binds: a bound variable by its binder's depth.
RECURSIVE Nameless(_, _, _), Within(_)
Nameless(c, depth, n) ==
  IF c.kind \in BinderKinds
  THEN Code(c.kind, "", <<Nameless(c.kids[1], depth, n), Nameless(c.kids[2], (c.payload :> n) @@ depth, n + 1)>>)
  ELSE IF c.kind = "Var" /\ c.payload \in DOMAIN depth THEN Code("Bound", ToString(depth[c.payload]), <<>>)
  ELSE [c EXCEPT !.kids = [i \in DOMAIN @ |-> Nameless(@[i], depth, n)]]
EqualUpToNames(c, d) == Nameless(c, [x \in {} |-> 0], 0) = Nameless(d, [x \in {} |-> 0], 0)
Within(c) == {c} \cup UNION {Within(c.kids[i]) : i \in DOMAIN c.kids}

-----------------------------------------------------------------------------
(* What a closed code is: its weak head by substitution of closed codes,   *)
(* the head that is shown, and its whole value, where a function's is its  *)
(* value at a constant that nothing computes with.                         *)

Opaque(k) == Code("Opaque", ToString(k), <<>>)
RECURSIVE Substituted(_, _, _)
Substituted(c, x, by) ==
  IF c = Name(x) THEN by
  ELSE [c EXCEPT !.kids = [i \in DOMAIN @ |-> IF c.kind \in BinderKinds /\ i = 2 /\ c.payload = x THEN @[i] ELSE Substituted(@[i], x, by)]]

RECURSIVE Weak(_), Applied(_, _), Projected(_, _), Eliminated(_, _)
Applied(fn, arg) ==
  IF fn.kind = "Lam" THEN Weak(Substituted(fn.kids[2], fn.payload, arg))
  ELSE IF fn.kind = "Elim" THEN Eliminated(fn, Weak(arg)) ELSE Call(fn, arg)
Eliminated(elim, con) ==
  IF con = Zero THEN Weak(elim.kids[1])
  ELSE IF con.kind = "App" /\ con.kids[1] = Suc THEN Weak(Call(Call(elim.kids[2], con.kids[2]), Call(elim, con.kids[2])))
  ELSE Call(elim, con)
Projected(pair, i) == IF pair.kind = "Pair" THEN Weak(pair.kids[i + 1]) ELSE Code(IF i = 1 THEN "Fst" ELSE "Snd", "", <<pair>>)
Weak(c) ==
  CASE c.kind = "App" -> Applied(Weak(c.kids[1]), c.kids[2])
    [] c.kind = "Fst" -> Projected(Weak(c.kids[1]), 1)
    [] c.kind = "Snd" -> Projected(Weak(c.kids[1]), 2)
    [] c.kind = "DefRef" -> Weak(Definition[c.payload])
    [] OTHER -> c

Contracts(x, body) == body.kind = "App" /\ body.kids[2] = Name(x) /\ x \notin FreeVars(body.kids[1])
RECURSIVE Contracted(_)
Contracted(c) == IF c.kind = "Lam" /\ Contracts(c.payload, c.kids[2]) THEN Contracted(Weak(c.kids[2].kids[1])) ELSE c
ShownHead(c) == Contracted(Weak(c))

RECURSIVE ValueOf(_, _), ValueOfHead(_, _)
ValueOfHead(h, k) ==
  CASE h.kind = "Lam" -> Code("Function", "", <<ValueOf(h.kids[1], k), ValueOf(Substituted(h.kids[2], h.payload, Opaque(k)), k + 1)>>)
    [] h.kind = "Pi" -> Code("Pi", "", <<ValueOf(h.kids[1], k), ValueOf(Substituted(h.kids[2], h.payload, Opaque(k)), k + 1)>>)
    [] OTHER -> Code(h.kind, h.payload, [i \in DOMAIN h.kids |-> ValueOf(h.kids[i], k)])
ValueOf(c, k) == ValueOfHead(ShownHead(c), k)

-----------------------------------------------------------------------------
(* Cells, the frames of environments, and values over cells.               *)

NoValue == [tag |-> "none", code |-> NoCode, env |-> 0, cells |-> <<>>]
Value(tag, code, env, cells) == [tag |-> tag, code |-> code, env |-> env, cells |-> cells]
Cell(state, op, code, env, parts, value) ==
  [state |-> state, op |-> op, code |-> code, env |-> env, parts |-> parts, value |-> value]
Delay(code, env) == Cell("delayed", "syntax", code, env, <<>>, NoValue)
Apply(fn, arg) == Cell("delayed", "apply", NoCode, 0, <<fn, arg>>, NoValue)
Ready(value) == Cell("forced", "ready", NoCode, 0, <<>>, value)
Frame(parent, symbol, cell, binder) == [parent |-> parent, symbol |-> symbol, cell |-> cell, binder |-> binder]

NewCells(q, cells) == [q EXCEPT !.cells = @ \o cells]
NewFrame(q, frame) == [q EXCEPT !.frames = Append(@, frame)]
LastCell(q) == Len(q.cells)
LastFrame(q) == Len(q.frames)

-----------------------------------------------------------------------------
(* The calls a scope shares: what a force of its root may delay, up to     *)
(* functions and types, and how often each is delayed if all of it is      *)
(* forced; a shared call is forced once.                                   *)

Delayed(c) ==
  CASE c.kind = "App" -> <<c.kids[2], c.kids[1]>>
    [] c.kind = "Pair" -> <<c.kids[2], c.kids[3]>>
    [] c.kind \in {"Fst", "Snd", "Elim"} -> c.kids
    [] OTHER -> <<>>
RECURSIVE ScopeCodes(_), DelaysOf(_, _), SharedIn(_, _)
ScopeCodes(root) == {root} \cup UNION {ScopeCodes(c) : c \in ToSet(Delayed(root))}
DelaysOf(root, c) ==
  LET times(p) == Cardinality({i \in DOMAIN Delayed(p) : Delayed(p)[i] = c})
  IN  IF c = root THEN 1
      ELSE MapThenSumSet(LAMBDA p : IF SharedIn(root, p) THEN times(p) ELSE times(p) * DelaysOf(root, p),
                         {p \in ScopeCodes(root) : times(p) > 0})
SharedTwice(root, c) == c.kind \in Calls /\ DelaysOf(root, c) >= 3
SharedIn(root, c) == c.kind \in Calls /\ DelaysOf(root, c) >= 2
SharedCalls(root) ==
  [c \in {c \in ScopeCodes(root) : SharedIn(root, c)} |-> [cell |-> 0, left |-> DelaysOf(root, c)]]

Sharing(q, root) ==
  [q EXCEPT !.copied = @ \cup ScopeCodes(root),
            !.shares = @ \cup {p \in ScopeCodes(root) : \E c \in ToSet(Delayed(p)) : SharedIn(root, c)}]
WithMemo(q, env, memo) == [q EXCEPT !.shared = [e \in DOMAIN @ \cup {env} |-> IF e = env THEN memo ELSE @[e]]]
\* A root with shared calls is an instance of its own scope.
Entered(q, root) ==
  LET read == Sharing(q, root)
      framed == NewFrame(read, Frame(0, "", 0, NoCode))
  IN  IF DOMAIN SharedCalls(root) = {} THEN [query |-> read, env |-> 0]
      ELSE [query |-> WithMemo(framed, LastFrame(framed), SharedCalls(root)), env |-> LastFrame(framed)]

\* One cell for each shared call of an instance, until its last delay.
Taken(q, env, code, cell) ==
  LET memo == q.shared[env]
      left == memo[code].left - 1
  IN  WithMemo(q, env, [c \in IF left = 0 THEN DOMAIN memo \ {code} ELSE DOMAIN memo |->
                          IF c = code THEN [cell |-> cell, left |-> left] ELSE memo[c]])
Noted(q, code, env) ==
  IF env # 0 /\ env \notin DOMAIN q.shared /\ code \in DOMAIN SharedCalls(q.frames[env].binder.kids[2])
  THEN WithMemo(q, env, SharedCalls(q.frames[env].binder.kids[2])) ELSE q
SharedCell(q, code, env) ==
  IF env \notin DOMAIN q.shared \/ code \notin DOMAIN q.shared[env]
  THEN [query |-> NewCells(q, <<Delay(code, env)>>), cell |-> LastCell(q) + 1]
  ELSE IF q.shared[env][code].cell = 0
  THEN [query |-> Taken(NewCells(q, <<Delay(code, env)>>), env, code, LastCell(q) + 1), cell |-> LastCell(q) + 1]
  ELSE [query |-> Taken(q, env, code, q.shared[env][code].cell), cell |-> q.shared[env][code].cell]
Share(q, code, env) == SharedCell(Noted(q, code, env), code, env)

\* The first k parts of a code that is forced.
DelayParts(q, c, env, k) ==
  FoldLeft(LAMBDA done, part :
             LET next == IF c \in q.shares THEN Share(done.query, part, env)
                         ELSE [query |-> NewCells(done.query, <<Delay(part, env)>>), cell |-> LastCell(done.query) + 1]
             IN  [query |-> next.query, cells |-> Append(done.cells, next.cell)],
           [query |-> q, cells |-> <<>>], SubSeq(Delayed(c), 1, k))

-----------------------------------------------------------------------------
(* Reading back: a cell by its value, or by what it was forced from; a     *)
(* code under an environment as the functions its frames bound, applied.   *)

RECURSIVE Binding(_, _, _), FramesNeeded(_, _, _)
Binding(q, env, x) == IF q.frames[env].symbol = x THEN env ELSE Binding(q, q.frames[env].parent, x)
FramesNamed(q, vars, env) == {Binding(q, env, x) : x \in vars}
FramesNeeded(q, vars, env) ==
  UNION {LET f == Binding(q, env, x)
         IN  {f} \cup FramesNeeded(q, FreeVars(q.frames[f].binder.kids[1]), q.frames[f].parent) : x \in vars}
\* Outermost first: a frame is made after its parent.
FramesOf(q, code, env) == SetToSortSeq(FramesNeeded(q, FreeVars(code), env), <)
Pruned(q, code, env) ==
  FoldLeft(LAMBDA done, f : NewFrame(done, [q.frames[f] EXCEPT !.parent = IF done = q THEN 0 ELSE LastFrame(done)]),
           q, FramesOf(q, code, env))

\* What pruning reads: the type, and the domains of the binders it needs.
TypeReads(q, c, env) ==
  IF c.kind \notin TypeKinds \/ env = 0 \/ c.kids = <<>> THEN {}
  ELSE Within(c) \cup UNION {Within(q.frames[f].binder.kids[1]) : f \in ToSet(FramesOf(q, c, env))}

DefinitionForced(q, d) == d \in DOMAIN q.definitions /\ q.cells[q.definitions[d]].state = "forced"
HoldsData(cell) == cell.value.tag \in Data
Read(term, stable) == [term |-> term, stable |-> stable]
Rebuilt(kind, payload, reads) ==
  Read(Code(kind, payload, [i \in DOMAIN reads |-> reads[i].term]), \A i \in DOMAIN reads : reads[i].stable)
Inside(mode) == IF mode = "outer" THEN "origin" ELSE mode
\* The fields of a pair that would be contracted to what they project.
Projections(q, v) ==
  LET a == q.cells[v.cells[2]]
      b == q.cells[v.cells[3]]
  IN  /\ a.op = "syntax" /\ b.op = "syntax" /\ a.env = b.env
      /\ a.code.kind = "Fst" /\ b.code.kind = "Snd" /\ EqualUpToNames(a.code.kids[1], b.code.kids[1])
Applying(fn, args) == FoldLeft(LAMBDA f, a : Rebuilt("App", "", <<f, a>>), fn, args)

RECURSIVE ReadCell(_, _, _), ReadKept(_, _, _), ReadValue(_, _, _), ReadClosure(_, _, _, _), Telescope(_, _, _, _)
ReadCell(q, c, mode) ==
  LET cell == q.cells[c]
      value == cell.value
      other == mode = "outer" /\ ~ HoldsData(cell)
  IN  IF cell.state # "forced" THEN Read(ReadKept(q, cell, Inside(mode)).term, FALSE)
      ELSE IF q.origins /\ cell.op # "ready" /\ (mode = "origin" \/ other) THEN ReadKept(q, cell, "origin")
      ELSE ReadValue(q, value, IF other THEN "origin" ELSE mode)
ReadKept(q, cell, mode) ==
  IF cell.op = "apply" THEN Rebuilt("App", "", <<ReadCell(q, cell.parts[1], mode), ReadCell(q, cell.parts[2], mode)>>)
  ELSE ReadClosure(q, cell.code, cell.env, mode)
ReadValue(q, v, mode) ==
  LET field == IF mode = "outer" /\ v.tag = "Pair" /\ Projections(q, v) THEN "origin" ELSE mode
      reads == [i \in DOMAIN v.cells |-> ReadCell(q, v.cells[i], IF i = 1 THEN mode ELSE field)]
  IN  CASE v.tag = "Pair" -> Rebuilt("Pair", "", reads)
        [] v.tag = "Con" -> Applying(Read(v.code, TRUE), reads)
        [] v.tag = "Elim" -> Rebuilt("Elim", "nat", reads)
        [] OTHER -> ReadClosure(q, v.code, v.env, mode)
ReadClosure(q, c, env, mode) ==
  LET forced == mode # "origin" /\ \E d \in Definitions(c) : DefinitionForced(q, d)
      settled == mode = "origin" \/ Definitions(c) = {}
  IN  CASE c.kind = "Var" -> ReadCell(q, q.frames[Binding(q, env, c.payload)].cell, mode)
        [] c.kind = "DefRef" /\ forced ->
             IF mode = "value" \/ HoldsData(q.cells[q.definitions[c.payload]]) THEN ReadCell(q, q.definitions[c.payload], mode)
             ELSE Read(c, TRUE)
        [] c.kind # "Var" /\ FreeVars(c) = {} /\ ~ forced -> Read(c, settled)
        [] c.kind \notin {"Var", "DefRef"} /\ (FreeVars(c) # {} \/ forced) ->
             IF c.kind \in Calls \/ forced
             THEN Rebuilt(c.kind, c.payload, [i \in DOMAIN c.kids |-> ReadClosure(q, c.kids[i], env, mode)])
             ELSE Telescope(q, c, env, mode)
Telescope(q, c, env, mode) ==
  LET frames == FramesOf(q, c, env)
      bound(f, body) == Fun(q.frames[f].symbol, q.frames[f].binder.kids[1], body)
  IN  Applying(Read(FoldRight(bound, frames, c), mode = "origin" \/ Definitions(c) = {}),
               [i \in DOMAIN frames |-> ReadCell(q, q.frames[frames[i]].cell, mode)])

-----------------------------------------------------------------------------
(* The machine.  It runs in slices: between two steps the kernel may move  *)
(* its handles, the query may be closed, and the operation stopped.        *)

NoTask == [op |-> "none", cell |-> 0, env |-> 0, symbol |-> ""]
ForceTask(cell) == [NoTask EXCEPT !.op = "force", !.cell = cell]
LookupTask(env, symbol) == [NoTask EXCEPT !.op = "lookup", !.env = env, !.symbol = symbol]
Idle == [goal |-> 0, task |-> NoTask, stack |-> <<>>, value |-> NoValue]
Pending(op, cells, value) == [op |-> op, cells |-> cells, value |-> value]

Root == 1
RuntimeInit ==
  \E t \in QueryTerms, origins \in BOOLEAN :
    /\ origins \/ t \in ReleasingTerms
    /\ query = [cells |-> <<Delay(t, 0)>>, frames |-> <<>>, shared |-> [e \in {} |-> <<>>], copied |-> {}, shares |-> {},
                definitions |-> [d \in {} |-> 0], entered |-> FALSE, heads |-> [c \in {} |-> NoValue], origins |-> origins]
    /\ machine = Idle
    /\ published = [handles |-> {[cell |-> Root, means |-> t]}, seen |-> {}, readings |-> {}]
    /\ world = [held |-> TRUE, open |-> TRUE, disturbed |-> 0, failures |-> 0, outOfTurn |-> 0]

Running == machine.goal # 0
Forcing(op) == Running /\ machine.task.op = "force" /\ query.cells[machine.task.cell].state = "delayed"
                 /\ query.cells[machine.task.cell].op = op
Forced == query.cells[machine.task.cell]
\* What the next step copies from the kernel: a definition's value is asked
\* for, and a signature's constructors are, for the first one met.
AskedOf == Code("asked", "", <<>>)
Descriptors == Code("descriptors", "", <<>>)
Demanded ==
  IF machine.task.op # "force" \/ Forced.state # "delayed" \/ Forced.op # "syntax" THEN {}
  ELSE LET c == Forced.code
       IN  {c} \cup (IF c.kind = "Lam" THEN ScopeCodes(c.kids[2]) ELSE {}) \cup TypeReads(query, c, Forced.env)
             \cup (IF c.kind = "DefRef" /\ c.payload \notin DOMAIN query.definitions THEN {AskedOf} ELSE {})
             \cup (IF c.kind = "Con" THEN {Nat_, Descriptors} ELSE {})
Readable(codes) == world.held \/ codes \subseteq query.copied
Steps == Running /\ world.open /\ Readable(Demanded)

Begun(c) == [query EXCEPT !.cells[c].state = "forcing", !.copied = @ \cup ({query.cells[c].code} \ {NoCode})]
Push(frames) == Append(machine.stack, Pending("update", <<machine.task.cell>>, NoValue)) \o frames
Continue(task, stack) == machine' = [machine EXCEPT !.task = task, !.stack = stack]
Return(value, stack) == machine' = [machine EXCEPT !.task = NoTask, !.stack = stack, !.value = value]

Deviations == world.disturbed + world.outOfTurn
\* Any handle is observed, also before those given earlier, and also again.
InTurn(h) ==
  /\ h.cell \notin DOMAIN query.heads
  /\ \A other \in published.handles : other.cell \in DOMAIN query.heads \/ h.cell <= other.cell
Begin ==
  \E h \in published.handles :
    /\ ~ Running /\ world.open /\ world.failures < MaxFailures
    /\ InTurn(h) \/ Deviations < MaxDeviations
    /\ LET root == query.cells[Root]
           opened == Entered(query, root.code)
           enters == h.cell = Root /\ ~ query.entered
       IN  /\ enters => Readable(ScopeCodes(root.code))
           /\ query' = IF enters THEN [opened.query EXCEPT !.cells[Root].env = opened.env, !.entered = TRUE] ELSE query
    /\ machine' = [Idle EXCEPT !.goal = h.cell, !.task = ForceTask(h.cell)]
    /\ world' = IF InTurn(h) THEN world ELSE [world EXCEPT !.outOfTurn = @ + 1]
    /\ UNCHANGED published

LookUp ==
  /\ Steps /\ machine.task.op = "lookup" /\ machine.task.env # 0
  /\ LET f == query.frames[machine.task.env]
     IN  Continue(IF f.symbol = machine.task.symbol THEN ForceTask(f.cell) ELSE LookupTask(f.parent, machine.task.symbol), machine.stack)
  /\ UNCHANGED query

Hit ==
  /\ Steps /\ machine.task.op = "force" /\ Forced.state = "forced"
  /\ Return(Forced.value, machine.stack)
  /\ UNCHANGED query

ForceApplication ==
  /\ Steps /\ Forcing("apply")
  /\ query' = Begun(machine.task.cell)
  /\ Continue(ForceTask(Forced.parts[1]), Push(<<Pending("apply", <<Forced.parts[2]>>, NoValue)>>))

ForceVariable ==
  /\ Steps /\ Forcing("syntax") /\ Forced.code.kind = "Var"
  /\ query' = Begun(machine.task.cell)
  /\ Continue(LookupTask(Forced.env, Forced.code.payload), Push(<<>>))

\* One cell for each definition, whoever refers to it.
ForceDefinition ==
  /\ Steps /\ Forcing("syntax") /\ Forced.code.kind = "DefRef"
  /\ LET d == Forced.code.payload
         entered == Entered(Begun(machine.task.cell), Definition[d])
         made == NewCells(entered.query, <<Delay(Definition[d], entered.env)>>)
         known == d \in DOMAIN query.definitions
         cell == IF known THEN query.definitions[d] ELSE LastCell(made)
     IN  /\ query' = IF known THEN Begun(machine.task.cell)
                     ELSE [made EXCEPT !.definitions = [e \in DOMAIN @ \cup {d} |-> IF e = d THEN cell ELSE @[e]]]
         /\ Continue(ForceTask(cell), Push(<<>>))

\* A constructor's instance is a closed sort: it keeps no environment, and is
\* left out of its value; the signature's constructors are read with it.
ForceValue ==
  /\ Steps /\ Forcing("syntax") /\ Forced.code.kind \in {"Lam", "Con", "Elim", "Pair"} \cup TypeKinds
  /\ LET c == Forced.code
         begun == Begun(machine.task.cell)
         typed == IF c.kind = "Pair" THEN NewCells(begun, <<Delay(c.kids[1], Forced.env)>>) ELSE begun
         made == DelayParts(typed, c, Forced.env, Len(Delayed(c)))
         read == [begun EXCEPT !.copied = @ \cup TypeReads(query, c, Forced.env)]
         kept == Pruned(read, c, Forced.env)
     IN  CASE c.kind = "Lam" -> query' = Sharing(begun, c.kids[2]) /\ Return(Value("Lam", c, Forced.env, <<>>), Push(<<>>))
           [] c.kind = "Con" -> query' = [begun EXCEPT !.copied = @ \cup {Nat_, Descriptors}] /\ Return(Value("Con", c, 0, <<>>), Push(<<>>))
           [] c.kind \in TypeKinds ->
                query' = kept /\ Return(Value("Type", c, IF kept = read THEN 0 ELSE LastFrame(kept), <<>>), Push(<<>>))
           [] c.kind = "Elim" -> query' = made.query /\ Return(Value("Elim", c, 0, made.cells), Push(<<>>))
           [] c.kind = "Pair" -> query' = made.query /\ Return(Value("Pair", c, 0, <<LastCell(typed)>> \o made.cells), Push(<<>>))

ForceCall ==
  /\ Steps /\ Forcing("syntax") /\ Forced.code.kind \in Calls
  /\ LET c == Forced.code
         made == DelayParts(Begun(machine.task.cell), c, Forced.env, Len(Delayed(c)))
         waits == IF c.kind = "App" THEN Pending("apply", <<made.cells[1]>>, NoValue) ELSE Pending(c.kind, <<>>, NoValue)
     IN  query' = made.query /\ Continue(ForceTask(Last(made.cells)), Push(<<waits>>))

Popped == SubSeq(machine.stack, 1, Len(machine.stack) - 1)
Pops(op) == Steps /\ machine.task.op = "none" /\ machine.stack # <<>> /\ Last(machine.stack).op = op
Waiting == Last(machine.stack)

\* What a forced cell was made of is released, unless it is its origin.
Update ==
  /\ Pops("update")
  /\ query' = [query EXCEPT !.cells[Waiting.cells[1]] =
                 IF query.origins THEN [@ EXCEPT !.state = "forced", !.value = machine.value]
                 ELSE Cell("forced", @.op, NoCode, 0, <<>>, machine.value)]
  /\ Return(machine.value, Popped)

Project ==
  /\ (Pops("Fst") \/ Pops("Snd")) /\ machine.value.tag = "Pair"
  /\ Continue(ForceTask(machine.value.cells[IF Waiting.op = "Fst" THEN 2 ELSE 3]), Popped)
  /\ UNCHANGED query

ApplyFunction ==
  /\ Pops("apply") /\ machine.value.tag = "Lam"
  /\ LET c == machine.value.code
         framed == NewFrame(query, Frame(machine.value.env, c.payload, Waiting.cells[1], c))
     IN  /\ query' = NewCells(framed, <<Delay(c.kids[2], LastFrame(framed))>>)
         /\ Continue(ForceTask(LastCell(query) + 1), Popped)

ApplyConstructor ==
  /\ Pops("apply") /\ machine.value.tag = "Con" /\ Len(machine.value.cells) < Arity(machine.value.code.payload)
  /\ Return([machine.value EXCEPT !.cells = @ \o Waiting.cells], Popped)
  /\ UNCHANGED query

ApplyEliminator ==
  /\ Pops("apply") /\ machine.value.tag = "Elim"
  /\ Continue(ForceTask(Waiting.cells[1]), Append(Popped, Pending("eliminate", <<>>, machine.value)))
  /\ UNCHANGED query

\* The clause, applied to each argument and to the eliminator's value at it.
Eliminate ==
  /\ Pops("eliminate") /\ machine.value.tag = "Con"
  /\ Len(machine.value.cells) = Arity(machine.value.code.payload)
  /\ LET con == machine.value
         clause == Waiting.value.cells[Clause(con.code.payload)]
         n == LastCell(query)
     IN  IF con.cells = <<>>
         THEN query' = NewCells(query, <<Ready(Waiting.value)>>) /\ Continue(ForceTask(clause), Popped)
         ELSE /\ query' = NewCells(query, <<Apply(clause, con.cells[1]), Ready(Waiting.value),
                                            Apply(n + 2, con.cells[1]), Apply(n + 1, n + 3)>>)
              /\ Continue(ForceTask(n + 4), Popped)

Finished == Steps /\ machine.task.op = "none" /\ machine.stack = <<>>
IsEta(v) == v.tag = "Lam" /\ Contracts(v.code.payload, v.code.kids[2])
\* What decides it is read: the body, and, if it is an application to the variable, all of what is applied.
EtaReads(v) ==
  IF v.tag # "Lam" THEN {}
  ELSE LET body == v.code.kids[2]
       IN  {body} \cup (IF body.kind # "App" THEN {}
                       ELSE {body.kids[2]} \cup (IF body.kids[2] = Name(v.code.payload) THEN Within(body.kids[1]) ELSE {}))

\* A function that only applies another is that one, in an instance of its own.
Eta ==
  /\ Finished /\ IsEta(machine.value) /\ Readable(EtaReads(machine.value))
  /\ LET v == machine.value
         framed == NewFrame([query EXCEPT !.copied = @ \cup EtaReads(v)], Frame(v.env, "", 0, v.code))
     IN  /\ query' = NewCells(framed, <<Delay(v.code.kids[2].kids[1], LastFrame(framed))>>)
         /\ Continue(ForceTask(LastCell(query) + 1), <<>>)

Shown(kind, payload, parts) == [kind |-> kind, payload |-> payload, parts |-> parts]
Observation(v) ==
  CASE v.tag = "Con" -> Shown("Con", v.code.payload, v.cells)
    [] v.tag = "Pair" -> Shown("Pair", "", v.cells)
    [] v.tag \in {"Lam", "Elim"} -> Shown("Function", "", <<>>)
    [] OTHER -> Shown("Type", "", <<>>)
\* The parts of the head a closed code has.
RECURSIVE Fields(_)
Fields(h) == IF h.kind = "App" THEN Append(Fields(h.kids[1]), h.kids[2]) ELSE IF h.kind = "Pair" THEN h.kids ELSE <<>>
RECURSIVE Constructor(_)
Constructor(h) == IF h.kind = "App" THEN Constructor(h.kids[1]) ELSE h
ShownOf(h) ==
  CASE Constructor(h).kind = "Con" -> Shown("Con", Constructor(h).payload, Fields(h))
    [] h.kind = "Pair" -> Shown("Pair", "", Fields(h))
    [] h.kind \in {"Lam", "Elim"} -> Shown("Function", "", <<>>)
    [] h.kind \in TypeKinds -> Shown("Type", "", <<>>)
    [] OTHER -> Shown(h.kind, "", <<>>)

Publish ==
  /\ Finished /\ ~ IsEta(machine.value) /\ Readable(EtaReads(machine.value))
  /\ LET v == machine.value
         shown == Observation(v)
         parts(h) == Fields(ShownHead(h.means))
     IN  /\ query' = [query EXCEPT !.copied = @ \cup EtaReads(v),
                                   !.heads = [c \in DOMAIN @ \cup {machine.goal} |-> IF c = machine.goal THEN v ELSE @[c]]]
         /\ published' = [published EXCEPT
              !.seen = @ \cup {[cell |-> machine.goal, shown |-> shown]},
              !.handles = @ \cup {[cell |-> shown.parts[i], means |-> parts(h)[i]] :
                                    <<h, i>> \in {h \in published.handles : h.cell = machine.goal /\ DOMAIN parts(h) = DOMAIN shown.parts}
                                                 \X DOMAIN shown.parts}]
         /\ machine' = Idle

Undisturbed == Deviations < MaxDeviations /\ published.readings = {}
ResetNothing == query
Reset == [query EXCEPT !.cells = [c \in DOMAIN @ |-> IF @[c].state = "forcing" THEN [@[c] EXCEPT !.state = "delayed"] ELSE @[c]]]

\* An operation that fails: what it was forcing is delayed again, and some parts were.
Stop ==
  /\ Running /\ Undisturbed
  /\ world' = [world EXCEPT !.disturbed = @ + 1]
  /\ machine' = Idle
  /\ \/ query' = Reset
     \/ /\ Steps /\ Forcing("syntax")
        /\ \E k \in 1 .. Len(Delayed(Forced.code)) : 
             query' = DelayParts([Reset EXCEPT !.copied = @ \cup {Forced.code}], Forced.code, Forced.env, k).query
  /\ UNCHANGED published
Fail ==
  /\ Running /\ ~ (world.open /\ Readable(Demanded \cup (IF machine.task.op = "none" /\ machine.stack = <<>> THEN EtaReads(machine.value) ELSE {})))
  /\ query' = Reset /\ machine' = Idle
  /\ world' = [world EXCEPT !.failures = @ + 1]
  /\ UNCHANGED published

\* A rollback, a commit or the session's end moves handles; a query is disposed of,
\* or its instance has failed.
MoveKernel ==
  /\ Running /\ Undisturbed /\ world' = [world EXCEPT !.held = FALSE, !.disturbed = @ + 1]
  /\ UNCHANGED <<query, machine, published>>
Close ==
  /\ Running /\ Undisturbed /\ world' = [world EXCEPT !.open = FALSE, !.disturbed = @ + 1]
  /\ UNCHANGED <<query, machine, published>>

\* Within the kernel's handles.  What it copies is left out: nothing moves after it.
Readback ==
  \E h \in published.handles, mode \in {"value"} \cup (IF query.origins THEN {"outer"} ELSE {}), head \in BOOLEAN :
    /\ ~ Running /\ world.open /\ world.held
    /\ Cardinality(published.readings) < MaxReadings
    /\ head => h.cell \in DOMAIN query.heads
    /\ LET v == query.heads[h.cell]
           read == IF head THEN ReadValue(query, v, IF mode = "outer" /\ v.tag \notin Data THEN "origin" ELSE mode)
                   ELSE ReadCell(query, h.cell, mode)
       IN  published' = [published EXCEPT !.readings = @ \cup
             {[cell |-> h.cell, mode |-> mode, head |-> head, means |-> h.means, term |-> read.term, stable |-> read.stable]}]
    /\ UNCHANGED <<query, machine, world>>

RuntimeStep ==
  /\ \/ LookUp \/ Hit \/ ForceApplication \/ ForceVariable \/ ForceDefinition \/ ForceValue \/ ForceCall
     \/ Update \/ Project \/ ApplyFunction \/ ApplyConstructor \/ ApplyEliminator \/ Eliminate \/ Eta
  /\ UNCHANGED <<published, world>>
RuntimeNext ==
  Begin \/ RuntimeStep \/ (Publish /\ UNCHANGED world) \/ Stop \/ Fail \/ MoveKernel \/ Close \/ Readback
RuntimeSpec == RuntimeInit /\ [][RuntimeNext]_runtimeVars

-----------------------------------------------------------------------------
(* Every observation is the head that its handle's term has, and no step   *)
(* meets a variable that is not bound, a cell that waits for itself or a   *)
(* value it has no use for: whatever was shared, stopped and tried again,  *)
(* or cut off from the kernel.                                             *)
Unusable ==
  LET v == machine.value
  IN  CASE Waiting.op \in {"Fst", "Snd"} -> v.tag # "Pair"
        [] Waiting.op = "apply" -> v.tag \notin {"Lam", "Elim"} /\ ~ (v.tag = "Con" /\ Len(v.cells) < Arity(v.code.payload))
        [] Waiting.op = "eliminate" -> v.tag # "Con" \/ Len(v.cells) # Arity(v.code.payload)
        [] OTHER -> FALSE
ObservesHead ==
  /\ \A s \in published.seen, h \in published.handles :
       s.cell = h.cell =>
         LET shown == ShownOf(ShownHead(h.means))
         IN  <<s.shown.kind, s.shown.payload, Len(s.shown.parts)>> = <<shown.kind, shown.payload, Len(shown.parts)>>
  /\ Running =>
       /\ ~ (machine.task.op = "lookup" /\ machine.task.env = 0)
       /\ ~ (machine.task.op = "force" /\ Forced.state = "forcing")
       /\ ~ (machine.task.op = "none" /\ machine.stack # <<>> /\ Unusable)

(* A call that is written several times in a scope is one cell in each     *)
(* instance of it, so that it is computed once; a stop may end that early. *)
CallsOnce ==
  world.disturbed = 0 =>
    \A c, d \in DOMAIN query.cells :
      LET a == query.cells[c]
          b == query.cells[d]
      IN  a.op = "syntax" /\ a.code.kind \in Calls /\ a.env # 0 /\ a.code = b.code /\ a.env = b.env => c = d

(* What is read back is closed and has the value of what the handle stands *)
(* for, functions and types with all that their frames bind; and a reading *)
(* that is kept for later readings is what a later one would give.         *)
ReadbackMeans ==
  \A r \in published.readings :
    /\ FreeVars(r.term) = {}
    /\ ValueOf(r.term, 0) = ValueOf(r.means, 0)
    /\ r.stable /\ ~ r.head => ReadCell(query, r.cell, r.mode).term = r.term
=============================================================================
