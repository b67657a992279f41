# Verification of Cubist Math

TLA+ models of the parts of Cubist Math that are hard to get right and hard to
test, the TLC runs that check them on small instances, and TLAPS proofs for
every instance. Sources are named by their path from the repository's root,
those under `web/` often by their file alone.

Run TLC with `tlc -config X.cfg M` for the runs in `PROJECT.json`, and check
the proofs with `tlapm M.tla` for the eight modules whose names end in `Proofs`.
`PROJECT.json` also maps each definition to the lines it models, lists the
hazards with the properties that cover them, and names a mutant for every
property: a plausible bug that the property finds.

## The system

Cubist Math checks proofs with a small kernel in C, compiled to WebAssembly and
driven by JavaScript, in web workers behind a page or from a command line.

| Component | State | Operations | Hard behaviour |
|---|---|---|---|
| Syntax arena (`kernel/src/term_store.c`) | nodes by handle, a hash index of identical syntax, the next fresh symbol, a latched error | make a node, share it, grow the index, switch sharing | tombstones after a truncation, a failed allocation of the index, handles used again |
| Definitions, signatures, checkpoints (`definitions.c`, `signatures.c`, `checkpoint.c`) | tables, counts at the checkpoint, the relocation of the last commit | define, look up, open/extend/close a signature, checkpoint, roll back, commit with compaction | what is reachable, caches by handle, a signature across transactions |
| Judgement graph (`instructions.c` and the instruction families) | judgements, context entries, the remembered entry of each dimension | one instruction per rule | contexts closed under dependencies, discharge in dependency order, stale memory after a rollback |
| Paths and systems (`instruction_paths.c`), Glue (`instruction_glue.c`) | tubes and pieces added one at a time, overlaps still to be shown | add a tube, show an overlap, compose | faces on which a judgement holds; a 64-bit word of overlaps |
| Levels (`levels.c`, `cubical-levels.mjs`); formulas, faces, intervals (`formula.c`, `interval.c`, `faces.c`, `translator/lattice.mjs`) | shared storage of normal forms | arithmetic, comparison, substitution | absorption, limits and overflow |
| Substitution; comparison; normalisation (`term_substitution.c`, `term_conversion.c`, `term_normalize.c`) | memos by handle | functions of syntax | capture, stale memos |
| Queries, budgets, deadlines (`queries.c`, `deadline.c`) | step budget, deadline, latched error | run a query again with twice the budget | a budget that leaks into the next operation |
| WebAssembly bridge (`wasm/cubical_bridge.c`) | sessions, tokens, a generation of handles | calls by handle | a generation that repeats |
| Kernel client (`cubical-kernel.mjs`, `cubical-transaction.mjs`, `cubical-publication.mjs`, `cubical-variables.mjs`) | maps from names to handles and indices, caches of nodes, entry names | begin, commit or roll back a declaration with the maps | a commit that moves handles under the maps; one that fails; an instance that throws |
| Instruction driver and elaborator (`cubical-instruction-driver.mjs`, `cubical-elaborator.mjs`) | scopes, derivations kept by term and scope | derive a term, search for conversions | a binder that takes an entry in use; a derivation kept for too small a scope |
| Program (`cubical-program.mjs`, `module-resolution.mjs`) | modules held with their text, imports and names | check a source: discover, resolve, invalidate, load | repeated checks over edited files, one name at two places |
| Runtime (`cubical-runtime.mjs`) | cells forced at most once, frames, calls shared in a scope, copied syntax | observe a value, stop, read it back | stops and moved handles between two steps; sharing; open terms |
| Checking worker (`cubical-worker.mjs`, `contextual-session.mjs`) and its console (`contextual-console.mjs`) | a queue, the installed program and its epoch, staged contexts, sessions | check, install, open a context, evaluate | an edit during a check; late answers; a fault in the middle |
| Page transport (`worker-requests.mjs`, `worker-maintenance.mjs`, `proof-watchdog.mjs`, `proof.mjs`) | pending requests with deadlines, maintenance, the current worker | request, answer, time out, replace the worker | late answers, deadlines of queued requests, replacements that race |
| REPL (`repl-session.mjs`, `repl-console.mjs`, `cli/repl.mjs`) | entries as modules over one another, the recorded session | enter, reset, restart, restore on a new program or worker | a reset during a restore, names that a program still holds |
| Language front end (`cubist/`, `translator/`) | owned names, groups of declarations, identities of binders | parse, resolve, compile matches, declare items, substitute | groups rolled back, names kept three times over, capture |
| Printing and naming (`cubical-source-text.mjs`, `display-naming.mjs`, `diagnostics.mjs`) | none | print a term, choose the names it shows | text that reads back as another term |
| Build lock and stamp (`tools/build-stamp.mjs`, `Makefile`) | lock directories, the stamp, the outputs | take, recover and release the lock; invalidate, compile, stamp | killed processes, edits while the compiler runs |

A kernel call is atomic: the kernel has one thread. What interleaves is the
order of calls, on the page the messages between the page and its workers, and
processes at the build. The kernel reports errors by latching one: until it is
cleared, every call but those of the checkpoint does nothing.

What makes each component correct: nothing refers to discarded syntax and equal
syntax is found again (arena); what survives a transaction is what was meant by
it before (checkpoints); every judgement keeps the assumptions and faces it was
derived under (judgement graph); normal forms decide what they stand for
(levels, formulas); the maps name what the kernel has (client); a derivation
says what was written (driver); a check by a program that held other modules
answers as a new one would (program); what is shown is the value of the term
and was computed for the source in the editor (runtime, worker, console); every
request settles and a worker is replaced only for a fault (transport); a
session is what was entered, wherever it runs (REPL); what is declared, printed
and substituted means what the source says (front end); a build that runners
accept was compiled from the sources there are (build).

## What is modelled

### The kernel

| Module | Models | Correspondence |
|---|---|---|
| `SyntaxArena` | the arena of nodes and its index | A node is a record of kind, payload and children. `Probe`, `Intern`, `Reserve` and `Make` are the linear probing, insertion, growth and `ck_node` of `term_store.c`, with the slots of the table explicit. Hashes are a constant, so collisions are the instance's choice. |
| `TermStore` | the tables over the arena and the transaction | One action per call of the interface. `Commit` computes what is reachable from the roots, renumbers it, relocates every table, forgets the caches and indexes the survivors again, as `cc_kernel_commit_checkpoint` does in one call. |
| `Judgements` | contexts and faces of judgements | A term is reduced to its free names and the definitions it uses, a context is the set of its entries. Each action has the premises an instruction checks, the entries it makes and the context it concludes; instructions with the same effect share one. |
| `Levels` | universe levels and their normal forms, in C and in JavaScript | `NormalOf` is the normal form of a level, with a constant and an offset for each variable or a constant that absorbs them; a behaviour builds a level form by form. |
| `Lattices` | interval terms and faces | A formula is a set of clauses kept as an antichain; an operation returns the set of its results, none when it refuses its operands. |

### Between the kernel and the program

| Module | Models | Correspondence |
|---|---|---|
| `EntryNames` | which entry a binder is and how it is spelled | A type is a handle of a class of alike types. `Truncate` is the end of a checkpoint, which may also move handles. |
| `KernelClient` | the maps and caches beside a session, transactions, publications, budgets | Each call of the client is an action; an exception out of the instance may end it at any call it makes (`Trap`), and the native commit may fail (`CommitRefused`). The kernel's part is an arena that commits compact and rollbacks cut. |
| `Derivation` | scopes, entries and kept derivations of the driver | `Narrowed` is the part of a scope a term reads, `Derive` the derivation kept for it. A judgement is its term and context. |
| `RuntimeQuery` | the lazy machine and readback | One action per step of the machine (`#run`), so that a stop, a disposal or a rollback may come between any two; `machine` is its task, stack and value. `ReadCell`, `ReadValue` and `ReadClosure` are the modes of readback. What a handle stands for is a closed term, evaluated beside it by substitution. |
| `ModuleCheck` | discovery, resolution, invalidation, loading | A source is its imports, the declarations it refers to and whether it parses; `Reads` may fail between any two. |

### Worker, page, REPL, build

| Module | Models | Correspondence |
|---|---|---|
| `CheckWorker` | the worker's queue, checks, contexts and the console that asks | Messages in order each way; the worker takes messages while a check waits for an import. A source is its version. |
| `ReplSession` | sessions of entries and the command line around them | Extends `ModuleCheck`: each entry is checked as a module `repl_N` by the program of the last check or the session's own. |
| `ProofPage` | a proof page and its worker: requests and deadlines, maintenance, replacement, halting, the console's record | Each event of the page (a message, the end of a fetch, a timer, the reader) is an action, and so is each place where a promise chain goes on; the chains go on before the next event (`Due`). `net` is what was asked, what waits for maintenance (`gated`) and what the worker was sent; `jobs` is the queue of `workerMaintenance` with the phase of its first. |
| `Filter` | `Array.prototype.filter` | The elements of a sequence at some positions, in order. |
| `BuildLock` | the lock of `web/dist` and its takeover | Each call to the file system, and each question whether a process is alive, is a step. A removal of a directory is two. `Kill` ends a process anywhere. |
| `Exclusion` | what the lock promises | One build begins only when none runs; `BuildLock` implements it. |
| `WebDist` | the recipe run under the lock, the stamp, edits of sources | Files are versions; a compilation is the pair of the versions it read first and last. Its steps are steps of a build that the lock started. |

In `ProofPage`, `Replace`, `StartWorker` and `WorkerReady` are the parts of
`replaceWorker` and `startWorker` between their waits. When the version the new
worker is to have is known, nothing is waited for between the end of the old
worker and the start of the new, and `Replace` is both. `Finish` is the end of
a job of maintenance with everything that goes on at once: the check or entry
that asked for it, and the requests that waited, in the order the promises
settle.

### The language

| Module | Models | Correspondence |
|---|---|---|
| `PatternMatch` | matches on several values, nested patterns | `Compiled` is the tree of matches on one value each; `FirstFit` compares running it with the clauses read in order. |
| `Notation` | the printer and the parser's grammar of what it prints | A text is a sequence of tokens. |
| `Declarations` | how items become declarations | One action per step of `translateModule`; whether a declaration elaborates, or the kernel refuses the result late, is an outcome. |
| `Bindings` | identities of binders in resolved source | An occurrence carries the alternatives that a pattern's bare name or an opened model leaves open. |
| `TermNames` | substitution without capture, keys up to bound names, the names a display shows | Each is compared with what the nameless term says. |

The `MC…` modules are the instances. Where a run asks several questions, a
variable (`focus`, `part`) chooses one for each behaviour, so that each is
explored deeply; together they have every action.

## The runs

| Run | Checks | What it shows |
|---|---|---|
| `store_index` | `IndexComplete`, `RelocationFaithful` | After any order of making, truncating, compacting, switching the index off and on, and failing to allocate it, every live node made with sharing is found by its key, and a commit moves handles to the same trees. |
| `store` | `NoDangling`, `CacheTruth`, `FreshUnused`, `DefinitionsPermanent` | Nothing kept refers to discarded syntax or to a definition or signature that is gone, also when a signature is opened in one transaction and extended or closed in another; a cached weak head is the weak head; a fresh symbol occurs nowhere; a definition keeps its meaning through every commit. |
| `contexts` | `FreeInContext`, `ContextsClosed`, `OneEntryPerName`, `DefinitionsClosed`, `TubesAgree`, `PremisesHold`, `NormalFormsDecide`, `FormulasMean` | Every binder over entries that depend on one another, and definitions, with the memory of dimension entries stale after a rollback; tubes that overlap were shown to agree before the system is used, also at the limit of the word; no tube, restriction or composition leaves the face it was derived on. Normal forms of levels and formulas decide what they stand for. |
| `build` | `FreshMeansBuilt`, `BuildsExclude`, `LockBuildersEnd` | Builds exclude each other under kills at any step, every builder that was started ends, and a build that no runner refuses was compiled from the sources there are, both outputs. |
| `page` | `MaintenanceAlone`, `SentToRunning`, `RecordMatches`, `EntryExtends`, `UpkeepSettles` | Whatever the worker does, maintenance has it to itself, requests are with the one worker that runs, a page that halted starts no worker by itself, and every request settles. When the console is idle its record is the session of the worker it counts as its own; an entry answered on the worker that had the session when it was made adds to it. The server names its version. |
| `program` | `HandlesTrue`, `BudgetsRepeat`, `SessionsCurrent`, `ChecksAsFresh`, `ExtensionsInScope`, `RestoreKeeps` | What JavaScript names, the kernel has, after commits that move handles, refusals and traps, and what was published is defined; a query's growing budget starts from the same one again; a panel shows what was computed for the source in the editor, open sessions are of the installed program and none is leaked; a check of edited files by a program that holds modules answers as a new program; what a session accepted was checked and is in scope; a session moved to another program is the same or names what it lost. |
| `front` | `FirstFit`, `ReadsBack`, `AvailableIsDefined`, `OneMeaning`, `Hygienic`, `SubstitutionMeans`, `ShownMeans` | A compiled match takes the first clause that fits, with its names; what is printed reads back; a name stands for what is defined, and for its owner's item under each of its three spellings, whatever was rolled back; clones and substitutions bind each name once and capture none; substitution and shown names mean what the term means. |
| `driver` | `DerivedMeans`, `DerivationStands`, `ObservesHead`, `CallsOnce`, `ReadbackMeans` | What is derived says what was written, and does not depend on what was left out of a scope or kept from before. What the lazy machine shows is the head of the term, though it was stopped at any step or the kernel moved; a repeated call is one cell; what is read back is closed and has the term's value, and a reading kept for later stays what a new one gives. |
| `overtaken_restore` | `RecordGrows` (violated) | The page of `page` without a version from the server. |
| `query_behind_check` | `ChecksRunOn` (violated) | A short request behind a long check ends the check. |
| `orphaned_build` | `OneBuild` (violated) | A builder killed alone leaves its compiler running; the next builder takes the lock over, beside it. |
| `restarted_session` | `EntriesAreChecked` (violated) | After `/restart` an entry is answered without being read. |

### Bounds

*Store.* Three nodes suffice for the arena's cases: a node that collides with
another, a shared child, a tombstone before a live node, a survivor that is
renumbered over a discarded handle. The table has a minimum of two slots in
`store_index` (16 in the code), so that growth, full probes and tombstones meet
in three nodes. In `store` one definition is made, rolled back and made again,
with another meaning for the same reference; the two symbols are a definition
and a sort, or a sort and its constructor, which is added, rolled back or
committed apart from its signature.

*Judgements.* Up to six judgements and four entries: a chain of dependencies
(a variable, a face under it, a judgement over both) with one binder above it.
One dimension tells a clause from its negation and from no clause; two tell
clauses that are independent. The focus `systems` sets the limit of overlaps to
2 so that a tube beyond it occurs; the code has 64. There, instructions that
are about no system come first: they read none, and the state they lead to is
the same in every order. Levels have two variables,
constants and tiers up to 2, and assignments of values up to 3, which is one
more than a constant, so that absorption, ties and refused sums occur; what is
checked of them is proved for all. Formulas have two dimensions and four clauses, and
operands of at most two clauses, so that absorption, contradiction and refusals
occur; what is checked of them is proved for all, too.

*Build.* Three builders cover a holder that dies, a recoverer, and a third that
saw the dead holder but acts late. One sleep before the time-out keeps it
reachable. Two builders and two edits cover the stamp: one edit under a
compilation, one after it.

*Page.* The upkeep instance has four pieces of maintenance, the first start
among them, three requests besides maintenance's own and one check: a failure
while an update is asked for, a failure of the replacement, a halt and the
retry after it all occur. A deadline of checking work is twice a query's; a
check advances once. The console instance leaves out deadlines, for which a
lost worker stands, and has six requests: two entries, a worker that fails in a
check, the check on the next and the entry after it.

*Program.* A behaviour keeps to one part: declarations, binders, budgets,
messages, checks or the console. The second generation is the last there is, so
that it reaches its end; two definitions and two entries, with two variants of
a name, are what a commit moves and a rollback drops; a native commit is
refused before the second generation, and a reader takes its token between
declarations. A source is edited once, with two checks, contexts and runs: an
edit before, during and after each. Modules are three files and a bundled one,
in places that resolve an import to different files for different importers;
three edits, and outages of one file. A console has three entries, one fault,
one edited file and two checks.

*Front end.* Two values with up to three clauses over types with nullary and
recursive constructors, values three deep; terms four forms deep; four items,
where an item is chosen when it is next, which is all that the state reads of
it. Three operations on resolved source: a clone, a substitution and a
decision; members offered by an opened model are given after the last
substitution, as in the code. Two forms around a leaf, with names that a
display may take for one another; a formula is a single literal and a system
has one tube. Names given to a display are apart from pinned names and
dimensions, as those of `cubical-program.mjs:849` are.

*Driver and runtime.* Terms two forms around a variable under contexts of up to
three assumptions that shadow and depend on one another and on dimensions; two
derivations of the small ones. Values are those of some twenty closed terms:
calls repeated at the top, in a function and behind a definition, closures over
terms and types that shadow, projections, functions that only apply another,
recursion. Handles are observed in the order they were given. One deviation
from that is made (`MaxDeviations`): an operation is stopped, at any step, or
the handles move, or the query is closed, or a handle is observed before one
given earlier, or again, when its function is contracted anew and its head
replaced. One reading is taken, at any time between observations, and after it
nothing is stopped or moved. One stop is enough: it resets all that was under
way. A stop together with an observation out of order is beyond the bound.

### Fairness

The kernel has no background work and its specifications have no fairness, nor
have those of what runs in one call. `LockBuildersEnd` assumes that a process
that runs takes its next step and that a build ends by itself; nothing has to
start and nothing has to be killed. Waiting is bounded by the time-out, so this
shows that no path of recovery goes round without reaching it.

`UpkeepSettles` assumes of the page (`Fairness`) that promise chains go on,
that the fetch of a version ends, that a worker is loaded or reported as lost,
and that time passes. It does not assume that a worker answers: deadlines are
what settles a request then, and the reader does not ask for ever.

## The proofs

`TermStoreProofs` proves all that the runs check of the store, and its types,
for any bounds, kinds, symbols, minimal capacity and hash, from the invariant
`StoreIInv`. None of it is inductive alone.

- `ShapeInv` types the tables and says of the index that every live node is
  reached from its hash before an empty slot, and that an empty slot exists. A
  commit indexes the survivors again without reserving (`checkpoint.c`, after
  "The survivors have new handles"), on top of the entries it abandons. There
  is room because an index is at most half used once something was made since
  the checkpoint: every call that makes a node reserves first, and a toggle or
  a failed allocation only drops the index. Half of it therefore holds the
  entries in use and the other half the survivors.
- `StoreInv` says that what the tables name is live and registered, twice: of
  the tables as they are, and of the tables as a rollback would leave them,
  with the nodes below the checkpoint. The second is what a rollback needs, and
  a commit the first.
- `WeakInv` and `CacheInv` say that a cached head is live, is no reference, and
  is the one cached for the value the reference was defined as. A trail of
  references ends, since each names an older definition, and then all of it has
  one cached head.

`DefinitionsPermanent` and `RelocationFaithful` compare the trees that handles
stand for. That a tree depends only on the nodes below its handle
(`SharedTrees`), and that a commit gives a survivor the tree it had
(`CommitTrees`), is by the least node that would be a counterexample; that the
survivors include the children of survivors, in order, makes their children's
new handles smaller than their own.

`JudgementsProofs` proves `ContextsClosed`, `FreeInContext` and
`DefinitionsClosed` for any symbols, dimensions, limits and bounds. None is
inductive. A rollback truncates entries and definitions under the judgements
that stay, so the invariant `JInv` also says that what stood at a checkpoint
names nothing made after it (`CheckpointOK`); and a dimension's remembered
entry is used whenever its name and kind fit, so an entry of a dimension must
depend on nothing. The proof has a lemma for what each group of instructions
keeps (publishing a judgement, making an entry, making several entries for
dimensions, truncating) and cites it for each action.

On top of `JInv` it proves the types, that a name has one live entry and that
two overlapping tubes agree or are pending. The second needs the table
of remembered entries to name, for each live entry of a dimension, that entry:
an instruction that finds none remembered may then make one. `PremisesHold`
follows from `PInv`: a face that a premise assumes is assumed by the conclusion
too and is of no dimension the rule binds, or is part of what is asked of the
premise. A binder keeps it because a face depends on the one entry of each of
its dimensions, which then cannot be discharged; a rollback because the entry
of a rule is no younger than its judgement.

`BuildLockProofs` proves that builds exclude each other, and that the lock
implements `Exclusion`, for any number of builders and any time-out, assuming
that a build dies with its builder (`~ Orphans`). The invariant `LInv` says
whose the lock is at each step. Its subtle part is `OwnersStarted`: the owner a
recoverer saw has *ended*, which no later step undoes, and a lock still
recorded as its own is therefore nobody's; checking the owner again under the
second lock is what makes that hold for a recoverer that is late.

It also proves `FreshMeansBuilt` under the same assumption and that edits are
not undone: a step of the recipe is a step of the build that has the lock, so
what it hashed before compiling and what it reads after are of one build, and
the versions of sources only grow.

`ProofPageProofs` proves `SentToRunning`, `MaintenanceAlone`, `RecordMatches`
and `EntryExtends` for any deadlines and bounds, with an invariant over each
one before it. `PageInv` says what holds between workers: while a version is
asked for, the old worker has stopped and the page has none for ready, so that
the new one is alone; while a worker is loaded nothing is sent; and jobs behind
the first have not begun. `DataInv` accounts for requests: each is with the
worker, waits for one job, or is settled. `AloneInv` says that a job that has
begun has only its own request with the worker, and which jobs can still
replace a worker: a fault is of the last worker only if no job before it starts
one, which is what keeps a page that stopped replacing workers from starting
one by a job asked for earlier. `ConsoleInv` follows what the console waits for:
an answer that is not recorded yet, of an entry or a restore but never of both,
is what the worker's session has; otherwise the record is, or a reset that will
empty it is on its way; and a session of a worker that the record is not of is
empty. A reset while a session is restored is the case that needs the epoch.

`ClientProofs` proves `BudgetsRepeat` for any budget, limit and number of
steps needed. The tries of a query are a recursive function of the budget;
that they end, and with an answer if the limit allows one, is by the least
distance from the limit that would be a counterexample.

It also proves `HandlesTrue`, from `KInv`. The maps and caches need what an open
transaction remembers to lie below its checkpoint (`TransactionInv`), and a
commit to move every surviving node without changing it, which is what the
ranks of the survivors give (`MovedRight`). The names need more: that a
truncation leaves a group right because the oldest entry of a group has the
group's own type, so that a group that keeps any entry keeps that one, and its
type lies below the checkpoint; and that a key not touched since the last
truncation knows only types of settled nodes, which is why a truncation need
not look at it. That a new entry's spelling is nobody's is the pigeonhole
principle: there are more variants to try than entries.

Of the worker, `ClientProofs` proves `SessionsCurrent` for any number of edits,
checks, sessions and faults, from `WInv`. What is on its way is one pipe: messages, the
queue, the request worked on, the answers. Checks keep their order in it and
the last one asked has the console's epoch (`OrderInv`), so that an answer of
that epoch is of the source in the editor (`RepliesOK`); a check queued or
being done leaves nothing installed and no session open (`ProgramInv`). A
selection has at most one request unanswered, so no session is opened over
another (`SelectionInv`), and each session that is open is the one shown, is in
an answer still to come, or is about to be closed or revoked by a message under
way (`HeldInv`): none leaks.

`DeclarationsProofs` proves `AvailableIsDefined` and `OneMeaning` for any labels,
sources, imports and number of items. Neither is inductive: while a theory's
groups are under way, names that an item owns still stand for what they stood
for before it, and a failure puts back an environment of several declarations
ago. The invariant `DInv` says what the queue can be (one item, or the rest of a
theory's groups, `Chain`), and what the environment is worth (`EnvOK`): it keeps
both properties but for the names still to come, which are those in the queue.
While a group is open (`Busy`) this is said twice, of the environment as it is
and of the one that a failure restores, where the whole group is still to come.
That a group restored is published as unavailable, or a group blocked, is then
the same step as publishing a declaration's names: `Publishing` says, of any
values for names still to come, what must hold of them. A failure's root is
carried through `Blocker`, and a group that waits has a failed or blocked group
before it, whose root it takes. The proof assumes of a theory's declarations
(`DeclarationAssumption`) what the generators give: the theory's own name is
among them, each has a family, and a family comes after those it depends on.

`SequenceProofs` has what appending to a sequence and cutting it keep, and what
`Array.prototype.filter` keeps, in `Filter` by the ranks of the positions kept;
and that any numbers have a least one, by which the others' proofs induct.

`AlgebrasProofs` proves `NormalFormsDecide` for any variables and bounds. The
inductive invariant is that the value of each form built is that of the level
it stands for, under every assignment (`LevelsMeant`). Ordinals are compared
through the set of those up to a value, which is read off a form's parts, so
that a maximum is a union; limits, where a variable stands for every natural
number, and instances have a lemma each. That the comparison of forms is
complete takes an assignment: one variable has the largest value there is and
the others zero, which tells its offset apart from everything else.

It also proves `FormulasMean`, for any finite set of dimensions, any bound and
any operands within it. Inserting clauses one at a time leaves the least ones
(`InsertionCompacts`), whatever the order (`CompactionIsUnique`), and comparing
those decides entailment and equality (`ComparisonsDecide`): a clause is its own
witness, for at the point where just its literals hold, another formula holds
only by a clause within it. The joins and meets over a whole formula are folds
over finite sets, which `FoldExists` turns into functions of the part already
taken; what such a fold has built after a part means the union, or the
intersection, of what that part means (`JoinAllMeans`, `MeetAllMeans`). Both
ways of substituting then give what holds where the dimension has the term's
value (`SubstitutedIs`). A point of a face stays one when it is moved there,
since a term is not both one and zero at it (`MovedIn`).

The assumptions on constants are those of the code: names numbered apart,
finitely many dimensions, operands within the bound on clauses, a mark for no
owner that is no process, variables apart from constants, a hash that is a
number, labels closed under prefixes, and the declarations of a theory in the
order they are generated.

Only model-checked: `LockBuildersEnd` and `UpkeepSettles`; `ChecksAsFresh`,
`ExtensionsInScope` and `RestoreKeeps` of the run `program`; the other
properties of `front`, and `driver`. Liveness and `ENABLED` are beyond the proof
system. So is induction over data: what a recursive definition computes for
every input (the modules found and loaded through imports, substitution, a
compiled match, a value) stays with TLC; the trees and trails of `TermStore` are functions on an initial
segment of the numbers, for which a least counterexample is enough.

## Abstractions

- Syntax in `SyntaxArena` has five kinds of node, which stand for nodes without
  children, with children, with a child that may be missing, and with
  references to a definition or a signature. Reductions are abstracted to
  unfolding.
- In `TermStore` a judgement may be about any syntax whose references are
  registered; in `Judgements` syntax is reduced to free names. The two agree on
  what each assumes of the other.
- Step budgets, work counters and deadlines appear as an error latched, or an
  operation stopped, at any step.
- `OneEntryPerName` and `FreeInContext` depend on symbols and dimensions being
  numbered apart, as they are in the code by kind.
- `Levels` and `Lattices` model both implementations by what they share. The
  order of clauses decides only which operands are refused as too large, and is
  left open; refusals for the work that is counted are left out.
- `KernelClient`'s nodes of the kernel are handles and classes. A query whose
  deadline passes, at any try, has no answer. `EntryNames` leaves out entries of
  levels, and the likeness that candidates are compared by first: types equal
  up to bound names are always alike.
- `Derivation` takes terms to be well typed, leaves faces out, and has the path
  lambda for the dimension binders, with and without the family it is at.
- `Judgements` and `TermStore` keep of a refused instruction what the store
  keeps; syntax made before the refusal adds to no judgement.
- `RuntimeQuery` has functions, pairs, a declared type with its eliminator,
  definitions and types. Level functions run as functions do, sums and the unit
  as the eliminator, injections as pairs; hypotheses over functions, the type a
  query has beside its term, constructors' instances and levels are left out.
  The declared type has no parameters, so that an instance would keep no
  environment.
- `ChecksAsFresh` is about what a check answers and holds. It leaves out
  modules under a name that a bundled module also has, which a program that
  holds the bundled one keeps.
- `Declarations` leaves elaboration out: it is an outcome. `Bindings` leaves
  out named notations and the namespaces of parents, `PatternMatch` path
  constructors, whose clauses may be left out.
- `ProofPage` is a page that is not embedded. Where several promise chains may
  go on, they do in any order, but for what the code's chains fix: an answer
  reaches the console before the maintenance that waited for it starts a
  worker. A console's session there is the number of its entries.
- A process id is not used again while a lock records it. File times are left
  out: a build that is fresh by its stamp may be run again, as by an older
  output's time.
- `FreshMeansBuilt` assumes that edits are not undone. An edit made and undone
  while the compiler reads leaves the hash of the sources as it was, and a stamp
  that vouches for what was compiled from the edit; `DistSpec` without that
  assumption shows it.

## Findings

`overtaken_restore`: whether an entry's session must be restored is decided
(`repl-console.mjs:199`) before the entry waits for maintenance
(`worker-maintenance.mjs:20`), by the number of workers, which a replacement
that first asks the server for a version has not counted up yet. Such an entry
is sent to the new worker without a restore. If a check waits before it, as
when Check was pressed twice and the first check failed with the kernel, the
entry is answered in a new session and its record replaces the recorded one.
`proof.mjs:1340` says the session is restored before the next entry. With a
version known, a replacement counts the worker at once, and the orders left are
those of a reader who restarts a page that gave up: the check that starts its
worker asks for the version first, and its check goes before the entry only if
an update asked for before the failures is declined in between. TLC finds that
with three checks, beyond the bounds of `page`. What holds of every order is
`EntryExtends`, of an entry that no replacement overtakes; it is proved.

`query_behind_check`: `proof-watchdog.mjs:9` lets a check run on while its
counters advance. An edit meanwhile asks the worker to revoke contexts
(`proof.mjs:1122`), which it cannot read while it checks; that request's 30
seconds pass and the page ends the worker with the check.

`orphaned_build`: `tools/build-stamp.mjs:91` promises one build at a time, but
the lock records the process that took it and not the build, its child. Killed
alone, that process leaves the build running and its lock is taken over.

`restarted_session`: `/restart` drops the session (`cli/repl.mjs:130`) and
keeps the program, which holds the modules `repl_1`, `repl_2` and so on that
the session checked. The next session numbers its entries from 1 again
(`repl-session.mjs:232`), and a module the program holds is not read again
(`cubical-program.mjs:139`, `387`): the entry is answered for text it was never
checked for. `repl-session.mjs:30` says that a new session forgets every name.

Met while modelling, and outside what the runs explore: a match on several
values with no clause at all ends in a `TypeError`
(`translator/patterns.mjs:113`) where lines 15 and 16 promise a missing case,
since with no row every pattern is a variable (line 156); and a theory's
parent is looked up by its theory record alone
(`translator/theories.mjs:359`), so that a local declaration of that name which
is no theory does not hide an imported theory.

## Not modelled

- Glue, equality judgements, and the admission of signatures: checks of shapes
  of terms by functions of syntax. Glue pieces are added as tubes are, whose
  faces and overlaps are modelled.
- The kernel's substitution by index and its memo, comparison and
  normalisation: recursive over terms, where a model is as long as the code and
  a bounded instance shows what a unit test shows. Substitution by name, which
  can capture, is `TermNames`.
- Implicit arguments (`translator/arguments.mjs`), the elaboration of each form
  and of theories, and the driver's search for conversions: their results are
  checked by the kernel, whose rules are modelled.
- The standalone console, embedded pages, what pages render, diagnostics, and
  tools of the command line beside the REPL: sequential, over parts that are
  modelled.
- Libraries, tests and documents.

## Plan

1. Done: the store, the judgement graph, the build; the page's worker and its
   console; the client's transactions, the worker, modules, sessions; the front
   end's matches, notation, items, bindings and names; derivations; levels and
   formulas; the proofs of the invariants within the prover's reach; the lazy machine and readback.
2. Implicit arguments: that a solution accepted without a guess is the only one.
3. Glue pieces as systems of their own in `Judgements`.
