----------------------------- MODULE ModuleCheck -----------------------------
(***************************************************************************)
(* How a check finds, reads and loads modules: the reader that resolves    *)
(* each import by where its importer lives (web/module-resolution.mjs) and *)
(* CubicalProgram.check, which discovers the sources, decides whether what *)
(* it holds is still theirs, and loads what it does not hold               *)
(* (web/cubical-program.mjs).  A program serves several checks while files *)
(* are edited and reads fail between them.                                 *)
(*                                                                         *)
(* A source is a record [imports, uses, declares, parses]: the modules it  *)
(* imports in order, those whose declarations it refers to, whether it has *)
(* a declaration, which goes by the module's name, and whether it parses.  *)
(***************************************************************************)
EXTENDS Naturals, SequencesExt

CONSTANTS
  FileNames,        \* the modules that files may hold
  Main,         \* the name of the checked source
  ReplNames,   \* <<"repl_1", ...>>: the entries checked on top of it
  Files0,       \* the files there may be at first: functions of Places \X Names
  Edits,        \* what an edit writes: <<place, name, source or None>>
  Sources,      \* the sources given to a check
  Bundled,      \* sources the program has itself, when no file can be read
  Outages,      \* the files that may be unreadable at a time, a set of sets
  CollectScopes,\* whether the program records scopes
  MaxEdits, MaxChecks, None

Places == {"library", "archive", "tests", "local"}

SearchOrder == [library |-> <<"library">>,
                archive |-> <<"archive", "library">>,
                tests |-> <<"tests", "library", "archive">>,
                local |-> <<"local", "library", "archive">>,
                source |-> <<"library", "archive">>]

ModuleNames == FileNames \union {Main} \union Range(ReplNames)

VARIABLES
  files,    \* [Places \X Names -> source or None]
  down,     \* the files that cannot be read now
  placed,   \* the reader: where each module was found; "source" where it has no place
  given,    \* the reader: the checked sources placed before their checks
  program,  \* what the program holds
  result,   \* the last check's result, until the files change
  edits, checks

checkVars == <<files, down, placed, given, program, result, edits, checks>>

EmptyProgram ==
  [modules |-> <<>>, sources |-> <<>>, library |-> <<>>, origin |-> <<>>,
   failed |-> {}, symbols |-> <<>>]

Has(f, n) == n \in DOMAIN f
Put(f, n, v) == [m \in DOMAIN f \union {n} |-> IF m = n THEN v ELSE f[m]]

-----------------------------------------------------------------------------
(* The reader.  A file that cannot be read ends the search: only a file    *)
(* that is not there lets it go on to the next place.                      *)

Locate(name, order) ==
  LET stops(p) == <<p, name>> \in down \/ files[<<p, name>>] # None
      hit == SelectInSeq(order, stops)
  IN IF hit = 0 THEN "nowhere"
     ELSE IF <<order[hit], name>> \in down THEN "unread" ELSE order[hit]

TextOf(name, at) ==
  IF at \in Places THEN files[<<at, name>>] ELSE IF Has(Bundled, name) THEN Bundled[name] ELSE None

\* The root whose file of its name a module came from, when that is its text.
OriginOf(name, text, at) ==
  IF at \in Places \ {"local"} /\ name \in FileNames /\ <<at, name>> \notin down /\ files[<<at, name>>] = text
  THEN at ELSE None

\* Once found, a module is taken from where it was found.
RefusedNever(st, name, text) == FALSE

\* Whether an import of `name` is another module than this check holds under its name.
Refused(st, name, text) ==
  \E d \in Range(text.imports) :
    /\ st.placed[d] # "source"
    /\ ~ (st.placed[name] = "source" /\ d \in st.given)
    /\ Locate(d, SearchOrder[st.placed[name]]) # st.placed[d]

-----------------------------------------------------------------------------
(* Discovery: a module's source, then its imports', depth first.  `st` has *)
(* what was prepared so far, the reader's places and the program.          *)

Broken == [broken |-> TRUE]
IsBroken(entry) == Has(entry, "broken")

LibraryOf(st, d) ==
  IF Has(st.prepared, d) /\ ~ IsBroken(st.prepared[d]) THEN st.prepared[d].library
  ELSE Has(st.program.library, d) /\ st.program.library[d]

\* The state before the imports of a module found at `at` are discovered.
Entered(st, name, text, at) ==
  [st EXCEPT !.placed[name] = at,
             !.prepared = Put(@, name, [text |-> text, library |-> FALSE, origin |-> OriginOf(name, text, at)])]

\* The state after them.
Prepared(deeper, name, text) ==
  IF Refused(deeper, name, text) THEN [deeper EXCEPT !.prepared[name] = Broken]
  ELSE [deeper EXCEPT !.prepared[name].library =
          deeper.prepared[name].origin = "library" /\ \A d \in Range(text.imports) : LibraryOf(deeper, d)]

RECURSIVE Discover(_, _, _, _), DiscoverText(_, _, _, _)
DiscoverText(st, name, text, at) ==
  IF text = None THEN [st EXCEPT !.prepared = Put(@, name, Broken), !.placed[name] = at]
  ELSE IF ~ text.parses THEN [st EXCEPT !.prepared = Put(@, name, Broken), !.placed[name] = at]
  ELSE Prepared(FoldLeft(LAMBDA s, d : Discover(s, d, None, name), Entered(st, name, text, at), text.imports),
                name, text)
DiscoverAt(st, name, at) ==
  DiscoverText(st, name, TextOf(name, at), IF at \in Places THEN at ELSE st.placed[name])
Discover(st, name, source, importer) ==
  IF Has(st.prepared, name) \/ (st.reuse /\ Has(st.program.modules, name)) THEN st
  ELSE IF source = None THEN DiscoverAt(st, name, Locate(name, SearchOrder[st.placed[importer]]))
  ELSE DiscoverText(st, name, source, st.placed[name])

\* Failures of an earlier check are forgotten.
InvalidatedByText(st) ==
  LET p == st.program IN
  \E n \in DOMAIN st.prepared :
    /\ Has(p.modules, n)
    /\ IsBroken(st.prepared[n]) \/ st.prepared[n].text # p.sources[n]

\* What the program holds is not what the discovered sources give.
Invalidated(st) ==
  LET p == st.program IN
  \/ CollectScopes /\ ~ st.reuse /\ p.modules # <<>>
  \/ \E n \in DOMAIN st.prepared :
       LET entry == st.prepared[n] IN
       IF Has(p.modules, n)
       THEN \/ IsBroken(entry)
            \/ entry.text # p.sources[n]
            \/ entry.library # p.library[n]
            \/ entry.origin # p.origin[n]
       ELSE ~ st.reuse /\ (n \in p.failed \/ Has(p.sources, n))

-----------------------------------------------------------------------------
(* Loading: imports first; a module that could not be prepared is a gap,   *)
(* and no module's environment.  An import of a module being loaded, and a *)
(* checked source that cannot be prepared, end the check where it is.      *)

Failed == [failed |-> TRUE]

\* What a module's declarations were checked in: its text over what its imports were.
EnvironmentOver(text, library, over, names, own) ==
  [text |-> text, library |-> library, over |-> over, verified |-> text.uses \subseteq names,
   names |-> IF text.uses \subseteq names THEN names \union own ELSE names]
ImportsHeld(p, text) ==
  [i \in DOMAIN text.imports |-> IF Has(p.modules, text.imports[i]) THEN p.modules[text.imports[i]] ELSE Failed]
Environment(p, name, text, over) ==
  EnvironmentOver(text, p.library[name], over, UNION {env.names : env \in Range(over) \ {Failed}},
                  IF text.declares THEN {name} ELSE {})

LoadBegun(st, name, entry) ==
  [st EXCEPT !.program.library = Put(@, name, entry.library),
             !.program.origin = Put(@, name, entry.origin),
             !.program.sources = Put(@, name, entry.text),
             !.program.failed = @ \ {name},
             !.visiting = @ \union {name}]
LoadEnded(st, name, env, main) ==
  [st EXCEPT !.program.modules = Put(@, name, env),
             !.program.symbols = IF env.text.declares
               THEN Put(@, name, [verified |-> env.verified, output |-> name = main]) ELSE @,
             !.visiting = @ \ {name}]
LoadOver(under, name, text, main) ==
  IF under.stopped THEN under
  ELSE LoadEnded(under, name, Environment(under.program, name, text, ImportsHeld(under.program, text)), main)

RECURSIVE Load(_, _, _)
Load(st, name, main) ==
  IF st.stopped \/ name \in st.visiting THEN [st EXCEPT !.stopped = TRUE]
  ELSE IF Has(st.program.modules, name) THEN st
  ELSE IF IsBroken(st.prepared[name])
  THEN IF name = main THEN [st EXCEPT !.stopped = TRUE]
       ELSE [st EXCEPT !.program.failed = @ \union {name}, !.failedHere = @ \union {name}]
  ELSE LoadOver(FoldLeft(LAMBDA s, d : Load(s, d, main), LoadBegun(st, name, st.prepared[name]),
                        st.prepared[name].text.imports),
               name, st.prepared[name].text, main)

Outputs(p) == {n \in DOMAIN p.symbols : p.symbols[n].output}
Complete(st, main) ==
  /\ ~ st.stopped
  /\ Outputs(st.program) # {}
  /\ \A n \in DOMAIN st.program.symbols :
       (n \in Outputs(st.program) \/ Has(st.prepared, n)) => st.program.symbols[n].verified
  /\ st.failedHere = {}

\* CubicalProgram.check of `source` as `main` by a program with its reader.
Loading(p, found) ==
  [prepared |-> found.prepared, visiting |-> {}, failedHere |-> {}, stopped |-> FALSE,
   program |-> IF Invalidated(found) THEN EmptyProgram ELSE p]
Outcome(found, loaded, main) ==
  [program |-> loaded.program, placed |-> found.placed, failedHere |-> loaded.failedHere,
   stopped |-> loaded.stopped, complete |-> Complete(loaded, main)]
LoadFound(p, found, main) == Outcome(found, Load(Loading(p, found), main, main), main)
CheckOf(p, reader, source, main, reuse) ==
  LoadFound(p, Discover([program |-> p, placed |-> reader.placed, given |-> reader.given,
                         prepared |-> <<>>, reuse |-> reuse], main, source, main), main)

-----------------------------------------------------------------------------

\* A new reader, told where the checked source `main` lives, or that it is no file.
Reader(main, place) ==
  [placed |-> [n \in ModuleNames |-> IF n = main THEN place ELSE "source"],
   given |-> IF place = "source" THEN {} ELSE {main}]

CheckInit ==
  /\ files \in Files0 /\ down = {}
  /\ \E place \in {"source", "local"} :
       placed = Reader(Main, place).placed /\ given = Reader(Main, place).given
  /\ program = EmptyProgram /\ result = None
  /\ edits = 0 /\ checks = 0

Check(source) ==
  /\ checks < MaxChecks
  /\ \E done \in {CheckOf(program, [placed |-> placed, given |-> given], source, Main, FALSE)} :
     /\ program' = done.program
     /\ placed' = done.placed
     /\ result' = [source |-> source, complete |-> done.complete]
  /\ checks' = checks + 1
  /\ UNCHANGED <<files, down, given, edits>>

Edit(place, name, text) ==
  /\ edits < MaxEdits /\ files[<<place, name>>] # text
  /\ files' = [files EXCEPT ![<<place, name>>] = text]
  /\ result' = None /\ edits' = edits + 1
  /\ UNCHANGED <<down, placed, given, program, checks>>

Outage(lost) ==
  /\ edits < MaxEdits /\ down # lost
  /\ down' = lost
  /\ result' = None /\ edits' = edits + 1
  /\ UNCHANGED <<files, placed, given, program, checks>>

CheckNext ==
  \/ \E source \in Sources : Check(source)
  \/ \E e \in Edits : Edit(e[1], e[2], e[3])
  \/ \E lost \in Outages : Outage(lost)

-----------------------------------------------------------------------------
(* Properties.                                                             *)

\* Whether a checked module is the text that its importer's place finds for
\* it, over imports that are so for it in its own place, and is the
\* library's exactly when it and its imports are all files of the library.
RECURSIVE IsResolved(_, _, _, _)
IsResolved(env, name, text, place) ==
  /\ env # Failed /\ env.text = text
  /\ \A i \in DOMAIN text.imports :
       LET d == text.imports[i]
           at == Locate(d, SearchOrder[place])
       IN IsResolved(env.over[i], d, TextOf(d, at), IF at \in Places THEN at ELSE "source")
  /\ env.library <=> /\ OriginOf(name, text, place) = "library"
                     /\ \A i \in DOMAIN env.over : env.over[i].library

\* A complete check is of the modules that the files give now: whatever the
\* program held from checks before an edit, and whichever importer named a
\* module first, every import is what its own importer's place finds, and
\* bare axiom names go to the library's own files only (check's `invalidated`,
\* discover, checkImports, fromLibrary).
CompleteIsResolved ==
  result # None => (result.complete =>
    IsResolved(program.modules[Main], Main, result.source, placed[Main]))

FreshCompletes ==
  CheckOf(EmptyProgram, Reader(Main, placed[Main]), result.source, Main, FALSE).complete

\* A program that has checked before completes a check exactly when a new
\* program, with a new reader, would: nothing an earlier check left, its
\* failures included, tells in a later one.  One place does tell: that of a
\* bundled module read from a file before and unreadable now, which its
\* importers are then refused for.  What it completes is of the modules that
\* the files give now (CompleteIsResolved).
ChecksAsFresh ==
  result # None =>
    /\ CompleteIsResolved
    /\ result.complete => FreshCompletes
    /\ (\A n \in DOMAIN Bundled : placed[n] = "source" \/ Locate(n, SearchOrder["source"]) \in Places)
         => (FreshCompletes => result.complete)

=============================================================================
