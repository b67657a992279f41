----------------------------- MODULE ReplSession -----------------------------
(***************************************************************************)
(* The REPL's sessions (web/repl-session.mjs) and the command line around  *)
(* them (cli/repl.mjs): each entry is checked as a small module repl_N     *)
(* over the entry before it that extended the session, over the checked    *)
(* source or nothing.  A new check, and an instance that failed, give the  *)
(* session another program, on which what extended it is checked again,    *)
(* each statement as the entry it was.                                     *)
(*                                                                         *)
(* A statement is [kind, of, uses]: it imports the module `of`, selects    *)
(* its notation, defines a name or asks for a value, and refers to the     *)
(* declarations `uses`, an entry's by repl_N::name.                        *)
(***************************************************************************)
EXTENDS ModuleCheck

CONSTANTS
  Mains,        \* the sources that may be checked: [name, text]
  Statements, MaxFaults,
  RestartsOver  \* whether the reader restarts sessions over a checked source too

VARIABLES
  checked,      \* the program of the last check, with its reader, or None
  last,         \* the source it checked
  checkedModule,\* the module the last complete check was of
  own,          \* the program of a session over no source, or None
  session,      \* the session, or None
  faults

sessionVars == <<checked, last, checkedModule, own, session, faults>>
replVars == <<checkVars, sessionVars>>

Entry(n) == ReplNames[n]

\* A program with its reader.
Holder(p, reader) == [program |-> p, reader |-> reader]
OwnProgram == Holder(EmptyProgram, Reader(None, "source"))

\* A new session over the module `base` of a program, or over nothing.  `on`
\* says which program it is on: "checked", "own", or one that is gone; `over`
\* is what its base is, for the properties.
NewSession(base, h, on) ==
  [base |-> base, previous |-> base, count |-> 0, selected |-> {}, accepted |-> <<>>, lost |-> <<>>,
   on |-> on, over |-> IF Has(h.program.modules, base) THEN h.program.modules[base].text ELSE None]

-----------------------------------------------------------------------------
(* A statement in a session on a program: CubicalProgram.checkEntry of a   *)
(* source that imports the previous entry, under the session's selections. *)

EntrySource(s, st) ==
  [imports |-> (IF s.previous = None THEN <<>> ELSE <<s.previous>>)
                 \o (IF st.kind = "import" THEN <<st.of>> ELSE <<>>),
   uses |-> CASE st.kind = "import" -> {}
              [] st.kind = "use" -> s.selected \union {st.of}
              [] OTHER -> s.selected \union st.uses,
   declares |-> st.kind \in {"define", "query"}, parses |-> TRUE]

\* Whether a statement whose entry n was checked extends the session, and the
\* session after it: every entry is counted.
ExtendsUnverified(st, done, n) ==
  /\ ~ done.stopped
  /\ st.kind # "query" /\ done.failedHere = {}
Extends(st, done, n) ==
  /\ ~ done.stopped /\ done.program.modules[Entry(n)].verified
  /\ CASE st.kind = "define" -> TRUE
       [] st.kind = "import" -> done.failedHere = {} /\ Has(done.program.modules, st.of)
       [] st.kind = "use" -> done.failedHere = {}
       [] OTHER -> FALSE
Advanced(s, st, n) ==
  [s EXCEPT !.count = n, !.previous = Entry(n),
            !.accepted = Append(@, [text |-> st, entry |-> n]),
            !.selected = IF st.kind = "use" THEN @ \union {st.of} ELSE @]
Passed(s, n) == [s EXCEPT !.count = n]

\* checkEntry leaves the program its entry's declaration, no longer as its output.
Demoted(symbols, name) ==
  [m \in DOMAIN symbols |-> IF m = name THEN [symbols[m] EXCEPT !.output = FALSE] ELSE symbols[m]]
\* A session and its program after the check of its next entry, n.
AfterEntry(s, st, n, h, done) ==
  [session |-> IF Extends(st, done, n) THEN Advanced(s, st, n) ELSE Passed(s, n),
   holder |-> Holder([done.program EXCEPT !.symbols = Demoted(@, Entry(n))], [h.reader EXCEPT !.placed = done.placed])]

\* What the statement makes of the session and its program; at = [session, holder].
RunEntry(s, h, st, n) ==
  AfterEntry(s, st, n, h, CheckOf(h.program, h.reader, EntrySource(s, st), Entry(n), TRUE))
Run(at, st) == RunEntry(at.session, at.holder, st, at.session.count + 1)

\* Each statement is checked again as the next entry there is.
RestoredAnew(record, new, holder) ==
  FoldLeft(LAMBDA at, a : Run(at, a.text), [session |-> new, holder |-> holder], record.accepted)

\* A statement of the record that does not extend the session any more is lost.
OrLost(ran, n, a) ==
  IF Len(ran.session.accepted) > n THEN ran ELSE [ran EXCEPT !.session.lost = Append(@, a.text)]
RunAgain(at, a) ==
  OrLost(Run([at EXCEPT !.session.count = a.entry - 1], a.text), Len(at.session.accepted), a)

\* ReplSession.restore of a record on a new session over `holder`.
Restored(record, new, holder) ==
  [FoldLeft(RunAgain, [session |-> new, holder |-> holder], record.accepted)
     EXCEPT !.session.count = record.count]

-----------------------------------------------------------------------------
(* The command line.                                                       *)

SessionInit ==
  /\ checked = None /\ last = None /\ checkedModule = None /\ own = None
  /\ session = None /\ faults = 0

ReplInit ==
  /\ SessionInit
  /\ files \in Files0 /\ down = {} /\ edits = 0 /\ checks = 0
  /\ placed = Reader(None, "source").placed /\ given = {} /\ program = EmptyProgram /\ result = None

\* Where the session is once the program of the last check is gone.
Abandoned == IF session = None THEN None
             ELSE IF session.on = "checked" THEN [session EXCEPT !.on = "gone"] ELSE session

\* A file's check on a new program, as `check` and recover make it.
FileCheck(main) == CheckOf(EmptyProgram, Reader(main.name, "local"), main.text, main.name, FALSE)
FileHolder(main, done) == Holder(done.program, [Reader(main.name, "local") EXCEPT !.placed = done.placed])

\* check: the program is installed once its check returns, complete or not.
CheckFile(main) ==
  /\ checks < MaxChecks
  /\ \E done \in {FileCheck(main)} :
     /\ ~ done.stopped
     /\ checked' = FileHolder(main, done) /\ last' = main /\ session' = Abandoned
     /\ checkedModule' = IF done.complete THEN main.name ELSE checkedModule
  /\ checks' = checks + 1
  /\ UNCHANGED <<files, down, placed, given, program, result, edits, own, faults>>

\* A session moved to a new one's program.
Rebased(s, new, holder) ==
  IF s = None THEN [session |-> new, holder |-> holder] ELSE Restored(s, new, holder)

OnChecked == IF session = None THEN FALSE ELSE session.on = "checked"

\* replSession: the session, moved to the program of the last check if it is on another.
SessionNow ==
  IF checked # None
  THEN IF OnChecked THEN [session |-> session, holder |-> checked]
       ELSE Rebased(session, NewSession(checkedModule, checked, "checked"), checked)
  ELSE IF session = None THEN [session |-> NewSession(None, OwnProgram, "own"), holder |-> OwnProgram]
  ELSE [session |-> session, holder |-> own]

Enter(st) ==
  /\ (IF session = None THEN 0 ELSE session.count) < Len(ReplNames)
  /\ \E ran \in {Run(SessionNow, st)} :
     /\ session' = ran.session
     /\ IF ran.session.on = "own" THEN own' = ran.holder /\ UNCHANGED checked
        ELSE checked' = ran.holder /\ UNCHANGED own
  /\ UNCHANGED <<checkVars, last, checkedModule, faults>>

\* /restart
Restart ==
  /\ session # None /\ (RestartsOver \/ session.on = "own")
  /\ session' = None /\ own' = None
  /\ UNCHANGED <<checkVars, checked, last, checkedModule, faults>>

\* recover: the instance failed, and what was checked is checked again on a
\* new one: its holder now, or None where nothing was or its check stops.
CheckedAgain(main, done) == IF done.stopped THEN None ELSE FileHolder(main, done)
HeldAgain == IF last = None THEN None ELSE CheckedAgain(last, FileCheck(last))

\* The session is replayed there, or on a program of its own if it was.
RecoverSession(next) ==
  IF session.on = "own"
  THEN \E re \in {Restored(session, NewSession(None, OwnProgram, "own"), OwnProgram)} :
         session' = re.session /\ own' = re.holder /\ checked' = next
  ELSE \E re \in {Restored(session, NewSession(checkedModule, next, "checked"), next)} :
         session' = re.session /\ checked' = re.holder /\ own' = None

\* A source that cannot be checked now ends it, and so does a session without
\* its program; `again`: the new instance fails too.
Recover(again) ==
  /\ faults < MaxFaults /\ (checked # None \/ own # None)
  /\ faults' = faults + 1
  /\ IF again
     THEN /\ checked' = None /\ last' = None /\ checkedModule' = None
          /\ own' = None /\ session' = None
     ELSE /\ \E next \in {HeldAgain} :
               IF session = None \/ (next = None /\ (last # None \/ session.on # "own"))
               THEN session' = None /\ own' = None /\ checked' = next
               ELSE RecoverSession(next)
          /\ UNCHANGED <<last, checkedModule>>
  /\ UNCHANGED checkVars

EditFile(place, name, text) ==
  /\ Edit(place, name, text)
  /\ UNCHANGED sessionVars

ReplNext ==
  \/ \E main \in Mains : CheckFile(main)
  \/ \E st \in Statements : Enter(st)
  \/ Restart
  \/ \E again \in BOOLEAN : Recover(again)
  \/ \E e \in Edits : EditFile(e[1], e[2], e[3])

-----------------------------------------------------------------------------
(* Properties.                                                             *)

\* The modules a session's program holds, while it has its program.
OnItsProgram == IF session = None THEN FALSE ELSE session.on # "gone"
HeldEntries == IF session.on = "own" THEN own.program.modules ELSE checked.program.modules

\* Every entry that extended a session was checked: the module held by its
\* number is its own statement, over the entry before it (checkEntry).
EntriesAreChecked ==
  OnItsProgram =>
    \A a \in Range(session.accepted) :
      /\ Has(HeldEntries, Entry(a.entry))
      /\ LET text == HeldEntries[Entry(a.entry)].text IN
         /\ a.text.uses \subseteq text.uses
         /\ text.declares = (a.text.kind = "define")
         /\ a.text.kind = "import" => a.text.of \in Range(text.imports)

\* What extended a session was checked and is there for its next entry: every
\* definition it accepted is in scope over its last entry, by the number it
\* was made with, and so is every notation selected (advance, entry, restore).
ExtensionsInScope ==
  OnItsProgram =>
    /\ EntriesAreChecked
    /\ \A a \in Range(session.accepted) :
         LET env == HeldEntries[session.previous] IN
         /\ a.text.kind = "define" => Entry(a.entry) \in env.names
         /\ a.text.kind = "use" => a.text.of \in env.names \intersect session.selected

\* A session moved to another program, after a check or a failed instance, is
\* the same session: each statement that extended it is the entry it was or
\* is named as lost, entries are numbered on from where they were, and
\* nothing is lost while the files and what its base is are as they were
\* (rebase, restore).
RestoreKeeps ==
  [][IF session = None \/ session' = None THEN TRUE
     ELSE (faults' # faults \/ session'.on \notin {session.on, "gone"}) =>
       LET kept == SelectSeq(session'.accepted, LAMBDA a : a \in Range(session.accepted))
           unchanged == edits' = 0 /\ session'.base = session.base /\ session'.over = session.over
       IN /\ \A a \in Range(session.accepted) :
               a \in Range(kept) \/ a.text \in Range(session'.lost)
          /\ session'.count >= session.count
          /\ unchanged => /\ kept = session.accepted /\ session'.lost = <<>>
                          /\ session.selected \subseteq session'.selected]_replVars

=============================================================================
