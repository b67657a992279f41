------------------------------ MODULE MCProgram ------------------------------
(* The worker and what it holds, on small instances.  A behaviour keeps to *)
(* one part: the kernel client's declarations, the entries their binders   *)
(* take, its budgets; the page's and the worker's messages; a program that *)
(* serves several checks; or the command line's session.                   *)
EXTENDS KernelClient, CheckWorker, ReplSession

CONSTANTS
  y, MaxVariant,   \* a name, and the greatest number of a variant explored
  MaxReplEdits     \* edits while the command line's session runs

VARIABLE part

MCSyntax == {<<"A", 1>>, <<"A", 2>>, <<"B", 1>>}

-----------------------------------------------------------------------------
(* Files and sources.                                                      *)

Source(imports, uses) == [imports |-> imports, uses |-> uses, declares |-> TRUE, parses |-> TRUE]
Unparsed == [Source(<<>>, {}) EXCEPT !.parses = FALSE]

MCFileNames == {"a", "b", "c", "unat"}
MCReplNames == <<"repl_1", "repl_2", "repl_3">>
NoFiles == [f \in Places \X MCFileNames |-> None]
ReplFiles == [NoFiles EXCEPT ![<<"library", "a">>] = Source(<<>>, {}), ![<<"library", "b">>] = Source(<<"a">>, {"a"})]
MCFiles0 ==
  {[NoFiles EXCEPT ![<<"library", "c">>] = Source(<<>>, {}),
                   ![<<"archive", "c">>] = Source(<<>>, {"ghost"}),
                   ![<<"library", "b">>] = Source(<<"c", "unat">>, {"c"}),
                   ![<<"library", "unat">>] = Source(<<>>, {"ghost"}),
                   ![<<"archive", "a">>] = Source(<<"c">>, {})],
   [NoFiles EXCEPT ![<<"library", "c">>] = Source(<<>>, {}),
                   ![<<"archive", "a">>] = Source(<<"b", "c">>, {"b"}),
                   ![<<"archive", "b">>] = Source(<<"c">>, {})],
   ReplFiles}
MCEdits ==
  {<<"library", "c", None>>, <<"archive", "c", Source(<<>>, {})>>, <<"local", "c", Source(<<>>, {})>>,
   <<"library", "c", Source(<<"b">>, {})>>, <<"library", "a", Source(<<"b">>, {"b"})>>,
   <<"library", "b", Unparsed>>, <<"archive", "b", Source(<<"c">>, {"c"})>>, <<"archive", "a", None>>}
ReplEdits == {<<"library", "a", None>>, <<"library", "b", Source(<<>>, {"ghost"})>>}
MCSources == {Source(<<"a">>, {}), Source(<<"b", "a">>, {"b"}), Source(<<"c", "b">>, {"c"}), Source(<<>>, {})}
MCBundled == [n \in {"unat"} |-> Source(<<>>, {})]
MCOutages == {{}, {<<"library", "c">>}, {<<"archive", "a">>}, {<<"library", "unat">>}}

MCMains == {[name |-> "main", text |-> Source(<<"b">>, {"b"})], [name |-> "main", text |-> Source(<<"b">>, {"ghost"})]}
Statement(kind, of, uses) == [kind |-> kind, of |-> of, uses |-> uses]
MCStatements ==
  {Statement("import", "b", {}), Statement("use", "a", {}), Statement("define", "none", {}),
   Statement("define", "none", {"repl_1"}), Statement("query", "none", {"repl_1"})}

-----------------------------------------------------------------------------
Declarations ==
  \/ Derive(<<"B", 1>>)
  \/ \E h \in Handles : ReadNode(h)
  \/ arena # <<>> /\ publication = NotPublishing /\ Hold(Len(arena))
  \/ \E n \in Names : (n = y => definitions # Empty) /\ Define(n)
  \/ generation = 1 /\ CommitRefused   \* a later one opens nothing else
  \/ settledNodes = Empty /\ Trap   \* a failed client does nothing more
  \/ \E group \in BOOLEAN : Begin(group)
  \/ \E accept \in BOOLEAN : EndUnmanaged(accept)

Binders ==
  \/ generation # 0 /\ Begin(FALSE)
  \/ \E s \in Syntax : (\A h \in Handles : arena[h] # s) /\ Derive(s)
  \/ \E n \in BinderNames \ {<<y>>}, h \in Handles, X \in SUBSET DOMAIN records, fresh \in BOOLEAN :
       /\ variants # Empty => \A m \in DOMAIN variants : variants[m] < MaxVariant
       /\ ~IsReference(h) /\ BindVariable(n, h, X, fresh)

Ends == (\E kept \in Survivors : Accept(kept)) \/ Refuse

ClientSteps ==
  \/ part = "declarations" /\ (Declarations \/ Ends)
  \/ part = "binders" /\ (Binders \/ Ends)
  \/ part = "budgets" /\ \E need \in Needs : Query(need) \/ Instruct(need)

ChecksNext ==
  \/ \E text \in Sources : Check(text)
  \/ \E e \in Edits \ ReplEdits : Edit(e[1], e[2], e[3])
  \/ \E lost \in Outages : Outage(lost)

ConsoleNext ==
  \/ \E main \in Mains : CheckFile(main)
  \/ \E st \in Statements : Enter(st)
  \/ Restart
  \/ \E again \in BOOLEAN : Recover(again)
  \/ \E e \in ReplEdits : edits < MaxReplEdits /\ EditFile(e[1], e[2], e[3])

ClientParts == {"declarations", "binders", "budgets"}

MCInit ==
  /\ part \in ClientParts \cup {"messages", "checks", "console"}
  /\ ClientInit /\ (manages <=> part # "declarations")
  /\ WorkerInit
  /\ IF part = "checks" THEN CheckInit /\ files # ReplFiles /\ SessionInit ELSE ReplInit /\ files = ReplFiles

MCNext ==
  /\ UNCHANGED part
  /\ \/ part \in ClientParts /\ ClientSteps /\ UNCHANGED <<workerSystem, replVars>>
     \/ part = "messages" /\ WorkerNext /\ UNCHANGED <<clientVars, replVars>>
     \/ part = "checks" /\ ChecksNext /\ UNCHANGED <<clientVars, workerSystem, sessionVars>>
     \/ part = "console" /\ ConsoleNext /\ UNCHANGED <<clientVars, workerSystem>>

ProgramSpec == MCInit /\ [][MCNext]_<<clientVars, workerSystem, replVars, part>>

RestartSpec == ProgramSpec /\ part = "console"
=============================================================================
