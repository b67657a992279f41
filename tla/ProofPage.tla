------------------------------ MODULE ProofPage ------------------------------
(***************************************************************************)
(* A page's checking worker: the requests it sends and their deadlines,    *)
(* the maintenance that replaces a worker and builds on the new one what   *)
(* the page held, and the recorded session of its console (web/proof.mjs,  *)
(* worker-requests.mjs, worker-maintenance.mjs, proof-watchdog.mjs and     *)
(* repl-console.mjs).                                                      *)
(*                                                                         *)
(* A script runs until it waits for something: what promises go on with is *)
(* done before the next event, a message, a fetch, a timer or the reader.  *)
(* The page is not embedded.  The worker is what it does to the page: it   *)
(* answers in the order of sending, late or never, and may fail.  Of what  *)
(* it keeps, the model has whether a proof is checked and how many entries *)
(* the console's session has: every entry answered extends it, and checks  *)
(* again over a later proof.  A deadline is a few ticks of time.           *)
(***************************************************************************)
EXTENDS Integers, Sequences, SequencesExt, Filter

CONSTANTS
  Versioned,      \* whether the server names a version of the compiler
  QueryTicks,     \* the deadline of a query (30 seconds)
  CheckTicks,     \* ... and of checking work (5 minutes)
  MaxJobs,        \* bounds of the exploration: maintenance asked for,
  MaxRequests,    \* requests,
  MaxChecks,      \* calls of check and refreshCompiler,
  MaxAdvances     \* times a check reports counters that advance

ASSUME PageAssumption ==
  /\ Versioned \in BOOLEAN
  /\ {QueryTicks, CheckTicks} \subseteq Nat \ {0}
  /\ {MaxJobs, MaxRequests, MaxChecks, MaxAdvances} \subseteq Nat

VARIABLES
  worker,       \* the page's worker: the number of workers started
  state,        \* what became of each: starting, ready, stopped
  ready,        \* the page's own flag
  halted,       \* the page stopped replacing workers
  replaced,     \* it replaced one, and the reader did nothing since
  net,          \* requests: all asked, those that wait, those sent
  jobs,         \* maintenance asked for, the first of it under way
  serial,       \* the number of maintenance asked for
  checks,       \* the calls of check and refreshCompiler
  console,      \* the console's entry or reset
  record,       \* its session's record: the entries, 0 for none
  at,           \* the worker the session is on
  epoch,        \* its resets
  proven,       \* on each worker: whether a proof is checked
  session       \* ... and the entries of the session

pageVars == <<worker, state, ready, halted, replaced>>
jobVars == <<jobs, serial>>
consoleVars == <<console, record, at, epoch>>
workerVars == <<proven, session>>
vars == <<pageVars, net, jobVars, checks, consoleVars, workerVars>>

-----------------------------------------------------------------------------
(* Requests.                                                               *)

Checking == {"check", "repl", "restore"}
Deadline(command) == IF command \in Checking THEN CheckTicks ELSE QueryTicks

Busy == jobs # <<>>
Settled(i) == net.asked[i].status \in {"answered", "failed", "expired"}

Request(command, internal, entries) ==
  [command |-> command, internal |-> internal, status |-> "gated", left |-> 0, advances |-> 0,
   entries |-> entries]

(* sendToWorker: to the page's worker, with its deadline, or not at all.   *)
Send(n, ids, up) ==
  LET now(r) == IF up THEN [r EXCEPT !.status = "sent", !.left = Deadline(r.command)]
                ELSE [r EXCEPT !.status = "failed"]
  IN  [n EXCEPT !.asked = [i \in DOMAIN @ |-> IF i \in Range(ids) THEN now(@[i]) ELSE @[i]],
                !.sent = IF up THEN @ \o ids ELSE @]

(* Mutants: all that is asked waits for maintenance; nothing does.         *)
AllWait(internal) == Busy
NoneWaits(internal) == FALSE

(* A request waits for maintenance, but for maintenance's own.             *)
Waits(internal) == Busy /\ ~ internal

Ask(command, internal, entries, up) ==
  LET n == [net EXCEPT !.asked = Append(@, Request(command, internal, entries))]
      i == Len(n.asked)
  IN  IF Waits(internal) THEN [n EXCEPT !.gated = Append(@, [id |-> i, gate |-> Last(jobs).serial])]
      ELSE Send(n, <<i>>, up)

Asked == Len(net.asked)
Room == Asked < MaxRequests

(* terminate: everything the worker was sent settles.                      *)
Drop(status) ==
  [net EXCEPT !.asked = [i \in DOMAIN @ |-> IF i \in Range(net.sent)
                                             THEN [@[i] EXCEPT !.status = status, !.left = 0] ELSE @[i]],
              !.sent = <<>>]

Reply(i, status, entries) ==
  [net EXCEPT !.asked[i] = [@ EXCEPT !.status = status, !.left = 0, !.entries = entries],
              !.sent = Kept(@, {k \in DOMAIN @ : @[k] # i})]

-----------------------------------------------------------------------------
(* Maintenance, one job at a time in the order asked.                      *)

Job(kind, of, recheck) ==
  [kind |-> kind, of |-> of, recheck |-> recheck, serial |-> serial + 1, phase |-> "asked",
   request |-> 0, begun |-> 0]

(* Mutant: a new worker is taken to have the session.                      *)
OnWorkerAlways == TRUE

(* The console's session is on the worker, or there is none.               *)
OnWorker == at = worker \/ record = 0

(* What the console waits for.                                             *)
Entry(phase, on) == [phase |-> phase, on |-> on, begun |-> epoch]

Run(job) == jobs' = Append(jobs, job) /\ serial' = serial + 1
MoreJobs == serial < MaxJobs

Current == jobs[1]
In(phase) == Busy /\ Current.phase = phase
Goes(phase) == [jobs EXCEPT ![1].phase = phase]
Works(phase, i) == [jobs EXCEPT ![1] = [@ EXCEPT !.phase = phase, !.request = i, !.begun = epoch]]

Init ==
  /\ worker = 0 /\ state = <<>>
  /\ ready = FALSE /\ halted = FALSE /\ replaced = FALSE
  /\ net = [asked |-> <<>>, gated |-> <<>>, sent |-> <<>>]
  /\ jobs = <<[kind |-> "start", of |-> 0, recheck |-> FALSE, serial |-> 1, phase |-> "asked",
               request |-> 0, begun |-> 0]>>
  /\ serial = 1
  /\ checks = <<>>
  /\ console = [phase |-> "idle", on |-> 0, begun |-> 0]
  /\ record = 0 /\ at = 0 /\ epoch = 0
  /\ proven = <<>> /\ session = <<>>

Drained == net.sent = <<>>
Turn == In("asked") /\ Drained

(* Whether a job still replaces the worker, when it is its turn.           *)
Replaces ==
  \/ Current.kind = "start"
  \/ Current.kind = "fault" /\ worker = Current.of
  \/ Current.kind = "update" /\ worker = Current.of /\ ready
  \/ Current.kind = "retry" /\ ~ ready

(* What the console's entry was answered is recorded by then.              *)
Starts ==
  /\ ~ (console.phase = "entry" /\ Settled(console.on))
  /\ worker' = worker + 1
  /\ proven' = Append(proven, FALSE)
  /\ session' = Append(session, 0)
  /\ jobs' = Goes("load")

(* The version the new worker is to have is known.                         *)
Known == Versioned /\ Current.kind \in {"fault", "update"}
Ended == IF worker = 0 THEN state ELSE [state EXCEPT ![worker] = "stopped"]

Replace ==
  /\ Turn /\ Replaces
  /\ net' = Drop("failed")
  /\ ready' = FALSE
  /\ IF Known THEN Starts /\ state' = Append(Ended, "starting")
     ELSE jobs' = Goes("version") /\ state' = Ended /\ UNCHANGED <<worker, workerVars>>
  /\ UNCHANGED <<halted, replaced, serial, checks, consoleVars>>

Decline ==
  /\ Turn /\ Current.kind # "restore" /\ ~ Replaces
  /\ jobs' = Goes("declined")
  /\ UNCHANGED <<pageVars, net, serial, checks, consoleVars, workerVars>>

(* The server's version arrives, or does not.                              *)
StartWorker ==
  /\ In("version")
  /\ Starts
  /\ state' = Append(state, "starting")
  /\ UNCHANGED <<ready, halted, replaced, net, serial, checks, consoleVars>>

(* The first worker checks what the page shows, once maintenance is done;  *)
(* a rebuild checks at once.                                               *)
WorkerReady ==
  /\ In("load") /\ state[worker] = "starting"
  /\ state' = [state EXCEPT ![worker] = "ready"]
  /\ ready' = TRUE
  /\ IF Current.recheck
     THEN net' = Ask("check", TRUE, 0, TRUE) /\ jobs' = Works("rebuild", Asked + 1)
     ELSE /\ net' = IF Current.kind = "start" THEN Ask("check", FALSE, 0, TRUE) ELSE net
          /\ jobs' = Goes("done")
  /\ UNCHANGED <<worker, halted, replaced, serial, checks, consoleVars, workerVars>>

WorkerStopped ==
  /\ In("load") /\ state[worker] = "stopped"
  /\ jobs' = Goes("done")
  /\ UNCHANGED <<pageVars, net, serial, checks, consoleVars, workerVars>>

(* The rebuild's check is answered: the console's session is next.         *)
Rebuilt ==
  /\ In("rebuild") /\ Settled(Current.request)
  /\ jobs' = Goes(IF net.asked[Current.request].status = "answered" THEN "restore" ELSE "done")
  /\ UNCHANGED <<pageVars, net, serial, checks, consoleVars, workerVars>>

(* restore: on a worker that has checked a proof and is not the session's. *)
Restores == at # worker /\ record # 0 /\ ready /\ proven[worker]
RestoreTurn == In("restore") \/ (Turn /\ Current.kind = "restore")

RestoreBegins ==
  /\ RestoreTurn /\ Restores
  /\ net' = Ask("restore", TRUE, record, ready)
  /\ record' = 0
  /\ jobs' = Works("restoring", Asked + 1)
  /\ UNCHANGED <<pageVars, serial, checks, console, at, epoch, workerVars>>

RestoreSkipped ==
  /\ RestoreTurn /\ ~ Restores
  /\ jobs' = Goes("done")
  /\ UNCHANGED <<pageVars, net, serial, checks, consoleVars, workerVars>>

(* Mutant: what a restore answers is kept after a reset.                   *)
RestoredLate ==
  /\ In("restoring") /\ Settled(Current.request)
  /\ LET request == net.asked[Current.request]
     IN  at' = worker /\ record' = IF request.status = "answered" THEN request.entries ELSE record
  /\ jobs' = Goes("done")
  /\ UNCHANGED <<pageVars, net, serial, checks, console, epoch, workerVars>>

Restored ==
  /\ In("restoring") /\ Settled(Current.request)
  /\ LET request == net.asked[Current.request]
     IN  IF Current.begun # epoch THEN UNCHANGED <<record, at>>
         ELSE /\ at' = worker
              /\ record' = IF request.status = "answered" THEN request.entries ELSE record
  /\ jobs' = Goes("done")
  /\ UNCHANGED <<pageVars, net, serial, checks, console, epoch, workerVars>>

(* The job is over, and who asked for it goes on: the console's entry, or  *)
(* a check that no worker replaced.  What waited for the job is sent, or   *)
(* waits again, behind the maintenance asked for last.                     *)
Finish ==
  /\ In("done") \/ In("declined")
  /\ jobs' = Tail(jobs)
  /\ LET over    == Current.serial
         idle    == Tail(jobs) = <<>>
         entry   == console.phase = "restore" /\ console.on = over
         refused == entry /\ ~ OnWorker
         again   == \E c \in DOMAIN checks : checks[c].on = over /\ checks[c].asks
                      /\ \/ checks[c].phase = "retry" /\ ready /\ ~ idle
                         \/ checks[c].phase = "update" /\ In("declined")
         new     == IF entry /\ ~ refused THEN <<Request("repl", FALSE, 0)>>
                    ELSE IF again THEN <<Request("check", FALSE, 0)>> ELSE <<>>
         id      == IF new = <<>> THEN <<>> ELSE <<Asked + 1>>
         waits   == {k \in DOMAIN net.gated : net.gated[k].gate = over}
         freed   == Kept(net.gated, waits)
         waited  == [k \in DOMAIN freed |-> freed[k].id]
         ids     == IF Current.kind = "retry" THEN id \o waited ELSE waited \o id
         rest    == [net EXCEPT !.asked = @ \o new, !.gated = Kept(@, DOMAIN @ \ waits)]
     IN  /\ net' = IF idle THEN Send(rest, ids, ready)
                   ELSE [rest EXCEPT !.gated = @ \o [k \in DOMAIN ids |-> [id |-> ids[k], gate |-> Last(jobs).serial]]]
         /\ console' = IF refused THEN Entry("idle", 0)
                       ELSE IF entry THEN [console EXCEPT !.phase = "entry", !.on = Asked + 1] ELSE console
         /\ checks' = [c \in DOMAIN checks |->
              IF checks[c].on # over \/ checks[c].phase = "version" THEN checks[c]
              ELSE IF checks[c].phase = "retry" /\ ready /\ idle
              THEN [checks[c] EXCEPT !.phase = "version", !.on = worker]
              ELSE [checks[c] EXCEPT !.phase = "over", !.on = 0]]
  /\ UNCHANGED <<pageVars, serial, record, at, epoch, workerVars>>

-----------------------------------------------------------------------------
(* check, and refreshCompiler before it or as the page gains focus.        *)

Call(asks, phase, on) == [asks |-> asks, phase |-> phase, on |-> on]

(* The reader checks, or opens a file: the version is asked for first, but *)
(* during maintenance or while the worker has a request.  After the page   *)
(* stopped replacing workers, this starts one.                             *)
ReaderChecks ==
  /\ ready \/ halted
  /\ Len(checks) < MaxChecks /\ Room
  /\ replaced' = FALSE
  /\ IF halted
     THEN /\ MoreJobs
          /\ halted' = FALSE
          /\ Run(Job("retry", 0, FALSE))
          /\ checks' = Append(checks, Call(TRUE, "retry", serial + 1))
          /\ UNCHANGED net
     ELSE /\ IF Busy \/ ~ Drained
             THEN net' = Ask("check", FALSE, 0, ready) /\ checks' = Append(checks, Call(TRUE, "over", 0))
             ELSE checks' = Append(checks, Call(TRUE, "version", worker)) /\ UNCHANGED net
          /\ UNCHANGED <<halted, jobVars>>
  /\ UNCHANGED <<worker, state, ready, consoleVars, workerVars>>

Focus ==
  /\ Len(checks) < MaxChecks
  /\ net.sent = <<>> /\ ready /\ ~ Busy
  /\ checks' = Append(checks, Call(FALSE, "version", worker))
  /\ UNCHANGED <<pageVars, net, jobVars, consoleVars, workerVars>>

SameVersion(c) ==
  /\ checks[c].phase = "version"
  /\ checks' = [checks EXCEPT ![c] = Call(@.asks, "over", 0)]
  /\ net' = IF checks[c].asks THEN Ask("check", FALSE, 0, ready) ELSE net
  /\ UNCHANGED <<pageVars, jobVars, consoleVars, workerVars>>

NewVersion(c) ==
  /\ checks[c].phase = "version"
  /\ Versioned /\ MoreJobs
  /\ Run(Job("update", checks[c].on, TRUE))
  /\ checks' = [checks EXCEPT ![c] = Call(@.asks, "update", serial + 1)]
  /\ UNCHANGED <<pageVars, net, consoleVars, workerVars>>

(* A key or a pointer is pressed, to no other effect here.                 *)
Press ==
  /\ replaced /\ replaced' = FALSE
  /\ UNCHANGED <<worker, state, ready, halted, net, jobVars, checks, consoleVars, workerVars>>

(* The reader edits, which revokes contexts, or something is inspected.    *)
ReaderAsks ==
  /\ Room
  /\ \/ ready /\ net' = Ask("invalidate", FALSE, 0, ready)
     \/ net' = Ask("query", FALSE, 0, ready)
  /\ replaced' = FALSE
  /\ UNCHANGED <<worker, state, ready, halted, jobVars, checks, consoleVars, workerVars>>

-----------------------------------------------------------------------------
(* The console (recordedSession): an entry, when no other is under way.    *)

Enter ==
  /\ console.phase = "idle"
  /\ Room
  /\ replaced' = FALSE
  /\ IF OnWorker
     THEN /\ at' = worker
          /\ net' = Ask("repl", FALSE, 0, ready)
          /\ console' = Entry("entry", Asked + 1)
          /\ UNCHANGED jobVars
     ELSE /\ MoreJobs
          /\ Run(Job("restore", 0, FALSE))
          /\ console' = Entry("restore", serial + 1)
          /\ UNCHANGED <<at, net>>
  /\ UNCHANGED <<worker, state, ready, halted, checks, record, epoch, workerVars>>

EntrySettled ==
  /\ console.phase = "entry" /\ Settled(console.on)
  /\ console' = Entry("idle", 0)
  /\ LET request == net.asked[console.on]
     IN  IF request.status = "answered" /\ console.begun = epoch
         THEN record' = request.entries /\ at' = worker
         ELSE UNCHANGED <<record, at>>
  /\ UNCHANGED <<pageVars, net, jobVars, checks, epoch, workerVars>>

Reset ==
  /\ console.phase = "idle"
  /\ Room
  /\ replaced' = FALSE
  /\ record' = 0 /\ at' = worker /\ epoch' = epoch + 1
  /\ net' = Ask("reset", FALSE, 0, ready)
  /\ console' = [phase |-> "reset", on |-> Asked + 1, begun |-> epoch + 1]
  /\ UNCHANGED <<worker, state, ready, halted, jobVars, checks, workerVars>>

ResetSettled ==
  /\ console.phase = "reset" /\ Settled(console.on)
  /\ console' = Entry("idle", 0)
  /\ UNCHANGED <<pageVars, net, jobVars, checks, record, at, epoch, workerVars>>

-----------------------------------------------------------------------------
(* The worker and time.                                                    *)

(* In the order sent, but for what revokes contexts.                       *)
Answerable(i) ==
  i \in Range(net.sent) /\ (i = Head(net.sent) \/ net.asked[i].command = "invalidate")

Answer(i) ==
  /\ Answerable(i)
  /\ LET request == net.asked[i]
     IN  CASE request.command = "check" ->
                net' = Reply(i, "answered", 0) /\ proven' = [proven EXCEPT ![worker] = TRUE] /\ UNCHANGED session
           [] request.command = "repl" /\ proven[worker] ->
                /\ session' = [session EXCEPT ![worker] = @ + 1]
                /\ net' = Reply(i, "answered", session[worker] + 1) /\ UNCHANGED proven
           [] request.command = "restore" /\ proven[worker] ->
                /\ session' = [session EXCEPT ![worker] = request.entries]
                /\ net' = Reply(i, "answered", request.entries) /\ UNCHANGED proven
           [] request.command \in {"repl", "restore"} /\ ~ proven[worker] ->
                net' = Reply(i, "failed", 0) /\ UNCHANGED workerVars
           [] request.command = "reset" ->
                /\ session' = [session EXCEPT ![worker] = 0]
                /\ net' = Reply(i, "answered", 0) /\ UNCHANGED proven
           [] OTHER -> net' = Reply(i, "answered", 0) /\ UNCHANGED workerVars
  /\ UNCHANGED <<pageVars, jobVars, checks, consoleVars>>

(* A check fails, or a restore: nothing is installed.                      *)
Refuse(i) ==
  /\ Answerable(i)
  /\ net.asked[i].command \in {"check", "restore"}
  /\ net' = Reply(i, "failed", 0)
  /\ UNCHANGED <<pageVars, jobVars, checks, consoleVars, workerVars>>

Advance(i) ==
  /\ net.sent # <<>> /\ i = Head(net.sent)
  /\ net.asked[i].command = "check" /\ net.asked[i].advances < MaxAdvances
  /\ net' = [net EXCEPT !.asked[i] = [@ EXCEPT !.left = CheckTicks, !.advances = net.asked[i].advances + 1]]
  /\ UNCHANGED <<pageVars, jobVars, checks, consoleVars, workerVars>>

(* Mutant: the page still takes the worker for ready.                      *)
StopUnseen(status) ==
  /\ state' = [state EXCEPT ![worker] = "stopped"]
  /\ ready' = ready
  /\ net' = Drop(status)

Stop(status) ==
  /\ state' = [state EXCEPT ![worker] = "stopped"]
  /\ ready' = FALSE
  /\ net' = Drop(status)

(* The kernel fails: a fatal reply, and restartAfterFault.                 *)
Fault ==
  /\ net.sent # <<>>
  /\ MoreJobs
  /\ Stop("failed")
  /\ IF replaced THEN halted' = TRUE /\ UNCHANGED <<replaced, jobVars>>
     ELSE /\ replaced' = TRUE
          /\ Run(Job("fault", worker, net.asked[Head(net.sent)].command # "check"))
          /\ UNCHANGED halted
  /\ UNCHANGED <<worker, checks, consoleVars, workerVars>>

(* The worker cannot be loaded, or is lost.                                *)
Lost ==
  /\ worker > 0 /\ state[worker] # "stopped"
  /\ Stop("failed")
  /\ UNCHANGED <<worker, halted, replaced, jobVars, checks, consoleVars, workerVars>>

Tick ==
  /\ net.sent # <<>>
  /\ \A i \in Range(net.sent) : net.asked[i].left > 0
  /\ net' = [net EXCEPT !.asked = [i \in DOMAIN @ |-> IF i \in Range(net.sent)
                                                      THEN [@[i] EXCEPT !.left = net.asked[i].left - 1] ELSE @[i]]]
  /\ UNCHANGED <<pageVars, jobVars, checks, consoleVars, workerVars>>

(* A deadline passes: the worker is terminated, and none takes its place.  *)
Expire(i) ==
  /\ i \in Range(net.sent) /\ net.asked[i].left = 0
  /\ Stop("expired")
  /\ UNCHANGED <<worker, halted, replaced, jobVars, checks, consoleVars, workerVars>>

(* What promises go on with, before the next event.                        *)
Due ==
  \/ console.phase \in {"entry", "reset"} /\ Settled(console.on)
  \/ Turn \/ In("restore") \/ In("done") \/ In("declined")
  \/ In("load") /\ state[worker] = "stopped"
  \/ In("rebuild") /\ Settled(Current.request)
  \/ In("restoring") /\ Settled(Current.request)

Continue ==
  \/ EntrySettled \/ ResetSettled
  \/ Replace \/ Decline \/ WorkerStopped
  \/ Rebuilt \/ RestoreBegins \/ RestoreSkipped \/ Restored \/ Finish

Fetched == StartWorker \/ \E c \in DOMAIN checks : SameVersion(c) \/ NewVersion(c)
Reader == Press \/ ReaderChecks \/ Focus \/ ReaderAsks \/ Enter \/ Reset
Replies == \E i \in DOMAIN net.asked : Answer(i) \/ Refuse(i) \/ Advance(i)
TimesOut == \E i \in DOMAIN net.asked : Expire(i)

Event == Fetched \/ WorkerReady \/ Reader \/ Replies \/ Fault \/ Lost \/ Tick \/ TimesOut

Next == Continue \/ (~ Due /\ Event)

Spec == Init /\ [][Next]_vars

(* Promises go on, a fetch ends, a worker is loaded or fails to load, and  *)
(* time passes.  A worker need not answer.                                 *)
Fairness ==
  /\ WF_vars(Continue)
  /\ WF_vars(~ Due /\ StartWorker)
  /\ WF_vars(~ Due /\ (WorkerReady \/ Lost))
  /\ WF_vars(~ Due /\ (Tick \/ TimesOut))

FairSpec == Spec /\ Fairness

-----------------------------------------------------------------------------
Statuses == {"gated", "sent", "answered", "failed", "expired"}

TypeOK ==
  /\ worker \in 0 .. MaxJobs
  /\ state \in Seq({"starting", "ready", "stopped"}) /\ Len(state) = worker
  /\ {ready, halted, replaced} \subseteq BOOLEAN
  /\ \A i \in DOMAIN net.asked : net.asked[i].status \in Statuses
  /\ Range(net.sent) = {i \in DOMAIN net.asked : net.asked[i].status = "sent"}
  /\ {w.id : w \in Range(net.gated)} = {i \in DOMAIN net.asked : net.asked[i].status = "gated"}
  /\ serial \in 1 .. MaxJobs

(* Maintenance has the worker to itself: what it asks and what the reader  *)
(* asks are never with the worker together, so that neither runs behind    *)
(* the other and a deadline is of the request itself.  On a page that      *)
(* stopped replacing workers there is none, and maintenance starts none,   *)
(* until the reader checks.                                                *)
MaintenanceAlone ==
  /\ \A i, j \in Range(net.sent) : net.asked[i].internal => net.asked[j].internal
  /\ halted => ~ ready /\ ~ In("version") /\ ~ In("load")

(* Requests are with a worker that can answer them, the only one running.  *)
SentToRunning ==
  /\ net.sent # <<>> => ready
  /\ ready => state[worker] = "ready"
  /\ \A w \in DOMAIN state : state[w] # "stopped" => w = worker

(* Whatever the worker does, every request settles and maintenance ends.   *)
Open == Busy \/ net.sent # <<>> \/ net.gated # <<>>
EverythingSettles == Open ~> ~ Open

(* The record the console would restore is the session on the worker.      *)
RecordMatches ==
  console.phase = "idle" /\ at = worker /\ worker > 0 /\ ready /\ ~ Busy => record = session[worker]

(* An entry's answer adds to the session recorded: no worker answers it    *)
(* in a session started anew while the record of the last one is kept.     *)
RecordGrows ==
  [][EntrySettled /\ net.asked[console.on].status = "answered" => record' = record + 1]_vars

(* An entry answered on the worker that had the session when it was made   *)
(* adds to the session recorded.                                           *)
EntryExtends ==
  [][EntrySettled /\ net.asked[console.on].status = "answered" /\ at = worker => record' = record + 1]_vars

(* A check that advances runs on: a deadline ends it only when its own has *)
(* passed.                                                                 *)
ChecksRunOn ==
  [][\A i \in DOMAIN net.asked :
       /\ net.asked[i].command = "check" /\ net.asked[i].advances > 0
       /\ net.asked[i].status = "sent"
       /\ net'.asked[i].status = "expired"
       => net.asked[i].left = 0]_vars
=============================================================================
