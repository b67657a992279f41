----------------------------- MODULE CheckWorker -----------------------------
(***************************************************************************)
(* The checking worker (web/cubical-worker.mjs), its contextual sessions   *)
(* (web/contextual-session.mjs), and the page's console on a context of    *)
(* the checked source (web/contextual-console.mjs, web/repl-console.mjs).  *)
(*                                                                         *)
(* Page and worker exchange messages in order, each way.  The worker runs  *)
(* one request at a time, but takes messages while a request waits for an  *)
(* import: an edit, a new check or a close then acts at once.  A source is *)
(* its version; a check of version v makes a program of version v, whose   *)
(* scope points and sessions carry it.                                     *)
(***************************************************************************)
EXTENDS Naturals, Sequences

CONSTANTS MaxSourceEdits, MaxCheckRequests, MaxOpens, MaxRuns   \* bounds of the exploration

VARIABLES
  source,       \* the editor's version
  console,      \* contextual-console.mjs: its epoch, selection, enabled and active
  listed,       \* the version of the points the page holds, 0 for none
  panel,        \* the console made for a selection: whose it is, and whether busy
  waiting,      \* the page's requests that have no answer yet
  toWorker, toPage,
  alive,        \* the worker has not stopped on a failed kernel instance
  queue,        \* the worker's requests, each with the epoch it came in
  running,      \* the request it is working on, or Idle
  contextEpoch,
  installed,      \* the installed program
  sessions,     \* every contextual session made: its program, and closed
  shown,        \* the last result the panel showed
  counts        \* edits, checks, opens and runs so far

pageVars == <<source, console, listed, panel, waiting, shown>>
workerVars == <<alive, queue, running, contextEpoch, installed, sessions>>
workerSystem == <<pageVars, toWorker, toPage, workerVars, counts>>

Idle == [request |-> [command |-> "none"], epoch |-> 0]
NoProgram == [version |-> 0, registry |-> 0, ready |-> FALSE, epoch |-> 0]
NoPanel == [token |-> 0, chosen |-> 0, busy |-> FALSE]
NotShown == [version |-> 0, of |-> 0]

WorkerInit ==
  /\ source = 1 /\ listed = 0 /\ panel = NoPanel /\ waiting = {} /\ shown = NotShown
  /\ console = [epoch |-> 0, selection |-> 0, enabled |-> FALSE, active |-> 0, version |-> 0]
  /\ toWorker = <<>> /\ toPage = <<>>
  /\ alive = TRUE /\ queue = <<>> /\ running = Idle /\ contextEpoch = 0
  /\ installed = NoProgram /\ sessions = <<>>
  /\ counts = [edits |-> 0, checks |-> 0, opens |-> 0, runs |-> 0]

-----------------------------------------------------------------------------
(* The page.                                                               *)

Close(session) == IF session = 0 THEN <<>> ELSE <<[command |-> "context-close", session |-> session]>>
Post(messages) == toWorker' = IF alive THEN toWorker \o messages ELSE toWorker

(* invalidate: what a selection made before is worth nothing, and its      *)
(* session is released.                                                    *)
Invalid == [console EXCEPT !.epoch = console.epoch + 1, !.selection = console.selection + 1,
                           !.enabled = FALSE, !.active = 0]
Valid(token) == console.enabled /\ token = console.epoch
Current(request) == Valid(request.token) /\ request.chosen = console.selection

EditSource ==
  /\ counts.edits < MaxSourceEdits
  /\ source' = source + 1
  /\ console' = Invalid /\ listed' = 0
  /\ Post(Close(console.active) \o <<[command |-> "context-invalidate"]>>)
  /\ counts' = [counts EXCEPT !.edits = @ + 1]
  /\ UNCHANGED <<panel, waiting, toPage, workerVars, shown>>

(* check (web/proof.mjs), with or without contexts collected; the console  *)
(* is told of the result with the epoch the check began in.                *)
AskCheck(collect) ==
  /\ counts.checks < MaxCheckRequests /\ alive
  /\ console' = Invalid /\ listed' = 0
  /\ LET check == [command |-> "check", of |-> source, collect |-> collect, token |-> console.epoch + 1,
                   id |-> counts.checks]
     IN /\ Post(Close(console.active) \o <<check>>)
        /\ waiting' = waiting \cup {check}
  /\ counts' = [counts EXCEPT !.checks = @ + 1]
  /\ UNCHANGED <<source, panel, toPage, workerVars, shown>>

(* index: the points of the check shown, asked for once an epoch.          *)
AskPoints ==
  /\ console.enabled /\ listed = 0 /\ ~\E r \in waiting : r.command = "contexts"
  /\ LET ask == [command |-> "contexts", token |-> console.epoch]
     IN Post(<<ask>>) /\ waiting' = waiting \cup {ask}
  /\ UNCHANGED <<source, console, listed, panel, toPage, workerVars, shown, counts>>

(* select, of a listed point, and the console's reset.                     *)
Opens(again) ==
  /\ counts.opens < MaxOpens
  /\ LET chosen == IF again THEN console.selection ELSE console.selection + 1
         open == [command |-> "context-open", scope |-> listed, token |-> console.epoch,
                  chosen |-> chosen, again |-> again, id |-> counts.opens]
     IN /\ console' = [console EXCEPT !.selection = chosen, !.active = 0]
        /\ Post(Close(console.active) \o <<open>>)
        /\ waiting' = waiting \cup {open}
  /\ counts' = [counts EXCEPT !.opens = @ + 1]
  /\ UNCHANGED <<source, listed, toPage, workerVars, shown>>
Select ==
  /\ console.enabled /\ listed # 0
  /\ Opens(FALSE)
  /\ panel' = NoPanel
Reset ==
  /\ panel # NoPanel /\ ~panel.busy /\ Current(panel)
  /\ Opens(TRUE)
  /\ panel' = [panel EXCEPT !.busy = TRUE]

(* choose, an empty pick and the panel's close button.                     *)
Deselect ==
  /\ console.active # 0
  /\ console' = [console EXCEPT !.selection = @ + 1, !.active = 0]
  /\ Post(Close(console.active))
  /\ UNCHANGED <<source, listed, panel, waiting, toPage, workerVars, shown, counts>>

(* An entry of the panel goes to the session it shows.                     *)
EnterLine ==
  /\ panel # NoPanel /\ ~panel.busy /\ Current(panel) /\ console.active # 0
  /\ counts.runs < MaxRuns
  /\ LET run == [command |-> "context-run", session |-> console.active, token |-> panel.token,
                 chosen |-> panel.chosen, id |-> counts.runs]
     IN Post(<<run>>) /\ waiting' = waiting \cup {run}
  /\ panel' = [panel EXCEPT !.busy = TRUE]
  /\ counts' = [counts EXCEPT !.runs = @ + 1]
  /\ UNCHANGED <<source, console, listed, toPage, workerVars, shown>>

(* What the page does with an answer.                                      *)
Checked(request, reply) ==
  IF ~reply.ok
  THEN /\ console' = Invalid /\ listed' = 0
       /\ Post(Close(console.active))
       /\ UNCHANGED <<panel, shown>>
  ELSE /\ console' = IF request.token = console.epoch
                     THEN [console EXCEPT !.enabled = request.collect, !.version = request.of]
                     ELSE console
       /\ UNCHANGED <<listed, panel, shown, toWorker>>
Points(request, reply) ==
  /\ listed' = IF reply.ok /\ Valid(request.token) THEN reply.value ELSE listed
  /\ UNCHANGED <<console, panel, shown, toWorker>>
Opened(request, reply) ==
  LET resets == request.again /\ panel.chosen = request.chosen
      free == IF resets THEN [panel EXCEPT !.busy = FALSE] ELSE panel
  IN /\ UNCHANGED <<listed, shown>>
     /\ IF ~reply.ok THEN panel' = free /\ UNCHANGED <<console, toWorker>>
        ELSE IF ~Current(request) THEN panel' = free /\ UNCHANGED console /\ Post(Close(reply.value))
        ELSE /\ console' = [console EXCEPT !.active = reply.value]
             /\ panel' = IF request.again THEN free
                         ELSE [token |-> request.token, chosen |-> request.chosen, busy |-> FALSE]
             /\ UNCHANGED toWorker
Ran(request, reply) ==
  LET current == Current(request) /\ console.active = request.session
  IN /\ shown' = IF reply.ok /\ current THEN [version |-> reply.value, of |-> source] ELSE shown
     /\ panel' = IF panel.chosen = request.chosen THEN [panel EXCEPT !.busy = FALSE] ELSE panel
     /\ UNCHANGED <<console, listed, toWorker>>

Receive ==
  /\ toPage # <<>>
  /\ toPage' = Tail(toPage)
  /\ LET reply == Head(toPage)
         request == reply.request
     IN /\ waiting' = waiting \ {request}
        /\ IF request \notin waiting THEN UNCHANGED <<console, listed, panel, shown, toWorker>>
           ELSE CASE request.command = "check" -> Checked(request, reply)
                  [] request.command = "contexts" -> Points(request, reply)
                  [] request.command = "context-open" -> Opened(request, reply)
                  [] request.command = "context-run" -> Ran(request, reply)
  /\ UNCHANGED <<source, workerVars, counts>>

-----------------------------------------------------------------------------
(* The worker.                                                             *)

(* The answer's value: the version of the points, the session, the         *)
(* version the entry ran in; 0 with a refusal, and for a check.            *)
Answer(request, ok, value) ==
  toPage' = Append(toPage, [request |-> request, ok |-> ok, value |-> IF ok THEN value ELSE 0])

(* onmessage: revoking is immediate, everything else waits its turn.       *)
Revoked(all) == [s \in DOMAIN sessions |->
                   IF all THEN [sessions[s] EXCEPT !.closed = TRUE] ELSE sessions[s]]
OnMessage ==
  /\ alive /\ toWorker # <<>>
  /\ toWorker' = Tail(toWorker)
  /\ LET message == Head(toWorker)
         revokes == message.command \in {"check", "context-invalidate"}
         epoch == IF revokes THEN contextEpoch + 1 ELSE contextEpoch
     IN /\ contextEpoch' = epoch
        /\ installed' = IF revokes THEN [installed EXCEPT !.ready = FALSE] ELSE installed
        /\ sessions' = IF message.command = "context-close"
                       THEN [sessions EXCEPT ![message.session].closed = TRUE]
                       ELSE Revoked(revokes)
        /\ queue' = IF message.command \in {"context-invalidate", "context-close"} THEN queue
                    ELSE Append(queue, [request |-> message, epoch |-> epoch])
  /\ UNCHANGED <<pageVars, toPage, alive, running, counts>>

(* The next request begins; what needs no import is answered at once.      *)
Begins(command) ==
  /\ alive /\ running = Idle /\ queue # <<>>
  /\ Head(queue).request.command = command
  /\ queue' = Tail(queue)

BeginCheck ==
  /\ Begins("check")
  /\ running' = Head(queue)
  /\ UNCHANGED <<pageVars, toWorker, toPage, alive, contextEpoch, installed, sessions, counts>>

(* install, once the reply is made: an edit that came while the check was  *)
(* loading leaves the new program without contexts.                        *)
InstalledReady(check) ==
  [version |-> check.request.of, registry |-> installed.registry + 1, epoch |-> check.epoch,
   ready |-> check.request.collect]
Installed(check) ==
  [version |-> check.request.of, registry |-> installed.registry + 1, epoch |-> check.epoch,
   ready |-> check.request.collect /\ check.epoch = contextEpoch]
EndCheck(ok) ==
  /\ alive /\ running.request.command = "check"
  /\ Answer(running.request, ok, 0)
  /\ installed' = IF ok THEN Installed(running) ELSE installed
  /\ running' = Idle
  /\ UNCHANGED <<pageVars, toWorker, alive, queue, contextEpoch, sessions, counts>>

ListPoints ==
  /\ Begins("contexts")
  /\ Answer(Head(queue).request, installed.ready, installed.version)
  /\ UNCHANGED <<pageVars, toWorker, alive, running, contextEpoch, installed, sessions, counts>>

(* context-open: the constructor of ContextualSession refuses a program    *)
(* whose scopes are not ready and a point it did not record.               *)
OpenContext ==
  /\ Begins("context-open")
  /\ LET request == Head(queue).request
         opens == installed.ready /\ request.scope = installed.version
     IN /\ sessions' = IF ~opens THEN sessions
                       ELSE Append(sessions, [registry |-> installed.registry, version |-> installed.version,
                                              closed |-> FALSE])
        /\ Answer(request, opens, Len(sessions) + 1)
  /\ UNCHANGED <<pageVars, toWorker, alive, running, contextEpoch, installed, counts>>

(* context-run: #stale is read when the request begins, when the replay    *)
(* reaches the point, and when it ended.                                   *)
Stale(s) == sessions[s].closed \/ ~installed.ready \/ sessions[s].registry # installed.registry
BeginRun ==
  /\ Begins("context-run")
  /\ LET request == Head(queue).request
     IN IF Stale(request.session)
        THEN Answer(request, FALSE, 0) /\ UNCHANGED running
        ELSE running' = Head(queue) /\ UNCHANGED toPage
  /\ UNCHANGED <<pageVars, toWorker, alive, contextEpoch, installed, sessions, counts>>
EndRun ==
  /\ alive /\ running.request.command = "context-run"
  /\ LET session == running.request.session
     IN Answer(running.request, ~Stale(session), sessions[session].version)
  /\ running' = Idle
  /\ UNCHANGED <<pageVars, toWorker, alive, queue, contextEpoch, installed, sessions, counts>>

(* The kernel's instance fails under a request: a fatal reply, and no      *)
(* other.  The page fails what it waits for and drops the selection.       *)
Fault ==
  /\ alive /\ running # Idle
  /\ alive' = FALSE
  /\ toWorker' = <<>> /\ toPage' = <<>> /\ waiting' = {}
  /\ console' = Invalid /\ listed' = 0 /\ panel' = [panel EXCEPT !.busy = FALSE]
  /\ UNCHANGED <<source, shown, queue, running, contextEpoch, installed, sessions, counts>>

WorkerNext ==
  \/ EditSource \/ AskPoints \/ Select \/ Reset \/ Deselect \/ EnterLine \/ Receive
  \/ \E collect \in BOOLEAN : AskCheck(collect)
  \/ OnMessage \/ BeginCheck \/ ListPoints \/ OpenContext \/ BeginRun \/ EndRun \/ Fault
  \/ \E ok \in BOOLEAN : EndCheck(ok)

WorkerSpec == WorkerInit /\ [][WorkerNext]_workerSystem

-----------------------------------------------------------------------------
(* What a panel shows was computed for the source as it stands in the      *)
(* editor: an edit, a new check, another selection or a close in between   *)
(* keeps an earlier answer from being shown (contextual-console.mjs).  An  *)
(* open session is of the installed program, whose check was the last      *)
(* thing the page sent that decides what contexts there are; and once      *)
(* nothing is under way, only the session the page shows is open: one      *)
(* opened for an answer that came too late is closed again.                *)
Quiet == alive /\ toWorker = <<>> /\ toPage = <<>> /\ queue = <<>> /\ running = Idle
SessionsCurrent ==
  /\ shown # NotShown => shown.version = shown.of
  /\ installed.ready => installed.epoch = contextEpoch
  /\ \A s \in DOMAIN sessions : ~sessions[s].closed => ~Stale(s) /\ (Quiet => s = console.active)
=============================================================================
