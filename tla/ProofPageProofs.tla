--------------------------- MODULE ProofPageProofs ---------------------------
(***************************************************************************)
(* A page's worker, its maintenance and its console, for any deadlines and *)
(* however many requests, checks and replacements.  The invariants, each   *)
(* inductive over those before it:                                         *)
(*   PageInv     no worker runs between the end of one and the start of    *)
(*               the next, and only the first job has begun;               *)
(*   DataInv     every request is with the worker, waits or is settled,    *)
(*               in one place, and what is waited for has been asked;      *)
(*   AloneInv    maintenance has the worker to itself, and none replaces   *)
(*               it on a page that stopped replacing workers;              *)
(*   ConsoleInv  which of the console's requests are open, and what its    *)
(*               worker's session has of what was answered.                *)
(***************************************************************************)
EXTENDS ProofPage, SequenceProofs

WorkerStates == {"starting", "ready", "stopped"}

IsNet(n) == n = [asked |-> n.asked, gated |-> n.gated, sent |-> n.sent]

IsJob(j) ==
  j = [kind |-> j.kind, of |-> j.of, recheck |-> j.recheck, serial |-> j.serial,
       phase |-> j.phase, request |-> j.request, begun |-> j.begun]
IsJobs(js) ==
  /\ js \in Seq({js[k] : k \in DOMAIN js})
  /\ \A k \in DOMAIN js : IsJob(js[k])

(* Only the first job has begun.                                           *)
Waiting(js) == \A k \in DOMAIN js : k # 1 => js[k].phase = "asked"

Types ==
  /\ worker \in Nat
  /\ state \in Seq(WorkerStates) /\ Len(state) = worker
  /\ ready \in BOOLEAN
  /\ IsNet(net)
  /\ IsJobs(jobs) /\ Waiting(jobs)

(* A request is with a worker only while the page has it for ready, and    *)
(* only the last worker may run.                                           *)
Running ==
  /\ net.sent # <<>> => ready
  /\ ready => worker > 0 /\ state[worker] = "ready"
  /\ \A w \in 1 .. worker : state[w] # "stopped" => w = worker

(* Maintenance between workers.                                            *)
Between ==
  /\ In("version") => ready = FALSE /\ \A w \in 1 .. worker : state[w] = "stopped"
  /\ In("load") => ready = FALSE /\ worker > 0

PageInv == Types /\ Running /\ Between

-----------------------------------------------------------------------------
(* Sequences of jobs.                                                      *)

LEMMA OwnRange ==
  ASSUME NEW S, NEW s \in Seq(S)
  PROVE  s \in Seq({s[k] : k \in DOMAIN s})
<1> DEFINE R == {s[k] : k \in DOMAIN s}
<1>1. DOMAIN s = 1 .. Len(s) /\ Len(s) \in Nat
  OBVIOUS
<1>2. s \in [1 .. Len(s) -> R]
  BY <1>1
<1> HIDE DEF R
<1> QED
  BY <1>1, <1>2

LEMMA JobAppended ==
  ASSUME NEW js, IsJobs(js), NEW j, IsJob(j)
  PROVE  /\ IsJobs(Append(js, j))
         /\ Append(js, j) # <<>>
         /\ \A k \in DOMAIN Append(js, j) :
              \/ k \in DOMAIN js /\ Append(js, j)[k] = js[k]
              \/ k = Len(js) + 1 /\ Append(js, j)[k] = j
<1> DEFINE S == {js[k] : k \in DOMAIN js}
           T == S \cup {j}
<1>1. js \in Seq(S)
  BY DEF IsJobs
<1>2. js \in Seq(T)
  <2> HIDE DEF S
  <2> QED
    BY <1>1
<1>3. \A k \in DOMAIN js : IsJob(js[k])
  BY DEF IsJobs
<1> HIDE DEF S, T
<1>4. Append(js, j) \in Seq(T)
  BY <1>2 DEF T
<1>5. \A k \in DOMAIN Append(js, j) :
        \/ k \in DOMAIN js /\ Append(js, j)[k] = js[k]
        \/ k = Len(js) + 1 /\ Append(js, j)[k] = j
  BY <1>2, <1>4
<1>6. IsJobs(Append(js, j))
  BY <1>3, <1>4, <1>5, OwnRange DEF IsJobs
<1>7. Append(js, j) # <<>>
  <2>1. Len(Append(js, j)) = Len(js) + 1 /\ Len(js) \in Nat
    BY <1>2
  <2>2. Len(Append(js, j)) # 0
    BY <2>1
  <2> QED
    BY <2>2
<1> QED
  BY <1>5, <1>6, <1>7

LEMMA JobsLeft ==
  ASSUME NEW js, IsJobs(js), js # <<>>
  PROVE  /\ IsJobs(Tail(js))
         /\ \A k \in DOMAIN Tail(js) : k + 1 \in DOMAIN js /\ k + 1 # 1 /\ Tail(js)[k] = js[k + 1]
         /\ Tail(js) # <<>> => 1 \in DOMAIN Tail(js)
<1> DEFINE S == {js[k] : k \in DOMAIN js}
<1>1. js \in Seq(S) /\ \A k \in DOMAIN js : IsJob(js[k])
  BY DEF IsJobs
<1> HIDE DEF S
<1>2. Tail(js) \in Seq(S) /\ Len(Tail(js)) = Len(js) - 1
  BY <1>1
<1>3. \A k \in DOMAIN Tail(js) : k + 1 \in DOMAIN js /\ k + 1 # 1 /\ Tail(js)[k] = js[k + 1]
  BY <1>1, <1>2
<1>4. IsJobs(Tail(js))
  BY <1>1, <1>2, <1>3, OwnRange DEF IsJobs
<1> QED
  BY <1>2, <1>3, <1>4

(* The first job goes on; Works changes it further in the same way.        *)
LEMMA JobGoes ==
  ASSUME NEW js, IsJobs(js), js # <<>>, NEW j, IsJob(j)
  PROVE  /\ IsJobs([js EXCEPT ![1] = j])
         /\ [js EXCEPT ![1] = j] # <<>> /\ [js EXCEPT ![1] = j][1] = j
         /\ DOMAIN [js EXCEPT ![1] = j] = DOMAIN js
         /\ \A k \in DOMAIN js : k # 1 => [js EXCEPT ![1] = j][k] = js[k]
<1> DEFINE S == {js[k] : k \in DOMAIN js}
           T == S \cup {j}
           f == [js EXCEPT ![1] = j]
<1>1. js \in Seq(S) /\ \A k \in DOMAIN js : IsJob(js[k])
  BY DEF IsJobs
<1> HIDE DEF S
<1>2. 1 \in DOMAIN js /\ js \in Seq(T)
  BY <1>1
<1>3. f \in Seq(T) /\ f[1] = j /\ DOMAIN f = DOMAIN js /\ f # <<>>
  BY <1>1, <1>2
<1>4. \A k \in DOMAIN js : k # 1 => f[k] = js[k]
  BY <1>1
<1>5. \A k \in DOMAIN f : IsJob(f[k])
  BY <1>1, <1>3, <1>4
<1> HIDE DEF f, T
<1>6. IsJobs(f)
  BY <1>3, <1>5, OwnRange DEF IsJobs
<1> QED
  BY <1>3, <1>4, <1>6 DEF f

-----------------------------------------------------------------------------
(* Requests: none is sent but to a worker that is ready.                   *)

LEMMA SendNet ==
  ASSUME NEW n, IsNet(n), NEW ids, NEW up
  PROVE  IsNet(Send(n, ids, up)) /\ (up = FALSE => Send(n, ids, up).sent = n.sent)
<1>1. PICK asked, sent : /\ Send(n, ids, up) = [n EXCEPT !.asked = asked, !.sent = sent]
                         /\ up = FALSE => sent = n.sent
  BY DEF Send
<1> QED
  BY <1>1 DEF IsNet

LEMMA AskNet ==
  ASSUME IsNet(net), NEW command, NEW internal, NEW entries, NEW up
  PROVE  /\ IsNet(Ask(command, internal, entries, up))
         /\ up = FALSE => Ask(command, internal, entries, up).sent = net.sent
<1> DEFINE n == [net EXCEPT !.asked = Append(@, Request(command, internal, entries))]
           i == Len(n.asked)
           w == [n EXCEPT !.gated = Append(@, [id |-> i, gate |-> Last(jobs).serial])]
<1>1. IsNet(n) /\ n.sent = net.sent
  BY DEF IsNet
<1>2. Ask(command, internal, entries, up) = IF Waits(internal) THEN w ELSE Send(n, <<i>>, up)
  BY DEF Ask
<1> HIDE DEF n, i
<1>3. IsNet(w) /\ w.sent = n.sent
  BY <1>1 DEF IsNet
<1>4. IsNet(Send(n, <<i>>, up)) /\ (up = FALSE => Send(n, <<i>>, up).sent = n.sent)
  BY <1>1, SendNet
<1> HIDE DEF w
<1> QED
  BY <1>1, <1>2, <1>3, <1>4

LEMMA DropNet ==
  ASSUME IsNet(net), NEW status
  PROVE  IsNet(Drop(status)) /\ Drop(status).sent = <<>>
<1>1. PICK asked : Drop(status) = [net EXCEPT !.asked = asked, !.sent = <<>>]
  BY DEF Drop
<1> QED
  BY <1>1 DEF IsNet

LEMMA ReplyNet ==
  ASSUME IsNet(net), NEW i, NEW status, NEW entries
  PROVE  IsNet(Reply(i, status, entries))
<1>1. PICK asked, sent : Reply(i, status, entries) = [net EXCEPT !.asked = asked, !.sent = sent]
  BY DEF Reply, IsNet
<1> QED
  BY <1>1 DEF IsNet

-----------------------------------------------------------------------------
(* What a job's start, its progress and its end do to the others.          *)

LEMMA RunJob ==
  ASSUME IsJobs(jobs), Waiting(jobs), NEW kind, NEW of, NEW recheck, Run(Job(kind, of, recheck))
  PROVE  /\ IsJobs(jobs') /\ Waiting(jobs') /\ Busy'
         /\ jobs'[1].phase = "asked" \/ (Busy /\ jobs'[1] = jobs[1])
<1> DEFINE j == Job(kind, of, recheck)
<1>1. IsJob(j) /\ j.phase = "asked"
  BY DEF Job, IsJob
<1>2. jobs' = Append(jobs, j)
  BY DEF Run
<1> HIDE DEF j
<1>3. \A k \in DOMAIN jobs' : \/ k \in DOMAIN jobs /\ jobs'[k] = jobs[k]
                              \/ k = Len(jobs) + 1 /\ jobs'[k] = j
  BY <1>1, <1>2, JobAppended
<1>4. IsJobs(jobs') /\ jobs' # <<>>
  BY <1>1, <1>2, JobAppended
<1>5. 1 \in DOMAIN jobs'
  BY <1>4 DEF IsJobs
<1>6. jobs = <<>> => DOMAIN jobs = {}
  OBVIOUS
<1> QED
  BY <1>1, <1>3, <1>4, <1>5, <1>6 DEF Waiting, Busy

LEMMA FirstGoes ==
  ASSUME IsJobs(jobs), Waiting(jobs), Busy, NEW phase,
         jobs' = Goes(phase) \/ \E i : jobs' = Works(phase, i)
  PROVE  IsJobs(jobs') /\ Waiting(jobs') /\ jobs'[1].phase = phase
<1>1. IsJob(jobs[1])
  BY DEF IsJobs, Busy
<1>2. PICK j : jobs' = [jobs EXCEPT ![1] = j] /\ IsJob(j) /\ j.phase = phase
  <2>1. CASE jobs' = Goes(phase)
    <3>1. jobs' = [jobs EXCEPT ![1] = [jobs[1] EXCEPT !.phase = phase]]
      BY <2>1 DEF Goes
    <3>2. IsJob([jobs[1] EXCEPT !.phase = phase]) /\ [jobs[1] EXCEPT !.phase = phase].phase = phase
      BY <1>1 DEF IsJob
    <3> QED
      BY <3>1, <3>2
  <2>2. CASE \E i : jobs' = Works(phase, i)
    <3>1. PICK i : jobs' = Works(phase, i)
      BY <2>2
    <3>2. PICK old, e : /\ IsJob(old)
                        /\ jobs' = [jobs EXCEPT ![1] = [old EXCEPT !.phase = phase, !.request = i, !.begun = e]]
      BY <1>1, <3>1 DEF Works
    <3> DEFINE j == [old EXCEPT !.phase = phase, !.request = i, !.begun = e]
    <3> DEFINE j1 == [old EXCEPT !.phase = phase]
               j2 == [j1 EXCEPT !.request = i]
    <3>3. IsJob(j1) /\ j1.phase = phase
      BY <3>2 DEF IsJob
    <3>4. j = [j2 EXCEPT !.begun = e]
      OBVIOUS
    <3> HIDE DEF j1, j
    <3>5. IsJob(j2) /\ j2.phase = phase
      BY <3>3 DEF IsJob
    <3> HIDE DEF j2
    <3>6. IsJob(j) /\ j.phase = phase
      BY <3>4, <3>5 DEF IsJob
    <3> QED
      BY <3>2, <3>6 DEF j
  <2> QED
    BY <2>1, <2>2
<1>3. /\ IsJobs(jobs') /\ jobs'[1] = j /\ DOMAIN jobs' = DOMAIN jobs
      /\ \A k \in DOMAIN jobs : k # 1 => jobs'[k] = jobs[k]
  BY <1>2, JobGoes DEF Busy
<1> QED
  BY <1>2, <1>3 DEF Waiting

LEMMA FirstEnds ==
  ASSUME IsJobs(jobs), Waiting(jobs), Busy, jobs' = Tail(jobs)
  PROVE  IsJobs(jobs') /\ Waiting(jobs') /\ (Busy' => jobs'[1].phase = "asked")
<1>1. /\ IsJobs(jobs')
      /\ \A k \in DOMAIN jobs' : k + 1 \in DOMAIN jobs /\ k + 1 # 1 /\ jobs'[k] = jobs[k + 1]
      /\ jobs' # <<>> => 1 \in DOMAIN jobs'
  BY JobsLeft DEF Busy
<1>2. \A k \in DOMAIN jobs' : jobs'[k].phase = "asked"
  BY <1>1 DEF Waiting
<1> QED
  BY <1>1, <1>2 DEF Waiting, Busy

(* Only requests and what the reader and the console hold change.          *)
LEMMA RequestsOnly ==
  ASSUME PageInv, UNCHANGED <<worker, state, ready, jobs>>, IsNet(net'),
         net'.sent # <<>> => ready
  PROVE  PageInv'
BY DEF PageInv, Types, Running, Between, In, Busy, Current

(* Jobs go on while the worker is as it was, and none is between workers   *)
(* that was not.                                                           *)
LEMMA JobsOnly ==
  ASSUME PageInv, UNCHANGED <<worker, state, ready>>, IsNet(net'), net'.sent # <<>> => ready,
         IsJobs(jobs'), Waiting(jobs'),
         Busy' => \/ jobs'[1].phase \notin {"version", "load"}
                  \/ Busy /\ jobs'[1] = jobs[1]
  PROVE  PageInv'
BY DEF PageInv, Types, Running, Between, In, Busy, Current

(* The worker stops: nothing is sent, and none runs.                       *)
LEMMA Stops ==
  ASSUME PageInv, worker > 0, NEW status, Stop(status)
  PROVE  /\ state' \in Seq(WorkerStates) /\ Len(state') = worker /\ ready' = FALSE
         /\ IsNet(net') /\ net'.sent = <<>>
         /\ \A w \in 1 .. worker : state'[w] = "stopped"
<1>1. state \in Seq(WorkerStates) /\ Len(state) = worker /\ worker \in Nat
  BY DEF PageInv, Types
<1>2. state' = [state EXCEPT ![worker] = "stopped"] /\ ready' = FALSE
  BY DEF Stop
<1>3. state' \in Seq(WorkerStates) /\ Len(state') = worker
  BY <1>1, <1>2 DEF WorkerStates
<1>4. \A w \in 1 .. worker : state'[w] = "stopped"
  BY <1>1, <1>2 DEF PageInv, Running
<1>5. IsNet(net') /\ net'.sent = <<>>
  BY DropNet DEF PageInv, Types, Stop
<1> QED
  BY <1>2, <1>3, <1>4, <1>5

-----------------------------------------------------------------------------
LEMMA PageInit == Init => PageInv
<1> SUFFICES ASSUME Init PROVE PageInv
  OBVIOUS
<1> DEFINE j == [kind |-> "start", of |-> 0, recheck |-> FALSE, serial |-> 1, phase |-> "asked",
                 request |-> 0, begun |-> 0]
<1>1. IsJobs(jobs) /\ Waiting(jobs) /\ jobs[1].phase = "asked"
  <2>1. jobs = <<j>> /\ IsJob(j) /\ j.phase = "asked"
    BY DEF Init, IsJob
  <2> HIDE DEF j
  <2>2. jobs \in Seq({j}) /\ DOMAIN jobs = {1} /\ jobs[1] = j
    BY <2>1
  <2> QED
    BY <2>1, <2>2, OwnRange DEF IsJobs, Waiting
<1>2. IsNet(net) /\ net.sent = <<>>
  BY DEF Init, IsNet
<1>3. worker = 0 /\ state = <<>> /\ ready = FALSE
  BY DEF Init
<1>4. <<>> \in Seq(WorkerStates) /\ Len(<<>>) = 0
  OBVIOUS
<1>5. Types
  BY <1>1, <1>2, <1>3, <1>4 DEF Types
<1> QED
  BY <1>1, <1>2, <1>3, <1>5 DEF PageInv, Running, Between, In, Busy, Current

(* A worker is replaced: the old one stops, and a new one is loaded at     *)
(* once or when the version is known.                                      *)
LEMMA WorkerStarts ==
  ASSUME Types, NEW ended, ended \in Seq(WorkerStates), Len(ended) = worker,
         \A w \in 1 .. worker : ended[w] = "stopped",
         Starts, state' = Append(ended, "starting"), ready' = FALSE, IsNet(net'), net'.sent = <<>>,
         Busy
  PROVE  PageInv'
<1>1. worker \in Nat /\ worker' = worker + 1 /\ jobs' = Goes("load")
  BY DEF Types, Starts
<1>2. state' \in Seq(WorkerStates) /\ Len(state') = worker'
  BY <1>1 DEF WorkerStates
<1>3. \A w \in 1 .. worker' : w # worker' => state'[w] = "stopped"
  BY <1>1, <1>2
<1>4. IsJobs(jobs') /\ Waiting(jobs') /\ jobs'[1].phase = "load"
  BY <1>1, FirstGoes DEF Types
<1>5. Types'
  <2>1. worker' \in Nat
    BY <1>1
  <2>2. ready' \in BOOLEAN
    OBVIOUS
  <2> QED
    BY <1>2, <1>4, <2>1, <2>2 DEF Types
<1>6. Running'
  BY <1>3 DEF Running
<1>7. Between'
  BY <1>1, <1>4 DEF Between, In, Current
<1> QED
  BY <1>5, <1>6, <1>7 DEF PageInv

LEMMA Replacing == PageInv /\ Replace => PageInv'
<1> SUFFICES ASSUME PageInv, Replace PROVE PageInv'
  OBVIOUS
<1>1. Types /\ Busy /\ ready' = FALSE
  BY DEF PageInv, Replace, Turn, In
<1>2. IsNet(net') /\ net'.sent = <<>>
  <2>1. net' = Drop("failed")
    BY DEF Replace
  <2> QED
    BY <1>1, <2>1, DropNet DEF Types
<1>3. /\ worker \in Nat
      /\ Ended \in Seq(WorkerStates) /\ Len(Ended) = worker
      /\ \A w \in 1 .. worker : Ended[w] = "stopped"
  <2>1. /\ worker \in Nat /\ state \in Seq(WorkerStates) /\ Len(state) = worker
        /\ \A w \in 1 .. worker : state[w] # "stopped" => w = worker
    BY DEF PageInv, Types, Running
  <2>2. CASE worker = 0
    BY <2>1, <2>2 DEF Ended
  <2>3. CASE worker # 0
    <3>1. Ended = [state EXCEPT ![worker] = "stopped"]
      BY <2>3 DEF Ended
    <3> QED
      BY <2>1, <2>3, <3>1 DEF WorkerStates
  <2> QED
    BY <2>2, <2>3
<1>4. CASE Known
  <2>1. Starts /\ state' = Append(Ended, "starting")
    BY <1>4 DEF Replace
  <2> QED
    BY <1>1, <1>2, <1>3, <2>1, WorkerStarts
<1>5. CASE ~ Known
  <2>1. jobs' = Goes("version") /\ state' = Ended /\ worker' = worker
    BY <1>5 DEF Replace
  <2>2. IsJobs(jobs') /\ Waiting(jobs') /\ jobs'[1].phase = "version"
    BY <1>1, <2>1, FirstGoes DEF Types
  <2>3. Types'
    BY <1>1, <1>2, <1>3, <2>1, <2>2 DEF Types
  <2>4. Running'
    BY <1>1, <1>2, <1>3, <2>1 DEF Running
  <2>5. Between'
    BY <1>1, <1>3, <2>1, <2>2 DEF Between, In, Current
  <2> QED
    BY <2>3, <2>4, <2>5 DEF PageInv
<1> QED
  BY <1>4, <1>5

LEMMA Starting == PageInv /\ StartWorker => PageInv'
<1> SUFFICES ASSUME PageInv, StartWorker PROVE PageInv'
  OBVIOUS
<1>1. Types /\ Busy /\ In("version")
  BY DEF PageInv, StartWorker, In
<1>2. ready = FALSE /\ \A w \in 1 .. worker : state[w] = "stopped"
  BY <1>1 DEF PageInv, Between
<1>3. net.sent = <<>>
  BY <1>2 DEF PageInv, Running
<1>4. Starts /\ state' = Append(state, "starting") /\ ready' = ready /\ net' = net
  BY DEF StartWorker
<1>5. state \in Seq(WorkerStates) /\ Len(state) = worker /\ IsNet(net)
  BY <1>1 DEF Types
<1> QED
  BY <1>1, <1>2, <1>3, <1>4, <1>5, WorkerStarts

LEMMA Readying == PageInv /\ WorkerReady => PageInv'
<1> SUFFICES ASSUME PageInv, WorkerReady PROVE PageInv'
  OBVIOUS
<1>1. /\ Types /\ Busy /\ In("load") /\ ready' = TRUE /\ worker' = worker
      /\ state' = [state EXCEPT ![worker] = "ready"]
  BY DEF PageInv, WorkerReady, In
<1>2. worker > 0 /\ worker \in Nat /\ state \in Seq(WorkerStates) /\ Len(state) = worker
  BY <1>1 DEF PageInv, Between, Types
<1>3. state' \in Seq(WorkerStates) /\ Len(state') = worker /\ state'[worker] = "ready"
  BY <1>1, <1>2 DEF WorkerStates
<1>4. \A w \in 1 .. worker : w # worker => state'[w] = "stopped"
  BY <1>1, <1>2 DEF PageInv, Running
<1>5. net' = Ask("check", TRUE, 0, TRUE) \/ net' = Ask("check", FALSE, 0, TRUE) \/ net' = net
  BY DEF WorkerReady
<1>6. IsNet(net')
  BY <1>1, <1>5, AskNet DEF Types
<1>7. jobs' = Goes("done") \/ jobs' = Works("rebuild", Asked + 1)
  BY DEF WorkerReady
<1>8. IsJobs(jobs') /\ Waiting(jobs') /\ jobs'[1].phase \in {"done", "rebuild"}
  BY <1>1, <1>7, FirstGoes DEF Types
<1>9. Types'
  BY <1>1, <1>2, <1>3, <1>6, <1>8 DEF Types
<1>10. Running'
  BY <1>1, <1>2, <1>3, <1>4 DEF Running
<1>11. Between'
  BY <1>8 DEF Between, In, Current
<1> QED
  BY <1>9, <1>10, <1>11 DEF PageInv

-----------------------------------------------------------------------------
(* The other steps of the maintenance under way leave the worker alone.    *)

LEMMA Maintaining ==
  PageInv /\ (Decline \/ WorkerStopped \/ Rebuilt \/ RestoreBegins \/ RestoreSkipped \/ Restored)
  => PageInv'
<1> SUFFICES ASSUME PageInv,
                    Decline \/ WorkerStopped \/ Rebuilt \/ RestoreBegins \/ RestoreSkipped \/ Restored
             PROVE  PageInv'
  OBVIOUS
<1>1. Types /\ Busy /\ UNCHANGED <<worker, state, ready>>
  BY DEF PageInv, Decline, WorkerStopped, Rebuilt, RestoreBegins, RestoreSkipped, Restored,
         RestoreTurn, Turn, In, pageVars
<1>2. net' = net \/ net' = Ask("restore", TRUE, record, ready)
  BY DEF Decline, WorkerStopped, Rebuilt, RestoreBegins, RestoreSkipped, Restored
<1>3. IsNet(net') /\ (net'.sent # <<>> => ready)
  <2>1. CASE net' = net
    BY <2>1 DEF PageInv, Types, Running
  <2>2. CASE net' = Ask("restore", TRUE, record, ready)
    BY <1>1, <2>2, AskNet DEF PageInv, Types, Running
  <2> QED
    BY <1>2, <2>1, <2>2
<1>4. PICK phase : /\ jobs' = Goes(phase) \/ \E i : jobs' = Works(phase, i)
                   /\ phase \notin {"version", "load"}
  <2>1. Decline => jobs' = Goes("declined")
    BY DEF Decline
  <2>2. WorkerStopped \/ RestoreSkipped \/ Restored => jobs' = Goes("done")
    BY DEF WorkerStopped, RestoreSkipped, Restored
  <2>3. Rebuilt => jobs' = Goes("restore") \/ jobs' = Goes("done")
    BY DEF Rebuilt
  <2>4. RestoreBegins => \E i : jobs' = Works("restoring", i)
    BY DEF RestoreBegins
  <2> QED
    BY <2>1, <2>2, <2>3, <2>4
<1>5. IsJobs(jobs') /\ Waiting(jobs') /\ jobs'[1].phase \notin {"version", "load"}
  BY <1>1, <1>4, FirstGoes DEF Types
<1> QED
  BY <1>1, <1>3, <1>5, JobsOnly

LEMMA Finishing == PageInv /\ Finish => PageInv'
<1> SUFFICES ASSUME PageInv, Finish PROVE PageInv'
  OBVIOUS
<1>1. Types /\ Busy /\ UNCHANGED <<worker, state, ready>> /\ jobs' = Tail(jobs)
  BY DEF PageInv, Finish, In, pageVars
<1>2. IsJobs(jobs') /\ Waiting(jobs') /\ (Busy' => jobs'[1].phase = "asked")
  BY <1>1, FirstEnds DEF Types
<1>3. PICK asked, gated, waits, ids :
        LET rest == [net EXCEPT !.asked = asked, !.gated = gated]
        IN  net' = Send(rest, ids, ready) \/ net' = [rest EXCEPT !.gated = waits]
  BY DEF Finish
<1> DEFINE rest == [net EXCEPT !.asked = asked, !.gated = gated]
<1>4. IsNet(rest) /\ rest.sent = net.sent
  <2>1. IsNet(net)
    BY <1>1 DEF Types
  <2> DEFINE n == [net EXCEPT !.asked = asked]
  <2>2. IsNet(n) /\ n.sent = net.sent
    BY <2>1 DEF IsNet
  <2>3. rest = [n EXCEPT !.gated = gated]
    OBVIOUS
  <2> HIDE DEF n, rest
  <2> QED
    BY <2>2, <2>3 DEF IsNet
<1>5. net' = Send(rest, ids, ready) \/ net' = [rest EXCEPT !.gated = waits]
  BY <1>3
<1> HIDE DEF rest
<1>6. IsNet(net') /\ (ready = FALSE => net'.sent = net.sent)
  <2>1. CASE net' = Send(rest, ids, ready)
    BY <1>4, <2>1, SendNet
  <2>2. CASE net' = [rest EXCEPT !.gated = waits]
    BY <1>4, <2>2 DEF IsNet
  <2> QED
    BY <1>5, <2>1, <2>2
<1>7. net'.sent # <<>> => ready
  BY <1>1, <1>6 DEF PageInv, Running, Types
<1> QED
  BY <1>1, <1>2, <1>6, <1>7, JobsOnly

-----------------------------------------------------------------------------
(* A request asked of the worker the page has, if it has one.              *)
LEMMA Asks ==
  ASSUME PageInv, NEW command, NEW internal, NEW entries, net' = Ask(command, internal, entries, ready)
  PROVE  IsNet(net') /\ (net'.sent # <<>> => ready)
BY AskNet DEF PageInv, Types, Running

(* Maintenance is asked for, and what is sent stays as it is.              *)
LEMMA RunOnly ==
  ASSUME PageInv, UNCHANGED <<worker, state, ready, net>>,
         NEW kind, NEW of, NEW recheck, Run(Job(kind, of, recheck))
  PROVE  PageInv'
<1>1. IsNet(net') /\ (net'.sent # <<>> => ready)
  BY DEF PageInv, Types, Running
<1>2. /\ IsJobs(jobs') /\ Waiting(jobs')
      /\ jobs'[1].phase = "asked" \/ (Busy /\ jobs'[1] = jobs[1])
  BY RunJob DEF PageInv, Types
<1> QED
  BY <1>1, <1>2, JobsOnly

LEMMA Fetching == ASSUME NEW c PROVE PageInv /\ (SameVersion(c) \/ NewVersion(c)) => PageInv'
<1> SUFFICES ASSUME PageInv, SameVersion(c) \/ NewVersion(c) PROVE PageInv'
  OBVIOUS
<1>1. CASE SameVersion(c)
  <2>1. UNCHANGED <<worker, state, ready, jobs>>
    BY <1>1 DEF SameVersion, pageVars, jobVars
  <2>2. net' = Ask("check", FALSE, 0, ready) \/ net' = net
    BY <1>1 DEF SameVersion
  <2>3. IsNet(net') /\ (net'.sent # <<>> => ready)
    BY <2>2, Asks DEF PageInv, Types, Running
  <2> QED
    BY <2>1, <2>3, RequestsOnly
<1>2. CASE NewVersion(c)
  BY <1>2, RunOnly DEF NewVersion, pageVars
<1> QED
  BY <1>1, <1>2

LEMMA Reading == PageInv /\ Reader => PageInv'
<1> SUFFICES ASSUME PageInv, Reader PROVE PageInv'
  OBVIOUS
<1>1. CASE Press \/ Focus \/ Reset \/ ReaderAsks
  <2>1. UNCHANGED <<worker, state, ready, jobs>>
    BY <1>1 DEF Press, Focus, Reset, ReaderAsks, pageVars, jobVars
  <2>2. net' = net \/ \E command : net' = Ask(command, FALSE, 0, ready)
    BY <1>1 DEF Press, Focus, Reset, ReaderAsks
  <2>3. IsNet(net') /\ (net'.sent # <<>> => ready)
    BY <2>2, Asks DEF PageInv, Types, Running
  <2> QED
    BY <2>1, <2>3, RequestsOnly
<1>2. CASE ReaderChecks
  <2>1. UNCHANGED <<worker, state, ready>>
    BY <1>2 DEF ReaderChecks
  <2>2. \/ net' = net /\ Run(Job("retry", 0, FALSE))
        \/ jobs' = jobs /\ (net' = net \/ net' = Ask("check", FALSE, 0, ready))
    BY <1>2 DEF ReaderChecks, jobVars
  <2>3. CASE net' = net /\ Run(Job("retry", 0, FALSE))
    BY <2>1, <2>3, RunOnly
  <2>4. CASE jobs' = jobs /\ (net' = net \/ net' = Ask("check", FALSE, 0, ready))
    <3>1. IsNet(net') /\ (net'.sent # <<>> => ready)
      BY <2>4, Asks DEF PageInv, Types, Running
    <3> QED
      BY <2>1, <2>4, <3>1, RequestsOnly
  <2> QED
    BY <2>2, <2>3, <2>4
<1>3. CASE Enter
  <2>1. UNCHANGED <<worker, state, ready>>
    BY <1>3 DEF Enter
  <2>2. \/ net' = net /\ Run(Job("restore", 0, FALSE))
        \/ jobs' = jobs /\ net' = Ask("repl", FALSE, 0, ready)
    BY <1>3 DEF Enter, jobVars
  <2>3. CASE net' = net /\ Run(Job("restore", 0, FALSE))
    BY <2>1, <2>3, RunOnly
  <2>4. CASE jobs' = jobs /\ net' = Ask("repl", FALSE, 0, ready)
    <3>1. IsNet(net') /\ (net'.sent # <<>> => ready)
      BY <2>4, Asks
    <3> QED
      BY <2>1, <2>4, <3>1, RequestsOnly
  <2> QED
    BY <2>2, <2>3, <2>4
<1> QED
  BY <1>1, <1>2, <1>3 DEF Reader

-----------------------------------------------------------------------------
(* The worker answers, or stops.                                           *)

LEMMA Answering == ASSUME NEW i PROVE PageInv /\ (Answer(i) \/ Refuse(i) \/ Advance(i)) => PageInv'
<1> SUFFICES ASSUME PageInv, Answer(i) \/ Refuse(i) \/ Advance(i) PROVE PageInv'
  OBVIOUS
<1>1. UNCHANGED <<worker, state, ready, jobs>>
  BY DEF Answer, Refuse, Advance, pageVars, jobVars
<1>2. net.sent # <<>> /\ ready /\ IsNet(net)
  <2>1. net.sent # <<>>
    <3>1. CASE Advance(i)
      BY <3>1 DEF Advance
    <3>2. CASE Answer(i) \/ Refuse(i)
      <4>1. i \in Range(net.sent)
        BY <3>2 DEF Answer, Refuse, Answerable
      <4> QED
        BY <4>1 DEF Range
    <3> QED
      BY <3>1, <3>2
  <2> QED
    BY <2>1 DEF PageInv, Types, Running
<1>3. IsNet(net')
  <2>1. CASE Advance(i)
    <3>1. PICK asked : net' = [net EXCEPT !.asked = asked]
      BY <1>2, <2>1 DEF Advance, IsNet
    <3> QED
      BY <1>2, <3>1 DEF IsNet
  <2>2. CASE Refuse(i)
    BY <1>2, <2>2, ReplyNet DEF Refuse
  <2>3. CASE Answer(i)
    <3>1. \E status, entries : net' = Reply(i, status, entries)
      BY <2>3 DEF Answer
    <3> QED
      BY <1>2, <3>1, ReplyNet
  <2> QED
    BY <2>1, <2>2, <2>3
<1> QED
  BY <1>1, <1>2, <1>3, RequestsOnly

LEMMA Ticking == PageInv /\ Tick => PageInv'
<1> SUFFICES ASSUME PageInv, Tick PROVE PageInv'
  OBVIOUS
<1>1. UNCHANGED <<worker, state, ready, jobs>> /\ net.sent # <<>>
  BY DEF Tick, pageVars, jobVars
<1>2. ready /\ IsNet(net)
  BY <1>1 DEF PageInv, Types, Running
<1>3. PICK asked : net' = [net EXCEPT !.asked = asked]
  BY DEF Tick
<1>4. IsNet(net')
  BY <1>2, <1>3 DEF IsNet
<1> QED
  BY <1>1, <1>2, <1>4, RequestsOnly

(* A worker stops by a fault, or is lost, or a deadline passes.            *)
LEMMA Stopping ==
  ASSUME PageInv, worker > 0, NEW status, Stop(status), worker' = worker,
         jobs' = jobs \/ \E kind, of, recheck : Run(Job(kind, of, recheck))
  PROVE  PageInv'
<1>1. /\ state' \in Seq(WorkerStates) /\ Len(state') = worker /\ ready' = FALSE
      /\ IsNet(net') /\ net'.sent = <<>>
      /\ \A w \in 1 .. worker : state'[w] = "stopped"
  BY Stops
<1>2. worker \in Nat /\ IsJobs(jobs) /\ Waiting(jobs)
  BY DEF PageInv, Types
<1>3. IsJobs(jobs') /\ Waiting(jobs')
  BY <1>2, RunJob
<1>4. ready' \in BOOLEAN
  BY <1>1
<1>5. Types'
  BY <1>1, <1>2, <1>3, <1>4 DEF Types
<1>6. Running'
  BY <1>1 DEF Running
<1>7. Between'
  BY <1>1 DEF Between
<1> QED
  BY <1>5, <1>6, <1>7 DEF PageInv

(* While something is sent, or a worker is not stopped, there is a worker. *)
LEMMA Ending ==
  ASSUME NEW i PROVE PageInv /\ (Fault \/ Lost \/ Expire(i)) => PageInv'
<1> SUFFICES ASSUME PageInv, Fault \/ Lost \/ Expire(i) PROVE PageInv'
  OBVIOUS
<1>1. CASE Lost
  BY <1>1, Stopping DEF Lost, jobVars
<1>2. CASE Expire(i)
  <2>1. net.sent # <<>>
    BY <1>2 DEF Expire, Range
  <2>2. worker > 0
    BY <2>1 DEF PageInv, Running
  <2> QED
    BY <1>2, <2>2, Stopping DEF Expire, jobVars
<1>3. CASE Fault
  <2>1. worker > 0
    BY <1>3 DEF Fault, PageInv, Running
  <2>2. Stop("failed") /\ worker' = worker
    BY <1>3 DEF Fault
  <2>3. jobs' = jobs \/ \E kind, of, recheck : Run(Job(kind, of, recheck))
    BY <1>3 DEF Fault, jobVars
  <2> QED
    BY <2>1, <2>2, <2>3, Stopping
<1> QED
  BY <1>1, <1>2, <1>3

-----------------------------------------------------------------------------
LEMMA PageNext == PageInv /\ [Next]_vars => PageInv'
<1> SUFFICES ASSUME PageInv, [Next]_vars PROVE PageInv'
  OBVIOUS
<1>1. CASE Continue
  <2>1. CASE EntrySettled \/ ResetSettled
    <3>1. UNCHANGED <<worker, state, ready, jobs, net>>
      BY <2>1 DEF EntrySettled, ResetSettled, pageVars, jobVars
    <3>2. IsNet(net') /\ (net'.sent # <<>> => ready)
      BY <3>1 DEF PageInv, Types, Running
    <3> QED
      BY <3>1, <3>2, RequestsOnly
  <2>2. CASE ~ (EntrySettled \/ ResetSettled)
    BY <1>1, <2>2, Replacing, Maintaining, Finishing DEF Continue
  <2> QED
    BY <2>1, <2>2
<1>2. CASE ~ Due /\ Event
  <2>1. CASE Fetched
    BY <2>1, Starting, Fetching DEF Fetched
  <2>2. CASE Replies
    BY <2>2, Answering DEF Replies
  <2>3. CASE TimesOut
    BY <2>3, Ending DEF TimesOut
  <2>4. CASE Fault \/ Lost
    BY <2>4, Ending
  <2>5. CASE WorkerReady \/ Reader \/ Tick
    BY <2>5, Readying, Reading, Ticking
  <2> QED
    BY <1>2, <2>1, <2>2, <2>3, <2>4, <2>5 DEF Event
<1>3. CASE UNCHANGED vars
  <2>1. UNCHANGED <<worker, state, ready, jobs, net>>
    BY <1>3 DEF vars, pageVars, jobVars
  <2>2. IsNet(net') /\ (net'.sent # <<>> => ready)
    BY <2>1 DEF PageInv, Types, Running
  <2> QED
    BY <2>1, <2>2, RequestsOnly
<1> QED
  BY <1>1, <1>2, <1>3 DEF Next

(* Whatever is asked, answered or lost, and however often a worker is      *)
(* replaced: requests are with a ready worker, the only one running        *)
(* (sendToWorker and replaceWorker in proof.mjs, and the handlers that     *)
(* take ready back when a worker stops).                                   *)
THEOREM RequestsReachTheRunningWorker == Spec => []SentToRunning
<1>1. PageInv => SentToRunning
  <2> SUFFICES ASSUME PageInv PROVE SentToRunning
    OBVIOUS
  <2>1. DOMAIN state = 1 .. worker
    BY DEF PageInv, Types
  <2> QED
    BY <2>1 DEF PageInv, Running, SentToRunning
<1> QED
  BY <1>1, PageInit, PageNext, PTL DEF Spec

-----------------------------------------------------------------------------
(* What the variables hold, field by field.                                *)
Commands == Checking \cup {"reset", "invalidate", "query"}
Requests == [command : Commands, internal : BOOLEAN, status : Statuses, left : Int, advances : Nat,
             entries : Nat]
Gated == [id : Nat, gate : Nat]
Nets == [asked : Seq(Requests), gated : Seq(Gated), sent : Seq(Nat)]
Kinds == {"start", "fault", "update", "retry", "restore"}
Phases == {"asked", "version", "load", "rebuild", "restore", "restoring", "done", "declined"}
Jobs == [kind : Kinds, of : Nat, recheck : BOOLEAN, serial : Nat, phase : Phases, request : Nat, begun : Nat]
Consoles == [phase : {"idle", "restore", "entry", "reset"}, on : Nat, begun : Nat]
Calls == [asks : BOOLEAN, phase : {"version", "update", "retry", "over"}, on : Nat]

(* Requests that wait and requests sent: those are not with the worker yet,*)
(* and none of them is maintenance's.                                      *)
IdsOf(gated) == [k \in DOMAIN gated |-> gated[k].id]
Distinct(s) == \A k, l \in DOMAIN s : s[k] = s[l] => k = l
Waited == Range(IdsOf(net.gated))
Accounts ==
  /\ \A i \in Range(net.sent) : i \in DOMAIN net.asked /\ net.asked[i].status = "sent"
  /\ \A i \in Waited : i \in DOMAIN net.asked /\ net.asked[i].status = "gated" /\ ~ net.asked[i].internal
  /\ Distinct(IdsOf(net.gated))

(* What the page and its workers hold.                                     *)
NetData == net \in Nets /\ Accounts
JobData == jobs \in Seq(Jobs) /\ serial \in Nat
ConsoleData == console \in Consoles /\ record \in Nat /\ at \in 0 .. worker /\ epoch \in Nat
WorkerData ==
  /\ proven \in Seq(BOOLEAN) /\ session \in Seq(Nat)
  /\ Len(proven) = worker /\ Len(session) = worker
Data == NetData /\ JobData /\ checks \in Seq(Calls) /\ halted \in BOOLEAN /\ ConsoleData /\ WorkerData

(* What is waited for was asked.                                           *)
JobRefers == In("rebuild") \/ In("restoring") => Current.request \in DOMAIN net.asked
ConsoleRefers == console.phase \in {"entry", "reset"} => console.on \in DOMAIN net.asked

DataInv == PageInv /\ Data /\ JobRefers /\ ConsoleRefers

Grown == DOMAIN net.asked \subseteq DOMAIN net'.asked

-----------------------------------------------------------------------------
(* What sending, asking, dropping and replying make of the requests.       *)

LEMMA SendEffect ==
  ASSUME NEW n \in Nets, NEW ids \in Seq(Nat), NEW up \in BOOLEAN,
         NEW m, m = Send(n, ids, up)
  PROVE  /\ m \in Nets /\ m.gated = n.gated
         /\ m.sent = IF up THEN n.sent \o ids ELSE n.sent
         /\ DOMAIN m.asked = DOMAIN n.asked
         /\ \A i \in DOMAIN n.asked :
              /\ m.asked[i].command = n.asked[i].command /\ m.asked[i].internal = n.asked[i].internal
              /\ m.asked[i].entries = n.asked[i].entries
              /\ i \in Range(ids) => m.asked[i].status = IF up THEN "sent" ELSE "failed"
              /\ i \notin Range(ids) => m.asked[i] = n.asked[i]
<1> DEFINE now(r) == IF up THEN [r EXCEPT !.status = "sent", !.left = Deadline(r.command)]
                     ELSE [r EXCEPT !.status = "failed"]
           asked == [i \in DOMAIN n.asked |-> IF i \in Range(ids) THEN now(n.asked[i]) ELSE n.asked[i]]
           sent == IF up THEN n.sent \o ids ELSE n.sent
<1>1. m = [n EXCEPT !.asked = asked, !.sent = sent] BY DEF Send
<1>2. ASSUME NEW r \in Requests
      PROVE  /\ now(r) \in Requests /\ now(r).command = r.command /\ now(r).internal = r.internal
             /\ now(r).entries = r.entries
             /\ now(r).status = IF up THEN "sent" ELSE "failed"
  <2>1. Deadline(r.command) \in Int BY PageAssumption DEF Deadline
  <2> QED BY <2>1 DEF Requests, Statuses
<1> HIDE DEF now
<1>3. n.asked \in Seq(Requests) /\ n.gated \in Seq(Gated) /\ n.sent \in Seq(Nat) BY DEF Nets
<1>4. DOMAIN n.asked = 1 .. Len(n.asked) /\ Len(n.asked) \in Nat BY <1>3
<1>5. \A i \in DOMAIN n.asked : n.asked[i] \in Requests /\ asked[i] \in Requests BY <1>2, <1>3
<1>6. asked \in Seq(Requests)
  <2>1. DOMAIN asked = DOMAIN n.asked /\ asked = [i \in DOMAIN asked |-> asked[i]] OBVIOUS
  <2>2. \A i \in DOMAIN asked : asked[i] \in Requests BY <1>5
  <2> HIDE DEF asked
  <2> QED BY <1>4, <2>1, <2>2
<1>7. sent \in Seq(Nat) BY <1>3
<1>8. m \in Nets /\ m.gated = n.gated /\ m.sent = sent /\ m.asked = asked
  <2> HIDE DEF asked, sent
  <2> QED BY <1>1, <1>3, <1>6, <1>7 DEF Nets
<1>9. \A i \in DOMAIN n.asked :
        /\ asked[i].command = n.asked[i].command /\ asked[i].internal = n.asked[i].internal
        /\ asked[i].entries = n.asked[i].entries
        /\ i \in Range(ids) => asked[i].status = IF up THEN "sent" ELSE "failed"
        /\ i \notin Range(ids) => asked[i] = n.asked[i]
  BY <1>2, <1>5
<1>10. DOMAIN asked = DOMAIN n.asked OBVIOUS
<1> HIDE DEF asked
<1> QED BY <1>8, <1>9, <1>10

LEMMA AskEffect ==
  ASSUME net \in Nets, jobs \in Seq(Jobs), NEW command \in Commands, NEW internal \in BOOLEAN,
         NEW entries \in Nat, NEW up \in BOOLEAN,
         NEW n, n = Ask(command, internal, entries, up)
  PROVE  /\ n \in Nets /\ Asked \in Nat /\ Len(n.asked) = Asked + 1
         /\ DOMAIN net.asked = 1 .. Asked /\ DOMAIN n.asked = 1 .. Asked + 1
         /\ \A i \in 1 .. Asked : n.asked[i] = net.asked[i]
         /\ n.asked[Asked + 1].command = command /\ n.asked[Asked + 1].internal = internal
         /\ n.asked[Asked + 1].entries = entries
         /\ IF Waits(internal)
            THEN /\ n.sent = net.sent /\ n.asked[Asked + 1].status = "gated"
                 /\ n.gated = Append(net.gated, [id |-> Asked + 1, gate |-> Last(jobs).serial])
                 /\ Last(jobs).serial \in Nat
            ELSE /\ n.gated = net.gated
                 /\ n.sent = IF up THEN Append(net.sent, Asked + 1) ELSE net.sent
                 /\ n.asked[Asked + 1].status = IF up THEN "sent" ELSE "failed"
<1> DEFINE r == Request(command, internal, entries)
           b == [net EXCEPT !.asked = Append(@, r)]
           gate == Last(jobs).serial
           w == [b EXCEPT !.gated = Append(@, [id |-> Len(b.asked), gate |-> gate])]
           s == Send(b, <<Len(b.asked)>>, up)
<1>1. n = IF Waits(internal) THEN w ELSE s BY DEF Ask
<1>2. /\ r \in Requests /\ r.command = command /\ r.internal = internal /\ r.entries = entries
      /\ r.status = "gated"
  BY DEF Request, Requests, Statuses
<1> HIDE DEF r
<1>3. net.asked \in Seq(Requests) /\ net.gated \in Seq(Gated) /\ net.sent \in Seq(Nat) BY DEF Nets
<1>4. /\ Asked \in Nat /\ DOMAIN net.asked = 1 .. Asked
      /\ Append(net.asked, r) \in Seq(Requests) /\ Len(Append(net.asked, r)) = Asked + 1
      /\ DOMAIN Append(net.asked, r) = 1 .. Asked + 1
      /\ \A i \in 1 .. Asked : Append(net.asked, r)[i] = net.asked[i]
      /\ Append(net.asked, r)[Asked + 1] = r
  BY <1>2, <1>3 DEF Asked
<1>5. b \in Nets /\ b.asked = Append(net.asked, r) /\ b.gated = net.gated /\ b.sent = net.sent
  BY <1>3, <1>4 DEF Nets
<1> HIDE DEF b
<1>6. CASE Waits(internal)
  <2>1. gate \in Nat
    <3>1. jobs # <<>> BY <1>6 DEF Waits, Busy
    <3>2. Last(jobs) \in Jobs BY <3>1 DEF Last
    <3> QED BY <3>2 DEF Jobs
  <2> HIDE DEF gate
  <2>2. [id |-> Asked + 1, gate |-> gate] \in Gated BY <1>4, <2>1 DEF Gated
  <2> DEFINE gated == Append(net.gated, [id |-> Asked + 1, gate |-> gate])
  <2>5. gated \in Seq(Gated) BY <1>3, <2>2
  <2>4. w = [b EXCEPT !.gated = gated] BY <1>4, <1>5
  <2> HIDE DEF w, gated
  <2>3. /\ w \in Nets /\ w.asked = b.asked /\ w.sent = b.sent
        /\ w.gated = gated
    BY <1>5, <2>4, <2>5 DEF Nets
  <2> QED BY <1>1, <1>2, <1>4, <1>5, <1>6, <2>1, <2>3 DEF gated, gate
<1>7. CASE ~ Waits(internal)
  <2> DEFINE ids == <<Len(b.asked)>>
  <2>1. ids \in Seq(Nat) /\ Range(ids) = {Asked + 1} BY <1>4, <1>5 DEF Range
  <2>2. net.sent \o ids = Append(net.sent, Asked + 1) BY <1>3, <1>4, <1>5
  <2> HIDE DEF ids
  <2>3. s = Send(b, ids, up) BY DEF ids
  <2> HIDE DEF s
  <2>4. /\ s \in Nets /\ s.gated = net.gated /\ s.sent = IF up THEN net.sent \o ids ELSE net.sent
        /\ DOMAIN s.asked = 1 .. Asked + 1
        /\ s.asked[Asked + 1].command = command /\ s.asked[Asked + 1].internal = internal
        /\ s.asked[Asked + 1].entries = entries
        /\ s.asked[Asked + 1].status = IF up THEN "sent" ELSE "failed"
        /\ \A i \in 1 .. Asked : s.asked[i] = net.asked[i]
    <3>1. 1 .. Asked \subseteq 1 .. Asked + 1 /\ Asked + 1 \in 1 .. Asked + 1
          /\ \A i \in 1 .. Asked : i # Asked + 1
      BY <1>4
    <3>2. DOMAIN b.asked = 1 .. Asked + 1 /\ b.asked[Asked + 1] = r
          /\ \A i \in 1 .. Asked : b.asked[i] = net.asked[i] /\ i \notin Range(ids)
      BY <1>4, <1>5, <2>1, <3>1
    <3>3. /\ s \in Nets /\ s.gated = b.gated /\ s.sent = IF up THEN b.sent \o ids ELSE b.sent
          /\ DOMAIN s.asked = DOMAIN b.asked
          /\ \A i \in DOMAIN b.asked :
               /\ s.asked[i].command = b.asked[i].command /\ s.asked[i].internal = b.asked[i].internal
               /\ s.asked[i].entries = b.asked[i].entries
               /\ i \in Range(ids) => s.asked[i].status = IF up THEN "sent" ELSE "failed"
               /\ i \notin Range(ids) => s.asked[i] = b.asked[i]
      <4>1. b \in Nets /\ ids \in Seq(Nat) /\ up \in BOOLEAN BY <1>5, <2>1
      <4> QED BY <2>3, <4>1, SendEffect
    <3>4. Asked + 1 \in DOMAIN b.asked /\ Asked + 1 \in Range(ids) BY <2>1, <3>1, <3>2
    <3>5. /\ s.asked[Asked + 1].command = command /\ s.asked[Asked + 1].internal = internal
          /\ s.asked[Asked + 1].entries = entries
          /\ s.asked[Asked + 1].status = IF up THEN "sent" ELSE "failed"
      BY <1>2, <3>2, <3>3, <3>4
    <3>6. \A i \in 1 .. Asked : s.asked[i] = net.asked[i] BY <3>1, <3>2, <3>3
    <3> QED BY <1>5, <3>2, <3>3, <3>5, <3>6
  <2>5. Len(s.asked) = Asked + 1
    <3>1. s.asked \in Seq(Requests) BY <2>4 DEF Nets
    <3> QED BY <1>4, <2>4, <3>1
  <2> QED BY <1>1, <1>4, <1>7, <2>2, <2>4, <2>5
<1> QED BY <1>6, <1>7

(* For requests of the page and of maintenance; SMT takes no literal truth *)
(* value for an argument.                                                  *)
AskedFor(n, command, internal, entries, up) ==
  /\ n \in Nets /\ Asked \in Nat /\ Len(n.asked) = Asked + 1
  /\ DOMAIN net.asked = 1 .. Asked /\ DOMAIN n.asked = 1 .. Asked + 1
  /\ \A i \in 1 .. Asked : n.asked[i] = net.asked[i]
  /\ n.asked[Asked + 1].command = command /\ n.asked[Asked + 1].internal = internal
  /\ n.asked[Asked + 1].entries = entries
  /\ IF Waits(internal)
     THEN /\ n.sent = net.sent /\ n.asked[Asked + 1].status = "gated"
          /\ n.gated = Append(net.gated, [id |-> Asked + 1, gate |-> Last(jobs).serial])
          /\ Last(jobs).serial \in Nat
     ELSE /\ n.gated = net.gated
          /\ n.sent = IF up THEN Append(net.sent, Asked + 1) ELSE net.sent
          /\ n.asked[Asked + 1].status = IF up THEN "sent" ELSE "failed"

LEMMA AskAny ==
  ASSUME net \in Nets, jobs \in Seq(Jobs), NEW command \in Commands, NEW entries \in Nat, NEW n
  PROVE  \A internal, up \in BOOLEAN :
           n = Ask(command, internal, entries, up) => AskedFor(n, command, internal, entries, up)
<1> SUFFICES ASSUME NEW internal \in BOOLEAN, NEW up \in BOOLEAN, n = Ask(command, internal, entries, up)
             PROVE  AskedFor(n, command, internal, entries, up)
  OBVIOUS
<1> QED BY AskEffect DEF AskedFor

LEMMA DropEffect ==
  ASSUME net \in Nets, NEW status \in Statuses,
         NEW n, n = Drop(status)
  PROVE  /\ n \in Nets /\ n.gated = net.gated /\ n.sent = <<>>
         /\ DOMAIN n.asked = DOMAIN net.asked
         /\ \A i \in DOMAIN net.asked :
              /\ n.asked[i].command = net.asked[i].command /\ n.asked[i].internal = net.asked[i].internal
              /\ n.asked[i].entries = net.asked[i].entries
              /\ i \in Range(net.sent) => n.asked[i].status = status
              /\ i \notin Range(net.sent) => n.asked[i] = net.asked[i]
<1> DEFINE off(r) == [r EXCEPT !.status = status, !.left = 0]
           asked == [i \in DOMAIN net.asked |-> IF i \in Range(net.sent) THEN off(net.asked[i])
                                                ELSE net.asked[i]]
<1>1. n = [net EXCEPT !.asked = asked, !.sent = <<>>] BY DEF Drop
<1>2. ASSUME NEW r \in Requests
      PROVE  /\ off(r) \in Requests /\ off(r).command = r.command /\ off(r).internal = r.internal
             /\ off(r).entries = r.entries /\ off(r).status = status
  <2> DEFINE o == [r EXCEPT !.status = status]
  <2>1. /\ o \in Requests /\ o.command = r.command /\ o.internal = r.internal
        /\ o.entries = r.entries /\ o.status = status
    BY DEF Requests
  <2>2. off(r) = [o EXCEPT !.left = 0] OBVIOUS
  <2> HIDE DEF o, off
  <2> QED BY <2>1, <2>2 DEF Requests
<1> HIDE DEF off
<1>3. net.asked \in Seq(Requests) /\ net.gated \in Seq(Gated) /\ net.sent \in Seq(Nat) BY DEF Nets
<1>4. \A i \in DOMAIN net.asked : net.asked[i] \in Requests /\ asked[i] \in Requests BY <1>2, <1>3
<1>5. asked \in Seq(Requests)
  <2>1. DOMAIN net.asked = 1 .. Len(net.asked) /\ Len(net.asked) \in Nat BY <1>3
  <2>2. DOMAIN asked = DOMAIN net.asked /\ asked = [i \in DOMAIN asked |-> asked[i]] OBVIOUS
  <2>3. \A i \in DOMAIN asked : asked[i] \in Requests BY <1>4
  <2> HIDE DEF asked
  <2> QED BY <2>1, <2>2, <2>3
<1>6. n \in Nets /\ n.gated = net.gated /\ n.sent = <<>> /\ n.asked = asked
  <2> HIDE DEF asked
  <2>1. <<>> \in Seq(Nat) OBVIOUS
  <2> QED BY <1>1, <1>3, <1>5, <2>1 DEF Nets
<1>7. \A i \in DOMAIN net.asked :
        /\ asked[i].command = net.asked[i].command /\ asked[i].internal = net.asked[i].internal
        /\ asked[i].entries = net.asked[i].entries
        /\ i \in Range(net.sent) => asked[i].status = status
        /\ i \notin Range(net.sent) => asked[i] = net.asked[i]
  BY <1>2, <1>4
<1>8. DOMAIN asked = DOMAIN net.asked OBVIOUS
<1> HIDE DEF asked
<1> QED BY <1>6, <1>7, <1>8

LEMMA ReplyEffect ==
  ASSUME net \in Nets, NEW i \in DOMAIN net.asked, NEW status \in Statuses, NEW entries \in Nat,
         NEW n, n = Reply(i, status, entries)
  PROVE  /\ n \in Nets /\ n.gated = net.gated /\ Range(n.sent) = Range(net.sent) \ {i}
         /\ DOMAIN n.asked = DOMAIN net.asked
         /\ n.asked[i].command = net.asked[i].command /\ n.asked[i].internal = net.asked[i].internal
         /\ n.asked[i].entries = entries /\ n.asked[i].status = status
         /\ \A j \in DOMAIN net.asked : j # i => n.asked[j] = net.asked[j]
<1> DEFINE r == [net.asked[i] EXCEPT !.status = status, !.left = 0, !.entries = entries]
           asked == [net.asked EXCEPT ![i] = r]
           kept == {k \in DOMAIN net.sent : net.sent[k] # i}
           sent == Kept(net.sent, kept)
<1>1. net.asked \in Seq(Requests) /\ net.gated \in Seq(Gated) /\ net.sent \in Seq(Nat) BY DEF Nets
<1>2. /\ r \in Requests /\ r.command = net.asked[i].command /\ r.internal = net.asked[i].internal
      /\ r.entries = entries /\ r.status = status
  <2> DEFINE o == [net.asked[i] EXCEPT !.status = status]
             p == [o EXCEPT !.left = 0]
  <2>1. net.asked[i] \in Requests BY <1>1
  <2>2. /\ o \in Requests /\ o.command = net.asked[i].command /\ o.internal = net.asked[i].internal
        /\ o.status = status
    BY <2>1 DEF Requests
  <2>3. r = [p EXCEPT !.entries = entries] OBVIOUS
  <2> HIDE DEF o, r
  <2>4. /\ p \in Requests /\ p.command = o.command /\ p.internal = o.internal /\ p.status = status
    BY <2>2 DEF Requests
  <2> HIDE DEF p
  <2> QED BY <2>2, <2>3, <2>4 DEF Requests
<1>3. n = [net EXCEPT !.asked = asked, !.sent = sent] BY <1>1 DEF Reply, Nets
<1> HIDE DEF r
<1>4. /\ asked \in Seq(Requests) /\ DOMAIN asked = DOMAIN net.asked /\ asked[i] = r
      /\ \A j \in DOMAIN net.asked : j # i => asked[j] = net.asked[j]
  BY <1>1, <1>2
<1>5. sent \in Seq(Nat) /\ Range(sent) = Range(net.sent) \ {i}
  <2>1. kept \in SUBSET DOMAIN net.sent /\ \A k \in DOMAIN net.sent : k \in kept <=> net.sent[k] # i
    OBVIOUS
  <2> HIDE DEF kept
  <2>2. /\ sent \in Seq(Nat)
        /\ \A k \in DOMAIN sent : \E p \in kept : sent[k] = net.sent[p]
        /\ \A p \in kept : \E k \in DOMAIN sent : sent[k] = net.sent[p]
      <3> HIDE DEF sent
      <3>1. sent = Kept(net.sent, kept) BY DEF sent
      <3> QED BY <1>1, <2>1, <3>1, KeptElements
  <2> HIDE DEF sent
  <2> QED BY <2>1, <2>2 DEF Range
<1>6. n \in Nets /\ n.gated = net.gated /\ n.sent = sent /\ n.asked = asked
  <2> HIDE DEF asked, sent
  <2> QED BY <1>1, <1>3, <1>4, <1>5 DEF Nets
<1> HIDE DEF sent, asked
<1> QED BY <1>2, <1>4, <1>5, <1>6

LEMMA Joined ==
  ASSUME NEW s \in Seq(Nat), NEW t \in Seq(Nat), Distinct(s), Distinct(t), Range(s) \cap Range(t) = {}
  PROVE  s \o t \in Seq(Nat) /\ Distinct(s \o t) /\ Range(s \o t) = Range(s) \cup Range(t)
<1> DEFINE u == s \o t
<1>1. /\ u \in Seq(Nat) /\ Len(u) = Len(s) + Len(t) /\ Len(s) \in Nat /\ Len(t) \in Nat
      /\ DOMAIN u = 1 .. Len(u) /\ DOMAIN s = 1 .. Len(s) /\ DOMAIN t = 1 .. Len(t)
      /\ \A k \in DOMAIN u : u[k] = IF k <= Len(s) THEN s[k] ELSE t[k - Len(s)]
  OBVIOUS
<1> HIDE DEF u
<1>2. ASSUME NEW k \in DOMAIN u
      PROVE  IF k <= Len(s) THEN k \in DOMAIN s /\ u[k] = s[k]
             ELSE k - Len(s) \in DOMAIN t /\ u[k] = t[k - Len(s)]
  BY <1>1
<1>3. (\A k \in DOMAIN s : s[k] \in Range(s)) /\ (\A k \in DOMAIN t : t[k] \in Range(t)) BY DEF Range
<1>4. Distinct(u)
  <2> SUFFICES ASSUME NEW k \in DOMAIN u, NEW l \in DOMAIN u, u[k] = u[l] PROVE k = l BY DEF Distinct
  <2>1. CASE k <= Len(s) /\ l <= Len(s) BY <1>2, <2>1 DEF Distinct
  <2>2. CASE ~ k <= Len(s) /\ ~ l <= Len(s)
    <3>1. k - Len(s) \in DOMAIN t /\ l - Len(s) \in DOMAIN t /\ t[k - Len(s)] = t[l - Len(s)] BY <1>2, <2>2
    <3>2. k - Len(s) = l - Len(s) BY <3>1 DEF Distinct
    <3> QED BY <1>1, <3>2
  <2>3. CASE k <= Len(s) <=> ~ l <= Len(s) BY <1>1, <1>2, <1>3, <2>3
  <2> QED BY <2>1, <2>2, <2>3
<1>5. Range(u) = Range(s) \cup Range(t)
  <2>1. ASSUME NEW x \in Range(s) \cup Range(t) PROVE x \in Range(u)
    <3>1. CASE x \in Range(s)
      <4>1. PICK k \in DOMAIN s : x = s[k] BY <3>1 DEF Range
      <4>2. k \in DOMAIN u /\ u[k] = s[k] BY <1>1, <4>1
      <4> QED BY <4>1, <4>2 DEF Range
    <3>2. CASE x \in Range(t)
      <4>1. PICK k \in DOMAIN t : x = t[k] BY <3>2 DEF Range
      <4>2. k + Len(s) \in DOMAIN u /\ ~ (k + Len(s) <= Len(s)) /\ (k + Len(s)) - Len(s) = k BY <1>1, <4>1
      <4>3. u[k + Len(s)] = t[k] BY <1>1, <4>2
      <4> QED BY <4>1, <4>2, <4>3 DEF Range
    <3> QED BY <2>1, <3>1, <3>2
  <2>2. ASSUME NEW x \in Range(u) PROVE x \in Range(s) \cup Range(t)
    <3>1. PICK k \in DOMAIN u : x = u[k] BY <2>2 DEF Range
    <3> QED BY <1>2, <1>3, <3>1
  <2> QED BY <2>1, <2>2
<1> QED BY <1>1, <1>4, <1>5 DEF u

(* What waits for one job, or for another, waits once.                     *)
LEMMA KeptIds ==
  ASSUME NEW gated \in Seq(Gated), Distinct(IdsOf(gated)), NEW S \in SUBSET DOMAIN gated,
         NEW g, g = Kept(gated, S)
  PROVE  /\ g \in Seq(Gated) /\ IdsOf(g) \in Seq(Nat)
         /\ Distinct(IdsOf(g))
         /\ \A x \in Range(IdsOf(g)) : \E p \in S : x = IdsOf(gated)[p]
<1>1. /\ g \in Seq(Gated)
      /\ \A k \in DOMAIN g : \E p \in S : g[k] = gated[p]
      /\ \A k, l \in DOMAIN g : k # l => \E p, q \in S : p # q /\ g[k] = gated[p] /\ g[l] = gated[q]
  BY KeptElements
<1>2. \A p \in S : p \in DOMAIN IdsOf(gated) /\ IdsOf(gated)[p] = gated[p].id BY DEF IdsOf
<1>3. DOMAIN IdsOf(g) = DOMAIN g /\ \A k \in DOMAIN g : IdsOf(g)[k] = g[k].id BY DEF IdsOf
<1>4. Distinct(IdsOf(g))
  <2> SUFFICES ASSUME NEW k \in DOMAIN g, NEW l \in DOMAIN g, k # l, IdsOf(g)[k] = IdsOf(g)[l] PROVE FALSE
    BY <1>3 DEF Distinct
  <2>1. PICK p \in S, q \in S : p # q /\ g[k] = gated[p] /\ g[l] = gated[q] BY <1>1
  <2>2. IdsOf(gated)[p] = IdsOf(gated)[q] BY <1>2, <1>3, <2>1
  <2> QED BY <1>2, <2>1, <2>2 DEF Distinct
<1>5. IdsOf(g) \in Seq(Nat)
  <2>1. \A k \in DOMAIN g : g[k] \in Gated /\ DOMAIN g = 1 .. Len(g) /\ Len(g) \in Nat BY <1>1
  <2>2. \A k \in DOMAIN g : g[k].id \in Nat BY <2>1 DEF Gated
  <2>3. DOMAIN g = 1 .. Len(g) /\ Len(g) \in Nat BY <1>1
  <2> QED BY <2>2, <2>3 DEF IdsOf
<1>6. \A x \in Range(IdsOf(g)) : \E p \in S : x = IdsOf(gated)[p] BY <1>1, <1>2, <1>3 DEF Range
<1> QED BY <1>1, <1>4, <1>5, <1>6

(* What the end of a job sends or lets wait again: what waited for it, and *)
(* a request of its own.                                                   *)
LEMMA FinishEffect ==
  ASSUME DataInv, Finish
  PROVE  /\ net' \in Nets /\ Accounts' /\ Asked \in Nat
         /\ DOMAIN net.asked = 1 .. Asked
         /\ 1 .. Asked \subseteq DOMAIN net'.asked /\ DOMAIN net'.asked \subseteq 1 .. Asked + 1
         /\ \A i \in 1 .. Asked :
              /\ net'.asked[i].command = net.asked[i].command /\ net'.asked[i].internal = net.asked[i].internal
              /\ net'.asked[i].entries = net.asked[i].entries
              /\ net'.asked[i].status = net.asked[i].status
                 \/ (i \in Waited /\ Tail(jobs) = <<>> /\ net'.asked[i].status = IF ready THEN "sent" ELSE "failed")
         /\ Asked + 1 \in DOMAIN net'.asked =>
              /\ net'.asked[Asked + 1].internal = FALSE /\ net'.asked[Asked + 1].command \in {"repl", "check"}
              /\ net'.asked[Asked + 1].status = IF Tail(jobs) # <<>> THEN "gated" ELSE IF ready THEN "sent" ELSE "failed"
              /\ net'.asked[Asked + 1].command = "repl" => console.phase = "restore"
         /\ \A i \in Range(net'.sent) \ Range(net.sent) : Tail(jobs) = <<>> /\ ready /\ ~ net'.asked[i].internal
         /\ console' = IF Asked + 1 \in DOMAIN net'.asked /\ net'.asked[Asked + 1].command = "repl"
                       THEN [console EXCEPT !.phase = "entry", !.on = Asked + 1]
                       ELSE IF console.phase = "restore" /\ console.on = Current.serial THEN Entry("idle", 0)
                       ELSE console
<1> DEFINE over    == Current.serial
           idle    == Tail(jobs) = <<>>
           entry   == console.phase = "restore" /\ console.on = over
           refused == entry /\ ~ OnWorker
           again   == \E c \in DOMAIN checks : checks[c].on = over /\ checks[c].asks
                        /\ \/ checks[c].phase = "retry" /\ ready /\ ~ idle
                           \/ checks[c].phase = "update" /\ In("declined")
           new     == IF entry /\ ~ refused THEN <<Request("repl", FALSE, 0)>>
                      ELSE IF again THEN <<Request("check", FALSE, 0)>> ELSE <<>>
           id      == IF new = <<>> THEN <<>> ELSE <<Asked + 1>>
           waits   == {k \in DOMAIN net.gated : net.gated[k].gate = over}
           freed   == Kept(net.gated, waits)
           waited  == [k \in DOMAIN freed |-> freed[k].id]
           ids     == IF Current.kind = "retry" THEN id \o waited ELSE waited \o id
           asked   == net.asked \o new
           left    == Kept(net.gated, DOMAIN net.gated \ waits)
           rest    == [net EXCEPT !.asked = asked, !.gated = left]
           later   == [k \in DOMAIN ids |-> [id |-> ids[k], gate |-> Last(jobs).serial]]
<1>1. /\ net' = IF idle THEN Send(rest, ids, ready) ELSE [rest EXCEPT !.gated = @ \o later]
      /\ console' = IF refused THEN Entry("idle", 0)
                    ELSE IF entry THEN [console EXCEPT !.phase = "entry", !.on = Asked + 1] ELSE console
  BY DEF Finish
<1>2. /\ Busy /\ net \in Nets /\ jobs \in Seq(Jobs) /\ ready \in BOOLEAN
  BY DEF DataInv, Data, NetData, JobData, PageInv, Types, Finish, In
<1>3. net.asked \in Seq(Requests) /\ net.gated \in Seq(Gated) /\ net.sent \in Seq(Nat) BY <1>2 DEF Nets
<1>4. PICK some \in BOOLEAN, r \in Requests :
        /\ new = IF some THEN <<r>> ELSE <<>>
        /\ r.internal = FALSE /\ r.status = "gated" /\ r.command \in {"repl", "check"}
        /\ some /\ r.command = "repl" <=> entry /\ ~ refused
  <2>1. Request("repl", FALSE, 0) \in Requests /\ Request("check", FALSE, 0) \in Requests
    BY DEF Request, Requests, Commands, Checking, Statuses
  <2>2. /\ Request("repl", FALSE, 0).command = "repl" /\ Request("check", FALSE, 0).command = "check"
        /\ \A c \in {"repl", "check"} : Request(c, FALSE, 0).internal = FALSE /\ Request(c, FALSE, 0).status = "gated"
    BY DEF Request
  <2> HIDE DEF again, entry, refused
  <2>3. CASE entry /\ ~ refused
    <3>1. new = <<Request("repl", FALSE, 0)>> BY <2>3
    <3> QED BY <2>1, <2>2, <2>3, <3>1
  <2>4. CASE ~ (entry /\ ~ refused) /\ again
    <3>1. new = <<Request("check", FALSE, 0)>> BY <2>4
    <3> QED BY <2>1, <2>2, <2>4, <3>1
  <2>5. CASE ~ (entry /\ ~ refused) /\ ~ again
    <3>1. new = <<>> BY <2>5
    <3> QED BY <2>1, <2>2, <2>5, <3>1
  <2> QED BY <2>3, <2>4, <2>5
<1>5. id = IF some THEN <<Asked + 1>> ELSE <<>>
  <2> HIDE DEF new
  <2> QED BY <1>4
<1>6. /\ Asked \in Nat /\ DOMAIN net.asked = 1 .. Asked
      /\ asked \in Seq(Requests) /\ DOMAIN asked = IF some THEN 1 .. Asked + 1 ELSE 1 .. Asked
      /\ \A i \in 1 .. Asked : asked[i] = net.asked[i]
      /\ some => asked[Asked + 1] = r
  <2> HIDE DEF new
  <2>1. Asked \in Nat /\ DOMAIN net.asked = 1 .. Asked /\ Asked = Len(net.asked) BY <1>3 DEF Asked
  <2>2. CASE some
    <3>1. asked = net.asked \o <<r>> BY <1>4, <2>2
    <3> HIDE DEF asked
    <3> QED BY <1>3, <2>1, <2>2, <3>1
  <2>3. CASE ~ some
    <3>1. asked = net.asked BY <1>3, <1>4, <2>3
    <3> HIDE DEF asked
    <3> QED BY <1>3, <2>1, <2>3, <3>1
  <2> QED BY <2>2, <2>3
<1> HIDE DEF new, id, asked
<1>7. waits \in SUBSET DOMAIN net.gated /\ DOMAIN net.gated \ waits \in SUBSET DOMAIN net.gated OBVIOUS
<1> HIDE DEF waits
<1>8. Distinct(IdsOf(net.gated)) /\ Waited = Range(IdsOf(net.gated)) /\ DOMAIN IdsOf(net.gated) = DOMAIN net.gated
  BY DEF DataInv, Data, NetData, Accounts, Waited, IdsOf
<1>9. waited = IdsOf(freed) BY DEF IdsOf
<1>10. /\ freed \in Seq(Gated) /\ waited \in Seq(Nat) /\ Distinct(waited)
       /\ \A x \in Range(waited) : \E p \in waits : x = IdsOf(net.gated)[p]
  <2> HIDE DEF waited, freed
  <2>1. freed = Kept(net.gated, waits) BY DEF freed
  <2> QED BY <1>3, <1>7, <1>8, <1>9, <2>1, KeptIds
<1>11. /\ left \in Seq(Gated) /\ IdsOf(left) \in Seq(Nat) /\ Distinct(IdsOf(left))
       /\ \A x \in Range(IdsOf(left)) : \E p \in DOMAIN net.gated \ waits : x = IdsOf(net.gated)[p]
  <2> HIDE DEF left
  <2>1. left = Kept(net.gated, DOMAIN net.gated \ waits) BY DEF left
  <2> QED BY <1>3, <1>7, <1>8, <2>1, KeptIds
<1> HIDE DEF freed, left, waited
<1>12. /\ Range(waited) \subseteq Waited /\ Range(IdsOf(left)) \subseteq Waited
       /\ Range(waited) \cap Range(IdsOf(left)) = {}
  <2>1. \A p \in DOMAIN net.gated : IdsOf(net.gated)[p] \in Waited BY <1>8 DEF Range
  <2>2. \A p, q \in DOMAIN net.gated : IdsOf(net.gated)[p] = IdsOf(net.gated)[q] => p = q
    BY <1>8 DEF Distinct
  <2>3. ASSUME NEW x \in Range(waited) PROVE x \in Waited BY <1>7, <1>10, <2>1
  <2>4. ASSUME NEW x \in Range(IdsOf(left)) PROVE x \in Waited BY <1>11, <2>1
  <2>5. ASSUME NEW x \in Range(waited), x \in Range(IdsOf(left)) PROVE FALSE
    <3>1. PICK p \in waits : x = IdsOf(net.gated)[p] BY <1>10
    <3>2. PICK q \in DOMAIN net.gated \ waits : x = IdsOf(net.gated)[q] BY <1>11, <2>5
    <3>3. p = q BY <1>7, <2>2, <3>1, <3>2
    <3> QED BY <3>3
  <2> QED BY <2>3, <2>4, <2>5
<1>13. Waited \subseteq 1 .. Asked /\ Asked + 1 \notin Waited
  <2>1. Waited \subseteq 1 .. Asked BY <1>6 DEF DataInv, Data, NetData, Accounts
  <2> QED BY <1>6, <2>1
<1>14. ids \in Seq(Nat) /\ Distinct(ids) /\ Range(ids) = Range(waited) \cup IF some THEN {Asked + 1} ELSE {}
  <2>1. /\ id \in Seq(Nat) /\ Distinct(id) /\ Range(id) = IF some THEN {Asked + 1} ELSE {}
        /\ Range(id) \cap Range(waited) = {}
    <3>1. Asked + 1 \in Nat /\ Asked + 1 \notin Range(waited) BY <1>6, <1>12, <1>13
    <3>2. CASE some BY <1>5, <3>1, <3>2 DEF Distinct, Range
    <3>3. CASE ~ some BY <1>5, <3>3 DEF Distinct, Range
    <3> QED BY <3>2, <3>3
  <2>2. /\ id \o waited \in Seq(Nat) /\ Distinct(id \o waited)
        /\ Range(id \o waited) = Range(id) \cup Range(waited)
    BY <1>10, <2>1, Joined
  <2>3. /\ waited \o id \in Seq(Nat) /\ Distinct(waited \o id)
        /\ Range(waited \o id) = Range(waited) \cup Range(id)
    BY <1>10, <2>1, Joined
  <2> QED BY <2>1, <2>2, <2>3
<1> HIDE DEF ids
<1>15. rest \in Nets /\ rest.asked = asked /\ rest.gated = left /\ rest.sent = net.sent
  <2> DEFINE b == [net EXCEPT !.asked = asked]
  <2>1. b \in Nets /\ b.asked = asked /\ b.sent = net.sent BY <1>2, <1>6 DEF Nets
  <2>2. rest = [b EXCEPT !.gated = left] OBVIOUS
  <2> HIDE DEF b, rest
  <2> QED BY <1>11, <2>1, <2>2 DEF Nets
<1> HIDE DEF rest
<1>16. \A i \in 1 .. Asked : i # Asked + 1 BY <1>6
<1>17. \A i \in Waited : i \in 1 .. Asked /\ net.asked[i].status = "gated" /\ ~ net.asked[i].internal
  BY <1>13 DEF DataInv, Data, NetData, Accounts
<1>18. \A i \in Range(net.sent) : i \in 1 .. Asked /\ net.asked[i].status = "sent"
  BY <1>6 DEF DataInv, Data, NetData, Accounts
<1>19. CASE idle
  <2> DEFINE to == IF ready THEN "sent" ELSE "failed"
  <2>1. /\ net' \in Nets /\ net'.gated = left
        /\ net'.sent = IF ready THEN net.sent \o ids ELSE net.sent
        /\ DOMAIN net'.asked = DOMAIN asked
        /\ \A i \in DOMAIN asked :
             /\ net'.asked[i].command = asked[i].command /\ net'.asked[i].internal = asked[i].internal
             /\ net'.asked[i].entries = asked[i].entries
             /\ i \in Range(ids) => net'.asked[i].status = IF ready THEN "sent" ELSE "failed"
             /\ i \notin Range(ids) => net'.asked[i] = asked[i]
    <3>1. net' = Send(rest, ids, ready) BY <1>1, <1>19
    <3> QED BY <1>2, <1>14, <1>15, <3>1, SendEffect
  <2>2. Range(net'.sent) \subseteq Range(net.sent) \cup IF ready THEN Range(ids) ELSE {}
    <3>1. CASE ready
      <4>1. \A k \in DOMAIN (net.sent \o ids) :
              (net.sent \o ids)[k] \in Range(net.sent) \/ (net.sent \o ids)[k] \in Range(ids)
        BY <1>3, <1>14 DEF Range
      <4> QED BY <2>1, <3>1, <4>1 DEF Range
    <3>2. CASE ~ ready BY <2>1, <3>2
    <3> QED BY <3>1, <3>2
  <2>3. \A i \in 1 .. Asked : i \in Range(ids) => i \in Waited /\ i \in Range(waited) BY <1>12, <1>14, <1>16
  <2>4. \A i \in 1 .. Asked :
          /\ net'.asked[i].command = net.asked[i].command /\ net'.asked[i].internal = net.asked[i].internal
          /\ net'.asked[i].entries = net.asked[i].entries
          /\ net'.asked[i].status = net.asked[i].status \/ (i \in Waited /\ net'.asked[i].status = to)
          /\ i \notin Range(waited) => net'.asked[i].status = net.asked[i].status
    BY <1>6, <2>1, <2>3
  <2>5. some => /\ net'.asked[Asked + 1].internal = FALSE /\ net'.asked[Asked + 1].command = r.command
                /\ net'.asked[Asked + 1].status = to
    <3>1. some => Asked + 1 \in DOMAIN asked /\ Asked + 1 \in Range(ids) BY <1>6, <1>14
    <3> QED BY <1>4, <1>6, <2>1, <3>1
  <2>6. Asked + 1 \in DOMAIN net'.asked <=> some BY <1>6, <1>16, <2>1
  <2>7. ASSUME NEW i \in Range(net'.sent), i \notin Range(net.sent)
        PROVE  ready /\ i \in DOMAIN net'.asked /\ net'.asked[i].status = "sent" /\ ~ net'.asked[i].internal
    <3>1. ready /\ i \in Range(ids) BY <2>2, <2>7
    <3>2. CASE i \in Range(waited)
      <4>1. i \in Waited BY <1>12, <3>2
      <4>2. i \in 1 .. Asked /\ ~ net.asked[i].internal BY <1>17, <4>1
      <4>3. i \in DOMAIN asked /\ i \in DOMAIN net'.asked BY <1>6, <2>1, <4>2
      <4>4. net'.asked[i].status = "sent" BY <2>1, <3>1, <4>3
      <4>5. net'.asked[i].internal = net.asked[i].internal BY <2>4, <4>2
      <4> QED BY <3>1, <4>2, <4>3, <4>4, <4>5
    <3>3. CASE i \notin Range(waited) BY <1>14, <2>5, <2>6, <3>1, <3>3
    <3> QED BY <3>2, <3>3
  <2>8. Accounts'
    <3>1. ASSUME NEW i \in Range(net'.sent) PROVE i \in DOMAIN net'.asked /\ net'.asked[i].status = "sent"
      <4>1. CASE i \in Range(net.sent)
        <5>1. i \in 1 .. Asked /\ net.asked[i].status = "sent" /\ i \notin Waited BY <1>17, <1>18, <4>1
        <5> QED BY <1>6, <2>1, <2>4, <5>1
      <4> QED BY <2>7, <4>1
    <3>2. ASSUME NEW i \in Range(IdsOf(left))
          PROVE  i \in DOMAIN net'.asked /\ net'.asked[i].status = "gated" /\ ~ net'.asked[i].internal
      <4>1. i \in Waited /\ i \notin Range(waited) BY <1>12
      <4> QED BY <1>6, <1>17, <2>1, <2>4, <4>1
    <3>3. Waited' = Range(IdsOf(left)) BY <2>1 DEF Waited, IdsOf
    <3>4. IdsOf(net.gated)' = IdsOf(left) BY <2>1 DEF IdsOf
    <3>5. Distinct(IdsOf(net.gated))' BY <1>11, <3>4 DEF Distinct
    <3> QED BY <3>1, <3>2, <3>3, <3>5 DEF Accounts
  <2>10. /\ 1 .. Asked \subseteq DOMAIN net'.asked /\ DOMAIN net'.asked \subseteq 1 .. Asked + 1
    BY <1>6, <2>1
  <2>11. console' = IF Asked + 1 \in DOMAIN net'.asked /\ net'.asked[Asked + 1].command = "repl"
                    THEN [console EXCEPT !.phase = "entry", !.on = Asked + 1]
                    ELSE IF console.phase = "restore" /\ console.on = Current.serial THEN Entry("idle", 0)
                    ELSE console
    <3>1. Asked + 1 \in DOMAIN net'.asked /\ net'.asked[Asked + 1].command = "repl" <=> entry /\ ~ refused
      BY <1>4, <2>6, <2>5
    <3> QED BY <1>1, <3>1
  <2>12. some /\ r.command = "repl" => console.phase = "restore" BY <1>4
  <2>13. \A i \in Range(net'.sent) \ Range(net.sent) : idle /\ ready /\ ~ net'.asked[i].internal
    BY <1>19, <2>7
  <2>14. \A i \in 1 .. Asked :
           /\ net'.asked[i].command = net.asked[i].command /\ net'.asked[i].internal = net.asked[i].internal
           /\ net'.asked[i].entries = net.asked[i].entries
           /\ net'.asked[i].status = net.asked[i].status
              \/ (i \in Waited /\ idle /\ net'.asked[i].status = to)
    BY <1>19, <2>4
  <2>15. Asked + 1 \in DOMAIN net'.asked =>
           /\ net'.asked[Asked + 1].internal = FALSE /\ net'.asked[Asked + 1].command \in {"repl", "check"}
           /\ net'.asked[Asked + 1].status = to
           /\ net'.asked[Asked + 1].command = "repl" => console.phase = "restore"
    BY <1>4, <2>5, <2>6, <2>12
  <2> QED BY <1>6, <1>19, <2>1, <2>8, <2>10, <2>11, <2>13, <2>14, <2>15
<1>20. CASE ~ idle
  <2> DEFINE all == left \o later
  <2>1. net' = [rest EXCEPT !.gated = all] BY <1>1, <1>15, <1>20
  <2>2. later \in Seq(Gated) /\ IdsOf(later) = ids
    <3>1. DOMAIN ids = 1 .. Len(ids) /\ Len(ids) \in Nat /\ \A k \in DOMAIN ids : ids[k] \in Nat BY <1>14
    <3>2. Last(jobs).serial \in Nat
      <4>1. Last(jobs) \in Jobs BY <1>2 DEF Last, Busy
      <4> QED BY <4>1 DEF Jobs
    <3>3. \A k \in DOMAIN ids : later[k] \in Gated /\ later[k].id = ids[k] BY <3>1, <3>2 DEF Gated
    <3>4. ids = [k \in DOMAIN ids |-> ids[k]] BY <1>14
    <3> QED BY <3>1, <3>3, <3>4 DEF IdsOf
  <2> HIDE DEF later
  <2>3. all \in Seq(Gated) /\ IdsOf(all) = IdsOf(left) \o ids
    <3>1. all \in Seq(Gated) /\ DOMAIN all = 1 .. Len(left) + Len(later) BY <1>11, <2>2
    <3>2. Len(IdsOf(left)) = Len(left) /\ Len(ids) = Len(later) BY <1>11, <2>2 DEF IdsOf
    <3>3. \A k \in DOMAIN all : all[k].id = (IdsOf(left) \o ids)[k]
      <4>1. SUFFICES ASSUME NEW k \in DOMAIN all PROVE all[k].id = (IdsOf(left) \o ids)[k] OBVIOUS
      <4>2. \A k_1 \in DOMAIN left : IdsOf(left)[k_1] = left[k_1].id BY DEF IdsOf
      <4>3. \A k_1 \in DOMAIN later : ids[k_1] = later[k_1].id BY <2>2 DEF IdsOf
      <4>4. CASE k <= Len(left)
        <5>1. k \in DOMAIN left /\ all[k] = left[k] /\ (IdsOf(left) \o ids)[k] = IdsOf(left)[k]
          BY <1>11, <1>14, <2>2, <3>1, <3>2, <4>4
        <5> QED BY <4>2, <5>1
      <4>5. CASE ~ k <= Len(left)
        <5>1. k - Len(left) \in DOMAIN later /\ all[k] = later[k - Len(left)]
              /\ (IdsOf(left) \o ids)[k] = ids[k - Len(left)]
          BY <1>11, <1>14, <2>2, <3>1, <3>2, <4>5
        <5> QED BY <4>3, <5>1
      <4> QED BY <4>4, <4>5
    <3>4. IdsOf(left) \o ids = [k \in 1 .. Len(left) + Len(later) |-> (IdsOf(left) \o ids)[k]]
      <4> DEFINE a == IdsOf(left)
      <4>1. a \in Seq(Nat) /\ Len(a) = Len(left) BY <1>11, <3>2
      <4> HIDE DEF a
      <4>2. a \o ids \in Seq(Nat) /\ Len(a \o ids) = Len(left) + Len(later) BY <1>14, <3>2, <4>1
      <4> DEFINE c == a \o ids
      <4> HIDE DEF c
      <4>3. c \in Seq(Nat) /\ Len(c) = Len(left) + Len(later) BY <4>2 DEF c
      <4>4. c = [k \in 1 .. Len(c) |-> c[k]] BY <4>3
      <4> QED BY <4>3, <4>4 DEF a, c
    <3> HIDE DEF all
    <3>5. IdsOf(all) = [k \in DOMAIN all |-> (IdsOf(left) \o ids)[k]] BY <3>3 DEF IdsOf
    <3> QED BY <3>1, <3>4, <3>5
  <2> HIDE DEF all
  <2>4. net' \in Nets /\ net'.asked = asked /\ net'.gated = all /\ net'.sent = net.sent
    BY <1>15, <2>1, <2>3 DEF Nets
  <2>5. /\ Distinct(IdsOf(all)) /\ Range(IdsOf(all)) = Range(IdsOf(left)) \cup Range(ids)
    <3>1. Range(IdsOf(left)) \cap Range(ids) = {} BY <1>12, <1>13, <1>14
    <3> QED BY <1>11, <1>14, <2>3, <3>1, Joined
  <2>6. Asked + 1 \in DOMAIN net'.asked <=> some BY <1>6, <1>16, <2>4
  <2>7. \A i \in 1 .. Asked : net'.asked[i] = net.asked[i] BY <1>6, <2>4
  <2>8. some => net'.asked[Asked + 1] = r BY <1>6, <2>4
  <2>9. Accounts'
    <3>1. \A i \in Range(net'.sent) : i \in DOMAIN net'.asked /\ net'.asked[i].status = "sent"
      BY <1>6, <1>18, <2>4, <2>7
    <3>2. ASSUME NEW i \in Range(IdsOf(all))
          PROVE  i \in DOMAIN net'.asked /\ net'.asked[i].status = "gated" /\ ~ net'.asked[i].internal
      <4>1. CASE i \in Waited BY <1>6, <1>17, <2>4, <2>7, <4>1
      <4>2. CASE i \notin Waited
        <5>1. some /\ i = Asked + 1 BY <1>12, <1>14, <2>5, <4>2
        <5> QED BY <1>4, <2>6, <2>8, <5>1
      <4> QED BY <4>1, <4>2
    <3>3. Waited' = Range(IdsOf(all)) BY <2>4 DEF Waited, IdsOf
    <3>4. IdsOf(net.gated)' = IdsOf(all) BY <2>4 DEF IdsOf
    <3>5. Distinct(IdsOf(net.gated))' BY <2>5, <3>4 DEF Distinct
    <3> QED BY <3>1, <3>2, <3>3, <3>5 DEF Accounts
  <2>10. /\ 1 .. Asked \subseteq DOMAIN net'.asked /\ DOMAIN net'.asked \subseteq 1 .. Asked + 1
    BY <1>6, <2>4
  <2>11. console' = IF Asked + 1 \in DOMAIN net'.asked /\ net'.asked[Asked + 1].command = "repl"
                    THEN [console EXCEPT !.phase = "entry", !.on = Asked + 1]
                    ELSE IF console.phase = "restore" /\ console.on = Current.serial THEN Entry("idle", 0)
                    ELSE console
    <3>1. Asked + 1 \in DOMAIN net'.asked /\ net'.asked[Asked + 1].command = "repl" <=> entry /\ ~ refused
      BY <1>4, <2>6, <2>8
    <3> QED BY <1>1, <3>1
  <2>12. some /\ r.command = "repl" => console.phase = "restore" BY <1>4
  <2>15. Asked + 1 \in DOMAIN net'.asked =>
           /\ net'.asked[Asked + 1].internal = FALSE /\ net'.asked[Asked + 1].command \in {"repl", "check"}
           /\ net'.asked[Asked + 1].status = "gated"
           /\ net'.asked[Asked + 1].command = "repl" => console.phase = "restore"
    BY <1>4, <2>6, <2>8, <2>12
  <2> QED BY <1>6, <1>20, <2>4, <2>7, <2>9, <2>10, <2>11, <2>15
<1> QED BY <1>19, <1>20

-----------------------------------------------------------------------------
(* What a step makes of the jobs.                                          *)

LEMMA GoesEffect ==
  ASSUME jobs \in Seq(Jobs), Busy, NEW phase \in Phases, NEW js, js = Goes(phase)
  PROVE  /\ js \in Seq(Jobs) /\ js # <<>> /\ DOMAIN js = DOMAIN jobs /\ 1 \in DOMAIN jobs /\ Len(js) = Len(jobs)
         /\ js[1] \in Jobs /\ js[1].phase = phase /\ js[1].kind = Current.kind /\ js[1].of = Current.of
         /\ js[1].serial = Current.serial /\ js[1].recheck = Current.recheck
         /\ js[1].request = Current.request /\ js[1].begun = Current.begun
         /\ \A k \in DOMAIN jobs : k # 1 => js[k] = jobs[k]
<1> DEFINE j == [jobs[1] EXCEPT !.phase = phase]
<1>1. jobs # <<>> /\ 1 \in DOMAIN jobs /\ jobs[1] \in Jobs BY DEF Busy
<1>2. /\ j \in Jobs /\ j.phase = phase /\ j.kind = jobs[1].kind /\ j.of = jobs[1].of
      /\ j.serial = jobs[1].serial /\ j.recheck = jobs[1].recheck
      /\ j.request = jobs[1].request /\ j.begun = jobs[1].begun
  BY <1>1 DEF Jobs
<1>3. js = [jobs EXCEPT ![1] = j] BY DEF Goes
<1> HIDE DEF j
<1> QED BY <1>1, <1>2, <1>3 DEF Current

LEMMA WorksEffect ==
  ASSUME jobs \in Seq(Jobs), Busy, epoch \in Nat, NEW phase \in Phases, NEW i \in Nat, NEW js, js = Works(phase, i)
  PROVE  /\ js \in Seq(Jobs) /\ js # <<>> /\ DOMAIN js = DOMAIN jobs /\ 1 \in DOMAIN jobs /\ Len(js) = Len(jobs)
         /\ js[1] \in Jobs /\ js[1].phase = phase /\ js[1].kind = Current.kind /\ js[1].of = Current.of
         /\ js[1].serial = Current.serial /\ js[1].request = i /\ js[1].begun = epoch
         /\ \A k \in DOMAIN jobs : k # 1 => js[k] = jobs[k]
<1> DEFINE p == [jobs[1] EXCEPT !.phase = phase]
           q == [p EXCEPT !.request = i]
           j == [q EXCEPT !.begun = epoch]
<1>1. jobs # <<>> /\ 1 \in DOMAIN jobs /\ jobs[1] \in Jobs BY DEF Busy
<1>2. /\ p \in Jobs /\ p.phase = phase /\ p.kind = jobs[1].kind /\ p.of = jobs[1].of /\ p.serial = jobs[1].serial
  BY <1>1 DEF Jobs
<1>3. js = [jobs EXCEPT ![1] = j] BY DEF Works
<1> HIDE DEF p
<1>4. /\ q \in Jobs /\ q.phase = phase /\ q.kind = p.kind /\ q.of = p.of /\ q.serial = p.serial /\ q.request = i
  BY <1>2 DEF Jobs
<1> HIDE DEF q
<1>5. /\ j \in Jobs /\ j.phase = phase /\ j.kind = q.kind /\ j.of = q.of /\ j.serial = q.serial
      /\ j.request = i /\ j.begun = epoch
  BY <1>4 DEF Jobs
<1> HIDE DEF j
<1> QED BY <1>1, <1>2, <1>3, <1>4, <1>5 DEF Current

LEMMA RunEffect ==
  ASSUME JobData, NEW kind \in Kinds, NEW of \in Nat, NEW recheck \in BOOLEAN, Run(Job(kind, of, recheck))
  PROVE  /\ JobData' /\ jobs' # <<>> /\ Len(jobs) \in Nat
         /\ DOMAIN jobs = 1 .. Len(jobs) /\ DOMAIN jobs' = 1 .. Len(jobs) + 1 /\ Len(jobs') = Len(jobs) + 1
         /\ \A k \in 1 .. Len(jobs) : jobs'[k] = jobs[k]
         /\ jobs'[Len(jobs) + 1].kind = kind /\ jobs'[Len(jobs) + 1].of = of
         /\ jobs'[Len(jobs) + 1].phase = "asked" /\ serial' = serial + 1
<1> DEFINE j == Job(kind, of, recheck)
<1>1. jobs \in Seq(Jobs) /\ serial \in Nat BY DEF JobData
<1>2. j \in Jobs /\ j.kind = kind /\ j.of = of /\ j.phase = "asked" BY <1>1 DEF Job, Jobs, Phases
<1>3. jobs' = Append(jobs, j) /\ serial' = serial + 1 BY DEF Run
<1> HIDE DEF j
<1>4. jobs' \in Seq(Jobs) /\ serial' \in Nat BY <1>1, <1>2, <1>3
<1> QED BY <1>1, <1>2, <1>3, <1>4 DEF JobData

LEMMA TailEffect ==
  ASSUME jobs \in Seq(Jobs), Busy
  PROVE  /\ Tail(jobs) \in Seq(Jobs) /\ Len(Tail(jobs)) = Len(jobs) - 1 /\ Len(jobs) \in Nat
         /\ DOMAIN Tail(jobs) = 1 .. Len(jobs) - 1 /\ DOMAIN jobs = 1 .. Len(jobs)
         /\ \A k \in DOMAIN Tail(jobs) : k + 1 \in DOMAIN jobs /\ Tail(jobs)[k] = jobs[k + 1]
BY DEF Busy

-----------------------------------------------------------------------------
(* Requests keep their accounts.                                           *)
LEMMA NetAsk ==
  ASSUME NetData, jobs \in Seq(Jobs), NEW command \in Commands, NEW internal \in BOOLEAN, NEW entries \in Nat,
         NEW up \in BOOLEAN, net' = Ask(command, internal, entries, up)
  PROVE  NetData' /\ Grown /\ Asked + 1 \in DOMAIN net'.asked
<1>0. net \in Nets /\ Accounts BY DEF NetData
<1> DEFINE n == net'
<1>1. /\ n \in Nets /\ Asked \in Nat /\ Len(n.asked) = Asked + 1
      /\ DOMAIN net.asked = 1 .. Asked /\ DOMAIN n.asked = 1 .. Asked + 1
      /\ \A i \in 1 .. Asked : n.asked[i] = net.asked[i]
      /\ n.asked[Asked + 1].command = command /\ n.asked[Asked + 1].internal = internal
      /\ n.asked[Asked + 1].entries = entries
      /\ IF Waits(internal)
         THEN /\ n.sent = net.sent /\ n.asked[Asked + 1].status = "gated"
              /\ n.gated = Append(net.gated, [id |-> Asked + 1, gate |-> Last(jobs).serial])
              /\ Last(jobs).serial \in Nat
         ELSE /\ n.gated = net.gated
              /\ n.sent = IF up THEN Append(net.sent, Asked + 1) ELSE net.sent
              /\ n.asked[Asked + 1].status = IF up THEN "sent" ELSE "failed"
  <2>1. n = Ask(command, internal, entries, up) OBVIOUS
  <2> HIDE DEF n
  <2>2. AskedFor(n, command, internal, entries, up) BY <1>0, <2>1, AskAny, Zenon
  <2> QED BY <2>2 DEF AskedFor
<1> HIDE DEF n
<1>2. net.sent \in Seq(Nat) /\ net.gated \in Seq(Gated) BY <1>0 DEF Nets
<1>3. \A i \in Range(net.sent) : i \in 1 .. Asked /\ net.asked[i].status = "sent" BY <1>0, <1>1 DEF Accounts
<1>4. \A i \in Waited : i \in 1 .. Asked /\ net.asked[i].status = "gated" /\ ~ net.asked[i].internal
  BY <1>0, <1>1 DEF Accounts
<1>5. Range(n.sent) \subseteq Range(net.sent) \cup IF ~ Waits(internal) /\ up THEN {Asked + 1} ELSE {}
  <2>1. CASE ~ Waits(internal) /\ up
    <3>1. n.sent = Append(net.sent, Asked + 1) BY <1>1, <2>1
    <3>2. \A k \in DOMAIN n.sent : (k \in DOMAIN net.sent /\ n.sent[k] = net.sent[k]) \/ n.sent[k] = Asked + 1
      BY <1>1, <1>2, <3>1
    <3> QED BY <2>1, <3>2 DEF Range
  <2>2. CASE ~ (~ Waits(internal) /\ up) BY <1>1, <2>2
  <2> QED BY <2>1, <2>2
<1>6. ASSUME NEW i \in Range(n.sent) PROVE i \in DOMAIN n.asked /\ n.asked[i].status = "sent"
  <2>1. CASE i \in Range(net.sent) BY <1>1, <1>3, <2>1
  <2>2. CASE i \notin Range(net.sent)
    <3>1. ~ Waits(internal) /\ up /\ i = Asked + 1 BY <1>5, <2>2
    <3> QED BY <1>1, <3>1
  <2> QED BY <2>1, <2>2
<1>9. Grown /\ Asked + 1 \in DOMAIN net'.asked BY <1>1 DEF Grown, n
<1>7. CASE ~ Waits(internal)
  <2>1. n.gated = net.gated BY <1>1, <1>7
  <2>2. Waited' = Waited /\ IdsOf(net.gated)' = IdsOf(net.gated) BY <2>1 DEF Waited, IdsOf, n
  <2>3. \A i \in Waited : i \in DOMAIN n.asked /\ n.asked[i].status = "gated" /\ ~ n.asked[i].internal
    BY <1>1, <1>4
  <2>4. Distinct(IdsOf(net.gated))' BY <1>0, <2>2 DEF Accounts, Distinct
  <2> QED BY <1>1, <1>6, <1>9, <2>2, <2>3, <2>4 DEF NetData, Accounts, n
<1>8. CASE Waits(internal)
  <2>1. ~ internal BY <1>8 DEF Waits
  <2> DEFINE gate == Last(jobs).serial
  <2>2. gate \in Nat /\ n.gated = Append(net.gated, [id |-> Asked + 1, gate |-> gate]) BY <1>1, <1>8
  <2> HIDE DEF gate
  <2>3. /\ DOMAIN net.gated = 1 .. Len(net.gated) /\ Len(net.gated) \in Nat
        /\ DOMAIN n.gated = 1 .. Len(net.gated) + 1
        /\ \A k \in 1 .. Len(net.gated) : n.gated[k] = net.gated[k]
        /\ n.gated[Len(net.gated) + 1].id = Asked + 1
    <3> DEFINE w == [id |-> Asked + 1, gate |-> gate]
    <3>1. w \in Gated /\ w.id = Asked + 1 BY <1>1, <2>2 DEF Gated
    <3> HIDE DEF w
    <3>2. n.gated = Append(net.gated, w) BY <2>2 DEF w
    <3> QED BY <1>2, <3>1, <3>2
  <2>4. \A k \in 1 .. Len(net.gated) : IdsOf(net.gated)[k] \in Waited /\ IdsOf(n.gated)[k] = IdsOf(net.gated)[k]
    BY <2>3 DEF IdsOf, Waited, Range
  <2>5. IdsOf(n.gated)[Len(net.gated) + 1] = Asked + 1 /\ DOMAIN IdsOf(n.gated) = 1 .. Len(net.gated) + 1
        /\ DOMAIN IdsOf(net.gated) = 1 .. Len(net.gated)
    BY <2>3 DEF IdsOf
  <2>6. \A i \in Waited : i # Asked + 1 BY <1>1, <1>4
  <2>7. Distinct(IdsOf(n.gated))
    <3> SUFFICES ASSUME NEW k \in 1 .. Len(net.gated) + 1, NEW l \in 1 .. Len(net.gated) + 1,
                        IdsOf(n.gated)[k] = IdsOf(n.gated)[l]
                 PROVE  k = l
      BY <2>5 DEF Distinct
    <3>1. CASE k \in 1 .. Len(net.gated) /\ l \in 1 .. Len(net.gated)
      BY <1>0, <2>4, <2>5, <3>1 DEF Accounts, Distinct
    <3>2. CASE ~ (k \in 1 .. Len(net.gated) /\ l \in 1 .. Len(net.gated))
      <4>1. (k = Len(net.gated) + 1 \/ k \in 1 .. Len(net.gated)) /\ (l = Len(net.gated) + 1 \/ l \in 1 .. Len(net.gated))
        BY <2>3
      <4> QED BY <2>4, <2>5, <2>6, <3>2, <4>1
    <3> QED BY <3>1, <3>2
  <2>8. ASSUME NEW i \in Range(IdsOf(n.gated))
        PROVE  i \in DOMAIN n.asked /\ n.asked[i].status = "gated" /\ ~ n.asked[i].internal
    <3>1. PICK k \in 1 .. Len(net.gated) + 1 : i = IdsOf(n.gated)[k] BY <2>5 DEF Range
    <3>2. CASE k \in 1 .. Len(net.gated)
      <4>1. i \in Waited BY <2>4, <3>1, <3>2
      <4> QED BY <1>1, <1>4, <4>1
    <3>3. CASE k = Len(net.gated) + 1
      <4>1. i = Asked + 1 BY <2>5, <3>1, <3>3
      <4> QED BY <1>1, <1>8, <2>1, <4>1
    <3> QED BY <2>3, <3>2, <3>3
  <2>9. Waited' = Range(IdsOf(n.gated)) /\ IdsOf(net.gated)' = IdsOf(n.gated) BY DEF Waited, IdsOf, n
  <2>10. Distinct(IdsOf(net.gated))' BY <2>7, <2>9 DEF Distinct
  <2> QED BY <1>1, <1>6, <1>9, <2>8, <2>9, <2>10 DEF NetData, Accounts, n
<1> QED BY <1>7, <1>8, <1>9

LEMMA NetDrop ==
  ASSUME NetData, NEW status \in Statuses, net' = Drop(status)
  PROVE  NetData' /\ Grown
<1>0. net \in Nets /\ Accounts BY DEF NetData
<1> DEFINE n == net'
<1>1. /\ n \in Nets /\ n.gated = net.gated /\ n.sent = <<>>
      /\ DOMAIN n.asked = DOMAIN net.asked
      /\ \A i \in DOMAIN net.asked : i \notin Range(net.sent) => n.asked[i] = net.asked[i]
  BY <1>0, DropEffect
<1> HIDE DEF n
<1>2. Range(n.sent) = {} BY <1>1 DEF Range
<1>3. \A i \in Waited : i \notin Range(net.sent) BY <1>0 DEF Accounts
<1>4. Waited' = Waited /\ IdsOf(net.gated)' = IdsOf(net.gated) BY <1>1 DEF Waited, IdsOf, n
<1>5. \A i \in Waited : i \in DOMAIN n.asked /\ n.asked[i].status = "gated" /\ ~ n.asked[i].internal
  BY <1>0, <1>1, <1>3 DEF Accounts
<1>6. Distinct(IdsOf(net.gated))' BY <1>0, <1>4 DEF Accounts, Distinct
<1> QED BY <1>1, <1>2, <1>4, <1>5, <1>6 DEF NetData, Accounts, Grown, n

LEMMA NetReply ==
  ASSUME NetData, NEW i \in Range(net.sent), NEW status \in Statuses, NEW entries \in Nat,
         net' = Reply(i, status, entries)
  PROVE  NetData' /\ Grown
<1>0. net \in Nets /\ Accounts /\ i \in DOMAIN net.asked BY DEF NetData, Accounts
<1> DEFINE n == net'
<1>1. /\ n \in Nets /\ n.gated = net.gated /\ Range(n.sent) = Range(net.sent) \ {i}
      /\ DOMAIN n.asked = DOMAIN net.asked
      /\ \A j \in DOMAIN net.asked : j # i => n.asked[j] = net.asked[j]
  BY <1>0, ReplyEffect
<1> HIDE DEF n
<1>3. \A j \in Waited : j # i BY <1>0 DEF Accounts
<1>4. Waited' = Waited /\ IdsOf(net.gated)' = IdsOf(net.gated) BY <1>1 DEF Waited, IdsOf, n
<1>5. \A j \in Waited : j \in DOMAIN n.asked /\ n.asked[j].status = "gated" /\ ~ n.asked[j].internal
  BY <1>0, <1>1, <1>3 DEF Accounts
<1>6. Distinct(IdsOf(net.gated))' BY <1>0, <1>4 DEF Accounts, Distinct
<1>7. \A j \in Range(n.sent) : j \in DOMAIN n.asked /\ n.asked[j].status = "sent" BY <1>0, <1>1 DEF Accounts
<1> QED BY <1>1, <1>4, <1>5, <1>6, <1>7 DEF NetData, Accounts, Grown, n

(* Time and progress: no status changes.                                   *)
Timed ==
  /\ net' \in Nets /\ net'.gated = net.gated /\ net'.sent = net.sent /\ DOMAIN net'.asked = DOMAIN net.asked
  /\ \A i \in DOMAIN net.asked :
       /\ net'.asked[i].command = net.asked[i].command /\ net'.asked[i].internal = net.asked[i].internal
       /\ net'.asked[i].status = net.asked[i].status /\ net'.asked[i].entries = net.asked[i].entries

LEMMA NetTimed == NetData /\ Timed => NetData' /\ Grown
<1> SUFFICES ASSUME NetData, Timed PROVE NetData' /\ Grown BY DEF Grown
<1>1. Waited' = Waited /\ IdsOf(net.gated)' = IdsOf(net.gated) /\ Range(net.sent)' = Range(net.sent)
  BY DEF Timed, Waited, IdsOf, Range
<1>2. Distinct(IdsOf(net.gated))' BY <1>1 DEF NetData, Accounts, Distinct
<1> QED BY <1>1, <1>2 DEF NetData, Accounts, Timed, Grown

LEMMA TickEffect ==
  ASSUME NetData, Tick \/ \E i \in DOMAIN net.asked : Advance(i)
  PROVE  Timed
<1>1. net \in Nets /\ net.asked \in Seq(Requests) /\ net.gated \in Seq(Gated) /\ net.sent \in Seq(Nat)
  BY DEF NetData, Nets
<1>2. DOMAIN net.asked = 1 .. Len(net.asked) /\ Len(net.asked) \in Nat /\ \A i \in DOMAIN net.asked : net.asked[i] \in Requests
  BY <1>1
<1>3. CASE Tick
  <2> DEFINE on(r) == [r EXCEPT !.left = r.left - 1]
             asked == [i \in DOMAIN net.asked |-> IF i \in Range(net.sent) THEN on(net.asked[i]) ELSE net.asked[i]]
  <2>1. net' = [net EXCEPT !.asked = asked] BY <1>1, <1>3 DEF Tick, Nets
  <2>2. \A r \in Requests : /\ on(r) \in Requests /\ on(r).command = r.command /\ on(r).internal = r.internal
                            /\ on(r).status = r.status /\ on(r).entries = r.entries
    BY DEF Requests
  <2> HIDE DEF on
  <2>3. \A i \in DOMAIN net.asked :
          /\ asked[i] \in Requests
          /\ asked[i].command = net.asked[i].command /\ asked[i].internal = net.asked[i].internal
          /\ asked[i].status = net.asked[i].status /\ asked[i].entries = net.asked[i].entries
    BY <1>2, <2>2
  <2>4. DOMAIN asked = DOMAIN net.asked /\ asked = [i \in DOMAIN asked |-> asked[i]] OBVIOUS
  <2> HIDE DEF asked
  <2>5. asked \in Seq(Requests) BY <1>2, <2>3, <2>4
  <2>6. net' \in Nets /\ net'.gated = net.gated /\ net'.sent = net.sent /\ net'.asked = asked BY <1>1, <2>1, <2>5 DEF Nets
  <2> QED BY <2>3, <2>4, <2>6 DEF Timed
<1>4. ASSUME NEW i \in DOMAIN net.asked, Advance(i) PROVE Timed
  <2> DEFINE q == [net.asked[i] EXCEPT !.left = CheckTicks]
             r == [q EXCEPT !.advances = net.asked[i].advances + 1]
             asked == [net.asked EXCEPT ![i] = r]
  <2>1. net.asked[i] \in Requests BY <1>2
  <2>2. /\ q \in Requests /\ q.command = net.asked[i].command /\ q.internal = net.asked[i].internal
        /\ q.status = net.asked[i].status /\ q.entries = net.asked[i].entries /\ q.advances = net.asked[i].advances
    BY <2>1, PageAssumption DEF Requests
  <2>3. net' = [net EXCEPT !.asked = asked] BY <1>1, <1>4 DEF Advance, Nets
  <2> HIDE DEF q
  <2>4. /\ r \in Requests /\ r.command = q.command /\ r.internal = q.internal
        /\ r.status = q.status /\ r.entries = q.entries
    BY <2>2 DEF Requests
  <2> HIDE DEF r
  <2>5. asked \in Seq(Requests) /\ DOMAIN asked = DOMAIN net.asked /\ asked[i] = r
        /\ \A j \in DOMAIN net.asked : j # i => asked[j] = net.asked[j]
    BY <1>1, <2>4
  <2> HIDE DEF asked
  <2>6. net' \in Nets /\ net'.gated = net.gated /\ net'.sent = net.sent /\ net'.asked = asked BY <1>1, <2>3, <2>5 DEF Nets
  <2> QED BY <2>2, <2>4, <2>5, <2>6 DEF Timed
<1> QED BY <1>3, <1>4

-----------------------------------------------------------------------------
(* The types, each step by itself.                                         *)

LEMMA DataParts ==
  DataInv => /\ worker \in Nat /\ ready \in BOOLEAN /\ halted \in BOOLEAN
             /\ net \in Nets /\ jobs \in Seq(Jobs) /\ serial \in Nat /\ epoch \in Nat /\ record \in Nat
             /\ checks \in Seq(Calls) /\ console \in Consoles
BY DEF DataInv, Data, NetData, JobData, ConsoleData, PageInv, Types

(* What is not touched stays what it was.                                  *)
LEMMA NetSame == NetData /\ net' = net => NetData' /\ Grown
<1> SUFFICES ASSUME NetData, net' = net PROVE NetData' /\ Grown BY DEF Grown
<1>1. Waited' = Waited /\ IdsOf(net.gated)' = IdsOf(net.gated) /\ Range(net.sent)' = Range(net.sent)
  BY DEF Waited, IdsOf, Range
<1>2. Distinct(IdsOf(net.gated))' BY <1>1 DEF NetData, Accounts, Distinct
<1> QED BY <1>1, <1>2 DEF NetData, Accounts, Grown

LEMMA JobSame == JobData /\ UNCHANGED jobVars => JobData'
BY DEF JobData, jobVars

LEMMA ConsoleSame == ConsoleData /\ UNCHANGED <<consoleVars, worker>> => ConsoleData'
BY DEF ConsoleData, consoleVars

LEMMA WorkerSame == WorkerData /\ UNCHANGED <<workerVars, worker>> => WorkerData'
BY DEF WorkerData, workerVars

LEMMA RefersSame ==
  /\ JobRefers /\ Grown /\ jobs' = jobs => JobRefers'
  /\ ConsoleRefers /\ Grown /\ console' = console => ConsoleRefers'
BY DEF JobRefers, ConsoleRefers, Grown, In, Busy, Current

LEMMA JobGone ==
  ASSUME JobData, Busy, serial' = serial, NEW phase \in Phases, jobs' = Goes(phase),
         phase \notin {"rebuild", "restoring"}
  PROVE  JobData' /\ JobRefers' /\ Current'.phase = phase
<1>1. jobs \in Seq(Jobs) BY DEF JobData
<1> DEFINE js == jobs'
<1>2. js = Goes(phase) OBVIOUS
<1> HIDE DEF js
<1>3. js \in Seq(Jobs) /\ js[1].phase = phase BY <1>1, <1>2, GoesEffect
<1> QED BY <1>3 DEF JobData, JobRefers, In, Current, js

LEMMA JobWorks ==
  ASSUME JobData, Busy, epoch \in Nat, serial' = serial, NEW phase \in Phases, NEW i \in Nat, jobs' = Works(phase, i),
         i \in DOMAIN net'.asked
  PROVE  JobData' /\ JobRefers'
<1>1. jobs \in Seq(Jobs) BY DEF JobData
<1> DEFINE js == jobs'
<1>2. js = Works(phase, i) OBVIOUS
<1> HIDE DEF js
<1>3. js \in Seq(Jobs) /\ js[1].request = i BY <1>1, <1>2, WorksEffect
<1> QED BY <1>3 DEF JobData, JobRefers, Current, js

LEMMA StartData ==
  ASSUME DataInv, Starts, Busy, serial' = serial, UNCHANGED consoleVars
  PROVE  JobData' /\ JobRefers' /\ WorkerData' /\ ConsoleData'
<1>1. JobData' /\ JobRefers' BY JobGone DEF DataInv, Data, Starts, Phases
<1>2. worker \in Nat BY DataParts
<1>3. WorkerData' BY <1>2 DEF DataInv, Data, WorkerData, Starts
<1>4. ConsoleData' BY <1>2 DEF DataInv, Data, ConsoleData, Starts, consoleVars
<1> QED BY <1>1, <1>3, <1>4

LEMMA DataInit == Init => Data
<1> SUFFICES ASSUME Init PROVE Data OBVIOUS
<1>1. net \in Nets
  <2>1. <<>> \in Seq(Requests) /\ <<>> \in Seq(Gated) /\ <<>> \in Seq(Nat) OBVIOUS
  <2> QED BY <2>1 DEF Init, Nets
<1>2. Accounts
  <2>1. DOMAIN net.sent = {} /\ DOMAIN IdsOf(net.gated) = {} BY DEF Init, IdsOf
  <2>2. Range(net.sent) = {} /\ Range(IdsOf(net.gated)) = {} BY <2>1 DEF Range
  <2> QED BY <2>1, <2>2 DEF Accounts, Waited, Distinct
<1>3. jobs \in Seq(Jobs)
  <2> DEFINE j == jobs[1]
  <2>1. j \in Jobs /\ jobs = <<j>> BY DEF Init, Jobs, Kinds, Phases
  <2> HIDE DEF j
  <2>2. <<j>> \in Seq(Jobs) BY <2>1
  <2> QED BY <2>1, <2>2
<1>4. ConsoleData /\ WorkerData BY DEF Init, ConsoleData, WorkerData, Consoles
<1>5. checks \in Seq(Calls) BY DEF Init
<1> QED BY <1>1, <1>2, <1>3, <1>4, <1>5 DEF Init, Data, NetData, JobData

LEMMA MaintainData ==
  ASSUME DataInv, Replace \/ Decline \/ StartWorker \/ WorkerStopped \/ Rebuilt \/ RestoreSkipped
  PROVE  Data' /\ JobRefers' /\ ConsoleRefers'
<1>1. /\ NetData /\ JobData /\ checks \in Seq(Calls) /\ halted \in BOOLEAN /\ ConsoleData /\ WorkerData
      /\ JobRefers /\ ConsoleRefers
  BY DEF DataInv, Data
<1>2. CASE Replace
  <2>1. Busy BY <1>2 DEF Replace, Turn, In
  <2>2. NetData' /\ Grown BY <1>1, <1>2, NetDrop DEF Replace, Statuses
  <2>3. JobData' /\ JobRefers' /\ WorkerData' /\ ConsoleData'
    <3>1. CASE Known BY <1>2, <2>1, <3>1, StartData DEF Replace
    <3>2. CASE ~ Known
      <4>1. JobData' /\ JobRefers' BY <1>1, <1>2, <2>1, <3>2, JobGone DEF Replace, Phases
      <4> QED BY <1>1, <1>2, <3>2, <4>1, ConsoleSame, WorkerSame DEF Replace
    <3> QED BY <3>1, <3>2
  <2>4. ConsoleRefers' BY <1>1, <1>2, <2>2, RefersSame DEF Replace, consoleVars
  <2> QED BY <1>1, <1>2, <2>2, <2>3, <2>4 DEF Replace, Data
<1>4. CASE StartWorker
  <2>1. JobData' /\ JobRefers' /\ WorkerData' /\ ConsoleData' BY <1>4, StartData DEF StartWorker, In
  <2>2. NetData' /\ Grown BY <1>1, <1>4, NetSame DEF StartWorker
  <2>3. ConsoleRefers' BY <1>1, <1>4, <2>2, RefersSame DEF StartWorker, consoleVars
  <2> QED BY <1>1, <1>4, <2>1, <2>2, <2>3 DEF StartWorker, Data
<1>5. ASSUME Busy, NEW phase \in Phases, jobs' = Goes(phase), phase \notin {"rebuild", "restoring"},
             UNCHANGED <<pageVars, net, serial, checks, consoleVars, workerVars>>
      PROVE  Data' /\ JobRefers' /\ ConsoleRefers'
  <2>1. JobData' /\ JobRefers' BY <1>1, <1>5, JobGone
  <2>2. NetData' /\ Grown BY <1>1, <1>5, NetSame
  <2>3. ConsoleRefers' BY <1>1, <1>5, <2>2, RefersSame DEF consoleVars
  <2> QED BY <1>1, <1>5, <2>1, <2>2, <2>3, ConsoleSame, WorkerSame DEF Data, pageVars
<1>6. CASE Decline BY <1>5, <1>6 DEF Decline, Turn, In, Phases
<1>7. CASE WorkerStopped BY <1>5, <1>7 DEF WorkerStopped, In, Phases
<1>8. CASE Rebuilt BY <1>5, <1>8 DEF Rebuilt, In, Phases
<1>9. CASE RestoreSkipped BY <1>5, <1>9 DEF RestoreSkipped, RestoreTurn, Turn, In, Phases
<1> QED BY <1>2, <1>4, <1>6, <1>7, <1>8, <1>9

LEMMA WorkData ==
  ASSUME DataInv, WorkerReady \/ RestoreBegins \/ Restored \/ Finish
  PROVE  Data' /\ JobRefers' /\ ConsoleRefers'
<1>1. /\ NetData /\ JobData /\ checks \in Seq(Calls) /\ halted \in BOOLEAN /\ ConsoleData /\ WorkerData
      /\ worker \in Nat /\ ready \in BOOLEAN /\ net \in Nets /\ jobs \in Seq(Jobs) /\ epoch \in Nat /\ record \in Nat
      /\ JobRefers /\ ConsoleRefers /\ console \in Consoles
  BY DataParts DEF DataInv, Data
<1>2. Asked \in Nat BY <1>1 DEF Asked, Nets
<1>3. CASE WorkerReady
  <2>1. /\ Busy /\ UNCHANGED <<worker, halted, serial, checks, consoleVars, workerVars>>
        /\ JobData' /\ NetData' /\ JobRefers' /\ Grown
    <3>1. Busy /\ UNCHANGED <<worker, halted, serial, checks, consoleVars, workerVars>> BY <1>3 DEF WorkerReady, In
    <3>2. CASE Current.recheck
      <4>1. net' = Ask("check", TRUE, 0, TRUE) /\ jobs' = Works("rebuild", Asked + 1) BY <1>3, <3>2 DEF WorkerReady
      <4>2. NetData' /\ Grown /\ Asked + 1 \in DOMAIN net'.asked BY <1>1, <4>1, NetAsk DEF Commands, Checking
      <4>3. Asked + 1 \in Nat /\ "rebuild" \in Phases /\ serial' = serial BY <1>2, <3>1 DEF Phases
      <4>4. JobData' /\ JobRefers' BY <1>1, <3>1, <4>1, <4>2, <4>3, JobWorks
      <4> QED BY <3>1, <4>2, <4>4
    <3>3. CASE ~ Current.recheck
      <4>1. (net' = Ask("check", FALSE, 0, TRUE) \/ net' = net) /\ jobs' = Goes("done") BY <1>3, <3>3 DEF WorkerReady
      <4>2. NetData' /\ Grown BY <1>1, <4>1, NetAsk, NetSame DEF Commands, Checking
      <4>3. JobData' /\ JobRefers' BY <1>1, <3>1, <4>1, JobGone DEF Phases
      <4> QED BY <3>1, <4>2, <4>3
    <3> QED BY <3>2, <3>3
  <2>2. ConsoleRefers' BY <1>1, <2>1, RefersSame DEF consoleVars
  <2> QED BY <1>1, <2>1, <2>2, ConsoleSame, WorkerSame DEF Data
<1>4. CASE RestoreBegins
  <2>1. Busy BY <1>4 DEF RestoreBegins, RestoreTurn, Turn, In
  <2>2. NetData' /\ Grown /\ Asked + 1 \in DOMAIN net'.asked BY <1>1, <1>4, NetAsk DEF RestoreBegins, Commands, Checking
  <2>3. JobData' /\ JobRefers'
    <3>1. Asked + 1 \in Nat /\ "restoring" \in Phases /\ serial' = serial /\ jobs' = Works("restoring", Asked + 1)
      BY <1>2, <1>4 DEF RestoreBegins, Phases
    <3> QED BY <1>1, <2>1, <2>2, <3>1, JobWorks
  <2>4. ConsoleData' BY <1>1, <1>4 DEF RestoreBegins, ConsoleData, pageVars
  <2>5. ConsoleRefers' BY <1>1, <1>4, <2>2, RefersSame DEF RestoreBegins
  <2> QED BY <1>1, <1>4, <2>2, <2>3, <2>4, <2>5, WorkerSame DEF RestoreBegins, Data, pageVars
<1>5. CASE Restored
  <2>1. Busy BY <1>5 DEF Restored, In
  <2>2. JobData' /\ JobRefers' BY <1>1, <1>5, <2>1, JobGone DEF Restored, Phases
  <2>3. net.asked \in Seq(Requests) BY <1>1 DEF Nets
  <2>4. ConsoleData'
    <3>1. net.asked[Current.request].entries \in Nat
      <4>1. Current.request \in DOMAIN net.asked BY <1>1, <1>5 DEF Restored, JobRefers
      <4>2. net.asked[Current.request] \in Requests BY <2>3, <4>1
      <4> QED BY <4>2 DEF Requests
    <3> QED BY <1>1, <1>5, <3>1 DEF Restored, ConsoleData, pageVars
  <2>5. NetData' /\ Grown BY <1>1, <1>5, NetSame DEF Restored
  <2>6. ConsoleRefers' BY <1>1, <1>5, <2>5, RefersSame DEF Restored
  <2> QED BY <1>1, <1>5, <2>2, <2>4, <2>5, <2>6, WorkerSame DEF Restored, Data, pageVars
<1>6. CASE Finish
  <2> DEFINE m == net'
             to == console'
             more == Asked + 1 \in DOMAIN m.asked
  <2>1. /\ NetData' /\ Grown
        /\ to = IF more /\ m.asked[Asked + 1].command = "repl"
                 THEN [console EXCEPT !.phase = "entry", !.on = Asked + 1]
                 ELSE IF console.phase = "restore" /\ console.on = Current.serial THEN Entry("idle", 0)
                 ELSE console
    BY <1>6, FinishEffect DEF NetData, Grown
  <2>2. JobData' /\ JobRefers'
    <3>1. Busy /\ jobs' = Tail(jobs) /\ serial' = serial BY <1>6 DEF Finish, In
    <3>2. JobData' BY <1>1, <3>1, TailEffect DEF JobData
    <3>3. Waiting(jobs) BY DEF DataInv, PageInv, Types
    <3>4. jobs' # <<>> => 1 \in DOMAIN jobs' /\ 2 \in DOMAIN jobs /\ jobs'[1] = jobs[2] BY <1>1, <3>1, TailEffect
    <3>5. jobs' # <<>> => Current'.phase = "asked" BY <3>3, <3>4 DEF Waiting, Current
    <3> QED BY <3>2, <3>5 DEF JobRefers, In, Busy
  <2> HIDE DEF m, to
  <2>3. to \in Consoles /\ (to.phase \in {"entry", "reset"} => to.on \in DOMAIN m.asked)
    <3> DEFINE p == [console EXCEPT !.phase = "entry"]
               q == [p EXCEPT !.on = Asked + 1]
    <3>1. p \in Consoles /\ p.phase = "entry" BY <1>1 DEF Consoles
    <3>2. [console EXCEPT !.phase = "entry", !.on = Asked + 1] = q OBVIOUS
    <3> HIDE DEF p
    <3>3. q \in Consoles /\ q.phase = "entry" /\ q.on = Asked + 1 BY <1>2, <3>1 DEF Consoles
    <3>4. Entry("idle", 0) \in Consoles /\ Entry("idle", 0).phase = "idle" BY <1>1 DEF Entry, Consoles
    <3>5. console.phase \in {"entry", "reset"} => console.on \in DOMAIN m.asked BY <1>1, <2>1 DEF ConsoleRefers, Grown, m
    <3> HIDE DEF q
    <3> QED BY <1>1, <2>1, <3>2, <3>3, <3>4, <3>5
  <2>4. checks' \in Seq(Calls)
    <3> DEFINE over == Current.serial
               then(c) == IF checks[c].on # over \/ checks[c].phase = "version" THEN checks[c]
                          ELSE IF checks[c].phase = "retry" /\ ready /\ Tail(jobs) = <<>>
                          THEN [checks[c] EXCEPT !.phase = "version", !.on = worker]
                          ELSE [checks[c] EXCEPT !.phase = "over", !.on = 0]
               cs == [c \in DOMAIN checks |-> then(c)]
    <3>1. checks' = cs BY <1>6 DEF Finish
    <3>2. ASSUME NEW c \in DOMAIN checks PROVE then(c) \in Calls
      <4> DEFINE v == [checks[c] EXCEPT !.phase = "version"]
                 w == [checks[c] EXCEPT !.phase = "over"]
      <4>1. checks[c] \in Calls BY <1>1
      <4>2. v \in Calls /\ w \in Calls BY <4>1 DEF Calls
      <4>3. /\ [checks[c] EXCEPT !.phase = "version", !.on = worker] = [v EXCEPT !.on = worker]
            /\ [checks[c] EXCEPT !.phase = "over", !.on = 0] = [w EXCEPT !.on = 0]
        OBVIOUS
      <4> HIDE DEF v, w
      <4>4. [v EXCEPT !.on = worker] \in Calls /\ [w EXCEPT !.on = 0] \in Calls BY <1>1, <4>2 DEF Calls
      <4> QED BY <4>1, <4>3, <4>4
    <3> HIDE DEF then
    <3>3. DOMAIN checks = 1 .. Len(checks) /\ Len(checks) \in Nat BY <1>1
    <3>4. cs \in Seq(Calls) BY <3>2, <3>3
    <3> QED BY <3>1, <3>4
  <2>5. /\ UNCHANGED <<pageVars, serial, record, at, epoch, workerVars>> BY <1>6 DEF Finish
  <2>6. ConsoleData' BY <1>1, <2>3, <2>5 DEF ConsoleData, pageVars, to
  <2>7. ConsoleRefers' BY <2>3 DEF ConsoleRefers, to, m
  <2> QED BY <1>1, <2>1, <2>2, <2>4, <2>5, <2>6, <2>7, WorkerSame DEF Data, pageVars
<1> QED BY <1>3, <1>4, <1>5, <1>6

-----------------------------------------------------------------------------
LEMMA JobRuns ==
  ASSUME JobData, JobRefers, Grown, NEW kind \in Kinds, NEW of \in Nat, NEW recheck \in BOOLEAN,
         Run(Job(kind, of, recheck))
  PROVE  JobData' /\ JobRefers'
<1> DEFINE js == jobs'
           n == net'
<1>1. /\ JobData' /\ js # <<>> /\ Len(jobs) \in Nat
      /\ DOMAIN jobs = 1 .. Len(jobs)
      /\ \A k \in 1 .. Len(jobs) : js[k] = jobs[k]
      /\ js[Len(jobs) + 1].phase = "asked"
  BY RunEffect
<1>2. jobs \in Seq(Jobs) BY DEF JobData
<1>3. CASE jobs = <<>>
  <2>1. Len(jobs) + 1 = 1 BY <1>3
  <2> HIDE DEF js
  <2>2. js[1].phase = "asked" BY <1>1, <2>1
  <2> QED BY <1>1, <2>2 DEF JobRefers, In, Current, js
<1>4. CASE jobs # <<>>
  <2>1. 1 \in 1 .. Len(jobs) BY <1>1, <1>2, <1>4
  <2> HIDE DEF js
  <2>2. js[1] = jobs[1] BY <1>1, <2>1
  <2> QED BY <1>1, <1>4, <2>2 DEF JobRefers, In, Busy, Current, Grown, js
<1> QED BY <1>3, <1>4

LEMMA ReadData ==
  ASSUME DataInv,
         ReaderChecks \/ Focus \/ Press \/ ReaderAsks \/ Enter \/ Reset
         \/ \E c \in DOMAIN checks : SameVersion(c) \/ NewVersion(c)
  PROVE  Data' /\ JobRefers' /\ ConsoleRefers'
<1>1. /\ NetData /\ JobData /\ checks \in Seq(Calls) /\ halted \in BOOLEAN /\ ConsoleData /\ WorkerData
      /\ worker \in Nat /\ ready \in BOOLEAN /\ net \in Nets /\ jobs \in Seq(Jobs) /\ epoch \in Nat /\ record \in Nat
      /\ JobRefers /\ ConsoleRefers /\ console \in Consoles /\ serial \in Nat
  BY DataParts DEF DataInv, Data
<1>2. Asked \in Nat BY <1>1 DEF Asked, Nets
<1>3. /\ {"check", "invalidate", "query", "repl", "reset"} \subseteq Commands
      /\ {"retry", "update", "restore"} \subseteq Kinds
  BY DEF Commands, Checking, Kinds
<1>4. ASSUME NEW asks \in BOOLEAN, NEW phase \in {"version", "update", "retry", "over"}, NEW on \in Nat
      PROVE  Call(asks, phase, on) \in Calls
  BY DEF Call, Calls
<1>5. \A c \in DOMAIN checks : checks[c].on \in Nat /\ checks[c].asks \in BOOLEAN
  <2>1. \A c \in DOMAIN checks : checks[c] \in Calls BY <1>1
  <2> QED BY <2>1 DEF Calls
<1>6. CASE ReaderChecks
  <2>1. UNCHANGED <<worker, state, ready, consoleVars, workerVars>> BY <1>6 DEF ReaderChecks
  <2>2. /\ NetData' /\ Grown /\ JobData' /\ JobRefers' /\ checks' \in Seq(Calls) /\ halted' \in BOOLEAN
    <3>1. CASE halted
      <4>1. /\ halted' = FALSE /\ Run(Job("retry", 0, FALSE)) /\ net' = net
            /\ checks' = Append(checks, Call(TRUE, "retry", serial + 1))
        BY <1>6, <3>1 DEF ReaderChecks
      <4>2. NetData' /\ Grown BY <1>1, <4>1, NetSame
      <4>3. JobData' /\ JobRefers' BY <1>1, <1>3, <4>1, <4>2, JobRuns
      <4> DEFINE call == Call(TRUE, "retry", serial + 1)
      <4>4. call \in Calls BY <1>1 DEF Call, Calls
      <4>5. checks' = Append(checks, call) BY <4>1
      <4> HIDE DEF call
      <4>6. checks' \in Seq(Calls) BY <1>1, <4>4, <4>5
      <4> QED BY <4>1, <4>2, <4>3, <4>6
    <3>2. CASE ~ halted
      <4>1. /\ halted' = halted /\ UNCHANGED jobVars
            /\ \/ net' = Ask("check", FALSE, 0, ready) /\ checks' = Append(checks, Call(TRUE, "over", 0))
               \/ net' = net /\ checks' = Append(checks, Call(TRUE, "version", worker))
        BY <1>6, <3>2 DEF ReaderChecks
      <4>2. NetData' /\ Grown BY <1>1, <1>3, <4>1, NetSame, NetAsk
      <4>3. JobData' /\ JobRefers' BY <1>1, <4>1, <4>2, JobSame, RefersSame DEF jobVars
      <4> DEFINE call == Call(TRUE, "over", 0)
                 first == Call(TRUE, "version", worker)
      <4>4. call \in Calls /\ first \in Calls BY <1>1 DEF Call, Calls
      <4>6. checks' = Append(checks, call) \/ checks' = Append(checks, first) BY <4>1
      <4> HIDE DEF call, first
      <4>5. checks' \in Seq(Calls) BY <1>1, <4>4, <4>6
      <4> QED BY <1>1, <4>1, <4>2, <4>3, <4>5
    <3> QED BY <1>1, <3>1, <3>2
  <2>3. ConsoleRefers' BY <1>1, <2>1, <2>2, RefersSame DEF consoleVars
  <2> QED BY <1>1, <2>1, <2>2, <2>3, ConsoleSame, WorkerSame DEF Data
<1>7. ASSUME \/ net' = net \/ \E command \in {"check", "invalidate", "query"} : net' = Ask(command, FALSE, 0, ready),
             checks' \in Seq(Calls), UNCHANGED <<worker, halted, jobVars, consoleVars, workerVars>>
      PROVE  Data' /\ JobRefers' /\ ConsoleRefers'
  <2>1. NetData' /\ Grown BY <1>1, <1>3, <1>7, NetSame, NetAsk
  <2>2. JobData' /\ JobRefers' BY <1>1, <1>7, <2>1, JobSame, RefersSame DEF jobVars
  <2>3. ConsoleRefers' BY <1>1, <1>7, <2>1, RefersSame DEF consoleVars
  <2> QED BY <1>1, <1>7, <2>1, <2>2, <2>3, ConsoleSame, WorkerSame DEF Data
<1>8. CASE Focus
  <2> DEFINE call == Call(FALSE, "version", worker)
  <2>1. call \in Calls BY <1>1 DEF Call, Calls
  <2>3. checks' = Append(checks, call) BY <1>8 DEF Focus
  <2> HIDE DEF call
  <2>2. checks' \in Seq(Calls) BY <1>1, <2>1, <2>3
  <2> QED BY <1>7, <1>8, <2>2 DEF Focus, pageVars
<1>9. CASE Press BY <1>1, <1>7, <1>9 DEF Press
<1>10. CASE ReaderAsks BY <1>1, <1>7, <1>10 DEF ReaderAsks
<1>11. ASSUME NEW c \in DOMAIN checks, SameVersion(c) PROVE Data' /\ JobRefers' /\ ConsoleRefers'
  <2> DEFINE call == Call(checks[c].asks, "over", 0)
  <2>1. call \in Calls BY <1>4, <1>5
  <2>2. checks' = [checks EXCEPT ![c] = call] BY <1>11 DEF SameVersion
  <2> HIDE DEF call
  <2>3. checks' \in Seq(Calls) BY <1>1, <2>1, <2>2
  <2> QED BY <1>7, <1>11, <2>3 DEF SameVersion, pageVars
<1>12. ASSUME NEW c \in DOMAIN checks, NewVersion(c) PROVE Data' /\ JobRefers' /\ ConsoleRefers'
  <2> DEFINE call == Call(checks[c].asks, "update", serial + 1)
  <2>1. call \in Calls BY <1>1, <1>4, <1>5
  <2>2. checks' = [checks EXCEPT ![c] = call] BY <1>12 DEF NewVersion
  <2> HIDE DEF call
  <2>3. checks' \in Seq(Calls) BY <1>1, <2>1, <2>2
  <2>4. NetData' /\ Grown BY <1>1, <1>12, NetSame DEF NewVersion
  <2>5. JobData' /\ JobRefers' BY <1>1, <1>3, <1>5, <1>12, <2>4, JobRuns DEF NewVersion
  <2>6. ConsoleRefers' BY <1>1, <1>12, <2>4, RefersSame DEF NewVersion, consoleVars
  <2> QED BY <1>1, <1>12, <2>3, <2>4, <2>5, <2>6, ConsoleSame, WorkerSame DEF NewVersion, Data, pageVars
<1>13. ASSUME NEW phase \in {"idle", "restore", "entry", "reset"}, NEW on \in Nat
       PROVE  /\ Entry(phase, on) \in Consoles
              /\ Entry(phase, on).phase = phase /\ Entry(phase, on).on = on
  BY <1>1 DEF Entry, Consoles
<1>14. CASE Enter
  <2>1. UNCHANGED <<worker, halted, checks, record, epoch, workerVars>> BY <1>14 DEF Enter
  <2>2. CASE OnWorker
    <3> DEFINE to == Entry("entry", Asked + 1)
    <3>1. /\ at' = worker /\ net' = Ask("repl", FALSE, 0, ready) /\ console' = to /\ UNCHANGED jobVars
      BY <1>14, <2>2 DEF Enter
    <3>2. NetData' /\ Grown /\ Asked + 1 \in DOMAIN net'.asked BY <1>1, <1>3, <3>1, NetAsk
    <3>3. JobData' /\ JobRefers' BY <1>1, <3>1, <3>2, JobSame, RefersSame DEF jobVars
    <3>4. to \in Consoles /\ to.on = Asked + 1 BY <1>2, <1>13
    <3> HIDE DEF to
    <3>5. ConsoleData' BY <1>1, <2>1, <3>1, <3>4 DEF ConsoleData
    <3>6. ConsoleRefers' BY <3>1, <3>2, <3>4 DEF ConsoleRefers
    <3> QED BY <1>1, <2>1, <3>2, <3>3, <3>5, <3>6, WorkerSame DEF Data
  <2>3. CASE ~ OnWorker
    <3> DEFINE to == Entry("restore", serial + 1)
    <3>1. /\ at' = at /\ net' = net /\ console' = to /\ Run(Job("restore", 0, FALSE))
      BY <1>14, <2>3 DEF Enter
    <3>2. NetData' /\ Grown BY <1>1, <3>1, NetSame
    <3>3. JobData' /\ JobRefers' BY <1>1, <1>3, <3>1, <3>2, JobRuns
    <3>4. to \in Consoles /\ to.phase = "restore" BY <1>1, <1>13
    <3> HIDE DEF to
    <3>5. ConsoleData' BY <1>1, <2>1, <3>1, <3>4 DEF ConsoleData
    <3>6. ConsoleRefers' BY <3>1, <3>4 DEF ConsoleRefers
    <3> QED BY <1>1, <2>1, <3>2, <3>3, <3>5, <3>6, WorkerSame DEF Data
  <2> QED BY <2>2, <2>3
<1>15. CASE Reset
  <2>1. /\ UNCHANGED <<worker, halted, jobVars, checks, workerVars>>
        /\ record' = 0 /\ at' = worker /\ epoch' = epoch + 1 /\ net' = Ask("reset", FALSE, 0, ready)
        /\ console' = [phase |-> "reset", on |-> Asked + 1, begun |-> epoch + 1]
    BY <1>15 DEF Reset
  <2>2. NetData' /\ Grown /\ Asked + 1 \in DOMAIN net'.asked BY <1>1, <1>3, <2>1, NetAsk
  <2>3. JobData' /\ JobRefers' BY <1>1, <2>1, <2>2, JobSame, RefersSame DEF jobVars
  <2>4. console' \in Consoles /\ console'.on = Asked + 1 BY <1>1, <1>2, <2>1 DEF Consoles
  <2>5. ConsoleData' BY <1>1, <2>1, <2>4 DEF ConsoleData
  <2>6. ConsoleRefers' BY <2>2, <2>4 DEF ConsoleRefers
  <2> QED BY <1>1, <2>1, <2>2, <2>3, <2>5, <2>6, WorkerSame DEF Data
<1> QED BY <1>6, <1>8, <1>9, <1>10, <1>11, <1>12, <1>14, <1>15

LEMMA SettleData ==
  ASSUME DataInv, EntrySettled \/ ResetSettled
  PROVE  Data' /\ JobRefers' /\ ConsoleRefers'
<1>1. /\ NetData /\ JobData /\ checks \in Seq(Calls) /\ halted \in BOOLEAN /\ ConsoleData /\ WorkerData
      /\ worker \in Nat /\ net \in Nets /\ epoch \in Nat /\ record \in Nat
      /\ JobRefers /\ ConsoleRefers
  BY DataParts DEF DataInv, Data
<1>2. /\ UNCHANGED <<pageVars, net, jobVars, checks, epoch, workerVars>> /\ console' = Entry("idle", 0)
  BY DEF EntrySettled, ResetSettled
<1>3. NetData' /\ Grown BY <1>1, <1>2, NetSame
<1>4. JobData' /\ JobRefers' BY <1>1, <1>2, <1>3, JobSame, RefersSame DEF jobVars
<1>5. Entry("idle", 0) \in Consoles /\ Entry("idle", 0).phase = "idle" BY <1>1 DEF Entry, Consoles
<1>6. ConsoleRefers' BY <1>2, <1>5 DEF ConsoleRefers
<1>7. record' \in Nat /\ at' \in 0 .. worker
  <2>1. CASE EntrySettled
    <3>1. console.on \in DOMAIN net.asked BY <1>1, <2>1 DEF EntrySettled, ConsoleRefers
    <3>2. net.asked \in Seq(Requests) BY <1>1 DEF Nets
    <3>3. net.asked[console.on] \in Requests BY <3>1, <3>2
    <3>4. net.asked[console.on].entries \in Nat BY <3>3 DEF Requests
    <3>5. \/ record' = net.asked[console.on].entries /\ at' = worker
          \/ record' = record /\ at' = at
      BY <2>1 DEF EntrySettled
    <3> QED BY <1>1, <3>4, <3>5 DEF ConsoleData
  <2>2. CASE ResetSettled BY <1>1, <2>2 DEF ResetSettled, ConsoleData
  <2> QED BY <2>1, <2>2
<1>8. ConsoleData' BY <1>1, <1>2, <1>5, <1>7 DEF ConsoleData, pageVars
<1> QED BY <1>1, <1>2, <1>3, <1>4, <1>6, <1>8, WorkerSame DEF Data, pageVars

(* What the worker answers.                                                *)
LEMMA Replied ==
  ASSUME DataInv, NEW i \in DOMAIN net.asked, Answer(i) \/ Refuse(i)
  PROVE  /\ UNCHANGED <<pageVars, jobVars, checks, consoleVars>> /\ i \in Range(net.sent) /\ worker > 0
         /\ \E status \in {"answered", "failed"} : \E entries \in Nat : net' = Reply(i, status, entries)
         /\ \/ proven' = proven \/ proven' = [proven EXCEPT ![worker] = TRUE]
         /\ session' = session \/ \E n \in Nat : session' = [session EXCEPT ![worker] = n]
<1>1. /\ NetData /\ JobData /\ checks \in Seq(Calls) /\ halted \in BOOLEAN /\ ConsoleData /\ WorkerData
      /\ worker \in Nat /\ net \in Nets /\ JobRefers /\ ConsoleRefers
  BY DataParts DEF DataInv, Data
<1>2. UNCHANGED <<pageVars, jobVars, checks, consoleVars>> /\ i \in Range(net.sent)
  BY DEF Answer, Refuse, Answerable
<1>3. net.asked[i].entries \in Nat
  <2>1. net.asked \in Seq(Requests) BY <1>1 DEF Nets
  <2>2. net.asked[i] \in Requests BY <2>1
  <2> QED BY <2>2 DEF Requests
<1>4. worker > 0
  <2>1. net.sent # <<>>
    <3>1. net.sent \in Seq(Nat) BY <1>1 DEF Nets
    <3> QED BY <1>2, <3>1 DEF Range
  <2> QED BY <2>1 DEF DataInv, PageInv, Running
<1>5. /\ proven \in Seq(BOOLEAN) /\ session \in Seq(Nat) /\ Len(proven) = worker /\ Len(session) = worker
      /\ worker \in DOMAIN session /\ worker \in DOMAIN proven /\ session[worker] \in Nat
  BY <1>1, <1>4 DEF WorkerData
<1>6. /\ \E status \in {"answered", "failed"} : \E entries \in Nat : net' = Reply(i, status, entries)
      /\ \/ proven' = proven \/ proven' = [proven EXCEPT ![worker] = TRUE]
      /\ session' = session \/ \E n \in Nat : session' = [session EXCEPT ![worker] = n]
  <2>1. CASE Refuse(i) BY <2>1 DEF Refuse, workerVars
  <2>2. CASE Answer(i)
    <3> DEFINE request == net.asked[i]
    <3>1. CASE request.command = "check" BY <2>2, <3>1 DEF Answer
    <3>2. CASE request.command = "repl" /\ proven[worker] BY <1>5, <2>2, <3>2 DEF Answer
    <3>3. CASE request.command = "restore" /\ proven[worker] BY <1>3, <2>2, <3>3 DEF Answer
    <3>4. CASE request.command \in {"repl", "restore"} /\ ~ proven[worker] BY <2>2, <3>4 DEF Answer, workerVars
    <3>5. CASE request.command = "reset" BY <2>2, <3>5 DEF Answer
    <3>6. CASE request.command \notin {"check", "repl", "restore", "reset"} BY <2>2, <3>6 DEF Answer, workerVars
    <3> QED BY <3>1, <3>2, <3>3, <3>4, <3>5, <3>6
  <2> QED BY <2>1, <2>2
<1> QED BY <1>2, <1>4, <1>6

LEMMA ReplyData ==
  ASSUME DataInv, NEW i \in DOMAIN net.asked, Answer(i) \/ Refuse(i)
  PROVE  Data' /\ JobRefers' /\ ConsoleRefers'
<1>1. /\ NetData /\ JobData /\ checks \in Seq(Calls) /\ halted \in BOOLEAN /\ ConsoleData /\ WorkerData
      /\ worker \in Nat /\ net \in Nets /\ JobRefers /\ ConsoleRefers
  BY DataParts DEF DataInv, Data
<1>2. UNCHANGED <<pageVars, jobVars, checks, consoleVars>> /\ i \in Range(net.sent) /\ worker > 0
  BY Replied
<1>5. /\ proven \in Seq(BOOLEAN) /\ session \in Seq(Nat) /\ Len(proven) = worker /\ Len(session) = worker
      /\ worker \in DOMAIN session /\ worker \in DOMAIN proven
  BY <1>1, <1>2 DEF WorkerData
<1>6. /\ \E status \in {"answered", "failed"} : \E entries \in Nat : net' = Reply(i, status, entries)
      /\ \/ proven' = proven \/ proven' = [proven EXCEPT ![worker] = TRUE]
      /\ session' = session \/ \E n \in Nat : session' = [session EXCEPT ![worker] = n]
  BY Replied
<1>7. NetData' /\ Grown
  <2>1. PICK status \in {"answered", "failed"}, entries \in Nat : net' = Reply(i, status, entries) BY <1>6
  <2>2. status \in Statuses BY DEF Statuses
  <2> QED BY <1>1, <1>2, <2>1, <2>2, NetReply
<1>8. WorkerData'
  <2>1. proven' \in Seq(BOOLEAN) /\ Len(proven') = worker
    <3> DEFINE f == [proven EXCEPT ![worker] = TRUE]
    <3>1. f \in [1 .. worker -> BOOLEAN]
      <4>1. proven \in [1 .. worker -> BOOLEAN] BY <1>5
      <4> QED BY <1>5, <4>1
    <3> HIDE DEF f
    <3>2. f \in Seq(BOOLEAN) /\ Len(f) = worker BY <1>1, <3>1
    <3>3. proven' = proven \/ proven' = f BY <1>6 DEF f
    <3> QED BY <1>5, <3>2, <3>3
  <2>2. session' \in Seq(Nat) /\ Len(session') = worker BY <1>5, <1>6
  <2> QED BY <1>2, <2>1, <2>2 DEF WorkerData, pageVars
<1>9. JobData' /\ JobRefers' BY <1>1, <1>2, <1>7, JobSame, RefersSame DEF jobVars
<1>10. ConsoleData' /\ ConsoleRefers' BY <1>1, <1>2, <1>7, ConsoleSame, RefersSame DEF consoleVars, pageVars
<1> QED BY <1>1, <1>2, <1>7, <1>8, <1>9, <1>10 DEF Data, pageVars

LEMMA StopData ==
  ASSUME DataInv, Fault \/ Lost \/ Tick \/ (\E i \in DOMAIN net.asked : Expire(i) \/ Advance(i))
  PROVE  Data' /\ JobRefers' /\ ConsoleRefers'
<1>1. /\ NetData /\ JobData /\ checks \in Seq(Calls) /\ halted \in BOOLEAN /\ ConsoleData /\ WorkerData
      /\ worker \in Nat /\ net \in Nets /\ JobRefers /\ ConsoleRefers
  BY DataParts DEF DataInv, Data
<1>2. UNCHANGED <<worker, checks, consoleVars, workerVars>> /\ halted' \in BOOLEAN
  BY <1>1 DEF Fault, Lost, Tick, Expire, Advance, pageVars
<1>3. NetData' /\ Grown
  <2>1. CASE Tick \/ \E i \in DOMAIN net.asked : Advance(i) BY <1>1, <2>1, TickEffect, NetTimed
  <2>2. CASE Fault \/ Lost \/ \E i \in DOMAIN net.asked : Expire(i)
    <3>1. \E status \in {"failed", "expired"} : net' = Drop(status) BY <2>2 DEF Fault, Lost, Expire, Stop
    <3> QED BY <1>1, <3>1, NetDrop DEF Statuses
  <2> QED BY <2>1, <2>2
<1>4. JobData' /\ JobRefers'
  <2>1. CASE UNCHANGED jobVars BY <1>1, <1>3, <2>1, JobSame, RefersSame DEF jobVars
  <2>2. CASE Fault
    <3>1. CASE replaced BY <2>1, <2>2, <3>1 DEF Fault
    <3>2. CASE ~ replaced
      <4>1. \E recheck \in BOOLEAN : Run(Job("fault", worker, recheck)) BY <2>2, <3>2 DEF Fault
      <4> QED BY <1>1, <1>3, <4>1, JobRuns DEF Kinds
    <3> QED BY <3>1, <3>2
  <2> QED BY <2>1, <2>2 DEF Lost, Tick, Expire, Advance
<1>5. ConsoleData' /\ ConsoleRefers' BY <1>1, <1>2, <1>3, ConsoleSame, RefersSame DEF consoleVars
<1> QED BY <1>1, <1>2, <1>3, <1>4, <1>5, WorkerSame DEF Data

LEMMA DataNext == DataInv /\ [Next]_vars => DataInv'
<1> SUFFICES ASSUME DataInv, [Next]_vars PROVE DataInv' OBVIOUS
<1>1. PageInv' BY PageNext DEF DataInv
<1>2. Data' /\ JobRefers' /\ ConsoleRefers'
  <2>1. CASE UNCHANGED vars
    <3>1. NetData' /\ Grown BY <2>1, NetSame DEF DataInv, Data, vars
    <3> QED BY <2>1, <3>1, JobSame, ConsoleSame, WorkerSame, RefersSame
            DEF DataInv, Data, vars, pageVars, jobVars, consoleVars
  <2>2. CASE Continue BY <2>2, SettleData, MaintainData, WorkData DEF Continue
  <2>3. CASE Event BY <2>3, MaintainData, WorkData, ReadData, ReplyData, StopData
                   DEF Event, Fetched, Reader, Replies, TimesOut
  <2> QED BY <2>1, <2>2, <2>3 DEF Next
<1> QED BY <1>1, <1>2 DEF DataInv

LEMMA DataFirst == Init => DataInv
<1>1. Init => ~ In("rebuild") /\ ~ In("restoring") /\ console.phase = "idle" BY DEF Init, In, Busy, Current
<1> QED BY <1>1, PageInit, DataInit DEF DataInv, JobRefers, ConsoleRefers

-----------------------------------------------------------------------------
(* Maintenance and what is sent: a job under way has the worker to itself, *)
(* and a request of maintenance's own is the one its job waits for.        *)
Upkeep ==
  /\ Busy /\ Current.phase # "asked" => \A i \in Range(net.sent) : net.asked[i].internal
  /\ \A i \in Range(net.sent) :
       net.asked[i].internal => Busy /\ Current.phase \in {"rebuild", "restoring"} /\ Current.request = i

(* Whether a job starts a worker though none is ready, its turn come.      *)
Will(j, w) == j.phase = "asked" /\ (j.kind \in {"start", "retry"} \/ (j.kind = "fault" /\ j.of = w))

(* No worker is ready, loaded or asked for, and none of the first n jobs   *)
(* starts one.                                                             *)
Calm(js, w, rd, n) ==
  /\ ~ rd
  /\ js # <<>> => js[1].phase \notin {"version", "load"}
  /\ \A k \in 1 .. n : ~ Will(js[k], w)

Ordered(js, w, st, rd, ht) ==
  /\ \A k \in DOMAIN js : js[k].kind = "start" /\ js[k].phase = "asked" => k = 1 /\ w = 0
  /\ \A k \in DOMAIN js : js[k].kind = "fault" => js[k].of \in 1 .. w /\ st[js[k].of] = "stopped"
  /\ ht => Calm(js, w, rd, Len(js))
  /\ \A k \in DOMAIN js : js[k].kind = "retry" /\ js[k].phase = "asked" => Calm(js, w, rd, k - 1)

Order == Ordered(jobs, worker, state, ready, halted)

AloneInv == Upkeep /\ Order

-----------------------------------------------------------------------------
(* The order of jobs holds of fewer workers and of the jobs that are left. *)

LEMMA OrderedSame ==
  ASSUME NEW js, NEW w \in Nat, NEW st, NEW st2, NEW rd \in BOOLEAN, NEW rd2 \in BOOLEAN,
         NEW ht \in BOOLEAN, NEW ht2 \in BOOLEAN, Ordered(js, w, st, rd, ht),
         rd2 => rd, ht2 => ht, \A v \in 1 .. w : st[v] = "stopped" => st2[v] = "stopped"
  PROVE  Ordered(js, w, st2, rd2, ht2)
BY DEF Ordered, Calm

LEMMA OrderedOn ==
  ASSUME NEW js \in Seq(Jobs), NEW ls \in Seq(Jobs), js # <<>>, DOMAIN ls = DOMAIN js,
         \A k \in DOMAIN js : k # 1 => ls[k] = js[k],
         ls[1].phase \notin {"asked", "version", "load"}, ls[1].kind = js[1].kind, ls[1].of = js[1].of,
         NEW w \in Nat, NEW st, NEW rd \in BOOLEAN, NEW ht \in BOOLEAN, Ordered(js, w, st, rd, ht)
  PROVE  Ordered(ls, w, st, rd, ht)
<1>1. /\ Len(ls) = Len(js) /\ Len(js) \in Nat /\ DOMAIN js = 1 .. Len(js) /\ 1 \in DOMAIN js OBVIOUS
<1>2. \A k \in DOMAIN js : Will(ls[k], w) => Will(js[k], w) BY DEF Will
<1>3. ASSUME NEW n \in Int, n <= Len(js), Calm(js, w, rd, n) PROVE Calm(ls, w, rd, n)
  <2>1. \A k \in 1 .. n : k \in DOMAIN js BY <1>1, <1>3
  <2> QED BY <1>2, <1>3, <2>1 DEF Calm
<1>4. \A k \in DOMAIN js : k - 1 \in Int /\ k - 1 <= Len(js) BY <1>1
<1>5. \A k \in DOMAIN js : ls[k].kind = js[k].kind /\ ls[k].of = js[k].of
                           /\ (ls[k].phase = "asked" => js[k].phase = "asked")
  OBVIOUS
<1>6. /\ \A k \in DOMAIN ls : ls[k].kind = "start" /\ ls[k].phase = "asked" => k = 1 /\ w = 0
      /\ \A k \in DOMAIN ls : ls[k].kind = "fault" => ls[k].of \in 1 .. w /\ st[ls[k].of] = "stopped"
  BY <1>5 DEF Ordered
<1>7. ht => Calm(ls, w, rd, Len(ls)) BY <1>1, <1>3 DEF Ordered
<1>8. \A k \in DOMAIN ls : ls[k].kind = "retry" /\ ls[k].phase = "asked" => Calm(ls, w, rd, k - 1)
  BY <1>3, <1>4, <1>5 DEF Ordered
<1> QED BY <1>6, <1>7, <1>8 DEF Ordered

LEMMA OrderedTail ==
  ASSUME NEW js \in Seq(Jobs), js # <<>>, Waiting(js),
         NEW w \in Nat, NEW st, NEW rd \in BOOLEAN, NEW ht \in BOOLEAN, Ordered(js, w, st, rd, ht)
  PROVE  Ordered(Tail(js), w, st, rd, ht)
<1> DEFINE ls == Tail(js)
<1>1. /\ ls \in Seq(Jobs) /\ Len(ls) = Len(js) - 1 /\ Len(js) \in Nat
      /\ DOMAIN ls = 1 .. Len(js) - 1 /\ DOMAIN js = 1 .. Len(js)
      /\ \A k \in DOMAIN ls : k + 1 \in DOMAIN js /\ ls[k] = js[k + 1]
  OBVIOUS
<1> HIDE DEF ls
<1>2. ls # <<>> => ls[1].phase = "asked"
  <2>1. ls # <<>> => 1 \in DOMAIN ls /\ 2 \in DOMAIN js /\ ls[1] = js[2] BY <1>1
  <2> QED BY <2>1 DEF Waiting
<1>3. ASSUME NEW n \in Int, n <= Len(ls), Calm(js, w, rd, n + 1) PROVE Calm(ls, w, rd, n)
  <2>1. ASSUME NEW k \in 1 .. n PROVE ~ Will(ls[k], w)
    <3>1. k \in DOMAIN ls /\ k + 1 \in 1 .. n + 1 BY <1>1, <1>3
    <3>2. ls[k] = js[k + 1] BY <1>1, <3>1
    <3>3. ~ Will(js[k + 1], w) BY <1>3, <3>1 DEF Calm
    <3> QED BY <3>2, <3>3
  <2> QED BY <1>2, <1>3, <2>1 DEF Calm
<1>4. ht => Calm(ls, w, rd, Len(ls))
  <2>1. ht => Calm(js, w, rd, Len(ls) + 1)
    <3>1. Len(ls) + 1 = Len(js) BY <1>1
    <3> QED BY <3>1 DEF Ordered
  <2>2. Len(ls) \in Int /\ Len(ls) <= Len(ls) BY <1>1
  <2> QED BY <1>3, <2>1, <2>2
<1>5. ASSUME NEW k \in DOMAIN ls, ls[k].kind = "retry" /\ ls[k].phase = "asked" PROVE Calm(ls, w, rd, k - 1)
  <2>1. k + 1 \in DOMAIN js /\ ls[k] = js[k + 1] /\ (k + 1) - 1 = (k - 1) + 1 /\ k - 1 \in Int /\ k - 1 <= Len(ls)
    BY <1>1
  <2>2. Calm(js, w, rd, (k + 1) - 1) BY <1>5, <2>1 DEF Ordered
  <2>3. Calm(js, w, rd, (k - 1) + 1) BY <2>1, <2>2
  <2> QED BY <1>3, <2>1, <2>3
<1>6. ASSUME NEW k \in DOMAIN ls
      PROVE  /\ ~ (ls[k].kind = "start" /\ ls[k].phase = "asked")
             /\ ls[k].kind = "fault" => ls[k].of \in 1 .. w /\ st[ls[k].of] = "stopped"
  <2>1. k + 1 \in DOMAIN js /\ ls[k] = js[k + 1] /\ k + 1 # 1 BY <1>1
  <2> QED BY <2>1 DEF Ordered
<1> QED BY <1>4, <1>5, <1>6 DEF Ordered, ls

LEMMA OrderedRun ==
  ASSUME NEW js \in Seq(Jobs), NEW j \in Jobs, j.phase = "asked", j.kind # "start",
         NEW w \in Nat, NEW st, NEW st2, NEW rd \in BOOLEAN, NEW rd2 \in BOOLEAN,
         NEW ht \in BOOLEAN, NEW ht2 \in BOOLEAN, Ordered(js, w, st, rd, ht),
         rd2 = TRUE => rd = TRUE, ht2 = TRUE => ht = TRUE /\ ~ Will(j, w),
         \A v \in 1 .. w : st[v] = "stopped" => st2[v] = "stopped",
         j.kind = "retry" => Calm(js, w, rd, Len(js)),
         j.kind = "fault" => j.of \in 1 .. w /\ st2[j.of] = "stopped"
  PROVE  Ordered(Append(js, j), w, st2, rd2, ht2)
<1> DEFINE ls == Append(js, j)
<1>1. /\ ls \in Seq(Jobs) /\ Len(ls) = Len(js) + 1 /\ Len(js) \in Nat
      /\ DOMAIN ls = 1 .. Len(js) + 1 /\ DOMAIN js = 1 .. Len(js)
      /\ \A k \in DOMAIN js : ls[k] = js[k]
      /\ ls[Len(js) + 1] = j
  OBVIOUS
<1> HIDE DEF ls
<1>2. ls[1].phase \in {"version", "load"} => js # <<>> /\ js[1].phase \in {"version", "load"}
  <2>1. CASE js = <<>>
    <3>1. Len(js) + 1 = 1 BY <2>1
    <3> QED BY <1>1, <3>1
  <2>2. CASE js # <<>>
    <3>1. 1 \in DOMAIN js BY <2>2
    <3> QED BY <1>1, <2>2, <3>1
  <2> QED BY <2>1, <2>2
<1>3. ASSUME NEW n \in Int, n <= Len(js), Calm(js, w, rd, n) PROVE Calm(ls, w, rd2, n)
  <2>1. \A k \in 1 .. n : k \in DOMAIN js BY <1>1, <1>3
  <2> QED BY <1>1, <1>2, <1>3, <2>1 DEF Calm
<1>4. ht2 => Calm(ls, w, rd2, Len(ls))
  <2> SUFFICES ASSUME ht2 PROVE Calm(ls, w, rd2, Len(ls)) OBVIOUS
  <2>1. Calm(js, w, rd, Len(js)) BY DEF Ordered
  <2>2. Calm(ls, w, rd2, Len(js)) BY <1>1, <1>3, <2>1
  <2>3. \A k \in 1 .. Len(ls) : k \in 1 .. Len(js) \/ k = Len(js) + 1 BY <1>1
  <2> QED BY <1>1, <2>2, <2>3 DEF Calm
<1>5. ASSUME NEW k \in DOMAIN ls
      PROVE  /\ ls[k].kind = "start" /\ ls[k].phase = "asked" => k = 1 /\ w = 0
             /\ ls[k].kind = "fault" => ls[k].of \in 1 .. w /\ st2[ls[k].of] = "stopped"
             /\ ls[k].kind = "retry" /\ ls[k].phase = "asked" => Calm(ls, w, rd2, k - 1)
  <2>1. CASE k \in DOMAIN js
    <3>1. ls[k] = js[k] /\ k - 1 \in Int /\ k - 1 <= Len(js) BY <1>1, <2>1
    <3> QED BY <1>3, <2>1, <3>1 DEF Ordered
  <2>2. CASE k = Len(js) + 1
    <3>1. ls[k] = j /\ k - 1 = Len(js) /\ Len(js) \in Int /\ Len(js) <= Len(js) BY <1>1, <2>2
    <3> QED BY <1>3, <3>1
  <2> QED BY <1>1, <2>1, <2>2
<1> QED BY <1>4, <1>5 DEF Ordered, ls

-----------------------------------------------------------------------------
(* Maintenance is alone with the worker, each step by itself.              *)

LEMMA Parts ==
  DataInv => /\ worker \in Nat /\ ready \in BOOLEAN /\ halted \in BOOLEAN
             /\ net \in Nets /\ jobs \in Seq(Jobs) /\ serial \in Nat /\ NetData /\ JobData
             /\ state \in Seq(WorkerStates) /\ Len(state) = worker /\ Waiting(jobs)
             /\ net.sent \in Seq(Nat) /\ Asked \in Nat /\ DOMAIN net.asked = 1 .. Asked
             /\ \A i \in Range(net.sent) : i \in 1 .. Asked /\ net.asked[i].status = "sent"
             /\ net.sent # <<>> => ready
             /\ ready => worker > 0 /\ state[worker] = "ready"
             /\ In("version") \/ In("load") => ~ ready
<1> SUFFICES ASSUME DataInv
    PROVE    /\ worker \in Nat /\ ready \in BOOLEAN /\ halted \in BOOLEAN
             /\ net \in Nets /\ jobs \in Seq(Jobs) /\ serial \in Nat /\ NetData /\ JobData
             /\ state \in Seq(WorkerStates) /\ Len(state) = worker /\ Waiting(jobs)
             /\ net.sent \in Seq(Nat) /\ Asked \in Nat /\ DOMAIN net.asked = 1 .. Asked
             /\ \A i \in Range(net.sent) : i \in 1 .. Asked /\ net.asked[i].status = "sent"
             /\ net.sent # <<>> => ready
             /\ ready => worker > 0 /\ state[worker] = "ready"
             /\ In("version") \/ In("load") => ~ ready
  OBVIOUS
<1>1. NetData /\ JobData BY DEF DataInv, Data
<1>2. net.sent \in Seq(Nat) /\ net.asked \in Seq(Requests) BY <1>1 DEF NetData, Nets
<1>3. Asked \in Nat /\ DOMAIN net.asked = 1 .. Asked BY <1>2 DEF Asked
<1>4. \A i \in Range(net.sent) : i \in 1 .. Asked /\ net.asked[i].status = "sent" BY <1>1, <1>3 DEF NetData, Accounts
<1>5. DataInv => PageInv BY DEF DataInv
<1> QED BY <1>1, <1>2, <1>3, <1>4, <1>5, DataParts DEF PageInv, Types, Running, Between

LEMMA NothingSent == net.sent = <<>> <=> net.sent = <<>> /\ Range(net.sent) = {}
<1>1. net.sent = <<>> => DOMAIN net.sent = {} OBVIOUS
<1> QED BY <1>1 DEF Range

(* A job that waits for its own request has it answered only once nothing  *)
(* is with the worker.                                                     *)
LEMMA Alone ==
  ASSUME DataInv, Upkeep, Busy, Current.phase # "asked",
         Current.phase \in {"rebuild", "restoring"} => Settled(Current.request)
  PROVE  net.sent = <<>>
<1>1. net.sent \in Seq(Nat) BY Parts
<1>2. ASSUME net.sent # <<>> PROVE FALSE
  <2> DEFINE i == net.sent[1]
  <2>1. i \in Range(net.sent)
    <3>1. 1 \in DOMAIN net.sent BY <1>1, <1>2
    <3> QED BY <3>1 DEF Range
  <2> HIDE DEF i
  <2>2. Current.phase \in {"rebuild", "restoring"} /\ Current.request = i BY <2>1 DEF Upkeep
  <2>3. net.asked[i].status = "sent" BY <2>1, Parts
  <2> QED BY <2>2, <2>3 DEF Settled
<1> QED BY <1>2

LEMMA UpkeepEmpty == net'.sent = <<>> => Upkeep'
<1> SUFFICES ASSUME net'.sent = <<>> PROVE Upkeep' OBVIOUS
<1>1. DOMAIN net'.sent = {} OBVIOUS
<1>2. Range(net.sent)' = {} BY <1>1 DEF Range
<1> QED BY <1>2 DEF Upkeep

(* The jobs stay, or another is asked for.                                 *)
LEMMA UpkeepFewer ==
  ASSUME Upkeep, Range(net.sent)' \subseteq Range(net.sent),
         \A i \in Range(net.sent) : net'.asked[i].internal = net.asked[i].internal,
         Busy' /\ Current'.phase # "asked" => Busy /\ Current' = Current,
         Busy => Busy' /\ Current' = Current
  PROVE  Upkeep'
<1>1. \A i \in Range(net.sent)' :
        i \in Range(net.sent) /\ net'.asked[i].internal = net.asked[i].internal
  OBVIOUS
<1>2. Busy' /\ Current'.phase # "asked" => \A i \in Range(net.sent)' : net'.asked[i].internal
  <2> SUFFICES ASSUME Busy', Current'.phase # "asked", NEW i \in Range(net.sent)' PROVE net'.asked[i].internal
    OBVIOUS
  <2>1. Busy /\ Current.phase # "asked" OBVIOUS
  <2> QED BY <1>1, <2>1 DEF Upkeep
<1>3. ASSUME NEW i \in Range(net.sent)', net'.asked[i].internal
      PROVE  Busy' /\ Current'.phase \in {"rebuild", "restoring"} /\ Current'.request = i
  <2>1. Busy /\ Current.phase \in {"rebuild", "restoring"} /\ Current.request = i BY <1>1, <1>3 DEF Upkeep
  <2> QED BY <2>1
<1> QED BY <1>2, <1>3 DEF Upkeep

LEMMA UpkeepAsk ==
  ASSUME DataInv, Upkeep, jobs' = jobs, NEW command \in Commands, NEW entries \in Nat,
         net' = Ask(command, FALSE, entries, ready)
  PROVE  Upkeep'
<1> DEFINE n == net'
<1>1. net \in Nets /\ jobs \in Seq(Jobs) /\ ready \in BOOLEAN BY Parts
<1>2. /\ Asked \in Nat /\ \A i \in 1 .. Asked : n.asked[i] = net.asked[i]
      /\ ~ n.asked[Asked + 1].internal
      /\ Busy => n.sent = net.sent
      /\ ~ Busy => n.sent = IF ready THEN Append(net.sent, Asked + 1) ELSE net.sent
  <2>1. n = Ask(command, FALSE, entries, ready) OBVIOUS
  <2> HIDE DEF n
  <2>2. AskedFor(n, command, FALSE, entries, ready) BY <1>1, <2>1, AskAny, Zenon
  <2> QED BY <2>2 DEF AskedFor, Waits
<1> HIDE DEF n
<1>3. \A i \in Range(net.sent) : i \in 1 .. Asked BY Parts
<1>4. CASE Busy
  <2>1. n.sent = net.sent BY <1>2, <1>4
  <2>2. Range(net.sent)' \subseteq Range(net.sent) BY <2>1 DEF Range, n
  <2> QED BY <1>2, <1>3, <1>4, <2>2, UpkeepFewer DEF n, Busy, Current
<1>5. CASE ~ Busy
  <2>1. n.sent = Append(net.sent, Asked + 1) \/ n.sent = net.sent BY <1>2, <1>5
  <2>2. \A i \in Range(net.sent)' : i \in Range(net.sent) \/ i = Asked + 1
    <3>1. net.sent \in Seq(Nat) BY Parts
    <3>2. \A k \in DOMAIN n.sent : (k \in DOMAIN net.sent /\ n.sent[k] = net.sent[k]) \/ n.sent[k] = Asked + 1
      <4>1. CASE n.sent = net.sent BY <4>1
      <4>2. CASE n.sent = Append(net.sent, Asked + 1) BY <1>2, <3>1, <4>2
      <4> QED BY <2>1, <4>1, <4>2
    <3> QED BY <3>2 DEF Range, n
  <2>3. \A i \in Range(net.sent)' : ~ n.asked[i].internal BY <1>2, <1>3, <1>5, <2>2 DEF Upkeep
  <2> QED BY <1>5, <2>3 DEF Upkeep, Busy, Current, n
<1> QED BY <1>4, <1>5

LEMMA Worked ==
  ASSUME jobs \in Seq(Jobs), Busy, epoch \in Nat, NEW phase \in Phases, NEW i \in Nat, jobs' = Works(phase, i)
  PROVE  Busy' /\ Current'.phase = phase /\ Current'.request = i
<1> DEFINE js == jobs'
<1>1. js = Works(phase, i) OBVIOUS
<1> HIDE DEF js
<1>2. js # <<>> /\ js[1].phase = phase /\ js[1].request = i BY <1>1, WorksEffect
<1> QED BY <1>2 DEF Busy, Current, js

(* Maintenance asks the worker it has made ready.                          *)
LEMMA UpkeepWorks ==
  ASSUME DataInv, Busy, net.sent = <<>>, epoch \in Nat, NEW phase \in {"rebuild", "restoring"},
         NEW command \in Commands, NEW entries \in Nat, NEW up \in BOOLEAN,
         net' = Ask(command, TRUE, entries, up), jobs' = Works(phase, Asked + 1)
  PROVE  Upkeep'
<1> DEFINE n == net'
<1>1. net \in Nets /\ jobs \in Seq(Jobs) /\ Asked + 1 \in Nat /\ phase \in Phases /\ entries \in Nat
  BY Parts DEF Phases
<1>2. /\ n.asked[Asked + 1].internal
      /\ n.sent = IF up THEN Append(net.sent, Asked + 1) ELSE net.sent
  <2>1. n = Ask(command, TRUE, entries, up) OBVIOUS
  <2> HIDE DEF n
  <2>2. AskedFor(n, command, TRUE, entries, up) BY <1>1, <2>1, AskAny, Zenon
  <2> QED BY <2>2 DEF AskedFor, Waits
<1>3. Busy' /\ Current'.phase = phase /\ Current'.request = Asked + 1
  <2> DEFINE i == Asked + 1
  <2>1. jobs' = Works(phase, i) /\ i \in Nat BY <1>1
  <2> HIDE DEF i
  <2>2. Busy' /\ Current'.phase = phase /\ Current'.request = i BY <1>1, <2>1, Worked
  <2> QED BY <2>2 DEF i
<1> HIDE DEF n
<1>4. n.sent = <<Asked + 1>> \/ n.sent = <<>> BY <1>2
<1>5. \A i \in Range(net.sent)' : i = Asked + 1
  <2>1. \A k \in DOMAIN n.sent : n.sent[k] = Asked + 1 BY <1>1, <1>4
  <2> QED BY <2>1 DEF Range, n
<1> QED BY <1>2, <1>3, <1>5 DEF Upkeep, n

LEMMA Appended ==
  ASSUME JobData, NEW kind \in Kinds, NEW of \in Nat, NEW recheck \in BOOLEAN, Run(Job(kind, of, recheck))
  PROVE  /\ Busy' /\ (~ Busy => Current'.phase = "asked") /\ (Busy => Current' = Current)
<1> DEFINE js == jobs'
<1>1. /\ js # <<>> /\ Len(jobs) \in Nat
      /\ DOMAIN jobs = 1 .. Len(jobs)
      /\ \A k \in 1 .. Len(jobs) : js[k] = jobs[k]
      /\ js[Len(jobs) + 1].phase = "asked"
  BY RunEffect
<1> HIDE DEF js
<1>2. ~ Busy => Len(jobs) + 1 = 1 BY DEF Busy
<1>3. Busy => 1 \in 1 .. Len(jobs)
  <2>1. jobs \in Seq(Jobs) BY DEF JobData
  <2> QED BY <1>1, <2>1 DEF Busy
<1> QED BY <1>1, <1>2, <1>3 DEF Busy, Current, js

LEMMA UpkeepRun ==
  ASSUME DataInv, Upkeep, net' = net, NEW kind \in Kinds, NEW of \in Nat, NEW recheck \in BOOLEAN,
         Run(Job(kind, of, recheck))
  PROVE  Upkeep'
<1>1. JobData BY Parts
<1>2. Range(net.sent)' = Range(net.sent) BY DEF Range
<1> QED BY <1>1, <1>2, Appended, UpkeepFewer

LEMMA UpkeepNext == DataInv /\ Upkeep /\ [Next]_vars => Upkeep'
<1> SUFFICES ASSUME DataInv, Upkeep, [Next]_vars PROVE Upkeep' OBVIOUS
<1>0. /\ {"check", "invalidate", "query", "repl", "reset", "restore"} \subseteq Commands
      /\ {"retry", "update", "restore", "fault"} \subseteq Kinds
      /\ JobData /\ NetData /\ net \in Nets /\ jobs \in Seq(Jobs) /\ worker \in Nat /\ ready \in BOOLEAN
      /\ epoch \in Nat /\ record \in Nat
  BY Parts, DataParts DEF Commands, Checking, Kinds
<1>1. ASSUME net' = net, jobs' = jobs PROVE Upkeep'
  <2>1. Range(net.sent)' = Range(net.sent) BY <1>1 DEF Range
  <2> QED BY <1>1, <2>1, UpkeepFewer DEF Busy, Current
<1>2. ASSUME net' = net, net.sent = <<>> PROVE Upkeep' BY <1>2, UpkeepEmpty
<1>3. ASSUME NEW status \in Statuses, net' = Drop(status) PROVE Upkeep'
  <2> DEFINE n == net'
  <2>1. n = Drop(status) BY <1>3
  <2> HIDE DEF n
  <2>2. n.sent = <<>> BY <1>0, <2>1, DropEffect
  <2> QED BY <2>2, UpkeepEmpty DEF n
<1>4. CASE EntrySettled \/ ResetSettled \/ Focus \/ Press \/ UNCHANGED vars
  BY <1>1, <1>4 DEF EntrySettled, ResetSettled, Focus, Press, jobVars, vars
<1>5. CASE Replace BY <1>3, <1>5 DEF Replace, Statuses
<1>6. CASE Decline BY <1>2, <1>6 DEF Decline, Turn, Drained
<1>7. CASE StartWorker \/ WorkerStopped
  <2>1. net.sent = <<>> BY <1>7, Parts DEF StartWorker, WorkerStopped
  <2> QED BY <1>2, <1>7, <2>1 DEF StartWorker, WorkerStopped
<1>8. CASE WorkerReady
  <2>1. Busy /\ net.sent = <<>> BY <1>8, Parts DEF WorkerReady, In
  <2>2. CASE Current.recheck
    <3>1. net' = Ask("check", TRUE, 0, TRUE) /\ jobs' = Works("rebuild", Asked + 1) BY <1>8, <2>2 DEF WorkerReady
    <3> QED BY <1>0, <2>1, <3>1, UpkeepWorks
  <2>3. CASE ~ Current.recheck
    <3>1. net' = Ask("check", FALSE, 0, TRUE) \/ net' = net BY <1>8, <2>3 DEF WorkerReady
    <3>2. CASE net' = Ask("check", FALSE, 0, TRUE)
      <4> DEFINE n == net'
      <4>1. n = Ask("check", FALSE, 0, TRUE) BY <3>2
      <4> HIDE DEF n
      <4>2. AskedFor(n, "check", FALSE, 0, TRUE) BY <1>0, <4>1, AskAny, Zenon
      <4>3. n.sent = net.sent BY <2>1, <4>2 DEF AskedFor, Waits
      <4> QED BY <2>1, <4>3, UpkeepEmpty DEF n
    <3>3. CASE net' = net BY <1>2, <2>1, <3>3
    <3> QED BY <3>1, <3>2, <3>3
  <2> QED BY <2>2, <2>3
<1>9. CASE Rebuilt
  <2>1. net.sent = <<>> BY <1>9, Alone DEF Rebuilt, In
  <2> QED BY <1>2, <1>9, <2>1 DEF Rebuilt
<1>10. CASE RestoreBegins \/ RestoreSkipped
  <2>1. Busy BY <1>10 DEF RestoreBegins, RestoreSkipped, RestoreTurn, Turn, In
  <2>2. net.sent = <<>>
    <3>1. CASE Turn BY <3>1 DEF Turn, Drained
    <3>2. CASE In("restore") BY <3>2, Alone DEF In
    <3> QED BY <1>10, <3>1, <3>2 DEF RestoreBegins, RestoreSkipped, RestoreTurn
  <2>3. CASE RestoreSkipped BY <1>2, <2>2, <2>3 DEF RestoreSkipped
  <2>4. CASE RestoreBegins
    <3>1. net' = Ask("restore", TRUE, record, ready) /\ jobs' = Works("restoring", Asked + 1)
      BY <2>4 DEF RestoreBegins
    <3> QED BY <1>0, <2>1, <2>2, <3>1, UpkeepWorks
  <2> QED BY <1>10, <2>3, <2>4
<1>11. CASE Restored
  <2>1. net.sent = <<>> BY <1>11, Alone DEF Restored, In
  <2> QED BY <1>2, <1>11, <2>1 DEF Restored
<1>12. CASE Finish
  <2> DEFINE m == net'
  <2>1. \A i \in Range(m.sent) \ Range(net.sent) : Tail(jobs) = <<>> /\ ready /\ ~ m.asked[i].internal
    BY <1>12, FinishEffect
  <2>2. Busy /\ Current.phase \in {"done", "declined"} /\ jobs' = Tail(jobs) BY <1>12 DEF Finish, In
  <2>3. net.sent = <<>> BY <2>2, Alone
  <2>4. Range(net.sent) = {} BY <2>3, NothingSent
  <2>5. Waiting(jobs) BY Parts
  <2>6. jobs' # <<>> => 1 \in DOMAIN jobs' /\ 2 \in DOMAIN jobs /\ jobs'[1] = jobs[2] BY <1>0, <2>2, TailEffect
  <2>7. Busy' => Current'.phase = "asked" BY <2>5, <2>6 DEF Waiting, Current, Busy
  <2> QED BY <2>1, <2>4, <2>7 DEF Upkeep, Range
<1>13. CASE ReaderChecks
  <2>1. CASE halted BY <1>0, <1>13, <2>1, UpkeepRun DEF ReaderChecks
  <2>2. CASE ~ halted
    <3>1. jobs' = jobs /\ (net' = net \/ net' = Ask("check", FALSE, 0, ready)) BY <1>13, <2>2 DEF ReaderChecks, jobVars
    <3> QED BY <1>0, <1>1, <3>1, UpkeepAsk
  <2> QED BY <2>1, <2>2
<1>14. CASE ReaderAsks
  <2>1. jobs' = jobs /\ (net' = Ask("invalidate", FALSE, 0, ready) \/ net' = Ask("query", FALSE, 0, ready))
    BY <1>14 DEF ReaderAsks, jobVars
  <2> QED BY <1>0, <2>1, UpkeepAsk
<1>15. CASE Enter
  <2>1. CASE OnWorker
    <3>1. jobs' = jobs /\ net' = Ask("repl", FALSE, 0, ready) BY <1>15, <2>1 DEF Enter, jobVars
    <3> QED BY <1>0, <3>1, UpkeepAsk
  <2>2. CASE ~ OnWorker
    <3>1. net' = net /\ Run(Job("restore", 0, FALSE)) BY <1>15, <2>2 DEF Enter
    <3> QED BY <1>0, <3>1, UpkeepRun
  <2> QED BY <2>1, <2>2
<1>16. CASE Reset
  <2>1. jobs' = jobs /\ net' = Ask("reset", FALSE, 0, ready) BY <1>16 DEF Reset, jobVars
  <2> QED BY <1>0, <2>1, UpkeepAsk
<1>17. ASSUME NEW c \in DOMAIN checks, SameVersion(c) PROVE Upkeep'
  <2>1. jobs' = jobs /\ (net' = net \/ net' = Ask("check", FALSE, 0, ready)) BY <1>17 DEF SameVersion, jobVars
  <2> QED BY <1>0, <1>1, <2>1, UpkeepAsk
<1>18. ASSUME NEW c \in DOMAIN checks, NewVersion(c) PROVE Upkeep'
  <2>1. checks[c].on \in Nat
    <3>1. checks[c] \in Calls BY DataParts
    <3> QED BY <3>1 DEF Calls
  <2> QED BY <1>0, <1>18, <2>1, UpkeepRun DEF NewVersion
<1>19. ASSUME NEW i \in DOMAIN net.asked, Answer(i) \/ Refuse(i) PROVE Upkeep'
  <2>1. jobs' = jobs /\ i \in Range(net.sent) BY <1>19 DEF Answer, Refuse, Answerable, jobVars
  <2>2. PICK status \in {"answered", "failed"}, entries \in Nat : net' = Reply(i, status, entries)
    BY <1>19, Replied
  <2> DEFINE n == net'
  <2>3. n = Reply(i, status, entries) /\ status \in Statuses BY <2>2 DEF Statuses
  <2> HIDE DEF n
  <2>4. /\ Range(n.sent) = Range(net.sent) \ {i} /\ n.asked[i].internal = net.asked[i].internal
        /\ \A j \in DOMAIN net.asked : j # i => n.asked[j] = net.asked[j]
    BY <1>0, <2>3, ReplyEffect
  <2>5. \A j \in Range(net.sent) : j \in DOMAIN net.asked BY Parts
  <2>6. Range(net.sent)' = Range(n.sent) BY DEF Range, n
  <2>7. \A j \in Range(net.sent) : n.asked[j].internal = net.asked[j].internal BY <2>4, <2>5
  <2> QED BY <2>1, <2>4, <2>6, <2>7, UpkeepFewer DEF n, Busy, Current
<1>20. CASE Tick \/ \E i \in DOMAIN net.asked : Advance(i)
  <2>1. Timed /\ jobs' = jobs BY <1>0, <1>20, TickEffect DEF Tick, Advance, jobVars
  <2>2. Range(net.sent)' = Range(net.sent) BY <2>1 DEF Timed, Range
  <2>3. \A i \in Range(net.sent) : i \in DOMAIN net.asked BY Parts
  <2> QED BY <2>1, <2>2, <2>3, UpkeepFewer DEF Timed, Busy, Current
<1>21. CASE Fault \/ Lost \/ \E i \in DOMAIN net.asked : Expire(i)
  <2>1. net' = Drop("failed") \/ net' = Drop("expired") BY <1>21 DEF Fault, Lost, Expire, Stop
  <2> QED BY <1>3, <2>1 DEF Statuses
<1> QED BY <1>4, <1>5, <1>6, <1>7, <1>8, <1>9, <1>10, <1>11, <1>12, <1>13, <1>14, <1>15, <1>16, <1>17, <1>18,
           <1>19, <1>20, <1>21
    DEF Next, Continue, Event, Fetched, Reader, Replies, TimesOut

-----------------------------------------------------------------------------
(* The page stops replacing workers: it had one, so nothing starts one.    *)
LEMMA OrderedHalt ==
  ASSUME NEW js \in Seq(Jobs), NEW w \in Nat \ {0}, NEW st, NEW st2, NEW ht \in BOOLEAN,
         Ordered(js, w, st, TRUE, ht), st[w] = "ready",
         js # <<>> => js[1].phase \notin {"version", "load"},
         \A v \in 1 .. w : st[v] = "stopped" => st2[v] = "stopped"
  PROVE  Ordered(js, w, st2, FALSE, TRUE)
<1>1. \A k \in DOMAIN js : ~ Will(js[k], w)
  <2> SUFFICES ASSUME NEW k \in DOMAIN js, Will(js[k], w) PROVE FALSE OBVIOUS
  <2>1. CASE js[k].kind = "start" BY <2>1 DEF Will, Ordered
  <2>2. CASE js[k].kind = "retry" BY <2>2 DEF Will, Ordered, Calm
  <2>3. CASE js[k].kind = "fault" BY <2>3 DEF Will, Ordered
  <2> QED BY <2>1, <2>2, <2>3 DEF Will
<1>2. \A n \in Int : n <= Len(js) => Calm(js, w, FALSE, n)
  <2> SUFFICES ASSUME NEW n \in Int, n <= Len(js) PROVE Calm(js, w, FALSE, n) OBVIOUS
  <2>1. \A k \in 1 .. n : k \in DOMAIN js OBVIOUS
  <2> QED BY <1>1, <2>1 DEF Calm
<1>3. Len(js) \in Int /\ Len(js) <= Len(js) /\ \A k \in DOMAIN js : k - 1 \in Int /\ k - 1 <= Len(js) OBVIOUS
<1>4. /\ \A k \in DOMAIN js : js[k].kind = "start" /\ js[k].phase = "asked" => k = 1 /\ w = 0
      /\ \A k \in DOMAIN js : js[k].kind = "fault" => js[k].of \in 1 .. w /\ st2[js[k].of] = "stopped"
  BY DEF Ordered
<1> QED BY <1>2, <1>3, <1>4 DEF Ordered

LEMMA OrderGoes ==
  ASSUME DataInv, Order, Busy, NEW phase \in Phases \ {"asked", "version", "load"},
         jobs' = Goes(phase) \/ (\E i \in Nat : jobs' = Works(phase, i)), UNCHANGED pageVars
  PROVE  Order'
<1> DEFINE js == jobs'
<1>1. jobs \in Seq(Jobs) /\ jobs # <<>> /\ worker \in Nat /\ ready \in BOOLEAN /\ halted \in BOOLEAN /\ epoch \in Nat
  BY Parts, DataParts DEF Busy
<1>2. /\ js \in Seq(Jobs) /\ DOMAIN js = DOMAIN jobs
      /\ \A k \in DOMAIN jobs : k # 1 => js[k] = jobs[k]
      /\ js[1].phase = phase /\ js[1].kind = jobs[1].kind /\ js[1].of = jobs[1].of
  <2>1. js = Goes(phase) \/ \E i \in Nat : js = Works(phase, i) OBVIOUS
  <2> HIDE DEF js
  <2>2. CASE js = Goes(phase) BY <1>1, <2>2, GoesEffect DEF Current
  <2>3. ASSUME NEW i \in Nat, js = Works(phase, i)
        PROVE  /\ js \in Seq(Jobs) /\ DOMAIN js = DOMAIN jobs
               /\ \A k \in DOMAIN jobs : k # 1 => js[k] = jobs[k]
               /\ js[1].phase = phase /\ js[1].kind = jobs[1].kind /\ js[1].of = jobs[1].of
    BY <1>1, <2>3, WorksEffect DEF Current
  <2> QED BY <2>1, <2>2, <2>3
<1> HIDE DEF js
<1>3. Ordered(jobs, worker, state, ready, halted) BY DEF Order
<1>4. Ordered(js, worker, state, ready, halted) BY <1>1, <1>2, <1>3, OrderedOn
<1> QED BY <1>4 DEF Order, js, pageVars

(* A worker starts: none did for want of one, and no job waits to be the   *)
(* first after a stop.                                                     *)
LEMMA OrderBegins ==
  ASSUME DataInv, Order, Busy, NEW js \in Seq(Jobs), DOMAIN js = DOMAIN jobs,
         \A k \in DOMAIN jobs : k # 1 => js[k] = jobs[k],
         js[1].phase # "asked", js[1].kind = jobs[1].kind, js[1].of = jobs[1].of,
         NEW w \in Nat, worker <= w, NEW st, NEW rd \in BOOLEAN,
         Current.phase \in {"version", "load"} \/ ready = TRUE \/ Will(Current, worker),
         \A v \in 1 .. worker : state[v] = "stopped" => st[v] = "stopped"
  PROVE  Ordered(js, w, st, rd, halted)
<1>1. /\ jobs \in Seq(Jobs) /\ jobs # <<>> /\ worker \in Nat /\ ready \in BOOLEAN /\ halted \in BOOLEAN
      /\ Len(jobs) \in Nat /\ DOMAIN jobs = 1 .. Len(jobs) /\ 1 \in DOMAIN jobs
  <2>1. jobs \in Seq(Jobs) /\ jobs # <<>> /\ worker \in Nat /\ ready \in BOOLEAN /\ halted \in BOOLEAN
    BY Parts DEF Busy
  <2> QED BY <2>1
<1>2. Ordered(jobs, worker, state, ready, halted) BY DEF Order
<1>3. \A n \in Int : n >= 1 => ~ Calm(jobs, worker, ready, n)
  <2> SUFFICES ASSUME NEW n \in Int, n >= 1, Calm(jobs, worker, ready, n) PROVE FALSE OBVIOUS
  <2>1. 1 \in 1 .. n OBVIOUS
  <2> QED BY <1>1, <2>1 DEF Calm, Current
<1>4. ~ halted BY <1>1, <1>2, <1>3 DEF Ordered
<1>5. ASSUME NEW k \in DOMAIN js PROVE ~ (js[k].kind = "retry" /\ js[k].phase = "asked")
  <2>1. SUFFICES ASSUME k # 1, jobs[k].kind = "retry", jobs[k].phase = "asked" PROVE FALSE OBVIOUS
  <2>2. k - 1 \in Int /\ k - 1 >= 1 BY <1>1, <2>1
  <2>3. Calm(jobs, worker, ready, k - 1) BY <1>2, <2>1 DEF Ordered
  <2> QED BY <1>3, <2>2, <2>3
<1>6. \A k \in DOMAIN js : ~ (js[k].kind = "start" /\ js[k].phase = "asked")
  <2>1. \A k \in DOMAIN jobs : jobs[k].kind = "start" /\ jobs[k].phase = "asked" => k = 1
    BY <1>2 DEF Ordered
  <2> QED BY <2>1
<1>7. ASSUME NEW k \in DOMAIN js, js[k].kind = "fault"
      PROVE  js[k].of \in 1 .. w /\ st[js[k].of] = "stopped"
  <2>1. jobs[k].kind = "fault" /\ js[k].of = jobs[k].of BY <1>7
  <2>2. jobs[k].of \in 1 .. worker /\ state[jobs[k].of] = "stopped" BY <1>2, <2>1 DEF Ordered
  <2>3. jobs[k].of \in 1 .. w BY <1>1, <2>2
  <2> QED BY <2>1, <2>2, <2>3
<1> QED BY <1>4, <1>5, <1>6, <1>7 DEF Ordered

LEMMA OrderStarts ==
  ASSUME DataInv, Order, Busy, halted' = halted,
         NEW phase \in Phases \ {"asked"}, jobs' = Goes(phase) \/ (\E i \in Nat : jobs' = Works(phase, i)),
         worker' \in Nat, worker <= worker', ready' \in BOOLEAN,
         Current.phase \in {"version", "load"} \/ ready = TRUE \/ Will(Current, worker),
         \A v \in 1 .. worker : state[v] = "stopped" => state'[v] = "stopped"
  PROVE  Order'
<1> DEFINE js == jobs'
           w == worker'
           st == state'
           rd == ready'
<1>1. jobs \in Seq(Jobs) /\ epoch \in Nat BY Parts, DataParts
<1>2. /\ js \in Seq(Jobs) /\ DOMAIN js = DOMAIN jobs
      /\ \A k \in DOMAIN jobs : k # 1 => js[k] = jobs[k]
      /\ js[1].phase = phase /\ js[1].kind = jobs[1].kind /\ js[1].of = jobs[1].of
  <2>1. js = Goes(phase) \/ \E i \in Nat : js = Works(phase, i) OBVIOUS
  <2> HIDE DEF js
  <2>2. CASE js = Goes(phase) BY <1>1, <2>2, GoesEffect DEF Current
  <2>3. ASSUME NEW i \in Nat, js = Works(phase, i)
        PROVE  /\ js \in Seq(Jobs) /\ DOMAIN js = DOMAIN jobs
               /\ \A k \in DOMAIN jobs : k # 1 => js[k] = jobs[k]
               /\ js[1].phase = phase /\ js[1].kind = jobs[1].kind /\ js[1].of = jobs[1].of
    BY <1>1, <2>3, WorksEffect DEF Current
  <2> QED BY <2>1, <2>2, <2>3
<1>3. w \in Nat /\ worker <= w /\ rd \in BOOLEAN
      /\ \A v \in 1 .. worker : state[v] = "stopped" => st[v] = "stopped"
  OBVIOUS
<1> HIDE DEF js, w, st, rd
<1>4. js[1].phase # "asked" BY <1>2
<1>5. Ordered(js, w, st, rd, halted) BY <1>2, <1>3, <1>4, OrderBegins
<1> QED BY <1>5 DEF Order, js, w, st, rd

LEMMA OrderedLonger ==
  ASSUME NEW j \in Jobs, j.phase = "asked", j.kind # "start", j.kind # "fault", NEW ht \in BOOLEAN,
         jobs \in Seq(Jobs), worker \in Nat, ready \in BOOLEAN, halted \in BOOLEAN,
         Ordered(jobs, worker, state, ready, halted),
         ht = TRUE => halted = TRUE /\ ~ Will(j, worker),
         j.kind = "retry" => Calm(jobs, worker, ready, Len(jobs))
  PROVE  Ordered(Append(jobs, j), worker, state, ready, ht)
BY OrderedRun

LEMMA OrderAppend ==
  ASSUME DataInv, Order, UNCHANGED <<worker, state, ready>>,
         NEW j \in Jobs, j.phase = "asked", j.kind \notin {"start", "fault"}, jobs' = Append(jobs, j),
         halted' = FALSE \/ (halted' = halted /\ j.kind # "retry"), j.kind = "retry" => halted = TRUE
  PROVE  Order'
<1>1. jobs \in Seq(Jobs) /\ worker \in Nat /\ ready \in BOOLEAN /\ halted \in BOOLEAN BY Parts
<1>4. Ordered(jobs, worker, state, ready, halted) BY DEF Order
<1>5. j.kind = "retry" => Calm(jobs, worker, ready, Len(jobs)) BY <1>4 DEF Ordered
<1>6. j.kind # "retry" => ~ Will(j, worker) BY DEF Will
<1> DEFINE ht == halted'
<1>7. ht \in BOOLEAN /\ (ht = TRUE => halted = TRUE /\ ~ Will(j, worker))
  <2>1. CASE halted' = FALSE BY <2>1
  <2>2. CASE halted' = halted /\ j.kind # "retry"
    <3>1. ht = halted BY <2>2
    <3> HIDE DEF ht
    <3> QED BY <1>1, <1>6, <2>2, <3>1
  <2> QED BY <2>1, <2>2
<1> HIDE DEF ht
<1>8. Ordered(Append(jobs, j), worker, state, ready, ht) BY <1>1, <1>4, <1>5, <1>7, OrderedLonger
<1> QED BY <1>8 DEF Order, ht

LEMMA OrderRun ==
  ASSUME DataInv, Order, UNCHANGED <<worker, state, ready>>, NEW kind \in {"retry", "update", "restore"},
         NEW of \in Nat, NEW recheck \in BOOLEAN, Run(Job(kind, of, recheck)),
         halted' = FALSE \/ (halted' = halted /\ kind # "retry"), kind = "retry" => halted = TRUE
  PROVE  Order'
<1> DEFINE j == Job(kind, of, recheck)
<1>1. serial \in Nat BY Parts
<1>2. j \in Jobs /\ j.kind = kind /\ j.phase = "asked"
  <2>1. kind \in Kinds BY DEF Kinds
  <2> QED BY <1>1, <2>1 DEF Job, Jobs, Phases
<1>3. jobs' = Append(jobs, j) BY DEF Run
<1> HIDE DEF j
<1>4. j.kind \notin {"start", "fault"} BY <1>2
<1> QED BY <1>2, <1>3, <1>4, OrderAppend

LEMMA Stopped ==
  ASSUME DataInv, NEW status, Stop(status)
  PROVE  ready' = FALSE /\ \A v \in 1 .. worker : state[v] = "stopped" => state'[v] = "stopped"
<1>1. state \in Seq(WorkerStates) /\ Len(state) = worker /\ worker \in Nat BY Parts
<1>2. state' = [state EXCEPT ![worker] = "stopped"] /\ ready' = FALSE BY DEF Stop
<1> QED BY <1>1, <1>2

LEMMA OrderFault == ASSUME DataInv, Order, Fault PROVE Order'
<1>1. /\ jobs \in Seq(Jobs) /\ serial \in Nat /\ worker \in Nat /\ ready \in BOOLEAN /\ halted \in BOOLEAN
      /\ state \in Seq(WorkerStates) /\ Len(state) = worker
  BY Parts
<1>2. ready = TRUE /\ worker > 0 /\ state[worker] = "ready"
  <2>1. net.sent # <<>> BY DEF Fault
  <2> QED BY <2>1, Parts
<1>3. ready' = FALSE /\ \A v \in 1 .. worker : state[v] = "stopped" => state'[v] = "stopped" BY Stopped DEF Fault
<1>4. state'[worker] = "stopped" /\ worker' = worker BY <1>1, <1>2 DEF Fault, Stop
<1>5. Ordered(jobs, worker, state, TRUE, halted) /\ Ordered(jobs, worker, state, ready, halted) BY <1>2 DEF Order
<1>6. ~ halted BY <1>2 DEF Order, Ordered, Calm
<1> DEFINE st == state'
<1>7. st[worker] = "stopped" /\ \A v \in 1 .. worker : state[v] = "stopped" => st[v] = "stopped" BY <1>3, <1>4
<1>8. CASE replaced
  <2>1. halted' = TRUE /\ jobs' = jobs BY <1>8 DEF Fault, jobVars
  <2>2. jobs # <<>> => jobs[1].phase \notin {"version", "load"} BY <1>2, Parts DEF In, Busy, Current
  <2> HIDE DEF st
  <2>3. worker \in Nat \ {0} BY <1>1, <1>2
  <2>4. Ordered(jobs, worker, st, FALSE, TRUE) BY <1>1, <1>2, <1>5, <1>7, <2>2, <2>3, OrderedHalt, Zenon
  <2> QED BY <1>3, <1>4, <2>1, <2>4 DEF Order, st
<1>9. CASE ~ replaced
  <2> DEFINE recheck == net.asked[Head(net.sent)].command # "check"
             j == Job("fault", worker, recheck)
  <2>1. halted' = halted /\ jobs' = Append(jobs, j) BY <1>9 DEF Fault, Run
  <2>2. j \in Jobs /\ j.kind = "fault" /\ j.of = worker /\ j.phase = "asked"
    <3>1. recheck \in BOOLEAN OBVIOUS
    <3> HIDE DEF recheck
    <3> QED BY <1>1, <3>1 DEF Job, Jobs, Phases, Kinds
  <2> DEFINE rd == ready'
  <2>3. rd \in BOOLEAN /\ ~ rd BY <1>3
  <2> HIDE DEF j, st, rd
  <2>4. Ordered(Append(jobs, j), worker, st, rd, halted)
    <3>1. worker \in 1 .. worker BY <1>1, <1>2
    <3> QED BY <1>1, <1>5, <1>6, <1>7, <2>2, <2>3, <3>1, OrderedRun
  <2> QED BY <1>4, <2>1, <2>4 DEF Order, st, rd
<1> QED BY <1>8, <1>9

LEMMA OrderNext == DataInv /\ AloneInv /\ [Next]_vars => Order'
<1> SUFFICES ASSUME DataInv, AloneInv, [Next]_vars PROVE Order' OBVIOUS
<1>0. /\ jobs \in Seq(Jobs) /\ serial \in Nat /\ worker \in Nat /\ ready \in BOOLEAN /\ halted \in BOOLEAN
      /\ state \in Seq(WorkerStates) /\ Len(state) = worker /\ Order /\ Asked \in Nat
  BY Parts DEF AloneInv
<1>1. ASSUME UNCHANGED <<worker, state, ready, halted>>, jobs' = jobs PROVE Order'
  BY <1>0, <1>1 DEF Order
<1>2. ASSUME NEW status, Stop(status), UNCHANGED <<worker, halted, jobs>> PROVE Order'
  <2> DEFINE st == state'
             rd == ready'
  <2>1. rd \in BOOLEAN /\ ~ rd /\ \A v \in 1 .. worker : state[v] = "stopped" => st[v] = "stopped" BY <1>2, Stopped
  <2> HIDE DEF st, rd
  <2>2. Ordered(jobs, worker, state, ready, halted) BY <1>0 DEF Order
  <2>3. Ordered(jobs, worker, st, rd, halted) BY <1>0, <2>1, <2>2, OrderedSame
  <2> QED BY <1>2, <2>3 DEF Order, st, rd
<1>3. ASSUME NEW phase \in Phases \ {"asked", "version", "load"}, Busy,
             jobs' = Goes(phase) \/ (\E i \in Nat : jobs' = Works(phase, i)), UNCHANGED pageVars
      PROVE  Order'
  BY <1>0, <1>3, OrderGoes
<1>4. CASE EntrySettled \/ ResetSettled \/ Focus \/ Press \/ UNCHANGED vars \/ ReaderAsks \/ Reset
           \/ (\E c \in DOMAIN checks : SameVersion(c)) \/ Replies \/ Tick
  BY <1>1, <1>4 DEF EntrySettled, ResetSettled, Focus, Press, vars, ReaderAsks, Reset, SameVersion, Replies,
                    Answer, Refuse, Advance, Tick, jobVars, pageVars
<1>5. CASE Replace
  <2>1. Busy /\ Current.phase = "asked" /\ Replaces /\ ready' = FALSE /\ halted' = halted
    BY <1>5 DEF Replace, Turn, In
  <2>2. ready \/ Will(Current, worker) BY <2>1 DEF Replaces, Will
  <2>3. Ended \in Seq(WorkerStates) /\ Len(Ended) = worker
        /\ \A v \in 1 .. worker : state[v] = "stopped" => Ended[v] = "stopped"
    <3>1. CASE worker = 0 BY <1>0, <3>1 DEF Ended
    <3>2. CASE worker # 0
      <4>1. Ended = [state EXCEPT ![worker] = "stopped"] BY <3>2 DEF Ended
      <4>2. "stopped" \in WorkerStates BY DEF WorkerStates
      <4> QED BY <1>0, <3>2, <4>1, <4>2
    <3> QED BY <3>1, <3>2
  <2>4. CASE Known
    <3>1. jobs' = Goes("load") /\ worker' = worker + 1 /\ state' = Append(Ended, "starting")
      BY <1>5, <2>4 DEF Replace, Starts
    <3> HIDE DEF Ended
    <3>2. \A v \in 1 .. worker : state[v] = "stopped" => state'[v] = "stopped" BY <1>0, <2>3, <3>1
    <3>3. "load" \in Phases \ {"asked"} /\ worker' \in Nat /\ worker <= worker' BY <1>0, <3>1 DEF Phases
    <3> QED BY <1>0, <2>1, <2>2, <3>1, <3>2, <3>3, OrderStarts
  <2>5. CASE ~ Known
    <3>1. jobs' = Goes("version") /\ worker' = worker /\ state' = Ended BY <1>5, <2>5 DEF Replace
    <3>3. "version" \in Phases \ {"asked"} /\ worker' \in Nat /\ worker <= worker' BY <1>0, <3>1 DEF Phases
    <3> QED BY <1>0, <2>1, <2>2, <2>3, <3>1, <3>3, OrderStarts
  <2> QED BY <2>4, <2>5
<1>6. CASE StartWorker
  <2>1. /\ Busy /\ Current.phase = "version" /\ ready' = ready /\ halted' = halted /\ jobs' = Goes("load")
        /\ worker' = worker + 1 /\ state' = Append(state, "starting")
    BY <1>6 DEF StartWorker, Starts, In
  <2>2. \A v \in 1 .. worker : state[v] = "stopped" => state'[v] = "stopped" BY <1>0, <2>1
  <2>3. "load" \in Phases \ {"asked"} /\ worker' \in Nat /\ worker <= worker' BY <1>0, <2>1 DEF Phases
  <2> QED BY <1>0, <2>1, <2>2, <2>3, OrderStarts
<1>7. CASE WorkerReady
  <2>1. /\ Busy /\ Current.phase = "load" /\ ready' = TRUE /\ halted' = halted /\ worker' = worker
        /\ state[worker] = "starting" /\ state' = [state EXCEPT ![worker] = "ready"]
    BY <1>7 DEF WorkerReady, In
  <2>2. jobs' = Works("rebuild", Asked + 1) \/ jobs' = Goes("done") BY <1>7 DEF WorkerReady
  <2>3. \A v \in 1 .. worker : state[v] = "stopped" => state'[v] = "stopped" BY <1>0, <2>1
  <2>4. {"rebuild", "done"} \subseteq Phases \ {"asked"} /\ worker' \in Nat /\ worker <= worker' /\ Asked + 1 \in Nat
    BY <1>0, <2>1 DEF Phases
  <2> QED BY <1>0, <2>1, <2>2, <2>3, <2>4, OrderStarts
<1>8. CASE Decline \/ WorkerStopped \/ Rebuilt \/ RestoreSkipped \/ Restored
  <2>1. PICK phase \in {"declined", "done", "restore"} : jobs' = Goes(phase)
    BY <1>8 DEF Decline, WorkerStopped, Rebuilt, RestoreSkipped, Restored
  <2>2. Busy /\ UNCHANGED pageVars
    BY <1>8 DEF Decline, WorkerStopped, Rebuilt, RestoreSkipped, Restored, RestoreTurn, Turn, In
  <2> QED BY <1>3, <2>1, <2>2 DEF Phases
<1>9. CASE RestoreBegins
  <2>1. Busy /\ UNCHANGED pageVars /\ jobs' = Works("restoring", Asked + 1)
    BY <1>9 DEF RestoreBegins, RestoreTurn, Turn, In
  <2>2. Asked + 1 \in Nat BY <1>0
  <2> QED BY <1>3, <2>1, <2>2 DEF Phases
<1>10. CASE Finish
  <2>1. jobs # <<>> /\ jobs' = Tail(jobs) /\ UNCHANGED pageVars BY <1>10 DEF Finish, In, Busy
  <2>2. Ordered(jobs, worker, state, ready, halted) BY <1>0 DEF Order
  <2>3. Ordered(Tail(jobs), worker, state, ready, halted) BY <1>0, <2>1, <2>2, Parts, OrderedTail
  <2> QED BY <2>1, <2>3 DEF Order, pageVars
<1>11. CASE ReaderChecks
  <2>1. CASE halted BY <1>0, <1>11, <2>1, OrderRun DEF ReaderChecks
  <2>2. CASE ~ halted BY <1>1, <1>11, <2>2 DEF ReaderChecks, jobVars
  <2> QED BY <2>1, <2>2
<1>12. CASE Enter
  <2>1. CASE OnWorker BY <1>1, <1>12, <2>1 DEF Enter, jobVars
  <2>2. CASE ~ OnWorker
    <3>1. Run(Job("restore", 0, FALSE)) /\ UNCHANGED <<worker, state, ready, halted>> BY <1>12, <2>2 DEF Enter
    <3> QED BY <1>0, <3>1, OrderRun
  <2> QED BY <2>1, <2>2
<1>13. ASSUME NEW c \in DOMAIN checks, NewVersion(c) PROVE Order'
  <2>1. checks[c].on \in Nat
    <3>1. checks[c] \in Calls BY DataParts
    <3> QED BY <3>1 DEF Calls
  <2>2. Run(Job("update", checks[c].on, TRUE)) /\ UNCHANGED <<worker, state, ready, halted>>
    BY <1>13 DEF NewVersion, pageVars
  <2> QED BY <1>0, <2>1, <2>2, OrderRun
<1>14. CASE Fault BY <1>0, <1>14, OrderFault
<1>15. CASE Lost \/ TimesOut BY <1>2, <1>15 DEF Lost, TimesOut, Expire, jobVars
<1> QED BY <1>4, <1>5, <1>6, <1>7, <1>8, <1>9, <1>10, <1>11, <1>12, <1>13, <1>14, <1>15
    DEF Next, Continue, Event, Fetched, Reader

LEMMA AloneFirst == Init => AloneInv
<1> SUFFICES ASSUME Init PROVE AloneInv OBVIOUS
<1>1. DOMAIN net.sent = {} BY DEF Init
<1>2. Range(net.sent) = {} BY <1>1 DEF Range
<1>3. DOMAIN jobs = {1} /\ jobs[1].kind = "start" /\ jobs[1].phase = "asked" BY DEF Init
<1>4. Order BY <1>3 DEF Init, Order, Ordered
<1> QED BY <1>2, <1>3, <1>4 DEF AloneInv, Upkeep, Current

(* Maintenance has the worker to itself, and none starts a worker on a     *)
(* page that stopped replacing them.                                       *)
THEOREM MaintenanceIsAlone == Spec => []MaintenanceAlone
<1>1. Init => DataInv /\ AloneInv BY DataFirst, AloneFirst
<1>2. DataInv /\ AloneInv /\ [Next]_vars => (DataInv /\ AloneInv)'
  BY DataNext, UpkeepNext, OrderNext DEF AloneInv
<1>3. DataInv /\ AloneInv => MaintenanceAlone
  <2> SUFFICES ASSUME DataInv, AloneInv PROVE MaintenanceAlone OBVIOUS
  <2>1. \A i, j \in Range(net.sent) : net.asked[i].internal => net.asked[j].internal
    <3>1. Upkeep BY DEF AloneInv
    <3>2. \A i \in Range(net.sent) : net.asked[i].internal => Busy /\ Current.phase # "asked" BY <3>1 DEF Upkeep
    <3> QED BY <3>1, <3>2 DEF Upkeep
  <2>2. halted => ~ ready /\ ~ In("version") /\ ~ In("load")
    BY DEF AloneInv, Order, Ordered, Calm, In, Busy, Current
  <2> QED BY <2>1, <2>2 DEF MaintenanceAlone
<1> QED BY <1>1, <1>2, <1>3, PTL DEF Spec

-----------------------------------------------------------------------------
(* The console's requests: which there may be, what they belong to, and    *)
(* the session of the worker they were answered on.                        *)
Opens(r) == r.status \in {"gated", "sent"}
Resting(js) == js # <<>> /\ js[1].phase = "restoring"
EntryIn(asked, c) == c.phase = "entry" /\ asked[c.on].status = "answered"
RestIn(asked, js) == Resting(js) /\ asked[js[1].request].status = "answered"

(* Open requests are those the console, or its restoring, waits for.       *)
Names(asked, c, js) ==
  \A i \in DOMAIN asked : Opens(asked[i]) =>
    /\ asked[i].command = "repl" => c.phase = "entry" /\ c.on = i
    /\ asked[i].command = "reset" => c.phase = "reset" /\ c.on = i
    /\ asked[i].command = "restore" => Resting(js) /\ js[1].request = i

Knows(asked, c, r, e) ==
  /\ c.phase = "entry" => c.on \in DOMAIN asked /\ asked[c.on].command = "repl"
  /\ c.phase = "reset" => c.on \in DOMAIN asked /\ asked[c.on].command = "reset" /\ r = 0
  /\ c.phase \in {"entry", "restore"} => c.begun = e

(* A reset while the session is restored waits for that, its worker noted. *)
Rests(asked, c, js, w, a, r, e) ==
  Resting(js) =>
    /\ js[1].request \in DOMAIN asked /\ asked[js[1].request].command = "restore"
    /\ js[1].begun <= e
    /\ js[1].begun # e <=> c.phase = "reset"
    /\ c.phase = "reset" => a = w /\ asked[c.on].status = "gated"
    /\ a # w => r = 0

(* What was answered and is not recorded yet is the worker's session; once *)
(* recorded, the record is, unless a reset is to empty it.                 *)
Agrees(asked, c, js, w, a, r, s, st) ==
  /\ ~ (EntryIn(asked, c) /\ RestIn(asked, js))
  /\ EntryIn(asked, c) => w > 0 /\ asked[c.on].entries = s[w]
  /\ RestIn(asked, js) => w > 0 /\ asked[js[1].request].entries = s[w]
  /\ w > 0 /\ ~ EntryIn(asked, c) /\ ~ RestIn(asked, js) =>
       /\ a # w => s[w] = 0
       /\ a = w /\ st[w] # "stopped" => r = s[w] \/ (c.phase = "reset" /\ Opens(asked[c.on]))

(* An answer not recorded yet is one more than the record of its worker's  *)
(* session, or the first of a session started anew.                        *)
Adds(asked, c, w, a, r) == EntryIn(asked, c) => asked[c.on].entries = IF a = w THEN r + 1 ELSE 1

ConsoleInv ==
  /\ Names(net.asked, console, jobs) /\ Knows(net.asked, console, record, epoch)
  /\ Rests(net.asked, console, jobs, worker, at, record, epoch)
  /\ Agrees(net.asked, console, jobs, worker, at, record, session, state)
  /\ Adds(net.asked, console, worker, at, record)

(* What became of the last worker, and the page's flag.                    *)
LastWorker ==
  worker > 0 => /\ state[worker] = "ready" => ready
                /\ state[worker] = "starting" => In("load")

-----------------------------------------------------------------------------
(* A step beside the console: no request of its kind is asked or answered, *)
(* and one fails with its worker only.                                     *)
Beside ==
  /\ \A i \in DOMAIN net.asked :
       /\ i \in DOMAIN net'.asked
       /\ net'.asked[i].command = net.asked[i].command /\ net'.asked[i].entries = net.asked[i].entries
       /\ \/ net'.asked[i].status = net.asked[i].status
          \/ ~ In("restoring") /\ Opens(net.asked[i]) /\ Opens(net'.asked[i])
          \/ /\ Opens(net.asked[i]) /\ net'.asked[i].status \in {"failed", "expired"}
             /\ worker > 0 => state'[worker] = "stopped"
             /\ net.asked[i].status = "sent" \/ ~ In("restoring")
  /\ \A i \in DOMAIN net'.asked :
       i \in DOMAIN net.asked \/ net'.asked[i].command \in {"check", "invalidate", "query"}
  /\ UNCHANGED <<console, record, at, epoch, session, worker>>
  /\ worker > 0 /\ state[worker] = "stopped" => state'[worker] = "stopped"

JobBeside ==
  /\ Resting(jobs') <=> Resting(jobs)
  /\ Resting(jobs) => jobs'[1].request = jobs[1].request /\ jobs'[1].begun = jobs[1].begun

LEMMA BesideConsole ==
  ASSUME DataInv, ConsoleInv, Beside, JobBeside
  PROVE  ConsoleInv'
<1> DEFINE n == net'.asked
           js == jobs'
           st == state'
           m == net.asked
<1>1. /\ \A i \in DOMAIN m :
           /\ i \in DOMAIN n /\ n[i].command = m[i].command /\ n[i].entries = m[i].entries
           /\ \/ n[i].status = m[i].status
              \/ ~ Resting(jobs) /\ Opens(m[i]) /\ Opens(n[i])
              \/ /\ Opens(m[i]) /\ n[i].status \in {"failed", "expired"}
                 /\ worker > 0 => st[worker] = "stopped"
                 /\ m[i].status = "sent" \/ ~ Resting(jobs)
      /\ \A i \in DOMAIN n : i \in DOMAIN m \/ n[i].command \in {"check", "invalidate", "query"}
      /\ UNCHANGED <<console, record, at, epoch, session, worker>>
      /\ worker > 0 /\ state[worker] = "stopped" => st[worker] = "stopped"
  BY DEF Beside, In, Busy, Current, Resting
<1>2. /\ Resting(js) <=> Resting(jobs)
      /\ Resting(jobs) => js[1].request = jobs[1].request /\ js[1].begun = jobs[1].begun
  BY DEF JobBeside
<1>3. /\ Names(m, console, jobs) /\ Knows(m, console, record, epoch)
      /\ Rests(m, console, jobs, worker, at, record, epoch)
      /\ Agrees(m, console, jobs, worker, at, record, session, state)
      /\ Adds(m, console, worker, at, record)
  BY DEF ConsoleInv
<1> HIDE DEF n, js, st, m
<1>4. Names(n, console, js)
  <2> SUFFICES ASSUME NEW i \in DOMAIN n, Opens(n[i])
               PROVE  /\ n[i].command = "repl" => console.phase = "entry" /\ console.on = i
                      /\ n[i].command = "reset" => console.phase = "reset" /\ console.on = i
                      /\ n[i].command = "restore" => Resting(js) /\ js[1].request = i
    BY DEF Names
  <2>1. CASE i \notin DOMAIN m BY <1>1, <2>1
  <2>2. CASE i \in DOMAIN m
    <3>1. Opens(m[i]) /\ n[i].command = m[i].command BY <1>1, <2>2 DEF Opens
    <3> QED BY <1>2, <1>3, <2>2, <3>1 DEF Names
  <2> QED BY <2>1, <2>2
<1>5. Knows(n, console, record, epoch) BY <1>1, <1>3 DEF Knows
<1>6. Rests(n, console, js, worker, at, record, epoch)
  <2> SUFFICES ASSUME Resting(js) PROVE Rests(n, console, js, worker, at, record, epoch) BY DEF Rests
  <2>1. Resting(jobs) /\ js[1].request = jobs[1].request /\ js[1].begun = jobs[1].begun BY <1>2
  <2>2. js[1].request \in DOMAIN n /\ n[js[1].request].command = "restore" BY <1>1, <1>3, <2>1 DEF Rests
  <2>3. console.phase = "reset" => at = worker /\ m[console.on].status = "gated" /\ console.on \in DOMAIN m
    BY <1>3, <2>1 DEF Rests, Knows
  <2>4. console.phase = "reset" => n[console.on].status = "gated" BY <1>1, <2>1, <2>3
  <2> QED BY <1>3, <2>1, <2>2, <2>3, <2>4 DEF Rests
<1>7. EntryIn(n, console) <=> EntryIn(m, console)
  <2>1. console.phase = "entry" => console.on \in DOMAIN m BY <1>3 DEF Knows
  <2> QED BY <1>1, <2>1 DEF EntryIn, Opens
<1>8. RestIn(n, js) <=> RestIn(m, jobs)
  <2>1. Resting(jobs) => jobs[1].request \in DOMAIN m BY <1>3 DEF Rests
  <2> QED BY <1>1, <1>2, <2>1 DEF RestIn, Opens
<1>9. Agrees(n, console, js, worker, at, record, session, st)
  <2>1. EntryIn(m, console) => n[console.on].entries = m[console.on].entries BY <1>1, <1>3 DEF EntryIn, Knows
  <2>2. RestIn(m, jobs) => n[js[1].request].entries = m[jobs[1].request].entries
    BY <1>1, <1>2, <1>3 DEF RestIn, Rests
  <2>3. worker > 0 /\ st[worker] # "stopped" /\ console.phase = "reset" /\ Opens(m[console.on]) => Opens(n[console.on])
    BY <1>1, <1>3 DEF Knows, Opens
  <2> QED BY <1>1, <1>3, <1>7, <1>8, <2>1, <2>2, <2>3 DEF Agrees
<1>10. Adds(n, console, worker, at, record)
  <2>1. EntryIn(m, console) => n[console.on].entries = m[console.on].entries BY <1>1, <1>3 DEF EntryIn, Knows
  <2> QED BY <1>3, <1>7, <2>1 DEF Adds
<1> QED BY <1>1, <1>4, <1>5, <1>6, <1>9, <1>10 DEF ConsoleInv, n, js, st

-----------------------------------------------------------------------------
(* Most steps are beside the console.                                      *)

LEMMA JobBesideSame == jobs' = jobs => JobBeside
BY DEF JobBeside, Resting

LEMMA JobBesideGoes ==
  ASSUME jobs \in Seq(Jobs), epoch \in Nat, Busy, Current.phase # "restoring", NEW phase \in Phases \ {"restoring"},
         jobs' = Goes(phase) \/ \E i \in Nat : jobs' = Works(phase, i)
  PROVE  JobBeside /\ (Busy /\ Current.phase = phase)'
<1> DEFINE js == jobs'
<1>1. js = Goes(phase) \/ \E i \in Nat : js = Works(phase, i) OBVIOUS
<1> HIDE DEF js
<1>2. js # <<>> /\ js[1].phase = phase BY <1>1, GoesEffect, WorksEffect
<1>3. ~ Resting(js) /\ ~ Resting(jobs) BY <1>2 DEF Resting, Current
<1> QED BY <1>2, <1>3 DEF JobBeside, Busy, Current, js

LEMMA JobBesideRun ==
  ASSUME JobData, NEW kind \in Kinds, NEW of \in Nat, NEW recheck \in BOOLEAN, Run(Job(kind, of, recheck))
  PROVE  JobBeside
<1>1. /\ Busy' /\ (~ Busy => Current'.phase = "asked") /\ (Busy => Current' = Current) BY Appended
<1> QED BY <1>1 DEF JobBeside, Resting, Busy, Current

LEMMA JobBesideTail ==
  ASSUME DataInv, Busy, Current.phase # "restoring", jobs' = Tail(jobs)
  PROVE  JobBeside
<1>1. jobs \in Seq(Jobs) /\ Waiting(jobs) BY Parts
<1>2. jobs' # <<>> => jobs'[1].phase = "asked"
  <2>1. jobs' # <<>> => 1 \in DOMAIN jobs' /\ 2 \in DOMAIN jobs /\ jobs'[1] = jobs[2] BY <1>1, TailEffect
  <2> QED BY <1>1, <2>1 DEF Waiting
<1> QED BY <1>2 DEF JobBeside, Resting, Busy, Current

-----------------------------------------------------------------------------
Stays == /\ UNCHANGED <<console, record, at, epoch, session, worker>>
         /\ worker > 0 /\ state[worker] = "stopped" => state'[worker] = "stopped"

LEMMA BesideSame == Stays /\ net' = net => Beside
BY DEF Stays, Beside

LEMMA BesideAsk ==
  ASSUME DataInv, Stays, NEW command \in {"check", "invalidate", "query"}, NEW internal \in BOOLEAN,
         NEW entries \in Nat, NEW up \in BOOLEAN, net' = Ask(command, internal, entries, up)
  PROVE  Beside
<1> DEFINE n == net'
<1>1. net \in Nets /\ jobs \in Seq(Jobs) /\ command \in Commands BY Parts DEF Commands, Checking
<1>2. /\ Asked \in Nat /\ DOMAIN net.asked = 1 .. Asked /\ DOMAIN n.asked = 1 .. Asked + 1
      /\ \A i \in 1 .. Asked : n.asked[i] = net.asked[i]
      /\ n.asked[Asked + 1].command = command
  <2>1. n = Ask(command, internal, entries, up) OBVIOUS
  <2> HIDE DEF n
  <2> QED BY <1>1, <2>1, AskEffect
<1> HIDE DEF n
<1>3. /\ \A i \in DOMAIN net.asked : i \in DOMAIN n.asked /\ n.asked[i] = net.asked[i]
      /\ \A i \in DOMAIN n.asked : i \in DOMAIN net.asked \/ n.asked[i].command \in {"check", "invalidate", "query"}
  BY <1>2
<1> QED BY <1>3 DEF Stays, Beside, n

LEMMA BesideDrop ==
  ASSUME DataInv, Stays, NEW status \in {"failed", "expired"}, net' = Drop(status),
         worker > 0 => state'[worker] = "stopped"
  PROVE  Beside
<1> DEFINE n == net'
<1>1. net \in Nets /\ NetData /\ status \in Statuses BY Parts DEF Statuses
<1>2. /\ DOMAIN n.asked = DOMAIN net.asked
      /\ \A i \in DOMAIN net.asked :
           /\ n.asked[i].command = net.asked[i].command /\ n.asked[i].entries = net.asked[i].entries
           /\ i \in Range(net.sent) => n.asked[i].status = status
           /\ i \notin Range(net.sent) => n.asked[i] = net.asked[i]
  <2>1. n = Drop(status) OBVIOUS
  <2> HIDE DEF n
  <2> QED BY <1>1, <2>1, DropEffect
<1> HIDE DEF n
<1>3. \A i \in Range(net.sent) : net.asked[i].status = "sent" BY <1>1 DEF NetData, Accounts
<1>4. \A i \in DOMAIN net.asked :
        /\ i \in DOMAIN n.asked
        /\ n.asked[i].command = net.asked[i].command /\ n.asked[i].entries = net.asked[i].entries
        /\ \/ n.asked[i].status = net.asked[i].status
           \/ net.asked[i].status = "sent" /\ n.asked[i].status \in {"failed", "expired"}
  BY <1>2, <1>3
<1> QED BY <1>2, <1>4 DEF Stays, Beside, Opens, n

LEMMA BesideTimed == Stays /\ Timed => Beside
BY DEF Stays, Timed, Beside

(* A job asked for or over leaves the console's own requests.              *)
LEMMA BesideFinish ==
  ASSUME DataInv, LastWorker, Finish, console' = console,
         Asked + 1 \in DOMAIN net'.asked => net'.asked[Asked + 1].command # "repl"
  PROVE  Beside
<1> DEFINE n == net'
<1>1. /\ Asked \in Nat /\ DOMAIN net.asked = 1 .. Asked
      /\ 1 .. Asked \subseteq DOMAIN n.asked /\ DOMAIN n.asked \subseteq 1 .. Asked + 1
      /\ \A i \in 1 .. Asked :
           /\ n.asked[i].command = net.asked[i].command
           /\ n.asked[i].entries = net.asked[i].entries
           /\ n.asked[i].status = net.asked[i].status
              \/ (i \in Waited /\ Tail(jobs) = <<>> /\ n.asked[i].status = IF ready THEN "sent" ELSE "failed")
      /\ Asked + 1 \in DOMAIN n.asked => n.asked[Asked + 1].command \in {"repl", "check"}
  BY FinishEffect
<1>2. ~ In("restoring") /\ ~ In("load") BY DEF Finish, In
<1>3. /\ UNCHANGED <<record, at, epoch, session, worker, state>> BY DEF Finish, pageVars, workerVars
<1>4. \A i \in Waited : net.asked[i].status = "gated" BY Parts DEF NetData, Accounts
<1>5. worker > 0 /\ ~ ready => state[worker] = "stopped"
  <2>1. worker > 0 => state[worker] \in WorkerStates BY Parts
  <2> QED BY <1>2, <2>1 DEF LastWorker, WorkerStates
<1>6. Asked + 1 \in DOMAIN n.asked => n.asked[Asked + 1].command # "repl" OBVIOUS
<1> HIDE DEF n
<1>7. \A i \in DOMAIN net.asked :
        /\ i \in DOMAIN n.asked
        /\ n.asked[i].command = net.asked[i].command /\ n.asked[i].entries = net.asked[i].entries
        /\ \/ n.asked[i].status = net.asked[i].status
           \/ Opens(net.asked[i]) /\ Opens(n.asked[i])
           \/ Opens(net.asked[i]) /\ n.asked[i].status \in {"failed", "expired"} /\ (worker > 0 => state[worker] = "stopped")
  BY <1>1, <1>4, <1>5 DEF Opens
<1>8. \A i \in DOMAIN n.asked : i \in DOMAIN net.asked \/ n.asked[i].command \in {"check", "invalidate", "query"}
  <2>1. \A i \in DOMAIN n.asked : i \in DOMAIN net.asked \/ i = Asked + 1 BY <1>1
  <2> QED BY <1>1, <1>6, <2>1
<1> QED BY <1>2, <1>3, <1>7, <1>8 DEF Beside, n

-----------------------------------------------------------------------------
LEMMA LastWorkerNext == DataInv /\ LastWorker /\ [Next]_vars => LastWorker'
<1> SUFFICES ASSUME DataInv, LastWorker, [Next]_vars PROVE LastWorker' OBVIOUS
<1>0. /\ jobs \in Seq(Jobs) /\ worker \in Nat /\ ready \in BOOLEAN /\ state \in Seq(WorkerStates) /\ Len(state) = worker
      /\ epoch \in Nat /\ JobData /\ Asked \in Nat
  BY Parts, DataParts
<1>1. ASSUME UNCHANGED <<worker, state, ready>>, ~ In("load") \/ (In("load"))' PROVE LastWorker'
  BY <1>1 DEF LastWorker
<1>2. ASSUME jobs' = jobs PROVE ~ In("load") \/ (In("load"))' BY <1>2 DEF In, Busy, Current
<1>3. ASSUME NEW kind \in Kinds, NEW of \in Nat, NEW recheck \in BOOLEAN, Run(Job(kind, of, recheck))
      PROVE  ~ In("load") \/ (In("load"))'
  <2>1. /\ Busy' /\ (~ Busy => Current'.phase = "asked") /\ (Busy => Current' = Current) BY <1>0, <1>3, Appended
  <2> QED BY <2>1 DEF In
<1>4. ASSUME NEW status, Stop(status), worker' = worker PROVE LastWorker'
  <2>1. state' = [state EXCEPT ![worker] = "stopped"] BY <1>4 DEF Stop
  <2>2. worker > 0 => state'[worker] = "stopped" BY <1>0, <2>1
  <2> QED BY <1>4, <2>2 DEF LastWorker
<1>5. CASE EntrySettled \/ ResetSettled \/ Focus \/ Press \/ UNCHANGED vars \/ ReaderAsks \/ Reset
           \/ (\E c \in DOMAIN checks : SameVersion(c)) \/ Replies \/ Tick
  BY <1>1, <1>2, <1>5 DEF EntrySettled, ResetSettled, Focus, Press, vars, ReaderAsks, Reset, SameVersion, Replies,
                    Answer, Refuse, Advance, Tick, jobVars, pageVars
<1>6. CASE Replace
  <2>1. Busy /\ Current.phase # "restoring" BY <1>6 DEF Replace, Turn, In
  <2>3. Ended \in Seq(WorkerStates) /\ Len(Ended) = worker /\ (worker > 0 => Ended[worker] = "stopped")
    <3>1. CASE worker = 0 BY <1>0, <3>1 DEF Ended
    <3>2. CASE worker # 0
      <4>1. Ended = [state EXCEPT ![worker] = "stopped"] BY <3>2 DEF Ended
      <4>2. "stopped" \in WorkerStates BY DEF WorkerStates
      <4> QED BY <1>0, <3>2, <4>1, <4>2
    <3> QED BY <3>1, <3>2
  <2>4. CASE Known
    <3>1. jobs' = Goes("load") /\ worker' = worker + 1 /\ state' = Append(Ended, "starting")
      BY <1>6, <2>4 DEF Replace, Starts
    <3> HIDE DEF Ended
    <3>2. state'[worker + 1] = "starting" BY <1>0, <2>3, <3>1
    <3>3. (In("load"))' BY <1>0, <2>1, <3>1, JobBesideGoes DEF Phases, In
    <3> QED BY <3>1, <3>2, <3>3 DEF LastWorker
  <2>5. CASE ~ Known
    <3>1. worker' = worker /\ state' = Ended BY <1>6, <2>5 DEF Replace
    <3> QED BY <2>3, <3>1 DEF LastWorker
  <2> QED BY <2>4, <2>5
<1>7. CASE StartWorker
  <2>1. Busy /\ Current.phase # "restoring" /\ jobs' = Goes("load") /\ worker' = worker + 1
        /\ state' = Append(state, "starting")
    BY <1>7 DEF StartWorker, Starts, In
  <2>2. state'[worker + 1] = "starting" BY <1>0, <2>1
  <2>3. (In("load"))' BY <1>0, <2>1, JobBesideGoes DEF Phases, In
  <2> QED BY <2>1, <2>2, <2>3 DEF LastWorker
<1>8. CASE WorkerReady
  <2>1. ready' = TRUE /\ worker' = worker /\ state' = [state EXCEPT ![worker] = "ready"] /\ state[worker] = "starting"
    BY <1>8 DEF WorkerReady
  <2>2. worker > 0 => state'[worker] = "ready" BY <1>0, <2>1
  <2> QED BY <2>1, <2>2 DEF LastWorker
<1>9. CASE Decline \/ WorkerStopped \/ Rebuilt \/ RestoreSkipped \/ Restored \/ RestoreBegins \/ Finish
  <2>1. UNCHANGED pageVars
    BY <1>9 DEF Decline, WorkerStopped, Rebuilt, RestoreSkipped, Restored, RestoreBegins, Finish
  <2>2. ~ In("load") \/ state[worker] = "stopped"
    BY <1>9 DEF Decline, WorkerStopped, Rebuilt, RestoreSkipped, Restored, RestoreBegins, Finish, RestoreTurn, Turn, In
  <2> QED BY <2>1, <2>2 DEF LastWorker, pageVars
<1>10. CASE ReaderChecks
  <2>1. UNCHANGED <<worker, state, ready>> BY <1>10 DEF ReaderChecks
  <2>2. CASE halted BY <1>1, <1>3, <1>10, <2>1, <2>2 DEF ReaderChecks, Kinds
  <2>3. CASE ~ halted BY <1>1, <1>2, <1>10, <2>1, <2>3 DEF ReaderChecks, jobVars
  <2> QED BY <2>2, <2>3
<1>11. CASE Enter
  <2>1. UNCHANGED <<worker, state, ready>> BY <1>11 DEF Enter
  <2>2. CASE OnWorker BY <1>1, <1>2, <1>11, <2>1, <2>2 DEF Enter, jobVars
  <2>3. CASE ~ OnWorker
    <3>1. Run(Job("restore", 0, FALSE)) BY <1>11, <2>3 DEF Enter
    <3> QED BY <1>1, <1>3, <2>1, <3>1 DEF Kinds
  <2> QED BY <2>2, <2>3
<1>12. ASSUME NEW c \in DOMAIN checks, NewVersion(c) PROVE LastWorker'
  <2>1. checks[c].on \in Nat
    <3>1. checks[c] \in Calls BY DataParts
    <3> QED BY <3>1 DEF Calls
  <2>2. Run(Job("update", checks[c].on, TRUE)) /\ UNCHANGED <<worker, state, ready>>
    BY <1>12 DEF NewVersion, pageVars
  <2> QED BY <1>1, <1>3, <2>1, <2>2 DEF Kinds
<1>13. CASE Fault \/ Lost \/ TimesOut BY <1>4, <1>13 DEF Fault, Lost, TimesOut, Expire
<1> QED BY <1>5, <1>6, <1>7, <1>8, <1>9, <1>10, <1>11, <1>12, <1>13
    DEF Next, Continue, Event, Fetched, Reader

-----------------------------------------------------------------------------
(* The steps that are not: what the console waited for is settled, or its  *)
(* session ends with a worker and is made again on the next.               *)

LEMMA ConsoleParts ==
  ConsoleInv => /\ Names(net.asked, console, jobs) /\ Knows(net.asked, console, record, epoch)
                /\ Rests(net.asked, console, jobs, worker, at, record, epoch)
                /\ Agrees(net.asked, console, jobs, worker, at, record, session, state)
                /\ Adds(net.asked, console, worker, at, record)
BY DEF ConsoleInv

LEMMA EntryRecorded ==
  ASSUME DataInv, ConsoleInv, EntrySettled
  PROVE  ConsoleInv'
<1> DEFINE m == net.asked
           c == console'
           r == record'
           a == at'
<1>1. /\ Names(m, console, jobs) /\ Knows(m, console, record, epoch)
      /\ Rests(m, console, jobs, worker, at, record, epoch)
      /\ Agrees(m, console, jobs, worker, at, record, session, state)
  BY ConsoleParts
<1>2. /\ console.phase = "entry" /\ m[console.on].status \in {"answered", "failed", "expired"}
      /\ c.phase = "idle"
      /\ IF m[console.on].status = "answered" /\ console.begun = epoch
         THEN r = m[console.on].entries /\ a = worker ELSE r = record /\ a = at
  BY DEF EntrySettled, Settled, Entry
<1>3. UNCHANGED <<worker, state, net, jobs, epoch, session>> BY DEF EntrySettled, pageVars, jobVars, workerVars
<1> HIDE DEF m, c, r, a
<1>4. Names(m, c, jobs) BY <1>1, <1>2 DEF Names, Opens
<1>5. Knows(m, c, r, epoch) BY <1>2 DEF Knows
<1>6. Rests(m, c, jobs, worker, a, r, epoch) BY <1>1, <1>2 DEF Rests
<1>7. Agrees(m, c, jobs, worker, a, r, session, state)
  <2>1. ~ EntryIn(m, c) BY <1>2 DEF EntryIn
  <2>2. console.begun = epoch BY <1>1, <1>2 DEF Knows
  <2>3. CASE EntryIn(m, console)
    <3>1. r = session[worker] /\ a = worker /\ ~ RestIn(m, jobs)
      BY <1>1, <1>2, <2>2, <2>3 DEF EntryIn, Agrees
    <3> QED BY <2>1, <3>1 DEF Agrees
  <2>4. CASE ~ EntryIn(m, console)
    <3>1. r = record /\ a = at BY <1>2, <2>4 DEF EntryIn
    <3> QED BY <1>1, <1>2, <2>1, <2>4, <3>1 DEF Agrees
  <2> QED BY <2>3, <2>4
<1>8. Adds(m, c, worker, a, r) BY <1>2 DEF Adds, EntryIn
<1> QED BY <1>3, <1>4, <1>5, <1>6, <1>7, <1>8 DEF ConsoleInv, m, c, r, a

LEMMA ResetDone ==
  ASSUME DataInv, ConsoleInv, ResetSettled
  PROVE  ConsoleInv'
<1> DEFINE m == net.asked
           c == console'
<1>1. /\ Names(m, console, jobs) /\ Knows(m, console, record, epoch)
      /\ Rests(m, console, jobs, worker, at, record, epoch)
      /\ Agrees(m, console, jobs, worker, at, record, session, state)
  BY ConsoleParts
<1>2. /\ console.phase = "reset" /\ m[console.on].status \in {"answered", "failed", "expired"}
      /\ c.phase = "idle"
  BY DEF ResetSettled, Settled, Entry
<1>3. UNCHANGED <<worker, state, net, jobs, epoch, session, record, at>>
  BY DEF ResetSettled, pageVars, jobVars, workerVars
<1> HIDE DEF m, c
<1>4. Names(m, c, jobs) BY <1>1, <1>2 DEF Names, Opens
<1>5. Knows(m, c, record, epoch) BY <1>2 DEF Knows
<1>6. Rests(m, c, jobs, worker, at, record, epoch) BY <1>1, <1>2 DEF Rests
<1>7. Agrees(m, c, jobs, worker, at, record, session, state)
  BY <1>1, <1>2 DEF Agrees, EntryIn, Opens
<1>8. Adds(m, c, worker, at, record) BY <1>2 DEF Adds, EntryIn
<1> QED BY <1>3, <1>4, <1>5, <1>6, <1>7, <1>8 DEF ConsoleInv, m, c

(* A worker starts: the console's session is not on it.                    *)
LEMMA WorkerBegins ==
  ASSUME DataInv, ConsoleInv, Starts, Busy, Current.phase \in {"asked", "version"}, net.sent = <<>>,
         net' = net \/ net' = Drop("failed"), UNCHANGED consoleVars
  PROVE  ConsoleInv'
<1> DEFINE m == net.asked
           n == net'.asked
           js == jobs'
           w == worker'
           s == session'
           st == state'
<1>1. /\ Names(m, console, jobs) /\ Knows(m, console, record, epoch)
      /\ Agrees(m, console, jobs, worker, at, record, session, state)
  BY ConsoleParts
<1>2. /\ worker \in Nat /\ at \in 0 .. worker /\ session \in Seq(Nat) /\ Len(session) = worker
      /\ NetData /\ net \in Nets /\ jobs \in Seq(Jobs) /\ epoch \in Nat
  BY Parts, DataParts DEF DataInv, Data, ConsoleData, WorkerData
<1>3. /\ ~ (console.phase = "entry" /\ m[console.on].status \in {"answered", "failed", "expired"})
      /\ w = worker + 1 /\ s = Append(session, 0) /\ jobs' = Goes("load") /\ UNCHANGED <<console, record, at, epoch>>
  BY DEF Starts, Settled, consoleVars
<1>4. (Busy /\ Current.phase = "load")' /\ ~ Resting(jobs)
  <2>1. (Busy /\ Current.phase = "load")' BY <1>2, <1>3, JobBesideGoes DEF Phases
  <2> QED BY <2>1 DEF Resting, Current
<1>5. ~ Resting(js) BY <1>4 DEF Resting, Current
<1>6. \A i \in DOMAIN m : i \in DOMAIN n /\ n[i] = m[i]
  <2>1. CASE net' = net BY <2>1
  <2>2. CASE net' = Drop("failed")
    <3>1. Range(net.sent) = {} BY NothingSent
    <3> DEFINE d == net'
    <3>2. d = Drop("failed") BY <2>2
    <3> HIDE DEF d
    <3>3. DOMAIN d.asked = DOMAIN net.asked /\ \A i \in DOMAIN net.asked : i \notin Range(net.sent) => d.asked[i] = net.asked[i]
      BY <1>2, <3>2, DropEffect DEF Statuses
    <3> QED BY <3>1, <3>3 DEF d
  <2> QED BY <2>1, <2>2
<1>7. DOMAIN n = DOMAIN m
  <2>1. CASE net' = net BY <2>1
  <2>2. CASE net' = Drop("failed") BY <2>2 DEF Drop, Nets
  <2> QED BY <2>1, <2>2
<1> HIDE DEF m, n, js, w, s, st
<1>8. s[w] = 0 /\ w > 0 /\ at # w BY <1>2, <1>3
<1>9. Names(n, console, js)
  <2>1. \A i \in DOMAIN m : Opens(m[i]) => m[i].command # "restore" BY <1>1, <1>4 DEF Names
  <2> QED BY <1>1, <1>6, <1>7, <2>1 DEF Names
<1>10. Knows(n, console, record, epoch) BY <1>1, <1>6 DEF Knows
<1>11. Rests(n, console, js, w, at, record, epoch) BY <1>5 DEF Rests
<1>12. ~ EntryIn(n, console) /\ ~ RestIn(n, js)
  <2>1. console.phase = "entry" => console.on \in DOMAIN m BY <1>1 DEF Knows
  <2> QED BY <1>3, <1>5, <1>6, <2>1 DEF EntryIn, RestIn
<1>13. Agrees(n, console, js, w, at, record, s, st) BY <1>8, <1>12 DEF Agrees
<1>14. Adds(n, console, w, at, record) BY <1>12 DEF Adds
<1> QED BY <1>3, <1>9, <1>10, <1>11, <1>13, <1>14 DEF ConsoleInv, n, js, w, s, st

LEMMA RestoreAsked ==
  ASSUME DataInv, ConsoleInv, RestoreBegins
  PROVE  ConsoleInv'
<1> DEFINE m == net.asked
           n == net'.asked
           i == Asked + 1
           js == jobs'
<1>1. /\ Names(m, console, jobs) /\ Knows(m, console, record, epoch)
      /\ Agrees(m, console, jobs, worker, at, record, session, state)
      /\ Adds(m, console, worker, at, record)
  BY ConsoleParts
<1>2. /\ worker \in Nat /\ record \in Nat /\ net \in Nets /\ jobs \in Seq(Jobs) /\ epoch \in Nat /\ ready \in BOOLEAN
      /\ Asked \in Nat
  BY Parts, DataParts
<1>3. /\ Busy /\ ~ Resting(jobs) /\ at # worker /\ record # 0 /\ ready /\ record' = 0
      /\ UNCHANGED <<worker, state, console, at, epoch, session>>
      /\ net' = Ask("restore", TRUE, record, ready) /\ jobs' = Works("restoring", i)
  BY DEF RestoreBegins, RestoreTurn, Restores, Turn, In, Resting, Current, pageVars, workerVars
<1>4. /\ DOMAIN m = 1 .. Asked /\ DOMAIN n = 1 .. i /\ \A k \in 1 .. Asked : n[k] = m[k]
      /\ n[i].command = "restore" /\ n[i].status = "sent"
  <2> DEFINE d == net'
  <2>1. d = Ask("restore", TRUE, record, ready) BY <1>3
  <2> HIDE DEF d
  <2>2. "restore" \in Commands BY DEF Commands, Checking
  <2>3. AskedFor(d, "restore", TRUE, record, ready) BY <1>2, <2>1, <2>2, AskAny, Zenon
  <2> QED BY <1>3, <2>3 DEF AskedFor, Waits, d
<1>5. Resting(js) /\ js[1].request = i /\ js[1].begun = epoch
  <2> HIDE DEF i, js
  <2>1. js = Works("restoring", i) /\ i \in Nat /\ "restoring" \in Phases BY <1>2, <1>3 DEF i, js, Phases
  <2>2. js # <<>> /\ js[1].phase = "restoring" /\ js[1].request = i /\ js[1].begun = epoch
    BY <1>2, <1>3, <2>1, WorksEffect
  <2> QED BY <2>2 DEF Resting
<1>6. console.phase # "reset" BY <1>1, <1>3 DEF Knows
<1>7. \A k \in DOMAIN m : k \in DOMAIN n /\ k # i BY <1>2, <1>4
<1>8. \A k \in DOMAIN n : k \in DOMAIN m \/ k = i BY <1>2, <1>4
<1>13. i \in DOMAIN n BY <1>2, <1>4
<1> HIDE DEF m, n, i, js
<1>9. Names(n, console, js)
  <2>1. \A k \in DOMAIN m : Opens(m[k]) => m[k].command # "restore" BY <1>1, <1>3 DEF Names
  <2> QED BY <1>1, <1>4, <1>5, <1>8, <2>1 DEF Names
<1>10. Knows(n, console, 0, epoch) BY <1>1, <1>4, <1>6, <1>7 DEF Knows
<1>11. Rests(n, console, js, worker, at, 0, epoch) BY <1>2, <1>4, <1>5, <1>6, <1>13 DEF Rests
<1>12. Agrees(n, console, js, worker, at, 0, session, state)
  <2>1. ~ RestIn(n, js) /\ ~ RestIn(m, jobs) BY <1>3, <1>4, <1>5 DEF RestIn
  <2>2. EntryIn(n, console) <=> EntryIn(m, console) BY <1>1, <1>4, <1>7 DEF EntryIn, Knows
  <2>3. EntryIn(m, console) => n[console.on].entries = m[console.on].entries BY <1>1, <1>4, <1>7 DEF EntryIn, Knows
  <2> QED BY <1>1, <1>3, <2>1, <2>2, <2>3 DEF Agrees
<1>14. Adds(n, console, worker, at, 0)
  <2>1. EntryIn(n, console) => EntryIn(m, console) /\ n[console.on].entries = m[console.on].entries
    BY <1>1, <1>4, <1>7 DEF EntryIn, Knows
  <2> QED BY <1>1, <1>3, <2>1 DEF Adds
<1> QED BY <1>3, <1>9, <1>10, <1>11, <1>12, <1>14 DEF ConsoleInv, n, js

LEMMA RestoreDone ==
  ASSUME DataInv, ConsoleInv, Restored
  PROVE  ConsoleInv'
<1> DEFINE m == net.asked
           q == Current.request
           js == jobs'
           r == record'
           a == at'
<1>1. /\ Names(m, console, jobs) /\ Knows(m, console, record, epoch)
      /\ Rests(m, console, jobs, worker, at, record, epoch)
      /\ Agrees(m, console, jobs, worker, at, record, session, state)
      /\ Adds(m, console, worker, at, record)
  BY ConsoleParts
<1>2. /\ worker \in Nat /\ jobs \in Seq(Jobs) /\ epoch \in Nat BY Parts, DataParts
<1>3. /\ Resting(jobs) /\ Busy /\ m[q].status \in {"answered", "failed", "expired"} /\ jobs' = Goes("done")
      /\ UNCHANGED <<worker, state, console, epoch, session, net>>
      /\ IF Current.begun # epoch THEN r = record /\ a = at
         ELSE a = worker /\ r = IF m[q].status = "answered" THEN m[q].entries ELSE record
  BY DEF Restored, Settled, In, Resting, Busy, Current, pageVars, workerVars
<1>4. q = jobs[1].request /\ Current.begun = jobs[1].begun BY DEF Current
<1>5. ~ Resting(js)
  <2> HIDE DEF js
  <2>1. js = Goes("done") /\ "done" \in Phases BY <1>3 DEF js, Phases
  <2>2. js[1].phase = "done" BY <1>2, <1>3, <2>1, GoesEffect
  <2> QED BY <2>2 DEF Resting
<1> HIDE DEF m, q, js, r, a
<1>6. Names(m, console, js)
  <2>1. \A i \in DOMAIN m : Opens(m[i]) => m[i].command # "restore" BY <1>1, <1>3, <1>4 DEF Names, Opens
  <2> QED BY <1>1, <2>1 DEF Names
<1>7. console.phase = "reset" => r = 0 BY <1>1, <1>3, <1>4 DEF Rests, Knows
<1>8. Knows(m, console, r, epoch) BY <1>1, <1>7 DEF Knows
<1>9. Rests(m, console, js, worker, a, r, epoch) BY <1>5 DEF Rests
<1>10. Agrees(m, console, js, worker, a, r, session, state)
  <2>1. ~ RestIn(m, js) BY <1>5 DEF RestIn
  <2>2. EntryIn(m, console) => worker > 0 /\ m[console.on].entries = session[worker] BY <1>1 DEF Agrees
  <2>3. ASSUME worker > 0, ~ EntryIn(m, console)
        PROVE  /\ a # worker => session[worker] = 0
               /\ a = worker /\ state[worker] # "stopped" =>
                    r = session[worker] \/ (console.phase = "reset" /\ Opens(m[console.on]))
    <3>1. CASE Current.begun # epoch
      <4>1. console.phase = "reset" /\ at = worker /\ m[console.on].status = "gated"
        BY <1>1, <1>3, <1>4, <3>1 DEF Rests
      <4> QED BY <1>3, <3>1, <4>1 DEF Opens
    <3>2. CASE Current.begun = epoch /\ m[q].status = "answered"
      <4>1. RestIn(m, jobs) BY <1>3, <1>4, <3>2 DEF RestIn
      <4> QED BY <1>1, <1>3, <1>4, <3>2, <4>1 DEF Agrees
    <3>3. CASE Current.begun = epoch /\ m[q].status # "answered"
      <4>1. ~ RestIn(m, jobs) /\ console.phase # "reset" BY <1>1, <1>3, <1>4, <3>3 DEF RestIn, Rests
      <4>2. a = worker /\ r = record BY <1>3, <3>3
      <4>3. at # worker => record = 0 BY <1>1, <1>3 DEF Rests
      <4> QED BY <1>1, <2>3, <4>1, <4>2, <4>3 DEF Agrees
    <3> QED BY <3>1, <3>2, <3>3
  <2> QED BY <2>1, <2>2, <2>3 DEF Agrees
<1>11. Adds(m, console, worker, a, r)
  <2> SUFFICES ASSUME EntryIn(m, console) PROVE m[console.on].entries = IF a = worker THEN r + 1 ELSE 1 BY DEF Adds
  <2>1. m[console.on].entries = IF at = worker THEN record + 1 ELSE 1 BY <1>1 DEF Adds
  <2>2. console.phase # "reset" /\ ~ RestIn(m, jobs) BY <1>1 DEF EntryIn, Agrees
  <2>3. Current.begun = epoch /\ m[q].status # "answered" BY <1>1, <1>3, <1>4, <2>2 DEF Rests, RestIn
  <2>4. a = worker /\ r = record BY <1>3, <2>3
  <2>5. at # worker => record = 0 BY <1>1, <1>3 DEF Rests
  <2> QED BY <2>1, <2>4, <2>5
<1> QED BY <1>3, <1>6, <1>8, <1>9, <1>10, <1>11 DEF ConsoleInv, m, js, r, a

-----------------------------------------------------------------------------
(* An entry goes on as its restore is over.                                *)

LEMMA FinishConsole ==
  ASSUME DataInv, LastWorker, ConsoleInv, Finish
  PROVE  ConsoleInv'
<1> DEFINE m == net.asked
           n == net'.asked
           i == Asked + 1
           js == jobs'
           c == console'
<1>1. /\ Names(m, console, jobs) /\ Knows(m, console, record, epoch)
      /\ Agrees(m, console, jobs, worker, at, record, session, state)
  BY ConsoleParts
<1>2. /\ Asked \in Nat /\ DOMAIN m = 1 .. Asked
      /\ 1 .. Asked \subseteq DOMAIN n /\ DOMAIN n \subseteq 1 .. i
      /\ \A k \in 1 .. Asked :
           /\ n[k].command = m[k].command /\ n[k].entries = m[k].entries
           /\ n[k].status = m[k].status
              \/ (k \in Waited /\ Tail(jobs) = <<>> /\ n[k].status = IF ready THEN "sent" ELSE "failed")
      /\ i \in DOMAIN n =>
           /\ n[i].command \in {"repl", "check"}
           /\ n[i].status = IF Tail(jobs) # <<>> THEN "gated" ELSE IF ready THEN "sent" ELSE "failed"
           /\ n[i].command = "repl" => console.phase = "restore"
      /\ c = IF i \in DOMAIN n /\ n[i].command = "repl"
             THEN [console EXCEPT !.phase = "entry", !.on = i]
             ELSE IF console.phase = "restore" /\ console.on = Current.serial THEN Entry("idle", 0)
             ELSE console
  BY FinishEffect
<1>3. /\ Busy /\ Current.phase # "restoring" /\ jobs' = Tail(jobs) /\ ~ Resting(jobs)
      /\ UNCHANGED <<record, at, epoch, session, worker, state>>
  BY DEF Finish, In, Resting, Current, pageVars, workerVars
<1>4. JobBeside BY <1>3, JobBesideTail
<1>5. CASE console' = console /\ (i \in DOMAIN n => n[i].command # "repl")
  BY <1>4, <1>5, BesideFinish, BesideConsole
<1>6. CASE ~ (console' = console /\ (i \in DOMAIN n => n[i].command # "repl"))
  <2>1. console.phase = "restore" BY <1>2, <1>6
  <2>2. /\ c.phase \in {"idle", "entry", "restore"} /\ c.begun = epoch
        /\ c.phase = "entry" => c.on = i /\ i \in DOMAIN n /\ n[i].command = "repl"
        /\ i \in DOMAIN n /\ n[i].command = "repl" => c.phase = "entry"
    <3>1. console \in Consoles /\ console.begun = epoch BY <1>1, <2>1, DataParts DEF Knows
    <3>2. CASE i \in DOMAIN n /\ n[i].command = "repl"
      <4> DEFINE b == [console EXCEPT !.phase = "entry"]
      <4>1. b.phase = "entry" /\ b.begun = epoch /\ b = [phase |-> b.phase, on |-> b.on, begun |-> b.begun]
        BY <3>1 DEF Consoles
      <4>2. c = [b EXCEPT !.on = i] BY <1>2, <3>2
      <4> HIDE DEF b, c
      <4>3. c.phase = "entry" /\ c.begun = epoch /\ c.on = i BY <4>1, <4>2
      <4> QED BY <3>2, <4>3
    <3>3. CASE ~ (i \in DOMAIN n /\ n[i].command = "repl")
      <4>1. c = Entry("idle", 0) \/ c = console BY <1>2, <3>3
      <4> QED BY <2>1, <3>1, <3>3, <4>1 DEF Entry
    <3> QED BY <3>2, <3>3
  <2>3. ~ Resting(js) BY <1>3, <1>4 DEF JobBeside
  <2>4. \A k \in DOMAIN n : k \in DOMAIN m \/ k = i BY <1>2
  <2>5. \A k \in Waited : m[k].status = "gated" BY Parts DEF NetData, Accounts
  <2> HIDE DEF m, n, i, js, c
  <2>6. \A k \in DOMAIN m : Opens(n[k]) => Opens(m[k]) /\ n[k].command = m[k].command BY <1>2, <2>5 DEF Opens
  <2>7. \A k \in DOMAIN m : Opens(m[k]) => m[k].command \notin {"repl", "reset", "restore"}
    BY <1>1, <1>3, <2>1 DEF Names
  <2>8. Names(n, c, js) BY <1>2, <2>2, <2>4, <2>6, <2>7 DEF Names
  <2>9. Knows(n, c, record, epoch) BY <2>2 DEF Knows
  <2>10. Rests(n, c, js, worker, at, record, epoch) BY <2>3 DEF Rests
  <2>11. ~ EntryIn(n, c) BY <1>2, <2>2 DEF EntryIn
  <2>12. Agrees(n, c, js, worker, at, record, session, state)
    <3>1. ~ RestIn(n, js) /\ ~ RestIn(m, jobs) /\ ~ EntryIn(m, console) BY <1>3, <2>1, <2>3 DEF RestIn, EntryIn
    <3> QED BY <1>1, <2>1, <2>11, <3>1 DEF Agrees
  <2>13. Adds(n, c, worker, at, record) BY <2>11 DEF Adds
  <2> QED BY <1>3, <2>8, <2>9, <2>10, <2>12, <2>13 DEF ConsoleInv, n, js, c
<1> QED BY <1>5, <1>6

-----------------------------------------------------------------------------
(* The reader enters or resets.                                            *)

LEMMA Entered ==
  ASSUME DataInv, LastWorker, ConsoleInv, Enter
  PROVE  ConsoleInv'
<1> DEFINE m == net.asked
           n == net'.asked
           i == Asked + 1
           js == jobs'
           c == console'
           a == at'
<1>1. /\ Names(m, console, jobs) /\ Knows(m, console, record, epoch)
      /\ Rests(m, console, jobs, worker, at, record, epoch)
      /\ Agrees(m, console, jobs, worker, at, record, session, state)
  BY ConsoleParts
<1>2. /\ worker \in Nat /\ record \in Nat /\ net \in Nets /\ jobs \in Seq(Jobs) /\ ready \in BOOLEAN
      /\ Asked \in Nat /\ JobData /\ DOMAIN m = 1 .. Asked
  BY Parts, DataParts
<1>3. console.phase = "idle" /\ UNCHANGED <<worker, state, record, epoch, session>> BY DEF Enter, workerVars
<1>4. CASE OnWorker
  <2>1. a = worker /\ net' = Ask("repl", FALSE, 0, ready) /\ c = Entry("entry", i) /\ jobs' = jobs
    BY <1>4 DEF Enter, jobVars
  <2>2. /\ DOMAIN n = 1 .. i /\ \A k \in 1 .. Asked : n[k] = m[k]
        /\ n[i].command = "repl" /\ n[i].status # "answered"
    <3> DEFINE d == net'
    <3>1. d = Ask("repl", FALSE, 0, ready) BY <2>1
    <3> HIDE DEF d
    <3>2. "repl" \in Commands BY DEF Commands, Checking
    <3>3. AskedFor(d, "repl", FALSE, 0, ready) BY <1>2, <3>1, <3>2, AskAny, Zenon
    <3> QED BY <3>3 DEF AskedFor, d
  <2>3. c.phase = "entry" /\ c.on = i /\ c.begun = epoch BY <2>1 DEF Entry
  <2>4. \A k \in DOMAIN m : k \in DOMAIN n /\ n[k] = m[k] BY <1>2, <2>2
  <2>5. i \in DOMAIN n /\ \A k \in DOMAIN n : k \in DOMAIN m \/ k = i BY <1>2, <2>2
  <2>6. at = worker \/ record = 0 BY <1>4 DEF OnWorker
  <2> HIDE DEF m, n, i, c, a
  <2>7. Names(n, c, jobs)
    <3>1. \A k \in DOMAIN m : Opens(m[k]) => m[k].command \notin {"repl", "reset"} BY <1>1, <1>3 DEF Names
    <3> QED BY <1>1, <2>2, <2>3, <2>4, <2>5, <3>1 DEF Names
  <2>8. Knows(n, c, record, epoch) BY <2>2, <2>3, <2>5 DEF Knows
  <2>9. Rests(n, c, jobs, worker, a, record, epoch) BY <1>1, <1>3, <2>1, <2>3, <2>4 DEF Rests
  <2>10. Agrees(n, c, jobs, worker, a, record, session, state)
    <3>1. ~ EntryIn(n, c) BY <2>2, <2>3 DEF EntryIn
    <3>2. ~ EntryIn(m, console) BY <1>3 DEF EntryIn
    <3>3. RestIn(n, jobs) <=> RestIn(m, jobs) BY <1>1, <2>4 DEF RestIn, Rests
    <3>4. RestIn(m, jobs) => n[jobs[1].request].entries = m[jobs[1].request].entries
      BY <1>1, <2>4 DEF RestIn, Rests
    <3>5. ASSUME worker > 0, ~ RestIn(m, jobs) PROVE state[worker] # "stopped" => record = session[worker]
      BY <1>1, <1>3, <2>6, <3>2, <3>5 DEF Agrees
    <3> QED BY <1>1, <2>1, <3>1, <3>3, <3>4, <3>5 DEF Agrees
  <2>11. Adds(n, c, worker, a, record) BY <2>2, <2>3 DEF Adds, EntryIn
  <2> QED BY <1>3, <2>1, <2>7, <2>8, <2>9, <2>10, <2>11 DEF ConsoleInv, n, c, a
<1>5. CASE ~ OnWorker
  <2>1. Run(Job("restore", 0, FALSE)) /\ c = Entry("restore", serial + 1) /\ at' = at /\ net' = net
    BY <1>5 DEF Enter
  <2>2. c.phase = "restore" /\ c.begun = epoch BY <2>1 DEF Entry
  <2>3. JobBeside BY <1>2, <2>1, JobBesideRun DEF Kinds
  <2>4. /\ Resting(js) <=> Resting(jobs)
        /\ Resting(jobs) => js[1].request = jobs[1].request /\ js[1].begun = jobs[1].begun
    BY <2>3 DEF JobBeside
  <2> HIDE DEF m, js, c
  <2>5. Names(m, c, js) BY <1>1, <1>3, <2>4 DEF Names
  <2>6. Knows(m, c, record, epoch) BY <2>2 DEF Knows
  <2>7. Rests(m, c, js, worker, at, record, epoch) BY <1>1, <1>3, <2>2, <2>4 DEF Rests
  <2>8. Agrees(m, c, js, worker, at, record, session, state)
    <3>1. ~ EntryIn(m, c) /\ ~ EntryIn(m, console) BY <1>3, <2>2 DEF EntryIn
    <3>2. RestIn(m, js) <=> RestIn(m, jobs) BY <2>4 DEF RestIn
    <3>3. RestIn(m, jobs) => js[1].request = jobs[1].request BY <2>4 DEF RestIn
    <3> QED BY <1>1, <1>3, <3>1, <3>2, <3>3 DEF Agrees
  <2>9. Adds(m, c, worker, at, record) BY <2>2 DEF Adds, EntryIn
  <2> QED BY <1>3, <2>1, <2>5, <2>6, <2>7, <2>8, <2>9 DEF ConsoleInv, m, js, c
<1> QED BY <1>4, <1>5

LEMMA ResetAsked ==
  ASSUME DataInv, LastWorker, ConsoleInv, ~ Due, Reset
  PROVE  ConsoleInv'
<1> DEFINE m == net.asked
           n == net'.asked
           i == Asked + 1
           c == console'
           e == epoch'
<1>1. /\ Names(m, console, jobs) /\ Knows(m, console, record, epoch)
      /\ Rests(m, console, jobs, worker, at, record, epoch)
      /\ Agrees(m, console, jobs, worker, at, record, session, state)
  BY ConsoleParts
<1>2. /\ worker \in Nat /\ epoch \in Nat /\ net \in Nets /\ jobs \in Seq(Jobs) /\ ready \in BOOLEAN
      /\ Asked \in Nat /\ DOMAIN m = 1 .. Asked
  BY Parts, DataParts
<1>3. /\ console.phase = "idle" /\ UNCHANGED <<worker, state, jobs, session>>
      /\ record' = 0 /\ at' = worker /\ e = epoch + 1 /\ net' = Ask("reset", FALSE, 0, ready)
      /\ c.phase = "reset" /\ c.on = i /\ c.begun = epoch + 1
  BY DEF Reset, workerVars, jobVars
<1>4. /\ DOMAIN n = 1 .. i /\ \A k \in 1 .. Asked : n[k] = m[k]
      /\ n[i].command = "reset"
      /\ Busy => n[i].status = "gated"
      /\ ~ Busy /\ ready => n[i].status = "sent"
  <2> DEFINE d == net'
  <2>1. d = Ask("reset", FALSE, 0, ready) BY <1>3
  <2> HIDE DEF d
  <2>2. "reset" \in Commands BY DEF Commands
  <2>3. AskedFor(d, "reset", FALSE, 0, ready) BY <1>2, <2>1, <2>2, AskAny, Zenon
  <2> QED BY <2>3 DEF AskedFor, Waits, d
<1>5. \A k \in DOMAIN m : k \in DOMAIN n /\ n[k] = m[k] /\ k # i BY <1>2, <1>4
<1>6. i \in DOMAIN n /\ \A k \in DOMAIN n : k \in DOMAIN m \/ k = i BY <1>2, <1>4
<1>7. ~ RestIn(m, jobs) BY DEF Due, RestIn, Resting, In, Busy, Current, Settled
<1>8. worker > 0 /\ state[worker] # "stopped" => Opens(n[i])
  <2>1. worker > 0 => state[worker] \in WorkerStates BY Parts
  <2>2. worker > 0 /\ state[worker] # "stopped" => ready \/ Busy BY <2>1 DEF WorkerStates, LastWorker, In
  <2> QED BY <1>4, <2>2 DEF Opens
<1>9. Resting(jobs) => Busy BY DEF Resting, Busy
<1>10. e \in Nat /\ e > epoch BY <1>2, <1>3
<1> HIDE DEF m, n, i, c, e
<1>11. Names(n, c, jobs)
  <2>1. \A k \in DOMAIN m : Opens(m[k]) => m[k].command \notin {"repl", "reset"} BY <1>1, <1>3 DEF Names
  <2> QED BY <1>1, <1>3, <1>4, <1>5, <1>6, <2>1 DEF Names
<1>12. Knows(n, c, 0, e) BY <1>3, <1>4, <1>6 DEF Knows
<1>13. Rests(n, c, jobs, worker, worker, 0, e)
  <2> SUFFICES ASSUME Resting(jobs) PROVE Rests(n, c, jobs, worker, worker, 0, e) BY DEF Rests
  <2>1. jobs[1].request \in DOMAIN m /\ m[jobs[1].request].command = "restore" /\ jobs[1].begun <= epoch
    BY <1>1 DEF Rests
  <2>2. jobs[1].request \in DOMAIN n /\ n[jobs[1].request].command = "restore" BY <1>5, <2>1
  <2>3. jobs[1].begun \in Nat
    <3>1. 1 \in DOMAIN jobs /\ jobs[1] \in Jobs BY <1>2 DEF Resting
    <3> QED BY <3>1 DEF Jobs
  <2>4. jobs[1].begun <= e /\ jobs[1].begun # e BY <1>2, <1>10, <2>1, <2>3
  <2> QED BY <1>3, <1>4, <1>9, <2>2, <2>4 DEF Rests
<1>14. Agrees(n, c, jobs, worker, worker, 0, session, state)
  <2>1. ~ EntryIn(n, c) BY <1>3 DEF EntryIn
  <2>2. ~ RestIn(n, jobs) BY <1>1, <1>5, <1>7 DEF RestIn, Rests
  <2> QED BY <1>3, <1>8, <2>1, <2>2 DEF Agrees
<1>15. Adds(n, c, worker, worker, 0) BY <1>3 DEF Adds, EntryIn
<1> QED BY <1>3, <1>11, <1>12, <1>13, <1>14, <1>15 DEF ConsoleInv, n, c, e

-----------------------------------------------------------------------------
(* A request is answered: an entry or a restore with the session there is  *)
(* then, a reset once that is empty.                                       *)
LEMMA RepliedTo ==
  ASSUME DataInv, ConsoleInv, ~ Due, UNCHANGED <<pageVars, jobVars, consoleVars>>,
         NEW i \in Range(net.sent), NEW status \in {"answered", "failed"}, NEW entries \in Nat,
         net' = Reply(i, status, entries),
         \/ session' = session /\ net.asked[i].command # "reset"
            /\ (status = "answered" => net.asked[i].command \in {"check", "invalidate", "query"})
         \/ status = "answered" /\ net.asked[i].command \in {"repl", "restore"} /\ session'[worker] = entries
            /\ (net.asked[i].command = "repl" => entries = session[worker] + 1)
         \/ status = "answered" /\ net.asked[i].command = "reset" /\ session'[worker] = 0
  PROVE  ConsoleInv'
<1> DEFINE m == net.asked
           n == net'.asked
           s == session'
<1>1. /\ Names(m, console, jobs) /\ Knows(m, console, record, epoch)
      /\ Rests(m, console, jobs, worker, at, record, epoch)
      /\ Agrees(m, console, jobs, worker, at, record, session, state)
  BY ConsoleParts
<1>2. worker \in Nat /\ net \in Nets /\ i \in DOMAIN m /\ m[i].status = "sent" /\ worker > 0
  <2>1. net.sent # <<>> BY NothingSent
  <2> QED BY <2>1, Parts
<1>3. /\ DOMAIN n = DOMAIN m /\ n[i].command = m[i].command
      /\ n[i].entries = entries /\ n[i].status = status
      /\ \A j \in DOMAIN m : j # i => n[j] = m[j]
  <2> DEFINE d == net'
  <2>1. d = Reply(i, status, entries) OBVIOUS
  <2> HIDE DEF d
  <2>2. status \in Statuses BY DEF Statuses
  <2>3. net \in Nets /\ i \in DOMAIN net.asked BY <1>2
  <2> QED BY <2>1, <2>2, <2>3, ReplyEffect DEF d
<1>4. UNCHANGED <<worker, state, jobs, console, record, at, epoch>> BY DEF pageVars, jobVars, consoleVars
<1>5. ~ EntryIn(m, console) /\ ~ RestIn(m, jobs)
  BY DEF Due, EntryIn, RestIn, Resting, In, Busy, Current, Settled
<1>6. \/ s = session /\ m[i].command # "reset"
         /\ (status = "answered" => m[i].command \in {"check", "invalidate", "query"})
      \/ status = "answered" /\ m[i].command \in {"repl", "restore"} /\ s[worker] = entries
         /\ (m[i].command = "repl" => entries = session[worker] + 1)
      \/ status = "answered" /\ m[i].command = "reset" /\ s[worker] = 0
  OBVIOUS
<1> HIDE DEF m, n, s
<1>7. Opens(m[i]) /\ ~ Opens(n[i]) BY <1>2, <1>3 DEF Opens
<1>8. Names(n, console, jobs) BY <1>1, <1>3, <1>7 DEF Names
<1>9. Knows(n, console, record, epoch) BY <1>1, <1>3 DEF Knows
<1>10. Rests(n, console, jobs, worker, at, record, epoch)
  <2>1. Resting(jobs) /\ console.phase = "reset" => console.on # i /\ console.on \in DOMAIN m
    BY <1>1, <1>2 DEF Rests, Knows
  <2> QED BY <1>1, <1>3, <2>1 DEF Rests
<1>11. Agrees(n, console, jobs, worker, at, record, s, state)
  <2>1. EntryIn(n, console) => console.on = i /\ status = "answered" /\ m[i].command = "repl"
    BY <1>1, <1>3, <1>5 DEF EntryIn, Knows
  <2>2. RestIn(n, jobs) => jobs[1].request = i /\ status = "answered" /\ m[i].command = "restore"
    BY <1>1, <1>3, <1>5 DEF RestIn, Rests
  <2>3. EntryIn(n, console) => n[console.on].entries = s[worker] BY <1>3, <1>6, <2>1
  <2>4. RestIn(n, jobs) => n[jobs[1].request].entries = s[worker] BY <1>3, <1>6, <2>2
  <2>5. ASSUME ~ EntryIn(n, console), ~ RestIn(n, jobs)
        PROVE  /\ at # worker => s[worker] = 0
               /\ at = worker /\ state[worker] # "stopped" =>
                    record = s[worker] \/ (console.phase = "reset" /\ Opens(n[console.on]))
    <3>1. CASE s = session /\ m[i].command # "reset"
      <4>1. console.phase = "reset" => console.on # i /\ console.on \in DOMAIN m BY <1>1, <3>1 DEF Knows
      <4> QED BY <1>1, <1>2, <1>3, <1>5, <3>1, <4>1 DEF Agrees
    <3>2. CASE status = "answered" /\ m[i].command = "repl"
      <4>1. console.phase = "entry" /\ console.on = i BY <1>1, <1>2, <1>7, <3>2 DEF Names
      <4> QED BY <1>3, <2>5, <3>2, <4>1 DEF EntryIn
    <3>3. CASE status = "answered" /\ m[i].command = "restore"
      <4>1. Resting(jobs) /\ jobs[1].request = i BY <1>1, <1>2, <1>7, <3>3 DEF Names
      <4> QED BY <1>3, <2>5, <3>3, <4>1 DEF RestIn
    <3>4. CASE m[i].command = "reset" /\ s[worker] = 0
      <4>1. console.phase = "reset" BY <1>1, <1>2, <1>7, <3>4 DEF Names
      <4>2. record = 0 BY <1>1, <4>1 DEF Knows
      <4> QED BY <3>4, <4>2
    <3> QED BY <1>6, <3>1, <3>2, <3>3, <3>4
  <2> QED BY <1>2, <2>1, <2>2, <2>3, <2>4, <2>5 DEF Agrees
<1>12. Adds(n, console, worker, at, record)
  <2> SUFFICES ASSUME EntryIn(n, console) PROVE entries = IF at = worker THEN record + 1 ELSE 1
    <3>1. EntryIn(n, console) => console.on = i BY <1>1, <1>3, <1>5 DEF EntryIn, Knows
    <3> QED BY <1>3, <3>1 DEF Adds
  <2>1. console.on = i /\ status = "answered" /\ m[i].command = "repl" /\ console.phase = "entry"
    BY <1>1, <1>3, <1>5 DEF EntryIn, Knows
  <2>2. entries = session[worker] + 1 BY <1>6, <2>1
  <2>3. at # worker => session[worker] = 0 BY <1>1, <1>2, <1>5 DEF Agrees
  <2>4. state[worker] # "stopped"
    <3>1. net.sent # <<>> BY NothingSent
    <3> QED BY <3>1, Parts
  <2>5. at = worker => session[worker] = record BY <1>1, <1>2, <1>5, <2>1, <2>4 DEF Agrees
  <2> QED BY <2>2, <2>3, <2>5
<1> QED BY <1>4, <1>8, <1>9, <1>10, <1>11, <1>12 DEF ConsoleInv, n, s

-----------------------------------------------------------------------------
(* Every step, and what follows of the record.                             *)

LEMMA ConsoleIdle ==
  ASSUME DataInv, ConsoleInv, net' = net, jobs' = jobs, Stays
  PROVE  ConsoleInv'
BY BesideSame, JobBesideSame, BesideConsole

LEMMA ConsoleMaintain ==
  ASSUME DataInv, ConsoleInv, Decline \/ WorkerStopped \/ Rebuilt \/ RestoreSkipped
  PROVE  ConsoleInv'
<1>1. /\ Busy /\ Current.phase # "restoring" /\ net' = net
      /\ Stays
      /\ \E phase \in Phases \ {"restoring"} : jobs' = Goes(phase)
  BY DEF Decline, WorkerStopped, Rebuilt, RestoreSkipped, RestoreTurn, Turn, In, Stays, pageVars, consoleVars,
         workerVars, Phases
<1>2. jobs \in Seq(Jobs) /\ epoch \in Nat BY DataParts
<1>3. JobBeside
  <2>1. PICK phase \in Phases \ {"restoring"} : jobs' = Goes(phase) BY <1>1
  <2> QED BY <1>1, <1>2, <2>1, JobBesideGoes
<1> QED BY <1>1, <1>3, BesideSame, BesideConsole

LEMMA ConsoleReplace ==
  ASSUME DataInv, ConsoleInv, Replace
  PROVE  ConsoleInv'
<1>1. Busy /\ Current.phase = "asked" /\ net.sent = <<>> /\ net' = Drop("failed") /\ UNCHANGED consoleVars
  BY DEF Replace, Turn, In, Drained
<1>2. CASE Known
  <2>1. Starts BY <1>2 DEF Replace
  <2> QED BY <1>1, <2>1, WorkerBegins
<1>3. CASE ~ Known
  <2>1. jobs' = Goes("version") /\ state' = Ended /\ UNCHANGED <<worker, workerVars>> BY <1>3 DEF Replace
  <2>2. worker \in Nat /\ state \in Seq(WorkerStates) /\ Len(state) = worker /\ jobs \in Seq(Jobs) /\ epoch \in Nat
    BY Parts, DataParts
  <2>3. worker > 0 => state'[worker] = "stopped"
    <3> SUFFICES ASSUME worker > 0 PROVE state'[worker] = "stopped" OBVIOUS
    <3>1. state' = [state EXCEPT ![worker] = "stopped"] BY <2>1 DEF Ended
    <3> QED BY <2>2, <3>1
  <2>4. JobBeside BY <1>1, <2>1, <2>2, JobBesideGoes DEF Phases
  <2>5. Stays BY <1>1, <2>1, <2>3 DEF Stays, consoleVars, workerVars
  <2> QED BY <1>1, <2>3, <2>4, <2>5, BesideDrop, BesideConsole
<1> QED BY <1>2, <1>3

LEMMA ConsoleStart ==
  ASSUME DataInv, ConsoleInv, StartWorker
  PROVE  ConsoleInv'
<1>1. Busy /\ Current.phase = "version" /\ Starts /\ net' = net /\ UNCHANGED consoleVars
  BY DEF StartWorker, In
<1>2. net.sent = <<>> BY <1>1, Parts DEF In
<1> QED BY <1>1, <1>2, WorkerBegins

LEMMA ConsoleReady ==
  ASSUME DataInv, ConsoleInv, WorkerReady
  PROVE  ConsoleInv'
<1>1. /\ Busy /\ Current.phase # "restoring" /\ state[worker] = "starting"
      /\ UNCHANGED <<worker, consoleVars, workerVars>>
  BY DEF WorkerReady, In
<1>2. Stays BY <1>1 DEF Stays, consoleVars, workerVars
<1>3. jobs \in Seq(Jobs) /\ epoch \in Nat /\ Asked \in Nat BY Parts, DataParts
<1>4. CASE Current.recheck
  <2> DEFINE i == Asked + 1
  <2>1. net' = Ask("check", TRUE, 0, TRUE) /\ jobs' = Works("rebuild", i) /\ i \in Nat BY <1>3, <1>4 DEF WorkerReady
  <2> HIDE DEF i
  <2>2. JobBeside BY <1>1, <1>3, <2>1, JobBesideGoes DEF Phases
  <2>3. Beside BY <1>2, <2>1, BesideAsk
  <2> QED BY <2>2, <2>3, BesideConsole
<1>5. CASE ~ Current.recheck
  <2>1. jobs' = Goes("done") /\ (net' = Ask("check", FALSE, 0, TRUE) \/ net' = net) BY <1>5 DEF WorkerReady
  <2>2. JobBeside BY <1>1, <1>3, <2>1, JobBesideGoes DEF Phases
  <2>3. CASE net' = Ask("check", FALSE, 0, TRUE) BY <1>2, <2>2, <2>3, BesideAsk, BesideConsole
  <2>4. CASE net' = net BY <1>2, <2>2, <2>4, BesideSame, BesideConsole
  <2> QED BY <2>1, <2>3, <2>4
<1> QED BY <1>4, <1>5

LEMMA ConsoleAsked ==
  ASSUME DataInv, ConsoleInv, Stays, jobs' = jobs, NEW command \in {"check", "invalidate", "query"},
         net' = Ask(command, FALSE, 0, ready)
  PROVE  ConsoleInv'
<1>1. ready \in BOOLEAN BY Parts
<1>2. Beside BY <1>1, BesideAsk
<1> QED BY <1>2, JobBesideSame, BesideConsole

LEMMA ConsoleStopped ==
  ASSUME DataInv, ConsoleInv, NEW status \in {"failed", "expired"}, Stop(status),
         UNCHANGED <<worker, consoleVars, workerVars>>, JobBeside
  PROVE  ConsoleInv'
<1>1. state' = [state EXCEPT ![worker] = "stopped"] /\ net' = Drop(status) BY DEF Stop
<1>2. worker \in Nat /\ state \in Seq(WorkerStates) /\ Len(state) = worker BY Parts
<1>3. worker > 0 => state'[worker] = "stopped" BY <1>1, <1>2
<1>4. Stays BY <1>3 DEF Stays, consoleVars, workerVars
<1> QED BY <1>1, <1>3, <1>4, BesideDrop, BesideConsole

LEMMA ConsoleReads ==
  ASSUME DataInv, ConsoleInv, ReaderChecks \/ ReaderAsks \/ Focus \/ Press \/ \E c \in DOMAIN checks : SameVersion(c) \/ NewVersion(c)
  PROVE  ConsoleInv'
<1>1. Stays
  BY DEF ReaderChecks, ReaderAsks, Focus, Press, SameVersion, NewVersion, Stays, pageVars, consoleVars, workerVars
<1>2. JobData BY Parts
<1>3. CASE Focus \/ Press BY <1>1, <1>3, ConsoleIdle DEF Focus, Press, jobVars
<1>4. CASE ReaderAsks
  <2>1. jobs' = jobs /\ (net' = Ask("invalidate", FALSE, 0, ready) \/ net' = Ask("query", FALSE, 0, ready))
    BY <1>4 DEF ReaderAsks, jobVars
  <2> QED BY <1>1, <2>1, ConsoleAsked
<1>5. CASE ReaderChecks
  <2>1. CASE halted
    <3>1. Run(Job("retry", 0, FALSE)) /\ net' = net BY <1>5, <2>1 DEF ReaderChecks
    <3>2. JobBeside BY <1>2, <3>1, JobBesideRun DEF Kinds
    <3> QED BY <1>1, <3>1, <3>2, BesideSame, BesideConsole
  <2>2. CASE ~ halted
    <3>1. jobs' = jobs /\ (net' = Ask("check", FALSE, 0, ready) \/ net' = net) BY <1>5, <2>2 DEF ReaderChecks, jobVars
    <3> QED BY <1>1, <3>1, ConsoleAsked, ConsoleIdle
  <2> QED BY <2>1, <2>2
<1>6. ASSUME NEW c \in DOMAIN checks, SameVersion(c) PROVE ConsoleInv'
  <2>1. jobs' = jobs /\ (net' = Ask("check", FALSE, 0, ready) \/ net' = net) BY <1>6 DEF SameVersion, jobVars
  <2> QED BY <1>1, <2>1, ConsoleAsked, ConsoleIdle
<1>7. ASSUME NEW c \in DOMAIN checks, NewVersion(c) PROVE ConsoleInv'
  <2>1. checks[c].on \in Nat
    <3>1. checks[c] \in Calls BY DataParts
    <3> QED BY <3>1 DEF Calls
  <2>2. Run(Job("update", checks[c].on, TRUE)) /\ net' = net BY <1>7 DEF NewVersion
  <2>3. JobBeside BY <1>2, <2>1, <2>2, JobBesideRun DEF Kinds
  <2> QED BY <1>1, <2>2, <2>3, BesideSame, BesideConsole
<1> QED BY <1>3, <1>4, <1>5, <1>6, <1>7

LEMMA ConsoleReplies ==
  ASSUME DataInv, ConsoleInv, ~ Due, NEW i \in DOMAIN net.asked, Answer(i) \/ Refuse(i)
  PROVE  ConsoleInv'
<1>1. UNCHANGED <<pageVars, jobVars, consoleVars>> /\ i \in Range(net.sent)
  BY DEF Answer, Refuse, Answerable
<1>2. worker > 0 /\ session \in Seq(Nat) /\ Len(session) = worker /\ net.asked[i] \in Requests
  <2>1. net.sent # <<>> BY <1>1, NothingSent
  <2>2. net.asked \in Seq(Requests) BY Parts DEF Nets
  <2> QED BY <2>1, <2>2, Parts DEF DataInv, Data, WorkerData
<1>3. worker \in DOMAIN session /\ session[worker] \in Nat /\ net.asked[i].entries \in Nat
  <2>1. worker \in Nat BY Parts
  <2>2. net.asked[i].entries \in Nat BY <1>2 DEF Requests
  <2> QED BY <1>2, <2>1, <2>2
<1>4. CASE Refuse(i)
  <2>1. net' = Reply(i, "failed", 0) /\ session' = session /\ net.asked[i].command # "reset"
    BY <1>4 DEF Refuse, workerVars
  <2> QED BY <1>1, <2>1, RepliedTo
<1>5. CASE Answer(i)
  <2> DEFINE command == net.asked[i].command
  <2>1. CASE command = "check"
    <3>1. net' = Reply(i, "answered", 0) /\ session' = session BY <1>5, <2>1 DEF Answer
    <3> QED BY <1>1, <2>1, <3>1, RepliedTo
  <2>2. CASE command = "repl" /\ proven[worker]
    <3> DEFINE k == session[worker] + 1
    <3>1. session' = [session EXCEPT ![worker] = session[worker] + 1] /\ net' = Reply(i, "answered", k)
      BY <1>5, <2>2 DEF Answer
    <3>2. session'[worker] = k /\ k = session[worker] + 1 /\ k \in Nat BY <1>2, <1>3, <3>1
    <3> HIDE DEF k
    <3> QED BY <1>1, <2>2, <3>1, <3>2, RepliedTo
  <2>3. CASE command = "restore" /\ proven[worker]
    <3> DEFINE k == net.asked[i].entries
    <3>1. session' = [session EXCEPT ![worker] = k] /\ net' = Reply(i, "answered", k) BY <1>5, <2>3 DEF Answer
    <3>2. session'[worker] = k /\ k \in Nat BY <1>2, <1>3, <3>1
    <3> HIDE DEF k
    <3> QED BY <1>1, <2>3, <3>1, <3>2, RepliedTo
  <2>4. CASE command \in {"repl", "restore"} /\ ~ proven[worker]
    <3>1. net' = Reply(i, "failed", 0) /\ session' = session BY <1>5, <2>4 DEF Answer, workerVars
    <3>2. command # "reset" BY <2>4
    <3> QED BY <1>1, <3>1, <3>2, RepliedTo
  <2>5. CASE command = "reset"
    <3>1. session' = [session EXCEPT ![worker] = 0] /\ net' = Reply(i, "answered", 0) BY <1>5, <2>5 DEF Answer
    <3>2. session'[worker] = 0 BY <1>2, <1>3, <3>1
    <3> QED BY <1>1, <2>5, <3>1, <3>2, RepliedTo
  <2>6. CASE command \in {"invalidate", "query"}
    <3>1. net' = Reply(i, "answered", 0) /\ session' = session BY <1>5, <2>6 DEF Answer, workerVars
    <3>2. command # "reset" BY <2>6
    <3> QED BY <1>1, <2>6, <3>1, <3>2, RepliedTo
  <2>7. command \in Commands BY <1>2 DEF Requests
  <2>8. command \in {"repl", "restore"} => proven[worker] \/ ~ proven[worker] OBVIOUS
  <2> QED BY <2>1, <2>2, <2>3, <2>4, <2>5, <2>6, <2>7 DEF Commands, Checking
<1> QED BY <1>4, <1>5

LEMMA ConsoleNext == DataInv /\ LastWorker /\ ConsoleInv /\ [Next]_vars => ConsoleInv'
<1> SUFFICES ASSUME DataInv, LastWorker, ConsoleInv, [Next]_vars PROVE ConsoleInv' OBVIOUS
<1>1. CASE UNCHANGED vars
  <2>1. net' = net /\ jobs' = jobs /\ Stays BY <1>1 DEF vars, pageVars, jobVars, consoleVars, workerVars, Stays
  <2> QED BY <2>1, ConsoleIdle
<1>2. CASE Continue
  BY <1>2, EntryRecorded, ResetDone, ConsoleReplace, ConsoleMaintain, RestoreAsked, RestoreDone, FinishConsole
  DEF Continue
<1>3. CASE ~ Due /\ Event
  <2>1. CASE StartWorker BY <2>1, ConsoleStart
  <2>2. CASE WorkerReady BY <2>2, ConsoleReady
  <2>3. CASE Enter BY <2>3, Entered
  <2>4. CASE Reset BY <1>3, <2>4, ResetAsked
  <2>5. CASE ReaderChecks \/ ReaderAsks \/ Focus \/ Press \/ \E c \in DOMAIN checks : SameVersion(c) \/ NewVersion(c)
    BY <2>5, ConsoleReads
  <2>6. ASSUME NEW i \in DOMAIN net.asked, Answer(i) \/ Refuse(i) PROVE ConsoleInv'
    BY <1>3, <2>6, ConsoleReplies
  <2>7. CASE Tick \/ \E i \in DOMAIN net.asked : Advance(i)
    <3>1. Timed BY <2>7, Parts, TickEffect
    <3>2. Stays /\ jobs' = jobs
      BY <2>7 DEF Tick, Advance, Stays, pageVars, jobVars, consoleVars, workerVars
    <3> QED BY <3>1, <3>2, BesideTimed, JobBesideSame, BesideConsole
  <2>8. CASE Fault
    <3>1. Stop("failed") /\ UNCHANGED <<worker, consoleVars, workerVars>> BY <2>8 DEF Fault
    <3>2. JobBeside
      <4>1. CASE replaced
        <5>1. jobs' = jobs BY <2>8, <4>1 DEF Fault, jobVars
        <5> QED BY <5>1, JobBesideSame
      <4>2. CASE ~ replaced
        <5>1. PICK recheck \in BOOLEAN : Run(Job("fault", worker, recheck)) BY <2>8, <4>2 DEF Fault
        <5> QED BY <5>1, Parts, JobBesideRun DEF Kinds
      <4> QED BY <4>1, <4>2
    <3> QED BY <3>1, <3>2, ConsoleStopped
  <2>9. CASE Lost \/ TimesOut
    <3>1. (Stop("failed") \/ Stop("expired")) /\ UNCHANGED <<worker, consoleVars, workerVars>> /\ jobs' = jobs
      BY <2>9 DEF Lost, TimesOut, Expire, jobVars
    <3> QED BY <3>1, JobBesideSame, ConsoleStopped
  <2> QED BY <1>3, <2>1, <2>2, <2>3, <2>4, <2>5, <2>6, <2>7, <2>8, <2>9 DEF Event, Fetched, Reader, Replies
<1> QED BY <1>1, <1>2, <1>3 DEF Next

LEMMA ConsoleFirst == Init => LastWorker /\ ConsoleInv
<1> SUFFICES ASSUME Init PROVE LastWorker /\ ConsoleInv OBVIOUS
<1>1. worker = 0 /\ DOMAIN net.asked = {} /\ console.phase = "idle" /\ jobs[1].phase = "asked" BY DEF Init
<1>2. ~ Resting(jobs) BY <1>1 DEF Resting
<1> QED BY <1>1, <1>2 DEF LastWorker, ConsoleInv, Names, Knows, Rests, Agrees, Adds, EntryIn, RestIn

(* The record the console would restore is the session on the worker.      *)
THEOREM TheRecordIsTheSession == Spec => []RecordMatches
<1>1. Init => DataInv /\ LastWorker /\ ConsoleInv BY DataFirst, ConsoleFirst
<1>2. DataInv /\ LastWorker /\ ConsoleInv /\ [Next]_vars => (DataInv /\ LastWorker /\ ConsoleInv)'
  BY DataNext, LastWorkerNext, ConsoleNext
<1>3. DataInv /\ ConsoleInv => RecordMatches
  <2> SUFFICES ASSUME DataInv, ConsoleInv, console.phase = "idle", at = worker, worker > 0, ready, ~ Busy
               PROVE  record = session[worker]
    BY DEF RecordMatches
  <2>1. ~ EntryIn(net.asked, console) /\ ~ RestIn(net.asked, jobs) BY DEF EntryIn, RestIn, Resting, Busy
  <2>2. state[worker] # "stopped" BY Parts
  <2> QED BY <2>1, <2>2, ConsoleParts DEF Agrees
<1> QED BY <1>1, <1>2, <1>3, PTL DEF Spec

(* An entry's answer adds to the record of its worker's session.           *)
THEOREM TheRecordGrows == Spec => EntryExtends
<1> DEFINE extends == EntrySettled /\ net.asked[console.on].status = "answered" /\ at = worker => record' = record + 1
<1>1. Init => DataInv /\ LastWorker /\ ConsoleInv BY DataFirst, ConsoleFirst
<1>2. DataInv /\ LastWorker /\ ConsoleInv /\ [Next]_vars => (DataInv /\ LastWorker /\ ConsoleInv)'
  BY DataNext, LastWorkerNext, ConsoleNext
<1>3. ConsoleInv => extends
  <2> SUFFICES ASSUME ConsoleInv, EntrySettled, net.asked[console.on].status = "answered", at = worker
               PROVE  record' = record + 1
    OBVIOUS
  <2>1. console.phase = "entry" /\ console.begun = epoch BY ConsoleParts DEF EntrySettled, Knows
  <2>2. net.asked[console.on].entries = record + 1 BY <2>1, ConsoleParts DEF Adds, EntryIn
  <2> QED BY <2>1, <2>2 DEF EntrySettled
<1>4. Spec => [](DataInv /\ LastWorker /\ ConsoleInv) BY <1>1, <1>2, PTL DEF Spec
<1>5. Spec => [][extends]_vars BY <1>3, <1>4, PTL
<1> QED BY <1>5 DEF EntryExtends
=============================================================================
