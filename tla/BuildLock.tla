------------------------------ MODULE BuildLock ------------------------------
(***************************************************************************)
(* The lock of web/dist (tools/build-stamp.mjs): a directory, made         *)
(* atomically, that holds a file with its owner's process id, and a second *)
(* such lock under which the lock of an exited owner is taken over.        *)
(*                                                                         *)
(* A builder is a process started as "build-stamp.mjs locked -- make       *)
(* wasm-locked", which runs make as a child and waits for it.  Every call  *)
(* to the file system is a step of its own, and so is every question       *)
(* whether a process is alive; a removal unlinks the file and then the     *)
(* directory.  A process is killed at any step.  Process ids are not used  *)
(* again.                                                                  *)
(***************************************************************************)
EXTENDS Integers

CONSTANTS
  Builders,   \* the processes that build
  Nobody,     \* no owner is recorded
  Orphans,    \* whether a killed builder may leave its build running
  MaxWaits    \* sleeps before a builder gives up (20 minutes of them)

ASSUME BuildLockAssumption ==
  /\ Nobody \notin Builders
  /\ Orphans \in BOOLEAN
  /\ MaxWaits \in Nat

VARIABLES
  lock,       \* web/dist/.build-lock
  recovery,   \* web/dist/.build-lock-recovery
  pc,         \* what each builder does next
  seen,       \* the owner each builder read last
  waits,      \* how often each builder slept
  build       \* each builder's child process

lockVars == <<lock, recovery, pc, seen, waits, build>>

Directory(owner) == [exists |-> TRUE, owner |-> owner]
Absent == [exists |-> FALSE, owner |-> Nobody]
Directories == [exists : BOOLEAN, owner : Builders \cup {Nobody}]

Acquiring  == {"mkdir", "owner", "look", "alive", "sleep"}
Recovering == {"recoverer", "reread", "unlink", "rmdir", "unlinkRecovery", "rmdirRecovery"}
Observing  == {"recover", "lookRecovery", "aliveRecoverer", "rereadRecovery"}
Holding    == {"owner", "spawn", "wait", "release", "rmdirLock"}
Ended      == {"done", "failed", "killed"}

Alive(b) == pc[b] \notin {"idle"} \cup Ended

Init ==
  /\ lock = Absent
  /\ recovery = Absent
  /\ pc = [b \in Builders |-> "idle"]
  /\ seen = [b \in Builders |-> Nobody]
  /\ waits = [b \in Builders |-> 0]
  /\ build = [b \in Builders |-> "none"]

At(b, here, next) == pc[b] = here /\ pc' = [pc EXCEPT ![b] = next]

-----------------------------------------------------------------------------
(* acquire.                                                                *)

Start(b) ==
  /\ At(b, "idle", "mkdir")
  /\ UNCHANGED <<lock, recovery, seen, waits, build>>

MakeLock(b) ==
  /\ IF lock.exists
     THEN At(b, "mkdir", "look") /\ UNCHANGED lock
     ELSE At(b, "mkdir", "owner") /\ lock' = Directory(Nobody)
  /\ UNCHANGED <<recovery, seen, waits, build>>

WriteOwner(b) ==
  /\ At(b, "owner", "spawn")
  /\ lock' = Directory(b)
  /\ UNCHANGED <<recovery, seen, waits, build>>

(* No owner, or no file any more, is waited for like a live owner.         *)
Look(b) ==
  /\ At(b, "look", IF lock.owner = Nobody THEN "sleep" ELSE "alive")
  /\ seen' = [seen EXCEPT ![b] = lock.owner]
  /\ UNCHANGED <<lock, recovery, waits, build>>

AskOwner(b) ==
  /\ At(b, "alive", IF Alive(seen[b]) THEN "sleep" ELSE "recover")
  /\ UNCHANGED <<lock, recovery, seen, waits, build>>

OutOfTime(b) == waits[b] = MaxWaits

Sleep(b) ==
  /\ ~ OutOfTime(b)
  /\ At(b, "sleep", "mkdir")
  /\ waits' = [waits EXCEPT ![b] = @ + 1]
  /\ UNCHANGED <<lock, recovery, seen, build>>

TimeOut(b) ==
  /\ OutOfTime(b)
  /\ At(b, "sleep", "failed")
  /\ UNCHANGED <<lock, recovery, seen, waits, build>>

-----------------------------------------------------------------------------
(* recoverLock, of the exited owner that was seen.                         *)

MakeRecovery(b) ==
  /\ IF recovery.exists
     THEN At(b, "recover", "lookRecovery") /\ UNCHANGED recovery
     ELSE At(b, "recover", "recoverer") /\ recovery' = Directory(Nobody)
  /\ UNCHANGED <<lock, seen, waits, build>>

WriteRecoverer(b) ==
  /\ At(b, "recoverer", "reread")
  /\ recovery' = Directory(b)
  /\ UNCHANGED <<lock, seen, waits, build>>

(* Mutant: the lock is tried again at once, whoever recovers.              *)
TryAgain == "mkdir"

(* Another recovers: it is waited for, but for an exited one, which will   *)
(* never be done, the build fails.                                         *)
AnotherRecovers == "sleep"

LookRecovery(b) ==
  /\ At(b, "lookRecovery", IF recovery.owner = Nobody THEN AnotherRecovers ELSE "aliveRecoverer")
  /\ seen' = [seen EXCEPT ![b] = recovery.owner]
  /\ UNCHANGED <<lock, recovery, waits, build>>

AskRecoverer(b) ==
  /\ At(b, "aliveRecoverer", IF Alive(seen[b]) THEN AnotherRecovers ELSE "rereadRecovery")
  /\ UNCHANGED <<lock, recovery, seen, waits, build>>

RereadRecovery(b) ==
  /\ At(b, "rereadRecovery", IF recovery.owner = seen[b] THEN "failed" ELSE AnotherRecovers)
  /\ UNCHANGED <<lock, recovery, seen, waits, build>>

(* Mutant: the owner is not read again under the recovery's lock.          *)
NeverTaken(b) == TRUE

(* The lock is still the exited owner's.                                   *)
StillAbandoned(b) == lock.owner = seen[b]

Reread(b) ==
  /\ At(b, "reread", IF StillAbandoned(b) THEN "unlink" ELSE "unlinkRecovery")
  /\ UNCHANGED <<lock, recovery, seen, waits, build>>

UnlinkOwner(b) ==
  /\ At(b, "unlink", "rmdir")
  /\ lock' = [lock EXCEPT !.owner = Nobody]
  /\ UNCHANGED <<recovery, seen, waits, build>>

RemoveLock(b) ==
  /\ At(b, "rmdir", "unlinkRecovery")
  /\ lock' = Absent
  /\ UNCHANGED <<recovery, seen, waits, build>>

UnlinkRecoverer(b) ==
  /\ At(b, "unlinkRecovery", "rmdirRecovery")
  /\ recovery' = [recovery EXCEPT !.owner = Nobody]
  /\ UNCHANGED <<lock, seen, waits, build>>

RemoveRecovery(b) ==
  /\ At(b, "rmdirRecovery", "mkdir")
  /\ recovery' = Absent
  /\ UNCHANGED <<lock, seen, waits, build>>

-----------------------------------------------------------------------------
(* withLock: the build is a child, and the lock is released after it.      *)

Spawn(b) ==
  /\ At(b, "spawn", "wait")
  /\ build' = [build EXCEPT ![b] = "running"]
  /\ UNCHANGED <<lock, recovery, seen, waits>>

(* The child succeeds, fails or is killed.                                 *)
EndBuild(b) ==
  /\ build[b] = "running"
  /\ build' = [build EXCEPT ![b] = "ended"]
  /\ UNCHANGED <<lock, recovery, pc, seen, waits>>

(* Mutant: the lock is released without waiting for the build.             *)
NotRunning(b) == TRUE

BuildOver(b) == build[b] = "ended"

Return(b) ==
  /\ BuildOver(b)
  /\ At(b, "wait", "release")
  /\ UNCHANGED <<lock, recovery, seen, waits, build>>

Release(b) ==
  /\ At(b, "release", "rmdirLock")
  /\ lock' = [lock EXCEPT !.owner = Nobody]
  /\ UNCHANGED <<recovery, seen, waits, build>>

Leave(b) ==
  /\ At(b, "rmdirLock", "done")
  /\ lock' = Absent
  /\ UNCHANGED <<recovery, seen, waits, build>>

(* A process is killed; its build is too when both are, and runs on when   *)
(* only the process is.                                                    *)
Kill(b) ==
  /\ Alive(b)
  /\ pc' = [pc EXCEPT ![b] = "killed"]
  /\ \/ build' = [build EXCEPT ![b] = IF @ = "running" THEN "ended" ELSE @]
     \/ Orphans /\ UNCHANGED build
  /\ UNCHANGED <<lock, recovery, seen, waits>>

Steps(b) ==
  \/ Start(b) \/ MakeLock(b) \/ WriteOwner(b) \/ Look(b) \/ AskOwner(b) \/ Sleep(b) \/ TimeOut(b)
  \/ MakeRecovery(b) \/ WriteRecoverer(b) \/ LookRecovery(b) \/ AskRecoverer(b) \/ RereadRecovery(b)
  \/ Reread(b) \/ UnlinkOwner(b) \/ RemoveLock(b) \/ UnlinkRecoverer(b) \/ RemoveRecovery(b)
  \/ Spawn(b) \/ EndBuild(b) \/ Return(b) \/ Release(b) \/ Leave(b)

LockNext == \E b \in Builders : Steps(b) \/ Kill(b)

LockSpec == Init /\ [][LockNext]_lockVars

(* A process that runs goes on and a build ends by itself; neither has to  *)
(* start or be killed.                                                     *)
FairLockSpec == LockSpec /\ \A b \in Builders : WF_lockVars(Steps(b) /\ ~ Start(b))

-----------------------------------------------------------------------------
TypeOK ==
  /\ lock \in Directories /\ recovery \in Directories
  /\ pc \in [Builders -> {"idle"} \cup Acquiring \cup Observing \cup Recovering \cup Holding \cup Ended]
  /\ seen \in [Builders -> Builders \cup {Nobody}]
  /\ waits \in [Builders -> 0 .. MaxWaits]
  /\ build \in [Builders -> {"none", "running", "ended"}]

Running == {b \in Builders : build[b] = "running"}

(* One build of web/dist at a time, whichever builders are killed wherever *)
(* in taking, holding, releasing or recovering the lock.                   *)
OneBuild == \A b, c \in Running : b = c

(* Every build that was started ends, having built or with an error, even  *)
(* when a lock or a recovery is left behind that nobody removes.           *)
EveryBuilderEnds == \A b \in Builders : pc[b] = "mkdir" ~> pc[b] \in Ended

(* The lock implements the exclusion of builds: one begins only when none  *)
(* is running.                                                             *)
E == INSTANCE Exclusion WITH running <- Running
BuildsExclude == E!Spec
=============================================================================
