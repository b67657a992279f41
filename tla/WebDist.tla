------------------------------- MODULE WebDist -------------------------------
(***************************************************************************)
(* The build of web/dist under the lock of BuildLock, and its stamp: the   *)
(* recipe of web/dist/cubical.mjs (Makefile) and the stamp it clears and   *)
(* writes (tools/build-stamp.mjs), while sources are edited at any time.   *)
(*                                                                         *)
(* Files are abstracted to versions.  The sources are one version, but the *)
(* compiler reads them over time: what it compiles is a pair, of the       *)
(* version of what it read first and of what it read last.  There are two  *)
(* outputs, written one after the other, cubical.mjs and cubical.wasm.     *)
(* Equal hashes mean equal files.  Saving a stamp renames a whole file     *)
(* into place and is one step; so is hashing the outputs before it, which  *)
(* only builds write.                                                      *)
(***************************************************************************)
EXTENDS BuildLock

CONSTANT Versions   \* the versions of the sources, in the order of edits

ASSUME WebDistAssumption == Versions \subseteq Nat

VARIABLES
  sources,    \* the version of the sources now
  outputs,    \* what each output was compiled from; Missing when removed
  stamp,      \* the versions recorded, or NoStamp
  step,       \* what each build does next
  hashed,     \* the version each build hashed
  read        \* what each build's compiler read

distVars == <<sources, outputs, stamp, step, hashed, read>>
vars == <<lockVars, distVars>>

Missing == <<>>
NoStamp == [sources |-> 0, outputs |-> <<>>]

DistInit ==
  /\ Init
  /\ sources \in Versions
  /\ outputs = [mjs |-> Missing, wasm |-> Missing]
  /\ stamp = NoStamp
  /\ step = [b \in Builders |-> "check"]
  /\ hashed = [b \in Builders |-> 0]
  /\ read = [b \in Builders |-> Missing]

(* staleness: what every runner asks before it loads web/dist.             *)
Stale == stamp = NoStamp \/ stamp.sources # sources \/ stamp.outputs # outputs

(* A step of the build that b started.  Any of them may fail or be killed, *)
(* which ends the build: EndBuild.                                         *)
Recipe(b, here, next) ==
  /\ b \in Running
  /\ step[b] = here
  /\ step' = [step EXCEPT ![b] = next]
  /\ UNCHANGED lockVars

(* check-kernel: a stale build's cubical.mjs is removed, so that make      *)
(* builds it; a fresh one is built when it is older than a source by its   *)
(* file time, or else the build ends here.                                 *)
Check(b) ==
  /\ Recipe(b, "check", "invalidate")
  /\ outputs' = IF Stale THEN [outputs EXCEPT !.mjs = Missing] ELSE outputs
  /\ UNCHANGED <<sources, stamp, hashed, read>>

Invalidate(b) ==
  /\ Recipe(b, "invalidate", "hash")
  /\ stamp' = NoStamp
  /\ UNCHANGED <<sources, outputs, hashed, read>>

HashSources(b) ==
  /\ Recipe(b, "hash", "read")
  /\ hashed' = [hashed EXCEPT ![b] = sources]
  /\ UNCHANGED <<sources, outputs, stamp, read>>

ReadFirst(b) ==
  /\ Recipe(b, "read", "readOn")
  /\ read' = [read EXCEPT ![b] = <<sources, sources>>]
  /\ UNCHANGED <<sources, outputs, stamp, hashed>>

ReadOn(b) ==
  /\ Recipe(b, "readOn", "mjs")
  /\ read' = [read EXCEPT ![b][2] = sources]
  /\ UNCHANGED <<sources, outputs, stamp, hashed>>

WriteModule(b) ==
  /\ Recipe(b, "mjs", "wasm")
  /\ outputs' = [outputs EXCEPT !.mjs = read[b]]
  /\ UNCHANGED <<sources, stamp, hashed, read>>

WriteWasm(b) ==
  /\ Recipe(b, "wasm", "stamp")
  /\ outputs' = [outputs EXCEPT !.wasm = read[b]]
  /\ UNCHANGED <<sources, stamp, hashed, read>>

(* Mutant: the sources are hashed when the stamp is written.               *)
HashedLate(b) == sources
Hashed(b) == hashed[b]

WriteStamp(b) ==
  /\ Recipe(b, "stamp", "end")
  /\ stamp' = [sources |-> Hashed(b), outputs |-> outputs]
  /\ UNCHANGED <<sources, outputs, hashed, read>>

Edit ==
  /\ sources' \in Versions
  /\ UNCHANGED <<lockVars, outputs, stamp, step, hashed, read>>

Build(b) ==
  \/ Check(b) \/ Invalidate(b) \/ HashSources(b) \/ ReadFirst(b) \/ ReadOn(b)
  \/ WriteModule(b) \/ WriteWasm(b) \/ WriteStamp(b)

DistNext ==
  \/ LockNext /\ UNCHANGED distVars
  \/ \E b \in Builders : Build(b)
  \/ Edit

DistSpec == DistInit /\ [][DistNext]_vars

(* Sources whose edits are not undone.                                     *)
Forwards == sources' >= sources
ForwardSpec == DistInit /\ [][DistNext /\ Forwards]_vars

-----------------------------------------------------------------------------
(* A build that no runner refuses was compiled from the sources there are: *)
(* both outputs, all of them, whatever was edited or killed while the      *)
(* builds ran.                                                             *)
FreshMeansBuilt ==
  ~ Stale => outputs = [mjs |-> <<sources, sources>>, wasm |-> <<sources, sources>>]
=============================================================================
