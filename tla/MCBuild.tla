------------------------------- MODULE MCBuild -------------------------------
(* The lock of three builders, or the builds of two of them under it with  *)
(* sources edited at any time.                                             *)
EXTENDS WebDist

CONSTANT late   \* the builder that only the first part has

VARIABLE part

BuildInit == DistInit /\ part \in {"lock", "dist"} /\ (part = "lock" => sources = 1)

BuildNext ==
  /\ UNCHANGED part
  /\ \/ part = "lock" /\ LockNext /\ UNCHANGED distVars
     \/ part = "dist" /\ DistNext /\ Forwards /\ pc'[late] = "idle"

FairSteps(b) == part = "lock" /\ Steps(b) /\ ~ Start(b) /\ UNCHANGED <<distVars, part>>

BuildSpec ==
  BuildInit /\ [][BuildNext]_<<vars, part>> /\ \A b \in Builders : WF_<<vars, part>>(FairSteps(b))

(* Every build that was started ends, having built or with an error, even  *)
(* when a lock or a recovery is left behind that nobody removes.           *)
LockBuildersEnd == part = "lock" => EveryBuilderEnds
=============================================================================
