----------------------------- MODULE MCProofPage -----------------------------
(* ProofPage on small instances, each with the events it asks about.       *)
EXTENDS ProofPage

CONSTANT UpkeepRequests   \* requests without a console

VARIABLE focus

(* The console's session, as workers fail, are lost and are replaced.      *)
SessionReplies == \E i \in DOMAIN net.asked : Answer(i) \/ Refuse(i)
SessionEvent ==
  \/ Fetched \/ WorkerReady
  \/ ReaderChecks \/ Enter \/ Reset
  \/ SessionReplies \/ Fault \/ Lost

(* Maintenance and deadlines, without a console.                           *)
UpkeepEvent ==
  \/ Fetched \/ WorkerReady
  \/ Asked < UpkeepRequests /\ (Press \/ ReaderChecks \/ Focus \/ ReaderAsks)
  \/ Replies \/ Fault \/ Lost \/ Tick \/ TimesOut

Events == IF focus = "session" THEN SessionEvent ELSE UpkeepEvent

PageInit == Init /\ focus \in {"session", "upkeep"}
PageNext == (Continue \/ (~ Due /\ Events)) /\ UNCHANGED focus
PageSpec == PageInit /\ [][PageNext]_<<vars, focus>>

(* What goes on by itself, as Fairness says, without a console.            *)
Upkeep(A) == focus = "upkeep" /\ A /\ UNCHANGED focus
FairPageSpec ==
  /\ PageSpec
  /\ WF_<<vars, focus>>(Upkeep(Continue))
  /\ WF_<<vars, focus>>(Upkeep(~ Due /\ StartWorker))
  /\ WF_<<vars, focus>>(Upkeep(~ Due /\ (WorkerReady \/ Lost)))
  /\ WF_<<vars, focus>>(Upkeep(~ Due /\ (Tick \/ TimesOut)))

UpkeepSpec == FairPageSpec /\ focus = "upkeep"
SessionSpec == PageSpec /\ focus = "session"

(* Whatever the worker does, every request settles and maintenance ends.   *)
UpkeepSettles == focus = "upkeep" => EverythingSettles
=============================================================================
