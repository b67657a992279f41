----------------------------- MODULE MCTermStore -----------------------------
(* TermStore on small instances.  Each run explores the calls that its     *)
(* question is about, in every order.                                      *)
EXTENDS TermStore

(* A hash under which unrelated nodes collide.                             *)
MCHash(key) == key.payload + 2 * key.child[1] + key.child[2] + (IF key.kind = "APP" THEN 1 ELSE 0)

(* Judgements of a term by itself: its children need not be roots too.     *)
JudgeSelf == Judge /\ Last(facts').type = Last(facts').term

(* The index of identical syntax: making, sharing, truncating, compacting. *)
IndexNext ==
  \/ Term \/ SetOptimizations \/ ClearError
  \/ JudgeSelf \/ Define
  \/ Checkpoint \/ Rollback \/ CommitRefused \/ Commit

IndexSpec == Init /\ [][IndexNext]_vars

(* Judgements whose type is the first node: enough to tell terms apart.    *)
JudgeFirst == Judge /\ Last(facts').type = 1

(* Definitions, the caches of what they unfold to, and signatures opened,  *)
(* extended and closed, across checkpoints.                                *)
StoreNext ==
  \/ Term \/ Refuse \/ FreshSymbol \/ ClearError \/ Whnf
  \/ JudgeFirst \/ Define \/ Lookup
  \/ SignatureBegin \/ SignatureConstructor \/ SignatureClose
  \/ Checkpoint \/ Rollback \/ CommitRefused \/ Commit

StoreSpec == Init /\ [][StoreNext]_vars
=============================================================================
