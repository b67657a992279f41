---------------------------- MODULE MCJudgements ----------------------------
(* Judgements on small instances.  A behaviour explores the instructions   *)
(* that one question is about, in every order, or those of levels or of    *)
(* formulas, which the instructions compute with.  Instructions on         *)
(* judgements that are no systems come before those on systems, which they *)
(* do not read, where the order between them decides nothing.              *)
EXTENDS Judgements, Levels, Lattices

CONSTANTS
  ContextFacts, FaceFacts,   \* judgements where contexts, or faces, are explored
  TableEntries               \* entries where faces are not

VARIABLE focus   \* what a behaviour is about

(* Entries that depend on entries, every binder over them, definitions,    *)
(* and judgements across checkpoints.                                      *)
ContextsNext ==
  \/ Extend \/ Level \/ Dimension
  \/ Checkpoint \/ Rollback \/ Commit
  \/ /\ Len(facts) < ContextFacts
     /\ \/ Constant \/ Universe \/ Variable \/ Combine \/ Bind
        \/ Endpoint \/ PathAt \/ RestrictKnown \/ RestrictNew
        \/ Define \/ Lookup
InOneDimension == \A e \in DOMAIN entries' : entries'[e].kind = "dimension" => entries'[e].name = 0

(* The last instruction's clause has no equation but one at dimension 0:   *)
(* enough to tell faces that imply one another from those that do not.     *)
Equations == {<<0, 0>>}
AtFace == facts'[Len(facts')].how.operand \subseteq Equations
TubeAtFace ==
  /\ \E s \in Systems, i, j \in Typings, clause \in SUBSET Equations :
       \E order \in Listings(Missing(DimsOf(clause))) : SystemTubeOn(s, i, j, clause, order)
  /\ UNCHANGED <<definitions, checkpoint>>

(* Faces: judgements and variables on a face, and tubes that use them.     *)
FacesNext ==
  \/ /\ Systems = {}
     /\ Extend \/ Dimension \/ Constant \/ Variable \/ (RestrictNew /\ AtFace) \/ (RestrictKnown /\ AtFace)
  \/ System \/ TubeAtFace \/ Compose

(* Systems of several tubes, all of them the first judgement, and          *)
(* equalities that hold on a face only.                                    *)
First == facts'[Len(facts')].how.premises[1] = 1
Tubes == facts'[Len(facts')].how.premises[2] = 1

SystemsNext ==
  \/ Systems = {} /\ (Constant \/ Dimension \/ (RestrictNew /\ AtFace /\ First))
  \/ (System /\ First) \/ (SystemTubeNever /\ Tubes) \/ (SystemTube /\ Tubes) \/ SystemOverlap

TablesInit == Init /\ LevelInit /\ FormulasInit /\ focus \in {"contexts", "systems", "faces", "levels", "formulas"}
TablesNext ==
  /\ UNCHANGED focus
  /\ \/ /\ UNCHANGED <<levels, formulas>>
        /\ \/ focus = "contexts" /\ ContextsNext /\ InOneDimension /\ Len(entries') <= TableEntries
           \/ focus = "systems" /\ SystemsNext /\ Len(entries') <= TableEntries
           \/ focus = "faces" /\ FacesNext /\ Len(facts') <= FaceFacts
     \/ UNCHANGED <<vars, formulas>> /\ focus = "levels" /\ LevelNext
     \/ UNCHANGED <<vars, levels>> /\ focus = "formulas" /\ FormulasNext
TablesSpec == TablesInit /\ [][TablesNext]_<<vars, levels, formulas, focus>>
=============================================================================
