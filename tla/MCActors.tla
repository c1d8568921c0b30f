------------------------------ MODULE MCActors -------------------------------
(* Instances for TLC of three models of processes that work against remote   *)
(* state: the Gllue mirror, the task executor and the browser's tabs.  They  *)
(* share nothing, so one run explores them side by side: each behaviour is a *)
(* behaviour of one of them, with the others at rest.                        *)
EXTENDS GllueSync, Talon, WebClient, TLC

CONSTANTS k1, k2, s1, s2

MCSourceTable == (1 :> "candidate") @@ (2 :> "candidate") @@ (3 :> "candidateexperience")
MCSourceParents == (1 :> {}) @@ (2 :> {}) @@ (3 :> {1})
MCSiteOf == (k1 :> s1) @@ (k2 :> s2)

VARIABLE actor       \* the model this behaviour belongs to

actorsVars == <<actor, gllueSyncVars, talonVars, webClientVars>>

ActorsInit ==
    /\ actor \in {"gllue", "talon", "web"}
    /\ GllueSyncInit /\ TalonInit /\ WebClientInit

(* A step of one model, with all other variables at rest.                    *)
OnlyMirror ==
    /\ actor = "gllue"
    /\ UNCHANGED <<actor, talonVars, webClientVars>>
OnlyTalon ==
    /\ actor = "talon"
    /\ UNCHANGED <<actor, gllueSyncVars, webClientVars>>
OnlyWebClient ==
    /\ actor = "web"
    /\ UNCHANGED <<actor, gllueSyncVars, talonVars>>

ActorsNext ==
    \/ OnlyMirror /\ GllueSyncNext
    \/ OnlyTalon /\ TalonNext
    \/ OnlyWebClient /\ WebClientNext

ActorsSpec == ActorsInit /\ [][ActorsNext]_actorsVars

(* The fairness of the mirror; the other two models claim nothing that needs *)
(* any.                                                                      *)
ActorsFairSpec ==
    ActorsSpec /\ \A w \in Runs, t \in Tables : WF_gllueSyncVars(OnlyMirror /\ SyncStep(w, t))

(* Every task, token and worker keeps its shape, in flight and at rest.      *)
ActorsTypeOK == GllueSyncTypeOK /\ TalonTypeOK /\ WebClientTypeOK
=============================================================================
