--------------------------- MODULE StagingDelivery ---------------------------
(***************************************************************************)
(* Staging, from main to the pods: the promotions, of which StagingState   *)
(* says enough, change the values on main; Argo CD applies them by itself  *)
(* (deploy/argocd/app-staging.yaml); what it applies starts the canary of  *)
(* shipment-api and updates the tracking-worker Deployment at once.        *)
(* Merges arrive during rollouts.                                          *)
(***************************************************************************)
EXTENDS StagingState, CanaryRollout

ASSUME RevisionAssumption == Revisions = 0 .. MaxPushes

VARIABLE worker   \* the image of the tracking-worker Deployment

vars == <<stagingVars, canaryVars, worker>>

TypeOK ==
  /\ main \in Pairs /\ mixed \in BOOLEAN /\ worker \in Revisions
  /\ CanaryTypeOK

Init ==
  /\ StagingInit /\ CanaryInit
  /\ spec = main["shipment-api"] /\ worker = main["tracking-worker"]

Merge == StagingNext /\ UNCHANGED <<canaryVars, worker>>

Rollout == RolloutStep /\ UNCHANGED <<stagingVars, worker>>

\* Main says what the cluster runs.
Synced == spec = main["shipment-api"] /\ worker = main["tracking-worker"]

\* The Rollout is applied; one that says what it said before does not begin anew.
ApplyToRollout(r) == IF r = spec THEN UNCHANGED canaryVars ELSE NewRevision(r)

\* Mutant: an aborted rollout is left to an operator.
SyncWhenHealthy ==
  /\ rollout # "aborted" /\ ~Synced
  /\ ApplyToRollout(main["shipment-api"])
  /\ worker' = main["tracking-worker"]
  /\ UNCHANGED stagingVars

\* Argo CD applies main: syncPolicy.automated.
Sync ==
  /\ ~Synced
  /\ ApplyToRollout(main["shipment-api"])
  /\ worker' = main["tracking-worker"]
  /\ UNCHANGED stagingVars

Next == Merge \/ Rollout \/ Sync

\* Argo CD syncs, the clock of the rollout advances and the pods of a candidate become
\* available.  Nobody has to merge.
Fairness ==
  /\ WF_vars(Sync) /\ WF_vars(Rollout)
  /\ WF_vars(SetWeight /\ UNCHANGED <<stagingVars, worker>>)

Spec == Init /\ [][Next]_vars /\ Fairness
-----------------------------------------------------------------------------
(* Once merges end, staging ends up running what main says, whether or not the images
   are of one commit: the worker always, the API unless its analysis aborted the
   rollout, and no rollout stays half way, however many merges arrived during it.
   (syncPolicy, steps, analysis) *)
StagingSettles ==
  <>[][main' = main]_main =>
    <>[](Synced /\ rollout # "progressing" /\ (rollout = "settled" => stable = spec))
=============================================================================
