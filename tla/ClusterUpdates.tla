--------------------------- MODULE ClusterUpdates ---------------------------
(***************************************************************************)
(* Automatic updates of user clusters.  Three controllers of the seed work *)
(* on the Cluster objects:                                                 *)
(*                                                                         *)
(*  - the update controller moves spec.version along the automatic updates *)
(*    of the version manager, and the kubelets of the nodes after it;      *)
(*  - the cluster controller writes the health and deploys the control     *)
(*    plane of spec.version, for at most Limit clusters at a time;         *)
(*  - the seed resources controller sets SeedResourcesUpToDate, the        *)
(*    condition by which the clusters at work are counted.                 *)
(*                                                                         *)
(* Every controller has a queue of clusters that watches fill, reads the   *)
(* Cluster from a cache and patches it without looking at what is stored;  *)
(* a patch of a condition replaces the list of conditions.  A version is   *)
(* its minor number, the control plane one deployment, the nodes one       *)
(* machine deployment.  The update and the seed resources controller read  *)
(* and patch in one step: a patch from an old copy is one from a cache     *)
(* that is behind.  The cluster controller is not split before the health  *)
(* is patched, for the same reason.                                        *)
(***************************************************************************)
EXTENDS Integers, FiniteSets

CONSTANTS
  Clusters,
  Versions,   \* the minor versions of the versions.yaml
  Updates,    \* the updates.yaml: [from, to, automatic, automaticNodeUpdate]
  Limit,      \* concurrentClusterUpdates
  MaxWrites   \* how often a controller finds its own condition changed

ASSUME UpdateConstants ==
  /\ Versions \subseteq Nat \ {0} /\ Limit \in Nat \ {0} /\ MaxWrites \in Nat
  /\ Updates \subseteq [from : SUBSET Versions, to : Nat, automatic : BOOLEAN,
                        automaticNodeUpdate : BOOLEAN]
  /\ \A u \in Updates : \A v \in u.from : v < u.to

VARIABLES
  stored,     \* the Cluster: spec.version, all healthy, SeedResourcesUpToDate
  cached,     \* the Cluster in the cache
  behind,     \* whose last change the cache has not seen yet
  queued,     \* the clusters in the queue of each controller
  pc, copy,   \* the worker of the cluster controller on each cluster
  deployed,   \* the version of the control plane deployment
  running,    \* the version of the pods
  rollout,    \* what the status of the deployment says: "done", "rolling"
  kubelet,    \* the version of the machine deployment
  writes      \* how many lists of conditions were written back so far

vars == <<stored, cached, behind, queued, pc, copy, deployed, running, rollout, kubelet, writes>>

Controllers == {"cluster", "update", "resources"}

Cluster == [version : Versions, healthy : BOOLEAN, upToDate : BOOLEAN]

NoCopy == [version |-> 0, healthy |-> FALSE, upToDate |-> FALSE]

-----------------------------------------------------------------------------
(* The version manager. *)

(* LoadUpdates: an automatic update of the nodes implies one of the        *)
(* control plane.  Two entries that are the same after that count as one.  *)
LoadUpdates ==
  {[u EXCEPT !.automatic = u.automatic \/ u.automaticNodeUpdate] : u \in Updates}

(* automaticUpdate: there is none if this is empty; more than one, or one  *)
(* to an unknown version, is an error.                                     *)
AutomaticUpdates(from, isForNode) ==
  {u \in LoadUpdates :
     from \in u.from /\ IF isForNode THEN u.automaticNodeUpdate ELSE u.automatic}

(* mutant: any kubelet will do. *)
EnsureVersionCompatibleAlways(controlPlane, version) == TRUE

(* EnsureVersionCompatible.  Minor versions are unsigned: below 2 the      *)
(* difference wraps around, and no kubelet is as new as that.              *)
EnsureVersionCompatible(controlPlane, version) ==
  controlPlane >= 2 /\ controlPlane - 2 =< version /\ version =< controlPlane

(* mutant: the version after the one the update names. *)
AutomaticControlplaneUpdateNext(from) ==
  {v \in 0 .. 9 : \E u \in LoadUpdates : AutomaticUpdates(from, FALSE) = {u} /\ v = u.to + 1}

(* AutomaticControlplaneUpdate and AutomaticNodeUpdate, where they succeed. *)
AutomaticControlplaneUpdate(from) ==
  {v \in Versions : \E u \in LoadUpdates : AutomaticUpdates(from, FALSE) = {u} /\ v = u.to}

AutomaticNodeUpdate(from, controlPlane) ==
  {v \in Versions : /\ \E u \in LoadUpdates : AutomaticUpdates(from, TRUE) = {u} /\ v = u.to
                    /\ EnsureVersionCompatible(controlPlane, v)}

-----------------------------------------------------------------------------
Init ==
  /\ stored \in [Clusters -> {c \in Cluster : c.healthy /\ c.upToDate}]
  /\ cached = stored
  /\ behind = {}
  /\ queued = [k \in Controllers |-> Clusters]
  /\ pc = [c \in Clusters |-> "idle"]
  /\ copy = [c \in Clusters |-> NoCopy]
  /\ deployed = [c \in Clusters |-> stored[c].version]
  /\ running = deployed
  /\ rollout = [c \in Clusters |-> "done"]
  /\ kubelet \in [Clusters -> Versions]
  /\ \A c \in Clusters : kubelet[c] =< stored[c].version
  /\ writes = 0

(* A reconciliation takes its cluster off the queue. *)
Take(k, c) == queued' = [queued EXCEPT ![k] = @ \ {c}]

(* An event on the Cluster c, or on the deployment of its control plane. *)
ClusterEvent(c) == queued' = [k \in Controllers |-> queued[k] \cup {c}]

DeploymentEvent(c) ==
  queued' = [k \in Controllers |-> IF k = "update" THEN queued[k] ELSE queued[k] \cup {c}]

(* A patch leaves the Cluster c as o. *)
Patch(c, o) ==
  /\ stored' = [stored EXCEPT ![c] = o]
  /\ behind' = IF o = stored[c] THEN behind ELSE behind \cup {c}

(* The wrapper of a reconciliation that worked on the copy o: when the     *)
(* condition it sets has changed, it writes the list of conditions back.   *)
WrapperEnds(c, o) ==
  \/ /\ writes < MaxWrites
     /\ writes' = writes + 1
     /\ stored' = [stored EXCEPT ![c].upToDate = o.upToDate]
     /\ behind' = behind \cup {c}
  \/ UNCHANGED <<stored, behind, writes>>

-----------------------------------------------------------------------------
(* The update controller. *)

UpdateUnchanged == UNCHANGED <<cached, pc, copy, deployed, running, rollout>>

(* reconcile: the event that tells that the cluster is healthy comes later. *)
NotHealthy(c) ==
  /\ c \in queued["update"]
  /\ ~cached[c].healthy
  /\ Take("update", c)
  /\ WrapperEnds(c, cached[c])
  /\ UNCHANGED kubelet
  /\ UpdateUnchanged

(* controlPlaneUpgrade: the health is invalidated together with the new    *)
(* version, and the cluster is looked at again in a minute.  The wrapper   *)
(* goes on with the answer, so the list it writes back is the stored one.  *)
ControlPlaneUpgrade(c) ==
  /\ c \in queued["update"]
  /\ cached[c].healthy
  /\ \E v \in AutomaticControlplaneUpdate(cached[c].version) :
       Patch(c, [stored[c] EXCEPT !.version = v, !.healthy = FALSE])
  /\ UNCHANGED <<queued, kubelet, writes>>
  /\ UpdateUnchanged

(* nodeUpdate, for a control plane that needs no update. *)
NodeUpdate(c) ==
  /\ c \in queued["update"]
  /\ cached[c].healthy
  /\ AutomaticUpdates(cached[c].version, FALSE) = {}
  /\ \/ /\ AutomaticUpdates(kubelet[c], TRUE) = {}
        /\ UNCHANGED kubelet
     \/ \E v \in AutomaticNodeUpdate(kubelet[c], cached[c].version) :
          kubelet' = [kubelet EXCEPT ![c] = v]
  /\ Take("update", c)
  /\ WrapperEnds(c, cached[c])
  /\ UpdateUnchanged

(* The version manager returns an error for the control plane or for the   *)
(* nodes; the cluster is put back into the queue.                          *)
UpdateFails(c) ==
  LET master == AutomaticUpdates(cached[c].version, FALSE)
      nodes  == AutomaticUpdates(kubelet[c], TRUE)
  IN /\ c \in queued["update"]
     /\ cached[c].healthy
     /\ \/ master # {} /\ AutomaticControlplaneUpdate(cached[c].version) = {}
        \/ /\ master = {} /\ nodes # {}
           /\ AutomaticNodeUpdate(kubelet[c], cached[c].version) = {}
     /\ WrapperEnds(c, cached[c])
     /\ UNCHANGED <<queued, kubelet>>
     /\ UpdateUnchanged

-----------------------------------------------------------------------------
(* The cluster controller. *)

(* ConcurrencyLimitReached *)
ConcurrencyLimitReached == Cardinality({c \in Clusters : ~cached[c].upToDate}) >= Limit

ClusterAvailableForReconciling(c) == ~cached[c].upToDate \/ ~ConcurrencyLimitReached

(* clusterHealth.  Whether the status belongs to the deployment as it is   *)
(* by now is not looked at.                                                *)
ClusterHealth(c) == rollout[c] = "done"

(* mutant: the whole copy is written, not what changed in it. *)
WithHealthOfCopy(c) == [cached[c] EXCEPT !.healthy = ClusterHealth(c)]

WithHealth(c) == [stored[c] EXCEPT !.healthy = ClusterHealth(c)]

(* Reconcile, up to syncHealth: the health is patched if the one of the    *)
(* copy is another, and the answer becomes the copy.                       *)
ClusterReconcile(c) ==
  /\ c \in queued["cluster"] /\ pc[c] = "idle"
  /\ ClusterAvailableForReconciling(c)
  /\ Take("cluster", c)
  /\ pc' = [pc EXCEPT ![c] = "deploy"]
  /\ IF cached[c].healthy # ClusterHealth(c)
     THEN /\ Patch(c, WithHealth(c))
          /\ copy' = [copy EXCEPT ![c] = stored'[c]]
     ELSE /\ copy' = [copy EXCEPT ![c] = cached[c]]
          /\ UNCHANGED <<stored, behind>>
  /\ UNCHANGED <<cached, deployed, running, rollout, kubelet, writes>>

(* mutant: a cluster that is held back waits for the next event. *)
RequeueAfterLimitForgets(c) == Take("cluster", c)

(* The clusters that are held back are looked at again in ten seconds. *)
RequeueAfterLimit(c) == UNCHANGED queued

LimitReached(c) ==
  /\ c \in queued["cluster"] /\ pc[c] = "idle"
  /\ ~ClusterAvailableForReconciling(c)
  /\ RequeueAfterLimit(c)
  /\ WrapperEnds(c, cached[c])
  /\ UNCHANGED <<cached, pc, copy, deployed, running, rollout, kubelet>>

(* ensureResourcesAreDeployed, and the end of the reconciliation. *)
EnsureResourcesAreDeployed(c) ==
  /\ pc[c] = "deploy"
  /\ pc' = [pc EXCEPT ![c] = "idle"]
  /\ copy' = [copy EXCEPT ![c] = NoCopy]
  /\ deployed' = [deployed EXCEPT ![c] = copy[c].version]
  /\ IF deployed' = deployed THEN UNCHANGED queued ELSE DeploymentEvent(c)
  /\ WrapperEnds(c, copy[c])
  /\ UNCHANGED <<cached, running, rollout, kubelet>>

-----------------------------------------------------------------------------
(* The seed resources controller: seedResourcesUpToDate reads the same     *)
(* status as the health.                                                   *)
SetUpToDate(c) ==
  /\ c \in queued["resources"]
  /\ Take("resources", c)
  /\ IF cached[c].upToDate # ClusterHealth(c)
     THEN Patch(c, [stored[c] EXCEPT !.upToDate = ClusterHealth(c)])
     ELSE UNCHANGED <<stored, behind>>
  /\ UNCHANGED <<cached, pc, copy, deployed, running, rollout, kubelet, writes>>

-----------------------------------------------------------------------------
(* Kubernetes: the deployment controller takes note of a new version, and  *)
(* later all pods run it; the cache catches up.                            *)
StartRollout(c) ==
  /\ rollout[c] = "done" /\ running[c] # deployed[c]
  /\ rollout' = [rollout EXCEPT ![c] = "rolling"]
  /\ DeploymentEvent(c)
  /\ UNCHANGED <<stored, cached, behind, pc, copy, deployed, running, kubelet, writes>>

FinishRollout(c) ==
  /\ rollout[c] = "rolling"
  /\ rollout' = [rollout EXCEPT ![c] = "done"]
  /\ running' = [running EXCEPT ![c] = deployed[c]]
  /\ DeploymentEvent(c)
  /\ UNCHANGED <<stored, cached, behind, pc, copy, deployed, kubelet, writes>>

CacheSync(c) ==
  /\ c \in behind
  /\ behind' = behind \ {c}
  /\ cached' = [cached EXCEPT ![c] = stored[c]]
  /\ ClusterEvent(c)
  /\ UNCHANGED <<stored, pc, copy, deployed, running, rollout, kubelet, writes>>

-----------------------------------------------------------------------------
UpdateStep(c) == NotHealthy(c) \/ ControlPlaneUpgrade(c) \/ NodeUpdate(c) \/ UpdateFails(c)

ClusterStep(c) ==
  ClusterReconcile(c) \/ LimitReached(c) \/ EnsureResourcesAreDeployed(c)

RolloutStep(c) == StartRollout(c) \/ FinishRollout(c)

Next ==
  \E c \in Clusters :
    UpdateStep(c) \/ ClusterStep(c) \/ SetUpToDate(c) \/ RolloutStep(c) \/ CacheSync(c)

Spec == Init /\ [][Next]_vars

(* Something goes on as long as there is something to do, and the caches   *)
(* catch up: without the latter the cluster controller may deploy an old   *)
(* and a new version in turn for ever.                                     *)
Fairness == WF_vars(Next) /\ \A c \in Clusters : WF_vars(CacheSync(c))

FairSpec == Spec /\ Fairness

-----------------------------------------------------------------------------
(* Properties. *)

(* Every variable holds a value of its type. *)
TypeOK ==
  /\ stored \in [Clusters -> Cluster] /\ cached \in [Clusters -> Cluster]
  /\ behind \subseteq Clusters /\ queued \in [Controllers -> SUBSET Clusters]
  /\ pc \in [Clusters -> {"idle", "deploy"}] /\ copy \in [Clusters -> Cluster \cup {NoCopy}]
  /\ deployed \in [Clusters -> Versions] /\ running \in [Clusters -> Versions]
  /\ rollout \in [Clusters -> {"done", "rolling"}]
  /\ kubelet \in [Clusters -> Versions] /\ writes \in 0 .. MaxWrites

(* The nodes of a cluster are never told to run a kubelet newer than the   *)
(* version its control plane is to have, however old the copy of the       *)
(* Cluster the update controller worked on.  Like EnsureVersionCompatible  *)
(* this is about minor versions: patch releases are not told apart.        *)
NodesNotAhead == \A c \in Clusters : kubelet[c] =< stored[c].version

(* The version of a cluster never goes back: neither an update repeated    *)
(* from an old copy nor a patch of health or conditions undoes an update.  *)
NeverBack == [][\A c \in Clusters : stored'[c].version >= stored[c].version]_vars

(* The updates of a cluster are done, as far as the version manager has    *)
(* any without an error.                                                   *)
Updated(c) ==
  /\ AutomaticControlplaneUpdate(stored[c].version) = {}
  /\ AutomaticNodeUpdate(kubelet[c], stored[c].version) = {}
  /\ deployed[c] = stored[c].version /\ running[c] = stored[c].version
  /\ stored[c].healthy /\ stored[c].upToDate

(* All updates come to an end, for every cluster: the ones held back by    *)
(* the limit get their turn, no event is missed, and in the end the pods   *)
(* run the version of the Cluster and its conditions say so.               *)
UpdatesComplete == \A c \in Clusters : <>[]Updated(c)

=============================================================================
