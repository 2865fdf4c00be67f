----------------------------- MODULE EtcdRestore -----------------------------
(***************************************************************************)
(* Restoring the etcd of ONE user cluster from backups: the etcd restore   *)
(* controller (one worker per EtcdRestore), the cluster controller that    *)
(* recreates the etcd stateful set, another controller that writes the     *)
(* conditions of the cluster, and the etcd launchers that fill the data    *)
(* directories of the pods.                                                *)
(*                                                                         *)
(* The workers exclude each other by an annotation of the Cluster, written *)
(* with Update, which the API server refuses when the copy is not the      *)
(* latest.  Everything else is written with merge patches, which are never *)
(* refused, and which replace the whole list of conditions.  Controllers   *)
(* read the Cluster from a cache that lags behind by any number of writes; *)
(* the launchers read it from the API server.                              *)
(*                                                                         *)
(* Abstractions.  A worker reads its EtcdRestore up to date: only that     *)
(* worker writes it.  The copy of the Cluster a controller works on is     *)
(* replaced by the answer to each of its patches.  Of the conditions only  *)
(* EtcdClusterInitialized is kept, the others matter through the patches   *)
(* that write the list back.                                               *)
(*                                                                         *)
(* Deleting the volumes takes a while, which gives the cache and the       *)
(* reconciliations in flight the time to learn of the pause.  Nothing in   *)
(* the code makes a restore wait for them: one that goes on before they    *)
(* have is hasty, and hasty counts how often that happens.                 *)
(***************************************************************************)
EXTENDS Integers, FiniteSets

CONSTANTS
  Restores,       \* the EtcdRestore resources of the cluster
  Pods,           \* the etcd pods of the stateful set
  MaxWrites,      \* bound: other writes of the status of the Cluster in a behaviour
  MaxHasty,       \* bound: hasty reconciliations in a behaviour
  MaxFaults       \* bound: failed calls, restarted pods, lost data in a behaviour

ASSUME RestoreConstants ==
  /\ IsFiniteSet(Restores) /\ IsFiniteSet(Pods)
  /\ {"", "True", "lost", "old", "fresh"} \cap Restores = {}
  /\ {MaxWrites, MaxHasty, MaxFaults} \subseteq Nat

VARIABLES
  cluster,     \* the Cluster in the API server
  cached,      \* the Cluster in the cache of the seed controller manager
  cacheFresh,  \* the cache holds the latest version
  phase,       \* status.phase of each EtcdRestore
  deleting,    \* it has a deletion timestamp
  finalizer,   \* it has the finalizer FinishRestoreFinalizer
  pc,          \* where the worker of each EtcdRestore stands
  mem,         \* its copy of the Cluster
  fresh,       \* that copy is the latest version
  ctrl,        \* where the cluster controller stands
  ctrlMem,     \* its copy of the condition
  ctrlUp,      \* it found etcd to be healthy
  other,       \* where the other controller stands
  otherMem,    \* its copy of the condition
  sts,         \* the etcd stateful set exists
  pod,         \* the state of each etcd pod
  pvc,         \* its volume claim
  data,        \* what its data directory holds
  writes,      \* other writes of the status so far
  hasty,       \* hasty reconciliations so far
  faults       \* failures so far

clusterVars == <<cluster, cached, cacheFresh, fresh>>
restoreVars == <<phase, deleting, finalizer>>
workerVars == <<pc, mem>>
ctrlVars == <<ctrl, ctrlMem, ctrlUp, other, otherMem>>
etcdVars == <<sts, pod, pvc, data>>
boundVars == <<writes, hasty, faults>>
vars == <<clusterVars, restoreVars, workerVars, ctrlVars, etcdVars, boundVars>>

-----------------------------------------------------------------------------
(* A Cluster: the annotation ActiveRestoreAnnotationName, spec.pause and   *)
(* the condition EtcdClusterInitialized.  A condition that is False is     *)
(* represented by the restore named in its message.                        *)
Conditions == {"", "True"} \cup Restores

Cluster ==
  [activeRestore : {""} \cup Restores, pause : BOOLEAN, initialized : Conditions]

NoCopy == [activeRestore |-> "", pause |-> FALSE, initialized |-> ""]

EtcdRestorePhase == {"absent", "", "Started", "StsRebuilding", "Completed"}

(* What a data directory holds: nothing (because its volume is new, or     *)
(* failed), the data of before, an empty ring started from nothing, or the *)
(* backup of a restore.                                                    *)
NoData == {"", "lost"}

Contents == NoData \cup {"old", "fresh"} \cup Restores

(* The pods whose etcd runs on data d form a ring when they are a majority. *)
RunningOn(d) == {p \in Pods : pod[p] = "running" /\ data[p] = d}

HasRing(d) == d \notin NoData /\ 2 * Cardinality(RunningOn(d)) > Cardinality(Pods)

(* HealthyStatefulSet, for the etcd stateful set. *)
HealthyStatefulSet ==
  sts /\ \A p \in Pods : pod[p] = "running" /\ HasRing(data[p])

Init ==
  /\ cluster \in [activeRestore : {""}, pause : {FALSE}, initialized : {"", "True"}]
  /\ cached = cluster
  /\ cacheFresh = TRUE
  /\ phase = [r \in Restores |-> "absent"]
  /\ deleting = [r \in Restores |-> FALSE]
  /\ finalizer = [r \in Restores |-> FALSE]
  /\ pc = [r \in Restores |-> "idle"]
  /\ mem = [r \in Restores |-> NoCopy]
  /\ fresh = [r \in Restores |-> FALSE]
  /\ ctrl = "idle" /\ ctrlMem = "" /\ ctrlUp = FALSE
  /\ other = "idle" /\ otherMem = ""
  /\ sts = TRUE
  /\ pod = [p \in Pods |-> "running"]
  /\ pvc = [p \in Pods |-> "bound"]
  /\ data = [p \in Pods |-> "old"]
  /\ writes = 0 /\ hasty = 0 /\ faults = 0

Fault == faults < MaxFaults /\ faults' = faults + 1

(* The Cluster is written, by the workers in W: every other copy is old. *)
Write(c, W) ==
  /\ cluster' = c
  /\ cacheFresh' = FALSE
  /\ fresh' = [r \in Restores |-> r \in W]
  /\ UNCHANGED cached

(* updateCluster of the restore controller.  The patch c is the Cluster    *)
(* with the changed fields; no patch is sent when nothing changed in the   *)
(* copy.  The answer of the API server becomes the copy.                   *)
UpdateCluster(r, changed, c) ==
  IF changed
  THEN Write(c, {r}) /\ mem' = [mem EXCEPT ![r] = c]
  ELSE UNCHANGED <<clusterVars, mem>>

Goto(r, next) == pc' = [pc EXCEPT ![r] = next]

(* The reconciliation ends; its copies are dropped. *)
Return(r) ==
  /\ Goto(r, "idle")
  /\ mem' = [mem EXCEPT ![r] = NoCopy]
  /\ fresh' = [fresh EXCEPT ![r] = FALSE]

-----------------------------------------------------------------------------
(* The worker of restore r. *)

(* mutant: the finalizer is not added. *)
FinalizerAfterLost(r) == finalizer[r]

(* The finalizer once the reconciliation has begun. *)
FinalizerAfter(r) == finalizer[r] \/ ~deleting[r]

(* No controller works, or will work, on a copy of the Cluster from before *)
(* it was paused.                                                          *)
Settled == cached.pause /\ ctrl = "idle" /\ other = "idle"

Hasty(r) == phase[r] = "Started" /\ (\A p \in Pods : pvc[p] # "bound") /\ ~Settled

(* Reconcile, up to the finalizer.  Nothing but the deletion of r could    *)
(* come between reading r and patching it, and would end the call.         *)
Reconcile(r) ==
  /\ pc[r] = "idle"
  /\ phase[r] \notin {"absent", "Completed"}
  /\ IF Hasty(r) THEN hasty < MaxHasty /\ hasty' = hasty + 1 ELSE UNCHANGED hasty
  /\ finalizer' = [finalizer EXCEPT ![r] = FinalizerAfter(r)]
  /\ mem' = [mem EXCEPT ![r] = cached]
  /\ fresh' = [fresh EXCEPT ![r] = cacheFresh]
  /\ Goto(r, "claim")
  /\ UNCHANGED <<cluster, cached, cacheFresh, phase, deleting, ctrlVars, etcdVars, writes,
                 faults>>

(* mutant: an old copy is good enough to write the annotation. *)
ClaimSucceedsAlways(r) == mem[r].activeRestore = ""

(* The Update of the annotation is accepted. *)
ClaimSucceeds(r) == mem[r].activeRestore = "" /\ fresh[r]

(* The annotation is taken unless another restore is stored there.  The    *)
(* backup is then looked up; that it cannot be is a failed call.           *)
Claim(r) ==
  LET c == [cluster EXCEPT !.activeRestore = r]
      next == IF phase[r] = "StsRebuilding" THEN "unpause" ELSE "pause"
  IN /\ pc[r] = "claim"
     /\ \/ /\ mem[r].activeRestore = r
           /\ Goto(r, next)
           /\ UNCHANGED <<clusterVars, mem>>
        \/ /\ ClaimSucceeds(r)
           /\ UpdateCluster(r, TRUE, c)
           /\ Goto(r, next)
        \/ /\ mem[r].activeRestore # r
           /\ ~ClaimSucceeds(r)
           /\ Return(r)
           /\ UNCHANGED <<cluster, cached, cacheFresh>>
     /\ UNCHANGED <<restoreVars, ctrlVars, etcdVars, boundVars>>

PauseCluster(r) ==
  /\ pc[r] = "pause"
  /\ UpdateCluster(r, ~mem[r].pause, [cluster EXCEPT !.pause = TRUE])
  /\ Goto(r, "start")
  /\ UNCHANGED <<restoreVars, ctrlVars, etcdVars, boundVars>>

SetStarted(r) ==
  /\ pc[r] = "start"
  /\ phase' = [phase EXCEPT ![r] = "Started"]
  /\ Goto(r, "sts")
  /\ UNCHANGED <<clusterVars, deleting, finalizer, mem, ctrlVars, etcdVars, boundVars>>

(* The pods of a deleted stateful set are doomed even if it is recreated. *)
Doomed(p) == IF pod[p] = "none" THEN "none" ELSE "terminating"

DeleteStatefulSet(r) ==
  /\ pc[r] = "sts"
  /\ sts' = FALSE
  /\ pod' = IF sts THEN [p \in Pods |-> Doomed(p)] ELSE pod
  /\ Goto(r, "pvcs")
  /\ UNCHANGED <<clusterVars, restoreVars, mem, ctrlVars, pvc, data, boundVars>>

(* mutant: claims that are being deleted already are not listed. *)
ClaimsLeft == {p \in Pods : pvc[p] = "bound"}

Claims == {p \in Pods : pvc[p] # "none"}

(* mutant: the volumes still present are not waited for. *)
VolumesGoneAnyway == TRUE

VolumesGone == Claims = {}

(* The loop over the claims may stop at one that cannot be deleted. *)
DeleteVolumes(r) ==
  /\ pc[r] = "pvcs"
  /\ \E S \in SUBSET Claims :
       /\ S = Claims \/ faults < MaxFaults
       /\ faults' = IF S = Claims THEN faults ELSE faults + 1
       /\ pvc' = [p \in Pods |-> IF p \in S THEN "terminating" ELSE pvc[p]]
       /\ IF VolumesGone /\ S = Claims
          THEN Goto(r, "rebuilding") /\ UNCHANGED <<mem, fresh>>
          ELSE Return(r)
  /\ UNCHANGED <<cluster, cached, cacheFresh, restoreVars, ctrlVars, sts, pod, data, writes,
                 hasty>>

SetStsRebuilding(r) ==
  /\ pc[r] = "rebuilding"
  /\ phase' = [phase EXCEPT ![r] = "StsRebuilding"]
  /\ Goto(r, "unpause")
  /\ UNCHANGED <<clusterVars, deleting, finalizer, mem, ctrlVars, etcdVars, boundVars>>

(* mutant: the condition is not reset. *)
ConditionAfterResetKept(r) == cluster.initialized

(* The condition a restore leaves: the list of conditions is part of the   *)
(* patch unless the copy has this very condition already.                  *)
ConditionAfterReset(r) == IF mem[r].initialized = r THEN cluster.initialized ELSE r

(* rebuildEtcdStatefulset: reset the condition and unpause. *)
ResetAndUnpause(r) ==
  /\ pc[r] = "unpause"
  /\ UpdateCluster(r, mem[r].pause,
                   [cluster EXCEPT !.pause = FALSE, !.initialized = ConditionAfterReset(r)])
  /\ Goto(r, "wait")
  /\ UNCHANGED <<restoreVars, ctrlVars, etcdVars, boundVars>>

(* rebuildEtcdStatefulset: until the condition is true, look again later. *)
WaitInitialized(r) ==
  /\ pc[r] = "wait"
  /\ IF mem[r].initialized = "True"
     THEN Goto(r, "release") /\ UNCHANGED <<mem, fresh>>
     ELSE Return(r)
  /\ UNCHANGED <<cluster, cached, cacheFresh, restoreVars, ctrlVars, etcdVars, boundVars>>

(* rebuildEtcdStatefulset: clear the annotation, whatever it says by now. *)
ReleaseCluster(r) ==
  /\ pc[r] = "release"
  /\ UpdateCluster(r, mem[r].activeRestore # "", [cluster EXCEPT !.activeRestore = ""])
  /\ Goto(r, "complete")
  /\ UNCHANGED <<restoreVars, ctrlVars, etcdVars, boundVars>>

(* mutant: a restore that is being deleted ends in a phase of its own. *)
LastPhaseDeleted(r) == IF deleting[r] THEN "Deleted" ELSE "Completed"

(* Without its finalizer a restore that is being deleted goes. *)
LastPhase(r) == IF deleting[r] THEN "absent" ELSE "Completed"

(* rebuildEtcdStatefulset: the restore is completed. *)
CompleteRestore(r) ==
  /\ pc[r] = "complete"
  /\ phase' = [phase EXCEPT ![r] = LastPhase(r)]
  /\ finalizer' = [finalizer EXCEPT ![r] = FALSE]
  /\ Return(r)
  /\ UNCHANGED <<cluster, cached, cacheFresh, deleting, ctrlVars, etcdVars, boundVars>>

(* A call fails, or the controller restarts. *)
WorkerAborts(r) ==
  /\ pc[r] # "idle"
  /\ Fault
  /\ Return(r)
  /\ UNCHANGED <<cluster, cached, cacheFresh, restoreVars, ctrlVars, etcdVars, writes, hasty>>

-----------------------------------------------------------------------------
(* The cluster controller, and any other controller that sets a condition  *)
(* of its own when its reconciliation ends (ClusterReconcileWrapper).      *)

WritePatch(c) == Write(c, {}) /\ UNCHANGED mem

(* The wrapper lets a reconciliation of a paused cluster do nothing. *)
ClusterReconcile ==
  /\ ctrl = "idle"
  /\ ~cached.pause
  /\ ctrl' = "health"
  /\ ctrlMem' = cached.initialized
  /\ UNCHANGED <<clusterVars, restoreVars, workerVars, ctrlUp, other, otherMem, etcdVars,
                 boundVars>>

(* syncHealth: what clusterHealth finds. *)
ClusterHealth ==
  /\ ctrl = "health"
  /\ ctrl' = "initialized"
  /\ ctrlUp' = HealthyStatefulSet
  /\ UNCHANGED <<clusterVars, restoreVars, workerVars, ctrlMem, other, otherMem, etcdVars,
                 boundVars>>

(* syncHealth: status.extendedHealth is written when it changed, and the   *)
(* answer of the API server brings the conditions up to date.              *)
UpdateExtendedHealth ==
  /\ ctrl = "initialized"
  /\ writes < MaxWrites
  /\ writes' = writes + 1
  /\ WritePatch(cluster)
  /\ ctrlMem' = cluster.initialized
  /\ UNCHANGED <<restoreVars, pc, ctrl, ctrlUp, other, otherMem, etcdVars, hasty, faults>>

(* mutant: the condition is set without looking at etcd. *)
EtcdBecameHealthyAlways == ctrlMem # "True"

(* mutant: the condition is set only if there was none. *)
EtcdBecameHealthyOnce == ctrlMem = "" /\ ctrlUp

EtcdBecameHealthy == ctrlMem # "True" /\ ctrlUp

(* syncHealth: set the condition once etcd is healthy. *)
SyncHealth ==
  /\ ctrl = "initialized"
  /\ ctrl' = "deploy" /\ ctrlUp' = FALSE
  /\ IF EtcdBecameHealthy
     THEN WritePatch([cluster EXCEPT !.initialized = "True"]) /\ ctrlMem' = "True"
     ELSE UNCHANGED <<clusterVars, mem, ctrlMem>>
  /\ UNCHANGED <<restoreVars, pc, other, otherMem, etcdVars, boundVars>>

(* ensureStatefulSets *)
EnsureStatefulSets ==
  /\ ctrl = "deploy"
  /\ ctrl' = "finish"
  /\ sts' = TRUE
  /\ UNCHANGED <<clusterVars, restoreVars, workerVars, ctrlMem, ctrlUp, other, otherMem, pod,
                 pvc, data, boundVars>>

(* The wrapper writes the list of conditions back when it changed. *)
WriteConditions(copy) ==
  /\ writes < MaxWrites
  /\ writes' = writes + 1
  /\ WritePatch([cluster EXCEPT !.initialized = copy])

ClusterReconcileEnds ==
  /\ ctrl = "finish"
  /\ ctrl' = "idle" /\ ctrlMem' = ""
  /\ WriteConditions(ctrlMem) \/ UNCHANGED <<clusterVars, mem, writes>>
  /\ UNCHANGED <<restoreVars, pc, ctrlUp, other, otherMem, etcdVars, hasty, faults>>

(* Only a reconciliation that writes its condition is of interest. *)
OtherReconcile ==
  /\ other = "idle"
  /\ ~cached.pause
  /\ writes < MaxWrites
  /\ other' = "finish"
  /\ otherMem' = cached.initialized
  /\ UNCHANGED <<clusterVars, restoreVars, workerVars, ctrl, ctrlMem, ctrlUp, etcdVars,
                 boundVars>>

OtherReconcileEnds ==
  /\ other = "finish"
  /\ other' = "idle" /\ otherMem' = ""
  /\ \/ WriteConditions(otherMem)
     \/ writes = MaxWrites /\ UNCHANGED <<clusterVars, mem, writes>>
  /\ UNCHANGED <<restoreVars, pc, ctrl, ctrlMem, ctrlUp, etcdVars, hasty, faults>>

-----------------------------------------------------------------------------
(* The etcd launcher in pod p. *)

LauncherUnchanged ==
  UNCHANGED <<clusterVars, restoreVars, workerVars, ctrlVars, sts, pvc, writes, hasty>>

(* main: decide whether the ring exists. *)
LauncherStarts(p) ==
  /\ pod[p] = "starting"
  /\ pod' = [pod EXCEPT ![p] =
               IF cluster.initialized = "True" THEN "running" ELSE "new"]
  /\ UNCHANGED <<data, faults>>
  /\ LauncherUnchanged

ActiveRestores == {r \in Restores : phase[r] = "StsRebuilding"}

RefusesToRestore == Cardinality(ActiveRestores) > 1

(* restoreDatadirFromBackupIfNeeded, and the start of etcd.  With several  *)
(* restores rebuilding it gives up, and the container starts again.        *)
RestoreDatadir(p) ==
  /\ pod[p] = "new"
  /\ IF RefusesToRestore
     THEN pod' = [pod EXCEPT ![p] = "starting"] /\ UNCHANGED data
     ELSE /\ pod' = [pod EXCEPT ![p] = "running"]
          /\ \/ /\ ActiveRestores = {}
                /\ data' = [data EXCEPT ![p] = IF @ \in NoData THEN "fresh" ELSE @]
             \/ \E r \in ActiveRestores : data' = [data EXCEPT ![p] = r]
  /\ UNCHANGED faults
  /\ LauncherUnchanged

(* main: no ring answers within 30 seconds.  Pods with a data directory    *)
(* are given the time to meet, one without has nothing to offer.           *)
LauncherPanics(p) ==
  /\ pod[p] = "running"
  /\ data[p] \in NoData
  /\ \A d \in Contents : ~HasRing(d)
  /\ pod' = [pod EXCEPT ![p] = "starting"]
  /\ UNCHANGED <<data, faults>>
  /\ LauncherUnchanged

(* main: a member without a data directory is removed and joins again. *)
Rejoin(p) ==
  /\ pod[p] = "running"
  /\ data[p] \in NoData
  /\ \E d \in Contents : HasRing(d) /\ data' = [data EXCEPT ![p] = d]
  /\ UNCHANGED <<pod, faults>>
  /\ LauncherUnchanged

PodRestarts(p) ==
  /\ pod[p] \in {"new", "running"}
  /\ Fault
  /\ pod' = [pod EXCEPT ![p] = "starting"]
  /\ UNCHANGED data
  /\ LauncherUnchanged

(* The volume of a pod fails, and the pod starts again on an empty one. *)
LoseData(p) ==
  /\ pod[p] \in {"new", "running"}
  /\ pvc[p] = "bound"
  /\ Fault
  /\ pod' = [pod EXCEPT ![p] = "starting"]
  /\ data' = [data EXCEPT ![p] = "lost"]
  /\ LauncherUnchanged

-----------------------------------------------------------------------------
(* Kubernetes. *)

KubernetesUnchanged ==
  UNCHANGED <<clusterVars, restoreVars, workerVars, ctrlVars, sts, boundVars>>

(* The stateful set controller creates a pod, and its claim if missing. *)
CreatePod(p) ==
  /\ sts
  /\ pod[p] = "none"
  /\ pvc[p] # "terminating"
  /\ pod' = [pod EXCEPT ![p] = "starting"]
  /\ pvc' = [pvc EXCEPT ![p] = "bound"]
  /\ UNCHANGED data
  /\ KubernetesUnchanged

RemovePod(p) ==
  /\ pod[p] = "terminating"
  /\ pod' = [pod EXCEPT ![p] = "none"]
  /\ UNCHANGED <<pvc, data>>
  /\ KubernetesUnchanged

(* A claim is kept while a pod uses it. *)
RemoveVolume(p) ==
  /\ pvc[p] = "terminating"
  /\ pod[p] = "none"
  /\ pvc' = [pvc EXCEPT ![p] = "none"]
  /\ data' = [data EXCEPT ![p] = ""]
  /\ UNCHANGED pod
  /\ KubernetesUnchanged

CacheSync ==
  /\ ~cacheFresh
  /\ cached' = cluster
  /\ cacheFresh' = TRUE
  /\ UNCHANGED <<cluster, fresh, restoreVars, workerVars, ctrlVars, etcdVars, boundVars>>

(* A user creates a restore, and may delete it again. *)
CreateRestore(r) ==
  /\ phase[r] = "absent" /\ ~deleting[r]
  /\ phase' = [phase EXCEPT ![r] = ""]
  /\ UNCHANGED <<clusterVars, deleting, finalizer, workerVars, ctrlVars, etcdVars, boundVars>>

DeleteRestore(r) ==
  /\ phase[r] # "absent" /\ ~deleting[r]
  /\ deleting' = [deleting EXCEPT ![r] = TRUE]
  /\ phase' = [phase EXCEPT ![r] = IF finalizer[r] THEN @ ELSE "absent"]
  /\ UNCHANGED <<clusterVars, finalizer, workerVars, ctrlVars, etcdVars, boundVars>>

-----------------------------------------------------------------------------
WorkerStep(r) ==
  \/ Reconcile(r)
  \/ Claim(r)
  \/ PauseCluster(r)
  \/ SetStarted(r)
  \/ DeleteStatefulSet(r)
  \/ DeleteVolumes(r)
  \/ SetStsRebuilding(r)
  \/ ResetAndUnpause(r)
  \/ WaitInitialized(r)
  \/ ReleaseCluster(r)
  \/ CompleteRestore(r)

ControllerStep ==
  \/ ClusterReconcile
  \/ ClusterHealth
  \/ UpdateExtendedHealth
  \/ SyncHealth
  \/ EnsureStatefulSets
  \/ ClusterReconcileEnds

OtherStep ==
  \/ OtherReconcile
  \/ OtherReconcileEnds

PodStep(p) ==
  \/ LauncherStarts(p)
  \/ RestoreDatadir(p)
  \/ LauncherPanics(p)
  \/ Rejoin(p)
  \/ CreatePod(p)
  \/ RemovePod(p)
  \/ RemoveVolume(p)

Next ==
  \/ \E r \in Restores :
       WorkerStep(r) \/ WorkerAborts(r) \/ CreateRestore(r) \/ DeleteRestore(r)
  \/ ControllerStep
  \/ OtherStep
  \/ \E p \in Pods : PodStep(p) \/ PodRestarts(p) \/ LoseData(p)
  \/ CacheSync

Spec == Init /\ [][Next]_vars

(* Controllers retry and resync, kubelets run the pods, caches catch up. *)
Fairness ==
  /\ \A r \in Restores : WF_vars(WorkerStep(r))
  /\ WF_vars(ControllerStep)
  /\ WF_vars(OtherStep)
  /\ \A p \in Pods : WF_vars(PodStep(p))
  /\ WF_vars(CacheSync)

FairSpec == Spec /\ Fairness

-----------------------------------------------------------------------------
(* Properties. *)

Destroying == {"pause", "start", "sts", "pvcs", "rebuilding"}

(* Every variable holds a value of its type. *)
TypeOK ==
  /\ cluster \in Cluster /\ cached \in Cluster /\ cacheFresh \in BOOLEAN
  /\ phase \in [Restores -> EtcdRestorePhase]
  /\ deleting \in [Restores -> BOOLEAN] /\ finalizer \in [Restores -> BOOLEAN]
  /\ pc \in [Restores -> {"idle", "claim", "unpause", "wait", "release", "complete"}
                         \cup Destroying]
  /\ mem \in [Restores -> Cluster] /\ fresh \in [Restores -> BOOLEAN]
  /\ ctrl \in {"idle", "health", "initialized", "deploy", "finish"}
  /\ ctrlMem \in Conditions /\ ctrlUp \in BOOLEAN
  /\ other \in {"idle", "finish"} /\ otherMem \in Conditions
  /\ sts \in BOOLEAN
  /\ pod \in [Pods -> {"none", "terminating", "starting", "new", "running"}]
  /\ pvc \in [Pods -> {"none", "bound", "terminating"}]
  /\ data \in [Pods -> Contents]
  /\ writes \in 0 .. MaxWrites /\ hasty \in 0 .. MaxHasty /\ faults \in 0 .. MaxFaults

(* The annotation excludes: a worker between taking it and having deleted  *)
(* the stateful set and the volumes still holds it, whatever copies of the *)
(* Cluster the others work on.                                             *)
DestroysOnlyWithLock ==
  \A r \in Restores : pc[r] \in Destroying => cluster.activeRestore = r

(* A volume, and with it the data of etcd, disappears only while a restore *)
(* that checked its backup is in the phase Started.                        *)
VolumesKept ==
  [][\A p \in Pods : pvc[p] # "none" /\ pvc'[p] = "none"
       => \E r \in Restores : phase[r] = "Started"]_vars

(* The cluster is paused only while a restore holds the annotation: none   *)
(* ends, is deleted or gives up leaving the cluster paused.                *)
PausedOnlyByRestore ==
  cluster.pause => cluster.activeRestore # ""

(* Once a restore has deleted the volumes, no etcd pod runs on data from   *)
(* before, however old the copies are that the controllers work on, and    *)
(* although one of them may have recreated the stateful set meanwhile.     *)
OldDataGone ==
  \A r \in Restores :
    phase[r] \in {"StsRebuilding", "Completed"} => \A p \in Pods : data[p] # "old"

(* A restore gives the annotation back before every etcd pod had the       *)
(* backup it restores, apart from what the pod lost since, only if there   *)
(* was a hasty reconciliation: stale copies do harm in no other way.       *)
ReleasedWhenRestored ==
  [][\A r \in Restores :
       cluster.activeRestore = r /\ cluster'.activeRestore # r
         => hasty > 0 \/ \A p \in Pods : data[p] \in {r, "lost"}]_vars

(* Every restore that holds the annotation gives it back, also when it is  *)
(* deleted meanwhile, so the next one gets its turn.                       *)
LockReleased ==
  \A r \in Restores : cluster.activeRestore = r ~> cluster.activeRestore # r

(* Every restore completes, or is deleted. *)
RestoresComplete ==
  \A r \in Restores : phase[r] = "" ~> phase[r] \in {"Completed", "absent"}

=============================================================================
