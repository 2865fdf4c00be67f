------------------------- MODULE EtcdRestoreProofs -------------------------
(***************************************************************************)
(* Proofs about EtcdRestore, for any number of restores and pods, however  *)
(* stale the copies of the Cluster, and however hasty the restores.        *)
(*                                                                         *)
(* Types, that volumes are kept and that the old data goes hold whatever   *)
(* fails.  That the annotation excludes and that the cluster is not left   *)
(* paused holds as long as no call fails: a worker that is retried after   *)
(* it cleared the annotation breaks them (see the README).                 *)
(***************************************************************************)
EXTENDS EtcdRestore, FiniteSetTheorems, TLAPS

LEMMA Bounds == MaxWrites \in Nat /\ MaxHasty \in Nat /\ MaxFaults \in Nat
BY RestoreConstants

----------------------------------------------------------------------------
(* Types *)

\* The fields of a Cluster that somebody writes
LEMMA Clusters ==
  /\ NoCopy \in Cluster
  /\ \A c \in Cluster :
       /\ c.initialized \in Conditions
       /\ \A r \in {""} \cup Restores : [c EXCEPT !.activeRestore = r] \in Cluster
       /\ [c EXCEPT !.pause = TRUE] \in Cluster
       /\ \A i \in Conditions :
            /\ [c EXCEPT !.initialized = i] \in Cluster
            /\ [c EXCEPT !.pause = FALSE, !.initialized = i] \in Cluster
BY DEF NoCopy, Cluster, Conditions

LEMMA InitTypes == Init => TypeOK
<1> SUFFICES ASSUME Init PROVE TypeOK
  OBVIOUS
<1>1. cluster \in Cluster /\ cached \in Cluster
  BY DEF Init, Cluster, Conditions
<1>2. NoCopy \in Cluster
  BY Clusters
<1>3. writes \in 0 .. MaxWrites /\ hasty \in 0 .. MaxHasty /\ faults \in 0 .. MaxFaults
  <2>1. writes = 0 /\ hasty = 0 /\ faults = 0
    BY DEF Init
  <2> QED
    BY <2>1, Bounds
<1> QED
  BY <1>1, <1>2, <1>3 DEF Init, TypeOK, Conditions, EtcdRestorePhase, Contents, NoData

\* The copies of the Cluster have the type of a Cluster
CopyTypes ==
  /\ cluster \in Cluster /\ cached \in Cluster /\ cacheFresh \in BOOLEAN
  /\ mem \in [Restores -> Cluster] /\ fresh \in [Restores -> BOOLEAN]

LEMMA WrittenTypes ==
  ASSUME NEW c, NEW W, Write(c, W)
  PROVE  fresh' \in [Restores -> BOOLEAN]
<1>1. \A r \in Restores : (r \in W) \in BOOLEAN
  OBVIOUS
<1>2. fresh' = [r \in Restores |-> r \in W]
  BY DEF Write
<1> QED
  BY <1>1, <1>2, Zenon

LEMMA UpdatedTypes ==
  ASSUME TypeOK, NEW r \in Restores, NEW c \in Cluster, NEW changed, UpdateCluster(r, changed, c)
  PROVE  CopyTypes'
<1>1. CASE changed
  <2>1. Write(c, {r}) /\ mem' = [mem EXCEPT ![r] = c]
    BY <1>1 DEF UpdateCluster
  <2>2. fresh' \in [Restores -> BOOLEAN]
    BY <2>1, WrittenTypes
  <2> QED
    BY <2>1, <2>2 DEF TypeOK, CopyTypes, Write
<1>2. CASE ~changed
  BY <1>2 DEF TypeOK, CopyTypes, UpdateCluster, clusterVars
<1> QED
  BY <1>1, <1>2

LEMMA PatchedTypes ==
  ASSUME TypeOK, NEW c \in Cluster, WritePatch(c)
  PROVE  CopyTypes'
<1>1. fresh' \in [Restores -> BOOLEAN]
  BY WrittenTypes DEF WritePatch
<1> QED
  BY <1>1 DEF TypeOK, CopyTypes, WritePatch, Write

LEMMA ReturnTypes ==
  ASSUME TypeOK, NEW r \in Restores, Return(r), UNCHANGED <<cluster, cached, cacheFresh>>
  PROVE  CopyTypes' /\ pc' \in [Restores -> {"idle", "claim", "unpause", "wait", "release", "complete"}
                                             \cup Destroying]
BY Clusters DEF TypeOK, CopyTypes, Return, Goto

\* Workers change neither the stateful set's pods nor the other controllers
LEMMA WorkerTypes ==
  ASSUME TypeOK, NEW r \in Restores, WorkerStep(r) \/ WorkerAborts(r)
  PROVE  TypeOK'
<1> USE DEF TypeOK, CopyTypes, clusterVars, restoreVars, workerVars, ctrlVars, etcdVars, boundVars,
            Goto
<1>1. CASE Reconcile(r)
  <2>1. hasty' \in 0 .. MaxHasty
    <3>1. hasty' = hasty \/ (hasty < MaxHasty /\ hasty' = hasty + 1)
      BY <1>1 DEF Reconcile
    <3> QED
      BY <3>1, Bounds
  <2> QED
    BY <1>1, <2>1 DEF Reconcile, FinalizerAfter
<1>2. CASE Claim(r)
  <2>1. [cluster EXCEPT !.activeRestore = r] \in Cluster
    BY Clusters
  <2>2. CopyTypes'
    BY <1>2, <2>1, UpdatedTypes, ReturnTypes DEF Claim
  <2> QED
    BY <1>2, <2>2, ReturnTypes DEF Claim, Destroying
<1>3. CASE PauseCluster(r)
  <2>1. [cluster EXCEPT !.pause = TRUE] \in Cluster
    BY Clusters
  <2>2. CopyTypes'
    BY <1>3, <2>1, UpdatedTypes DEF PauseCluster
  <2> QED
    BY <1>3, <2>2 DEF PauseCluster, Destroying
<1>4. CASE SetStarted(r)
  BY <1>4 DEF SetStarted, EtcdRestorePhase, Destroying
<1>5. CASE DeleteStatefulSet(r)
  BY <1>5 DEF DeleteStatefulSet, Doomed, Destroying
<1>6. CASE DeleteVolumes(r)
  <2>1. CopyTypes'
    BY <1>6, ReturnTypes DEF DeleteVolumes
  <2>2. pc' \in [Restores -> {"idle", "claim", "unpause", "wait", "release", "complete"} \cup Destroying]
    BY <1>6, ReturnTypes DEF DeleteVolumes, Destroying
  <2>3. faults' \in 0 .. MaxFaults
    BY <1>6, Bounds DEF DeleteVolumes
  <2>4. pvc' \in [Pods -> {"none", "bound", "terminating"}]
    BY <1>6 DEF DeleteVolumes
  <2> QED
    BY <1>6, <2>1, <2>2, <2>3, <2>4 DEF DeleteVolumes
<1>7. CASE SetStsRebuilding(r)
  BY <1>7 DEF SetStsRebuilding, EtcdRestorePhase
<1>8. CASE ResetAndUnpause(r)
  <2>1. ConditionAfterReset(r) \in Conditions
    BY Clusters DEF ConditionAfterReset, Conditions
  <2>2. [cluster EXCEPT !.pause = FALSE, !.initialized = ConditionAfterReset(r)] \in Cluster
    BY <2>1, Clusters
  <2>3. CopyTypes'
    BY <1>8, <2>2, UpdatedTypes DEF ResetAndUnpause
  <2> QED
    BY <1>8, <2>3 DEF ResetAndUnpause
<1>9. CASE WaitInitialized(r)
  BY <1>9, ReturnTypes DEF WaitInitialized
<1>10. CASE ReleaseCluster(r)
  <2>1. [cluster EXCEPT !.activeRestore = ""] \in Cluster
    BY Clusters
  <2>2. CopyTypes'
    BY <1>10, <2>1, UpdatedTypes DEF ReleaseCluster
  <2> QED
    BY <1>10, <2>2 DEF ReleaseCluster
<1>11. CASE CompleteRestore(r)
  BY <1>11, ReturnTypes DEF CompleteRestore, LastPhase, EtcdRestorePhase
<1>12. CASE WorkerAborts(r)
  <2>1. faults' \in 0 .. MaxFaults
    BY <1>12, Bounds DEF WorkerAborts, Fault
  <2> QED
    BY <1>12, <2>1, ReturnTypes DEF WorkerAborts
<1> QED
  BY <1>1, <1>2, <1>3, <1>4, <1>5, <1>6, <1>7, <1>8, <1>9, <1>10, <1>11, <1>12 DEF WorkerStep

LEMMA ControllerTypes ==
  ASSUME TypeOK, ControllerStep \/ OtherStep \/ CacheSync
  PROVE  TypeOK'
<1> USE DEF TypeOK, CopyTypes, clusterVars, restoreVars, workerVars, ctrlVars, etcdVars, boundVars
<1>0. ASSUME NEW i \in Conditions PROVE [cluster EXCEPT !.initialized = i] \in Cluster
  BY <1>0, Clusters
<1>1. CASE ClusterReconcile
  BY <1>1, Clusters DEF ClusterReconcile
<1>2. CASE ClusterHealth
  BY <1>2 DEF ClusterHealth, HealthyStatefulSet
<1>3. CASE SyncHealth
  <2>1. CopyTypes' /\ ctrlMem' \in Conditions
    BY <1>3, <1>0, PatchedTypes DEF SyncHealth, Conditions
  <2> QED
    BY <1>3, <2>1 DEF SyncHealth
<1>4. CASE EnsureStatefulSets
  BY <1>4 DEF EnsureStatefulSets
<1>5. CASE ClusterReconcileEnds
  <2>1. CopyTypes'
    BY <1>5, <1>0, PatchedTypes DEF ClusterReconcileEnds, WriteConditions
  <2>2. writes' \in 0 .. MaxWrites
    <3>1. writes' = writes \/ (writes < MaxWrites /\ writes' = writes + 1)
      BY <1>5 DEF ClusterReconcileEnds, WriteConditions
    <3> QED
      BY <3>1, Bounds
  <2> QED
    BY <1>5, <2>1, <2>2 DEF ClusterReconcileEnds, Conditions
<1>6. CASE OtherReconcile
  BY <1>6, Clusters DEF OtherReconcile
<1>7. CASE OtherReconcileEnds
  <2>1. CopyTypes'
    BY <1>7, <1>0, PatchedTypes DEF OtherReconcileEnds, WriteConditions
  <2>2. writes' \in 0 .. MaxWrites
    <3>1. writes' = writes \/ (writes < MaxWrites /\ writes' = writes + 1)
      BY <1>7 DEF OtherReconcileEnds, WriteConditions
    <3> QED
      BY <3>1, Bounds
  <2> QED
    BY <1>7, <2>1, <2>2 DEF OtherReconcileEnds, Conditions
<1>8. CASE CacheSync
  BY <1>8 DEF CacheSync
<1>9. CASE UpdateExtendedHealth
  <2>1. CopyTypes' /\ ctrlMem' \in Conditions
    BY <1>9, Clusters, PatchedTypes DEF UpdateExtendedHealth
  <2>2. writes' \in 0 .. MaxWrites
    BY <1>9, Bounds DEF UpdateExtendedHealth
  <2> QED
    BY <1>9, <2>1, <2>2 DEF UpdateExtendedHealth
<1> QED
  BY <1>1, <1>2, <1>3, <1>4, <1>5, <1>6, <1>7, <1>8, <1>9 DEF ControllerStep, OtherStep

LEMMA PodTypes ==
  ASSUME TypeOK, NEW p \in Pods, PodStep(p) \/ PodRestarts(p) \/ LoseData(p)
  PROVE  TypeOK'
<1> USE Bounds DEF TypeOK, clusterVars, restoreVars, workerVars, ctrlVars, boundVars,
               LauncherUnchanged, KubernetesUnchanged
<1>1. CASE LauncherStarts(p)
  BY <1>1 DEF LauncherStarts
<1>2. CASE RestoreDatadir(p)
  BY <1>2 DEF RestoreDatadir, ActiveRestores, Contents
<1>3. CASE LauncherPanics(p)
  BY <1>3 DEF LauncherPanics
<1>4. CASE Rejoin(p)
  BY <1>4 DEF Rejoin
<1>5. CASE PodRestarts(p)
  BY <1>5 DEF PodRestarts, Fault
<1>6. CASE LoseData(p)
  <2>1. faults' \in 0 .. MaxFaults
    BY <1>6 DEF LoseData, Fault
  <2> QED
    BY <1>6, <2>1 DEF LoseData, Contents, NoData
<1>7. CASE CreatePod(p) \/ RemovePod(p) \/ RemoveVolume(p)
  BY <1>7 DEF CreatePod, RemovePod, RemoveVolume, Contents, NoData
<1> QED
  BY <1>1, <1>2, <1>3, <1>4, <1>5, <1>6, <1>7 DEF PodStep

LEMMA UserTypes ==
  ASSUME TypeOK, NEW r \in Restores, CreateRestore(r) \/ DeleteRestore(r)
  PROVE  TypeOK'
BY DEF TypeOK, CreateRestore, DeleteRestore, EtcdRestorePhase, clusterVars, workerVars, ctrlVars,
       etcdVars, boundVars

LEMMA NextTypes == TypeOK /\ [Next]_vars => TypeOK'
<1> SUFFICES ASSUME TypeOK, [Next]_vars
             PROVE  TypeOK'
  OBVIOUS
<1>1. CASE UNCHANGED vars
  BY <1>1 DEF TypeOK, vars, clusterVars, restoreVars, workerVars, ctrlVars, etcdVars, boundVars
<1> QED
  BY <1>1, WorkerTypes, ControllerTypes, PodTypes, UserTypes DEF Next

(* Every variable of the restore keeps its type, whatever fails. *)
THEOREM RestoreTypes == Spec => []TypeOK
BY InitTypes, NextTypes, PTL DEF Spec

----------------------------------------------------------------------------
(* The inductive invariant, when no call fails *)

\* A worker in one of these steps holds the annotation
Holding == Destroying \cup {"unpause", "wait", "release"}

\* The restore needs the annotation no more, and never will
Done(r) ==
  pc[r] = "complete" \/ phase[r] = "Completed" \/ (phase[r] = "absent" /\ deleting[r])

Ended == {"absent", "Completed"}

\* The phase follows the worker, and the finalizer keeps a restore that is at work
Phases(r) ==
  /\ pc[r] # "idle" \/ cluster.activeRestore = r => finalizer[r] /\ phase[r] \notin Ended
  /\ deleting[r] /\ phase[r] \notin Ended => finalizer[r]
  /\ pc[r] \in {"pause", "start"} => phase[r] \in {"", "Started"}
  /\ pc[r] \in {"sts", "pvcs", "rebuilding"} => phase[r] = "Started"
  /\ pc[r] \in {"unpause", "wait", "release", "complete"} => phase[r] = "StsRebuilding"

\* Nobody takes the annotation from a restore that has begun and not released it,
\* and no copy of the Cluster makes a worker believe that it has it
Lock(r) ==
  /\ pc[r] \in Holding => cluster.activeRestore = r /\ mem[r].activeRestore = r
  /\ pc[r] = "claim" /\ mem[r].activeRestore = r => cluster.activeRestore = r
  /\ phase[r] = "Started" => cluster.activeRestore = r
  /\ phase[r] = "StsRebuilding" => cluster.activeRestore = r \/ pc[r] = "complete"
  /\ pc[r] = "complete" => cluster.activeRestore # r
  /\ cached.activeRestore = r => cluster.activeRestore = r \/ Done(r)

\* A worker that paused the cluster knows it until it has unpaused it
Pausing(r) ==
  /\ pc[r] \in Destroying \ {"pause"} => mem[r].pause
  /\ pc[r] = "unpause" => mem[r].pause \/ ~cluster.pause
  /\ phase[r] = "StsRebuilding" /\ pc[r] # "unpause" /\ cluster.activeRestore = r => ~cluster.pause

Copies == (cacheFresh => cached = cluster) /\ \A r \in Restores : fresh[r] => mem[r] = cluster

\* Volumes are being removed only for a restore that waits for them
Removing ==
  \A p \in Pods : pvc[p] = "terminating" =>
    \E r \in Restores : phase[r] = "Started" /\ pc[r] # "rebuilding"

IInv ==
  /\ TypeOK /\ Copies /\ PausedOnlyByRestore /\ Removing
  /\ \A r \in Restores : Phases(r) /\ Lock(r) /\ Pausing(r)

LEMMA RestoresAreNoConditions == "" \notin Restores
BY RestoreConstants

LEMMA InitIInv == Init => IInv
<1> SUFFICES ASSUME Init PROVE IInv
  OBVIOUS
<1>1. TypeOK
  BY InitTypes
<1>2. cluster.activeRestore = "" /\ ~cluster.pause /\ cached = cluster
  BY DEF Init
<1>3. \A r \in Restores : pc[r] = "idle" /\ phase[r] = "absent" /\ ~deleting[r] /\ ~fresh[r]
  BY DEF Init
<1>4. \A p \in Pods : pvc[p] = "bound"
  BY DEF Init
<1> QED
  BY <1>1, <1>2, <1>3, <1>4, RestoresAreNoConditions
  DEF IInv, Copies, PausedOnlyByRestore, Removing, Phases, Lock, Pausing, Holding, Destroying, Ended

\* What a step of the worker of r does to the other restores, and to the cluster
\* that one of them may hold
Keeps(r) ==
  /\ \A s \in Restores \ {r} :
       /\ pc'[s] = pc[s] /\ phase'[s] = phase[s] /\ deleting'[s] = deleting[s]
       /\ finalizer'[s] = finalizer[s] /\ mem'[s] = mem[s]
       /\ cluster'.activeRestore = s <=> cluster.activeRestore = s
       /\ cluster.activeRestore = s => (cluster'.pause => cluster.pause)
  /\ UNCHANGED cached

\* It is enough to look at the restore whose worker takes the step
LEMMA OneRestore ==
  ASSUME IInv, TypeOK', NEW r \in Restores, Keeps(r),
         Copies', PausedOnlyByRestore', Removing', Phases(r)', Lock(r)', Pausing(r)'
  PROVE  IInv'
<1>1. ASSUME NEW s \in Restores \ {r} PROVE Phases(s)' /\ Lock(s)' /\ Pausing(s)'
  <2>1. Phases(s) /\ Lock(s) /\ Pausing(s)
    BY DEF IInv
  <2>2. Done(s)' <=> Done(s)
    BY DEF Keeps, Done
  <2>3. Phases(s)'
    BY <2>1 DEF Keeps, Phases
  <2>4. Lock(s)'
    BY <2>1, <2>2 DEF Keeps, Lock
  <2>5. Pausing(s)'
    <3>1. pc[s] = "unpause" => cluster.activeRestore = s
      BY <2>1 DEF Lock, Holding
    <3> QED
      BY <3>1, <2>1 DEF Keeps, Pausing
  <2> QED
    BY <2>3, <2>4, <2>5
<1> QED
  BY <1>1 DEF IInv

LEMMA RemovingKept ==
  ASSUME Removing, NEW r \in Restores, Keeps(r), UNCHANGED pvc,
         phase[r] = "Started" /\ pc[r] # "rebuilding" => phase'[r] = "Started" /\ pc'[r] # "rebuilding"
  PROVE  Removing'
BY DEF Removing, Keeps

LEMMA CopiesUpdated ==
  ASSUME TypeOK, Copies, NEW r \in Restores, NEW changed, NEW c, UpdateCluster(r, changed, c)
  PROVE  Copies'
BY DEF TypeOK, Copies, UpdateCluster, Write, clusterVars

LEMMA CopiesPatched ==
  ASSUME TypeOK, Copies, NEW c, WritePatch(c)
  PROVE  Copies'
BY DEF TypeOK, Copies, WritePatch, Write

LEMMA CopiesReturned ==
  ASSUME TypeOK, Copies, NEW r \in Restores, Return(r), UNCHANGED <<cluster, cached, cacheFresh>>
  PROVE  Copies'
BY DEF TypeOK, Copies, Return

LEMMA ReconcileIInv ==
  ASSUME IInv, NEW r \in Restores, Reconcile(r)
  PROVE  IInv'
<1>1. TypeOK'
  BY WorkerTypes DEF IInv, WorkerStep
<1>2. /\ pc[r] = "idle" /\ pc' = [pc EXCEPT ![r] = "claim"]
      /\ phase[r] \notin Ended /\ mem' = [mem EXCEPT ![r] = cached]
      /\ finalizer' = [finalizer EXCEPT ![r] = finalizer[r] \/ ~deleting[r]]
      /\ fresh' = [fresh EXCEPT ![r] = cacheFresh]
      /\ UNCHANGED <<cluster, cached, cacheFresh, phase, deleting, pvc>>
  BY DEF Reconcile, FinalizerAfter, Goto, Ended, etcdVars
<1>3. /\ Keeps(r) /\ Phases(r) /\ Lock(r)
      /\ pc'[r] = "claim" /\ mem'[r] = cached /\ ~Done(r) /\ ~Done(r)'
      /\ finalizer'[r] = (finalizer[r] \/ ~deleting[r])
  BY <1>2 DEF IInv, TypeOK, Keeps, Done, Ended
<1>4. Copies' /\ PausedOnlyByRestore'
  BY <1>2 DEF IInv, TypeOK, Copies, PausedOnlyByRestore
<1>5. Removing'
  BY <1>2, <1>3, RemovingKept DEF IInv
<1>6. Phases(r)'
  BY <1>2, <1>3 DEF Phases, Ended
<1>7. Lock(r)'
  BY <1>2, <1>3 DEF Lock, Holding, Destroying
<1>8. Pausing(r)'
  BY <1>2, <1>3 DEF IInv, Pausing, Destroying
<1> QED
  BY <1>1, <1>3, <1>4, <1>5, <1>6, <1>7, <1>8, OneRestore

\* UpdateCluster answers with what it wrote
LEMMA Updated ==
  ASSUME TypeOK, NEW r \in Restores, NEW changed, NEW c, UpdateCluster(r, changed, c)
  PROVE  /\ changed => cluster' = c /\ mem'[r] = c
         /\ ~changed => cluster' = cluster /\ mem'[r] = mem[r]
         /\ UNCHANGED cached
         /\ \A s \in Restores \ {r} : mem'[s] = mem[s]
BY DEF TypeOK, UpdateCluster, Write, clusterVars

LEMMA ClaimIInv ==
  ASSUME IInv, NEW r \in Restores, Claim(r)
  PROVE  IInv'
<1>0. TypeOK /\ Copies /\ PausedOnlyByRestore /\ Removing /\ Phases(r) /\ Lock(r) /\ Pausing(r)
  BY DEF IInv
<1>1. TypeOK'
  BY WorkerTypes DEF IInv, WorkerStep
<1>2. pc[r] = "claim" /\ UNCHANGED <<phase, deleting, finalizer, pvc>>
  BY DEF Claim, restoreVars, etcdVars
<1> DEFINE next == IF phase[r] = "StsRebuilding" THEN "unpause" ELSE "pause"
<1>3. CASE mem[r].activeRestore = r /\ pc' = [pc EXCEPT ![r] = next] /\ UNCHANGED <<clusterVars, mem>>
  <2>1. Keeps(r) /\ pc'[r] = next /\ Copies' /\ PausedOnlyByRestore'
    BY <1>0, <1>2, <1>3 DEF TypeOK, Keeps, Copies, PausedOnlyByRestore, clusterVars
  <2>2. Removing'
    BY <1>0, <1>2, <2>1, RemovingKept
  <2>3. Phases(r)' /\ Lock(r)'
    BY <1>0, <1>2, <1>3, <2>1 DEF TypeOK, Phases, Lock, Done, Holding, Destroying, Ended, EtcdRestorePhase, clusterVars
  <2>4. Pausing(r)'
    <3>1. UNCHANGED <<cluster, mem, phase>> /\ cluster.activeRestore = r
      BY <1>0, <1>2, <1>3 DEF Lock, clusterVars
    <3>2. pc'[r] = "unpause" \/ pc'[r] = "pause"
      BY <2>1
    <3>3. phase[r] = "StsRebuilding" => ~cluster.pause
      BY <1>0, <1>2, <3>1 DEF Pausing
    <3>4. pc'[r] = "unpause" => phase[r] = "StsRebuilding"
      BY <2>1
    <3> QED
      BY <3>1, <3>2, <3>3, <3>4 DEF Pausing, Destroying
  <2> QED
    BY <1>1, <2>1, <2>2, <2>3, <2>4, OneRestore
<1>4. CASE /\ ClaimSucceeds(r) /\ UpdateCluster(r, TRUE, [cluster EXCEPT !.activeRestore = r])
           /\ pc' = [pc EXCEPT ![r] = next]
  <2>0. /\ cluster.activeRestore = "" /\ mem[r] = cluster
        /\ cluster' = [cluster EXCEPT !.activeRestore = r] /\ mem'[r] = cluster'
        /\ UNCHANGED cached /\ \A s \in Restores \ {r} : mem'[s] = mem[s]
    BY <1>0, <1>4, Updated DEF ClaimSucceeds, Copies
  <2>1. cluster'.activeRestore = r /\ cluster'.pause = cluster.pause /\ ~cluster.pause
    BY <1>0, <2>0 DEF TypeOK, Cluster, PausedOnlyByRestore
  <2>2. Keeps(r) /\ pc'[r] = next /\ PausedOnlyByRestore'
    <3>1. \A s \in Restores \ {r} : cluster'.activeRestore # s /\ cluster.activeRestore # s
      BY <2>0, <2>1, RestoresAreNoConditions
    <3>2. pc'[r] = next /\ \A s \in Restores \ {r} : pc'[s] = pc[s]
      BY <1>0, <1>4 DEF TypeOK
    <3>3. Keeps(r)
      BY <1>2, <2>0, <3>1, <3>2 DEF Keeps
    <3> QED
      BY <2>1, <3>2, <3>3 DEF PausedOnlyByRestore
  <2>3. Copies'
    BY <1>0, <1>4, CopiesUpdated
  <2>4. Removing'
    BY <1>0, <1>2, <2>2, RemovingKept
  <2>5. Phases(r)' /\ Lock(r)'
    BY <1>0, <1>2, <2>0, <2>1, <2>2 DEF TypeOK, Phases, Lock, Done, Holding, Destroying, Ended, EtcdRestorePhase
  <2>6. Pausing(r)'
    BY <1>0, <1>2, <2>1, <2>2 DEF Pausing, Destroying
  <2> QED
    BY <1>1, <2>2, <2>3, <2>4, <2>5, <2>6, OneRestore
<1>5. CASE /\ mem[r].activeRestore # r /\ ~ClaimSucceeds(r) /\ Return(r)
           /\ UNCHANGED <<cluster, cached, cacheFresh>>
  <2>1. Keeps(r) /\ pc'[r] = "idle" /\ Copies' /\ PausedOnlyByRestore'
    BY <1>0, <1>2, <1>5, CopiesReturned DEF TypeOK, Keeps, PausedOnlyByRestore, Return, Goto
  <2>2. Removing'
    BY <1>0, <1>2, <2>1, RemovingKept
  <2>3. Phases(r)' /\ Lock(r)' /\ Pausing(r)'
    BY <1>0, <1>2, <1>5, <2>1 DEF Phases, Lock, Pausing, Done, Holding, Destroying
  <2> QED
    BY <1>1, <2>1, <2>2, <2>3, OneRestore
<1> QED
  BY <1>3, <1>4, <1>5 DEF Claim, Goto

LEMMA PauseIInv ==
  ASSUME IInv, NEW r \in Restores, PauseCluster(r)
  PROVE  IInv'
<1>0. TypeOK /\ Copies /\ PausedOnlyByRestore /\ Removing /\ Phases(r) /\ Lock(r) /\ Pausing(r)
  BY DEF IInv
<1>1. TypeOK'
  BY WorkerTypes DEF IInv, WorkerStep
<1>2. /\ pc[r] = "pause" /\ pc' = [pc EXCEPT ![r] = "start"]
      /\ UpdateCluster(r, ~mem[r].pause, [cluster EXCEPT !.pause = TRUE])
      /\ UNCHANGED <<phase, deleting, finalizer, pvc>>
  BY DEF PauseCluster, Goto, restoreVars, etcdVars
<1>3. cluster.activeRestore = r /\ mem[r].activeRestore = r
  BY <1>0, <1>2 DEF Lock, Holding, Destroying
<1>4. /\ cluster'.activeRestore = r /\ mem'[r].activeRestore = r /\ mem'[r].pause
      /\ UNCHANGED cached /\ \A s \in Restores \ {r} : mem'[s] = mem[s]
  <2> DEFINE c == [cluster EXCEPT !.pause = TRUE]
  <2>1. c.activeRestore = r /\ c.pause
    BY <1>0, <1>3 DEF TypeOK, Cluster
  <2> HIDE DEF c
  <2>2. UpdateCluster(r, ~mem[r].pause, c)
    BY <1>2 DEF c
  <2> QED
    BY <1>0, <1>3, <2>1, <2>2, Updated
<1>5. Keeps(r) /\ pc'[r] = "start" /\ PausedOnlyByRestore'
  BY <1>0, <1>2, <1>3, <1>4, RestoresAreNoConditions DEF TypeOK, Keeps, PausedOnlyByRestore
<1>6. Copies'
  BY <1>0, <1>2, CopiesUpdated
<1>7. Removing'
  BY <1>0, <1>2, <1>5, RemovingKept
<1>8. Phases(r)' /\ Lock(r)' /\ Pausing(r)'
  BY <1>0, <1>2, <1>3, <1>4, <1>5 DEF Phases, Lock, Pausing, Done, Holding, Destroying, Ended
<1> QED
  BY <1>1, <1>5, <1>6, <1>7, <1>8, OneRestore

LEMMA StartedIInv ==
  ASSUME IInv, NEW r \in Restores, SetStarted(r)
  PROVE  IInv'
<1>0. TypeOK /\ Copies /\ PausedOnlyByRestore /\ Removing /\ Phases(r) /\ Lock(r) /\ Pausing(r)
  BY DEF IInv
<1>1. TypeOK'
  BY WorkerTypes DEF IInv, WorkerStep
<1>2. /\ pc[r] = "start" /\ pc' = [pc EXCEPT ![r] = "sts"] /\ phase' = [phase EXCEPT ![r] = "Started"]
      /\ UNCHANGED <<cluster, cached, cacheFresh, fresh, deleting, finalizer, mem, pvc>>
  BY DEF SetStarted, Goto, clusterVars, etcdVars
<1>3. Keeps(r) /\ pc'[r] = "sts" /\ phase'[r] = "Started" /\ Copies' /\ PausedOnlyByRestore'
  BY <1>0, <1>2 DEF TypeOK, Keeps, Copies, PausedOnlyByRestore
<1>4. Removing'
  BY <1>0, <1>2, <1>3, RemovingKept
<1>5. Phases(r)' /\ Lock(r)' /\ Pausing(r)'
  BY <1>0, <1>2, <1>3 DEF Phases, Lock, Pausing, Done, Holding, Destroying, Ended
<1> QED
  BY <1>1, <1>3, <1>4, <1>5, OneRestore

LEMMA StatefulSetIInv ==
  ASSUME IInv, NEW r \in Restores, DeleteStatefulSet(r)
  PROVE  IInv'
<1>0. TypeOK /\ Copies /\ PausedOnlyByRestore /\ Removing /\ Phases(r) /\ Lock(r) /\ Pausing(r)
  BY DEF IInv
<1>1. TypeOK'
  BY WorkerTypes DEF IInv, WorkerStep
<1>2. /\ pc[r] = "sts" /\ pc' = [pc EXCEPT ![r] = "pvcs"]
      /\ UNCHANGED <<cluster, cached, cacheFresh, fresh, phase, deleting, finalizer, mem, pvc>>
  BY DEF DeleteStatefulSet, Goto, clusterVars, restoreVars
<1>3. Keeps(r) /\ pc'[r] = "pvcs" /\ Copies' /\ PausedOnlyByRestore'
  BY <1>0, <1>2 DEF TypeOK, Keeps, Copies, PausedOnlyByRestore
<1>4. Removing'
  BY <1>0, <1>2, <1>3, RemovingKept
<1>5. Phases(r)' /\ Lock(r)' /\ Pausing(r)'
  BY <1>0, <1>2, <1>3 DEF Phases, Lock, Pausing, Done, Holding, Destroying, Ended
<1> QED
  BY <1>1, <1>3, <1>4, <1>5, OneRestore

LEMMA VolumesIInv ==
  ASSUME IInv, MaxFaults = 0, NEW r \in Restores, DeleteVolumes(r)
  PROVE  IInv'
<1>0. TypeOK /\ Copies /\ PausedOnlyByRestore /\ Removing /\ Phases(r) /\ Lock(r) /\ Pausing(r)
  BY DEF IInv
<1>1. TypeOK'
  BY WorkerTypes DEF IInv, WorkerStep
<1>2. pc[r] = "pvcs" /\ UNCHANGED <<cluster, cached, cacheFresh, phase, deleting, finalizer>>
  BY DEF DeleteVolumes, restoreVars
<1>3. phase[r] = "Started"
  BY <1>0, <1>2 DEF Phases
<1>4. PICK S \in SUBSET Claims :
        /\ S = Claims \/ faults < MaxFaults
        /\ pvc' = [p \in Pods |-> IF p \in S THEN "terminating" ELSE pvc[p]]
        /\ IF VolumesGone /\ S = Claims
           THEN pc' = [pc EXCEPT ![r] = "rebuilding"] /\ UNCHANGED <<mem, fresh>>
           ELSE Return(r)
  BY DEF DeleteVolumes, Goto
<1>5. S = Claims
  <2>1. faults = 0
    BY <1>0 DEF TypeOK
  <2> QED
    BY <2>1, <1>4
<1>6. CASE VolumesGone
  <2>1. pc' = [pc EXCEPT ![r] = "rebuilding"] /\ UNCHANGED <<mem, fresh>>
    BY <1>4, <1>5, <1>6
  <2>2. \A p \in Pods : pvc'[p] # "terminating"
    BY <1>4, <1>5, <1>6 DEF VolumesGone, Claims
  <2>3. Keeps(r) /\ pc'[r] = "rebuilding" /\ Copies' /\ PausedOnlyByRestore'
    BY <1>0, <1>2, <2>1 DEF TypeOK, Keeps, Copies, PausedOnlyByRestore
  <2>4. Removing'
    BY <2>2 DEF Removing
  <2>5. Phases(r)' /\ Lock(r)' /\ Pausing(r)'
    BY <1>0, <1>2, <2>1, <2>3 DEF Phases, Lock, Pausing, Done, Holding, Destroying, Ended
  <2> QED
    BY <1>1, <2>3, <2>4, <2>5, OneRestore
<1>7. CASE ~VolumesGone
  <2>1. Return(r)
    BY <1>4, <1>7
  <2>2. Keeps(r) /\ pc'[r] = "idle" /\ Copies' /\ PausedOnlyByRestore'
    BY <1>0, <1>2, <2>1, CopiesReturned DEF TypeOK, Keeps, PausedOnlyByRestore, Return, Goto
  <2>3. Removing'
    BY <1>2, <1>3, <2>2 DEF Removing
  <2>4. Phases(r)' /\ Lock(r)' /\ Pausing(r)'
    BY <1>0, <1>2, <1>3, <2>2 DEF Phases, Lock, Pausing, Done, Holding, Destroying, Ended
  <2> QED
    BY <1>1, <2>2, <2>3, <2>4, OneRestore
<1> QED
  BY <1>6, <1>7

LEMMA RebuildingIInv ==
  ASSUME IInv, NEW r \in Restores, SetStsRebuilding(r)
  PROVE  IInv'
<1>0. TypeOK /\ Copies /\ PausedOnlyByRestore /\ Removing /\ Phases(r) /\ Lock(r) /\ Pausing(r)
  BY DEF IInv
<1>1. TypeOK'
  BY WorkerTypes DEF IInv, WorkerStep
<1>2. /\ pc[r] = "rebuilding" /\ pc' = [pc EXCEPT ![r] = "unpause"]
      /\ phase' = [phase EXCEPT ![r] = "StsRebuilding"]
      /\ UNCHANGED <<cluster, cached, cacheFresh, fresh, deleting, finalizer, mem, pvc>>
  BY DEF SetStsRebuilding, Goto, clusterVars, etcdVars
<1>3. Keeps(r) /\ pc'[r] = "unpause" /\ phase'[r] = "StsRebuilding" /\ Copies' /\ PausedOnlyByRestore'
  BY <1>0, <1>2 DEF TypeOK, Keeps, Copies, PausedOnlyByRestore
<1>4. Removing'
  BY <1>0, <1>2, <1>3, RemovingKept
<1>5. Phases(r)' /\ Lock(r)' /\ Pausing(r)'
  BY <1>0, <1>2, <1>3 DEF Phases, Lock, Pausing, Done, Holding, Destroying, Ended
<1> QED
  BY <1>1, <1>3, <1>4, <1>5, OneRestore

LEMMA UnpauseIInv ==
  ASSUME IInv, NEW r \in Restores, ResetAndUnpause(r)
  PROVE  IInv'
<1>0. TypeOK /\ Copies /\ PausedOnlyByRestore /\ Removing /\ Phases(r) /\ Lock(r) /\ Pausing(r)
  BY DEF IInv
<1>1. TypeOK'
  BY WorkerTypes DEF IInv, WorkerStep
<1> DEFINE c == [cluster EXCEPT !.pause = FALSE, !.initialized = ConditionAfterReset(r)]
<1>2. /\ pc[r] = "unpause" /\ pc' = [pc EXCEPT ![r] = "wait"]
      /\ UpdateCluster(r, mem[r].pause, c)
      /\ UNCHANGED <<phase, deleting, finalizer, pvc>>
  BY DEF ResetAndUnpause, Goto, restoreVars, etcdVars
<1>3. cluster.activeRestore = r /\ mem[r].activeRestore = r /\ (mem[r].pause \/ ~cluster.pause)
  BY <1>0, <1>2 DEF Lock, Pausing, Holding, Destroying
<1>4. c.activeRestore = r /\ ~c.pause
  BY <1>0, <1>3 DEF TypeOK, Cluster
<1> HIDE DEF c
<1>5. /\ cluster'.activeRestore = r /\ mem'[r].activeRestore = r /\ ~cluster'.pause
      /\ UNCHANGED cached /\ \A s \in Restores \ {r} : mem'[s] = mem[s]
  BY <1>0, <1>2, <1>3, <1>4, Updated
<1>6. Keeps(r) /\ pc'[r] = "wait" /\ PausedOnlyByRestore'
  BY <1>0, <1>2, <1>3, <1>5 DEF TypeOK, Keeps, PausedOnlyByRestore
<1>7. Copies'
  BY <1>0, <1>2, CopiesUpdated
<1>8. Removing'
  BY <1>0, <1>2, <1>6, RemovingKept
<1>9. Phases(r)' /\ Lock(r)' /\ Pausing(r)'
  BY <1>0, <1>2, <1>3, <1>5, <1>6 DEF Phases, Lock, Pausing, Done, Holding, Destroying, Ended
<1> QED
  BY <1>1, <1>6, <1>7, <1>8, <1>9, OneRestore

LEMMA WaitIInv ==
  ASSUME IInv, NEW r \in Restores, WaitInitialized(r)
  PROVE  IInv'
<1>0. TypeOK /\ Copies /\ PausedOnlyByRestore /\ Removing /\ Phases(r) /\ Lock(r) /\ Pausing(r)
  BY DEF IInv
<1>1. TypeOK'
  BY WorkerTypes DEF IInv, WorkerStep
<1>2. pc[r] = "wait" /\ UNCHANGED <<cluster, cached, cacheFresh, phase, deleting, finalizer, pvc>>
  BY DEF WaitInitialized, restoreVars, etcdVars
<1>3. CASE pc' = [pc EXCEPT ![r] = "release"] /\ UNCHANGED <<mem, fresh>>
  <2>1. Keeps(r) /\ pc'[r] = "release" /\ Copies' /\ PausedOnlyByRestore'
    BY <1>0, <1>2, <1>3 DEF TypeOK, Keeps, Copies, PausedOnlyByRestore
  <2>2. Removing'
    BY <1>0, <1>2, <2>1, RemovingKept
  <2>3. Phases(r)' /\ Lock(r)' /\ Pausing(r)'
    BY <1>0, <1>2, <1>3, <2>1 DEF Phases, Lock, Pausing, Done, Holding, Destroying, Ended
  <2> QED
    BY <1>1, <2>1, <2>2, <2>3, OneRestore
<1>4. CASE Return(r)
  <2>1. Keeps(r) /\ pc'[r] = "idle" /\ Copies' /\ PausedOnlyByRestore'
    BY <1>0, <1>2, <1>4, CopiesReturned DEF TypeOK, Keeps, PausedOnlyByRestore, Return, Goto
  <2>2. Removing'
    BY <1>0, <1>2, <2>1, RemovingKept
  <2>3. Phases(r)' /\ Lock(r)' /\ Pausing(r)'
    BY <1>0, <1>2, <2>1 DEF Phases, Lock, Pausing, Done, Holding, Destroying, Ended
  <2> QED
    BY <1>1, <2>1, <2>2, <2>3, OneRestore
<1> QED
  BY <1>3, <1>4 DEF WaitInitialized, Goto

LEMMA ReleaseIInv ==
  ASSUME IInv, NEW r \in Restores, ReleaseCluster(r)
  PROVE  IInv'
<1>0. TypeOK /\ Copies /\ PausedOnlyByRestore /\ Removing /\ Phases(r) /\ Lock(r) /\ Pausing(r)
  BY DEF IInv
<1>1. TypeOK'
  BY WorkerTypes DEF IInv, WorkerStep
<1> DEFINE c == [cluster EXCEPT !.activeRestore = ""]
<1>2. /\ pc[r] = "release" /\ pc' = [pc EXCEPT ![r] = "complete"]
      /\ UpdateCluster(r, mem[r].activeRestore # "", c)
      /\ UNCHANGED <<phase, deleting, finalizer, pvc>>
  BY DEF ReleaseCluster, Goto, restoreVars, etcdVars
<1>3. cluster.activeRestore = r /\ mem[r].activeRestore = r /\ ~cluster.pause
  BY <1>0, <1>2 DEF Phases, Lock, Pausing, Holding, Destroying
<1>4. c.activeRestore = "" /\ ~c.pause
  BY <1>0, <1>3 DEF TypeOK, Cluster
<1> HIDE DEF c
<1>5. /\ cluster'.activeRestore = "" /\ ~cluster'.pause
      /\ UNCHANGED cached /\ \A s \in Restores \ {r} : mem'[s] = mem[s]
  BY <1>0, <1>2, <1>3, <1>4, Updated, RestoresAreNoConditions
<1>6. Keeps(r) /\ pc'[r] = "complete" /\ PausedOnlyByRestore'
  BY <1>0, <1>2, <1>3, <1>5, RestoresAreNoConditions DEF TypeOK, Keeps, PausedOnlyByRestore
<1>7. Copies'
  BY <1>0, <1>2, CopiesUpdated
<1>8. Removing'
  BY <1>0, <1>2, <1>6, RemovingKept
<1>9. Phases(r)' /\ Lock(r)' /\ Pausing(r)'
  BY <1>0, <1>2, <1>3, <1>5, <1>6, RestoresAreNoConditions
  DEF Phases, Lock, Pausing, Done, Holding, Destroying, Ended
<1> QED
  BY <1>1, <1>6, <1>7, <1>8, <1>9, OneRestore

LEMMA CompleteIInv ==
  ASSUME IInv, NEW r \in Restores, CompleteRestore(r)
  PROVE  IInv'
<1>0. TypeOK /\ Copies /\ PausedOnlyByRestore /\ Removing /\ Phases(r) /\ Lock(r) /\ Pausing(r)
  BY DEF IInv
<1>1. TypeOK'
  BY WorkerTypes DEF IInv, WorkerStep
<1>2. /\ pc[r] = "complete" /\ Return(r)
      /\ phase' = [phase EXCEPT ![r] = IF deleting[r] THEN "absent" ELSE "Completed"]
      /\ finalizer' = [finalizer EXCEPT ![r] = FALSE]
      /\ UNCHANGED <<cluster, cached, cacheFresh, deleting, pvc>>
  BY DEF CompleteRestore, LastPhase, etcdVars
<1>3. /\ Keeps(r) /\ pc'[r] = "idle" /\ phase'[r] = IF deleting[r] THEN "absent" ELSE "Completed"
      /\ Copies' /\ PausedOnlyByRestore'
  BY <1>0, <1>2, CopiesReturned DEF TypeOK, Keeps, PausedOnlyByRestore, Return, Goto
<1>4. phase[r] = "StsRebuilding" /\ cluster.activeRestore # r
  BY <1>0, <1>2 DEF Phases, Lock
<1>5. Removing'
  BY <1>0, <1>2, <1>3, <1>4, RemovingKept
<1>6. Phases(r)' /\ Lock(r)' /\ Pausing(r)'
  <2>1. UNCHANGED <<cluster, cached>> /\ deleting'[r] = deleting[r] /\ Done(r)'
    BY <1>2, <1>3 DEF Done
  <2>2. phase'[r] \in Ended
    BY <1>3 DEF Ended
  <2>3. Phases(r)' /\ Pausing(r)'
    BY <1>3, <1>4, <2>1, <2>2 DEF Phases, Pausing, Destroying, Ended
  <2>4. Lock(r)'
    BY <1>3, <1>4, <2>1, <2>2 DEF Lock, Holding, Destroying, Ended
  <2> QED
    BY <2>3, <2>4
<1> QED
  BY <1>1, <1>3, <1>5, <1>6, OneRestore

\* A user creates and deletes restores: the finalizer keeps the one that is at work
LEMMA CreateIInv ==
  ASSUME IInv, NEW r \in Restores, CreateRestore(r)
  PROVE  IInv'
<1>0. TypeOK /\ Copies /\ PausedOnlyByRestore /\ Removing /\ Phases(r) /\ Lock(r) /\ Pausing(r)
  BY DEF IInv
<1>1. TypeOK'
  BY <1>0, UserTypes
<1>2. /\ phase[r] = "absent" /\ ~deleting[r] /\ phase' = [phase EXCEPT ![r] = ""]
      /\ UNCHANGED <<cluster, cached, cacheFresh, fresh, deleting, finalizer, pc, mem, pvc>>
  BY DEF CreateRestore, clusterVars, workerVars, etcdVars
<1>3. Keeps(r) /\ phase'[r] = "" /\ Copies' /\ PausedOnlyByRestore'
  BY <1>0, <1>2 DEF TypeOK, Keeps, Copies, PausedOnlyByRestore
<1>4. pc[r] = "idle" /\ cluster.activeRestore # r /\ cached.activeRestore # r
  BY <1>0, <1>2 DEF Phases, Lock, Done, Ended
<1>5. Removing'
  BY <1>0, <1>2, <1>3, RemovingKept
<1>6. Phases(r)' /\ Lock(r)' /\ Pausing(r)'
  BY <1>0, <1>2, <1>3, <1>4 DEF Phases, Lock, Pausing, Holding, Destroying, Ended
<1> QED
  BY <1>1, <1>3, <1>5, <1>6, OneRestore

LEMMA DeleteIInv ==
  ASSUME IInv, NEW r \in Restores, DeleteRestore(r)
  PROVE  IInv'
<1>0. TypeOK /\ Copies /\ PausedOnlyByRestore /\ Removing /\ Phases(r) /\ Lock(r) /\ Pausing(r)
  BY DEF IInv
<1>1. TypeOK'
  BY <1>0, UserTypes
<1>2. /\ deleting' = [deleting EXCEPT ![r] = TRUE]
      /\ phase' = [phase EXCEPT ![r] = IF finalizer[r] THEN phase[r] ELSE "absent"]
      /\ UNCHANGED <<cluster, cached, cacheFresh, fresh, finalizer, pc, mem, pvc>>
  BY DEF DeleteRestore, clusterVars, workerVars, etcdVars
<1>3. /\ Keeps(r) /\ deleting'[r] /\ phase'[r] = IF finalizer[r] THEN phase[r] ELSE "absent"
      /\ Copies' /\ PausedOnlyByRestore'
  BY <1>0, <1>2 DEF TypeOK, Keeps, Copies, PausedOnlyByRestore
<1>4. pc[r] # "idle" \/ cluster.activeRestore = r => finalizer[r]
  BY <1>0 DEF Phases
<1>5. phase[r] = "Started" => finalizer[r]
  BY <1>0, <1>4 DEF Lock
<1>6. Removing'
  BY <1>0, <1>2, <1>3, <1>5, RemovingKept
<1>7. Phases(r)' /\ Pausing(r)'
  BY <1>0, <1>2, <1>3, <1>4 DEF Phases, Pausing, Holding, Destroying, Ended
<1>8. Lock(r)'
  BY <1>0, <1>2, <1>3, <1>4 DEF Lock, Done, Holding, Destroying
<1> QED
  BY <1>1, <1>3, <1>6, <1>7, <1>8, OneRestore

\* The other controllers write the condition only; caches catch up; pods come and go
LEMMA OthersIInv ==
  ASSUME IInv, TypeOK', Copies', Removing', UNCHANGED <<phase, deleting, finalizer, pc, mem>>,
         cluster'.activeRestore = cluster.activeRestore, cluster'.pause = cluster.pause,
         cached' = cached \/ cached' = cluster
  PROVE  IInv'
<1>1. PausedOnlyByRestore'
  BY DEF IInv, PausedOnlyByRestore
<1>2. ASSUME NEW s \in Restores PROVE Phases(s)' /\ Lock(s)' /\ Pausing(s)'
  <2>1. Phases(s) /\ Lock(s) /\ Pausing(s)
    BY DEF IInv
  <2>2. Done(s)' <=> Done(s)
    BY DEF Done
  <2>3. Phases(s)'
    BY <2>1 DEF Phases
  <2>4. Lock(s)'
    BY <2>1, <2>2 DEF Lock
  <2>5. Pausing(s)'
    BY <2>1 DEF Pausing
  <2> QED
    BY <2>3, <2>4, <2>5
<1> QED
  BY <1>1, <1>2 DEF IInv

LEMMA PatchIInv ==
  ASSUME IInv, TypeOK', NEW i \in Conditions, WritePatch([cluster EXCEPT !.initialized = i]),
         UNCHANGED <<phase, deleting, finalizer, pc, pvc>>
  PROVE  IInv'
<1>1. Copies'
  BY CopiesPatched DEF IInv
<1>2. /\ cluster'.activeRestore = cluster.activeRestore /\ cluster'.pause = cluster.pause
      /\ UNCHANGED <<mem, cached>>
  BY DEF IInv, TypeOK, Cluster, WritePatch, Write
<1>3. Removing'
  BY DEF IInv, Removing
<1> QED
  BY <1>1, <1>2, <1>3, OthersIInv

LEMMA StutterIInv ==
  ASSUME IInv, TypeOK', Removing', UNCHANGED <<clusterVars, restoreVars, workerVars>>
  PROVE  IInv'
<1>1. Copies'
  BY DEF IInv, Copies, clusterVars, workerVars
<1> QED
  BY <1>1, OthersIInv DEF clusterVars, restoreVars, workerVars

LEMMA ControllerIInv == IInv /\ (ControllerStep \/ OtherStep) => IInv'
<1> SUFFICES ASSUME IInv, ControllerStep \/ OtherStep PROVE IInv'
  OBVIOUS
<1>0. TypeOK /\ Removing /\ ctrlMem \in Conditions /\ otherMem \in Conditions /\ "True" \in Conditions
  BY DEF IInv, TypeOK, Conditions
<1>1. TypeOK'
  BY <1>0, ControllerTypes
<1>2. UNCHANGED <<phase, deleting, finalizer, pc, pvc>> /\ Removing'
  BY <1>0 DEF ControllerStep, OtherStep, ClusterReconcile, ClusterHealth, UpdateExtendedHealth, SyncHealth,
     EnsureStatefulSets, ClusterReconcileEnds, OtherReconcile, OtherReconcileEnds, restoreVars, workerVars, etcdVars, Removing
<1>3. cluster.initialized \in Conditions /\ [cluster EXCEPT !.initialized = cluster.initialized] = cluster
  <2>1. cluster.initialized \in Conditions
    BY <1>0, Clusters DEF TypeOK
  <2>2. [cluster EXCEPT !.initialized = cluster.initialized] = cluster
    BY <1>0 DEF TypeOK, Cluster
  <2> QED
    BY <2>1, <2>2
<1>4. \/ UNCHANGED <<clusterVars, mem>>
      \/ \E i \in Conditions : WritePatch([cluster EXCEPT !.initialized = i])
  BY <1>0, <1>3 DEF ControllerStep, OtherStep, ClusterReconcile, ClusterHealth, UpdateExtendedHealth, SyncHealth,
     EnsureStatefulSets, ClusterReconcileEnds, OtherReconcile, OtherReconcileEnds, WriteConditions, workerVars
<1> QED
  BY <1>1, <1>2, <1>4, PatchIInv, StutterIInv DEF restoreVars, workerVars

LEMMA PodIInv ==
  ASSUME IInv, NEW p \in Pods, PodStep(p)
  PROVE  IInv'
<1>1. TypeOK'
  BY PodTypes DEF IInv
<1>2. UNCHANGED <<clusterVars, restoreVars, workerVars>>
  BY DEF PodStep, LauncherStarts, RestoreDatadir, LauncherPanics, Rejoin, CreatePod, RemovePod,
     RemoveVolume, LauncherUnchanged, KubernetesUnchanged
<1>3. \A q \in Pods : pvc'[q] = "terminating" => pvc[q] = "terminating"
  BY DEF IInv, TypeOK, PodStep, LauncherStarts, RestoreDatadir, LauncherPanics, Rejoin, CreatePod, RemovePod,
     RemoveVolume, LauncherUnchanged, KubernetesUnchanged
<1>4. Removing'
  BY <1>2, <1>3 DEF IInv, Removing, restoreVars, workerVars
<1> QED
  BY <1>1, <1>2, <1>4, StutterIInv

LEMMA SyncIInv == IInv /\ CacheSync => IInv'
<1> SUFFICES ASSUME IInv, CacheSync PROVE IInv'
  OBVIOUS
<1>1. TypeOK'
  BY NextTypes DEF IInv, Next
<1>2. cached' = cluster /\ UNCHANGED <<cluster, fresh, phase, deleting, finalizer, pc, mem, pvc>>
  BY DEF CacheSync, restoreVars, workerVars, etcdVars
<1>3. Copies' /\ Removing'
  BY <1>2 DEF IInv, Copies, Removing
<1> QED
  BY <1>1, <1>2, <1>3, OthersIInv

LEMMA NextIInv ==
  ASSUME MaxFaults = 0
  PROVE  IInv /\ [Next]_vars => IInv'
<1> SUFFICES ASSUME IInv, [Next]_vars PROVE IInv'
  OBVIOUS
<1>1. ~Fault
  <2>1. faults = 0
    BY DEF IInv, TypeOK
  <2> QED
    BY <2>1 DEF Fault
<1>2. ASSUME NEW r \in Restores, WorkerStep(r) PROVE IInv'
  BY <1>2, ReconcileIInv, ClaimIInv, PauseIInv, StartedIInv, StatefulSetIInv, VolumesIInv, RebuildingIInv,
     UnpauseIInv, WaitIInv, ReleaseIInv, CompleteIInv DEF WorkerStep
<1>3. ASSUME NEW r \in Restores, WorkerAborts(r) \/ CreateRestore(r) \/ DeleteRestore(r) PROVE IInv'
  BY <1>1, <1>3, CreateIInv, DeleteIInv DEF WorkerAborts
<1>4. CASE ControllerStep \/ OtherStep
  BY <1>4, ControllerIInv
<1>5. ASSUME NEW p \in Pods, PodStep(p) \/ PodRestarts(p) \/ LoseData(p) PROVE IInv'
  BY <1>1, <1>5, PodIInv DEF PodRestarts, LoseData
<1>6. CASE CacheSync
  BY <1>6, SyncIInv
<1>7. CASE UNCHANGED vars
  <2>1. TypeOK'
    BY NextTypes DEF IInv
  <2>2. Removing' /\ UNCHANGED <<clusterVars, restoreVars, workerVars>>
    BY <1>7 DEF IInv, Removing, vars, restoreVars, workerVars, etcdVars
  <2> QED
    BY <2>1, <2>2, StutterIInv
<1> QED
  BY <1>2, <1>3, <1>4, <1>5, <1>6, <1>7 DEF Next

LEMMA AlwaysIInv ==
  ASSUME MaxFaults = 0
  PROVE  Spec => []IInv
BY InitIInv, NextIInv, PTL DEF Spec

----------------------------------------------------------------------------
(* The theorems *)

(* The annotation ActiveRestoreAnnotationName excludes: as long as no call *)
(* fails, a restore that pauses the cluster or deletes the stateful set    *)
(* and the volumes holds it, for any number of restores of one cluster.    *)
THEOREM RestoresExclude ==
  ASSUME MaxFaults = 0
  PROVE  Spec => []DestroysOnlyWithLock
<1>1. IInv => DestroysOnlyWithLock
  BY DEF IInv, Lock, Holding, DestroysOnlyWithLock
<1> QED
  BY <1>1, AlwaysIInv, PTL

(* As long as no call fails, no restore ends, is deleted or gives up with  *)
(* the cluster left paused.                                                *)
THEOREM PausesEnd ==
  ASSUME MaxFaults = 0
  PROVE  Spec => []PausedOnlyByRestore
<1>1. IInv => PausedOnlyByRestore
  BY DEF IInv
<1> QED
  BY <1>1, AlwaysIInv, PTL

----------------------------------------------------------------------------
(* The volumes, whatever fails *)

\* The phase follows the worker, and the finalizer keeps a restore that is at work
AtWork(r) ==
  /\ pc[r] # "idle" \/ phase[r] = "Started" => finalizer[r] /\ phase[r] \notin Ended
  /\ deleting[r] /\ phase[r] \notin Ended => finalizer[r]
  /\ pc[r] \in {"pause", "start"} => phase[r] \in {"", "Started"}
  /\ pc[r] \in {"sts", "pvcs", "rebuilding"} => phase[r] = "Started"
  /\ pc[r] \in {"unpause", "wait", "release", "complete"} => phase[r] = "StsRebuilding"

VolumeInv == TypeOK /\ Removing /\ \A r \in Restores : AtWork(r)

LEMMA InitVolumeInv == Init => VolumeInv
BY InitTypes DEF Init, VolumeInv, Removing, AtWork

\* What a step on behalf of restore r leaves alone
Alone(r) ==
  \A s \in Restores \ {r} : /\ pc'[s] = pc[s] /\ phase'[s] = phase[s]
                            /\ deleting'[s] = deleting[s] /\ finalizer'[s] = finalizer[s]

LEMMA OneAtWork ==
  ASSUME VolumeInv, TypeOK', NEW r \in Restores, Alone(r), AtWork(r)', Removing'
  PROVE  VolumeInv'
<1>1. ASSUME NEW s \in Restores \ {r} PROVE AtWork(s)'
  BY <1>1 DEF VolumeInv, Alone, AtWork
<1> QED
  BY <1>1 DEF VolumeInv

LEMMA RemovingAlone ==
  ASSUME Removing, NEW r \in Restores, Alone(r), UNCHANGED pvc,
         phase[r] = "Started" /\ pc[r] # "rebuilding" => phase'[r] = "Started" /\ pc'[r] # "rebuilding"
  PROVE  Removing'
BY DEF Removing, Alone

\* A volume is marked for deletion by a restore that stays in Started until none is left
LEMMA VolumesMarked ==
  ASSUME VolumeInv, NEW r \in Restores, DeleteVolumes(r)
  PROVE  VolumeInv'
<1>0. TypeOK /\ Removing /\ AtWork(r)
  BY DEF VolumeInv
<1>1. TypeOK'
  BY <1>0, WorkerTypes DEF WorkerStep
<1>2. pc[r] = "pvcs" /\ UNCHANGED <<phase, deleting, finalizer>>
  BY DEF DeleteVolumes, restoreVars
<1>3. PICK S \in SUBSET Claims :
        /\ pvc' = [p \in Pods |-> IF p \in S THEN "terminating" ELSE pvc[p]]
        /\ IF VolumesGone /\ S = Claims
           THEN Goto(r, "rebuilding") /\ UNCHANGED <<mem, fresh>>
           ELSE Return(r)
  BY DEF DeleteVolumes
<1>4. phase[r] = "Started" /\ finalizer[r]
  BY <1>0, <1>2 DEF AtWork
<1>5. CASE VolumesGone /\ S = Claims
  <2>1. pc'[r] = "rebuilding" /\ \A s \in Restores \ {r} : pc'[s] = pc[s]
    BY <1>0, <1>3, <1>5 DEF TypeOK, Goto
  <2>2. \A p \in Pods : pvc[p] = "none"
    BY <1>5 DEF VolumesGone, Claims
  <2>3. \A p \in Pods : pvc'[p] = "none"
    BY <1>3, <1>5, <2>2 DEF VolumesGone
  <2>4. Alone(r) /\ AtWork(r)' /\ Removing'
    BY <1>0, <1>2, <1>4, <2>1, <2>3 DEF Alone, AtWork, Removing
  <2> QED
    BY <1>1, <2>4, OneAtWork
<1>6. CASE ~(VolumesGone /\ S = Claims)
  <2>1. pc'[r] = "idle" /\ \A s \in Restores \ {r} : pc'[s] = pc[s]
    BY <1>0, <1>3, <1>6 DEF TypeOK, Return, Goto
  <2>2. Removing'
    BY <1>2, <1>4, <2>1 DEF Removing
  <2>3. Alone(r) /\ AtWork(r)'
    BY <1>0, <1>2, <1>4, <2>1 DEF Alone, AtWork
  <2> QED
    BY <1>1, <2>2, <2>3, OneAtWork
<1> QED
  BY <1>5, <1>6

\* The other steps of a worker, and of the user, leave the volumes alone
LEMMA RestoreVolumes ==
  ASSUME VolumeInv, NEW r \in Restores,
         WorkerStep(r) \/ WorkerAborts(r) \/ CreateRestore(r) \/ DeleteRestore(r)
  PROVE  VolumeInv'
<1>0. TypeOK /\ Removing /\ AtWork(r)
  BY DEF VolumeInv
<1>1. TypeOK'
  BY <1>0, WorkerTypes, UserTypes
<1> USE DEF restoreVars, workerVars, etcdVars, Goto
<1>2. ASSUME UNCHANGED pvc, Alone(r), AtWork(r)',
             phase[r] = "Started" /\ pc[r] # "rebuilding" => phase'[r] = "Started" /\ pc'[r] # "rebuilding"
      PROVE  VolumeInv'
  BY <1>0, <1>1, <1>2, RemovingAlone, OneAtWork
<1>3. CASE Reconcile(r)
  <2>1. /\ pc[r] = "idle" /\ pc' = [pc EXCEPT ![r] = "claim"] /\ phase[r] \notin Ended
        /\ finalizer' = [finalizer EXCEPT ![r] = finalizer[r] \/ ~deleting[r]]
        /\ UNCHANGED <<phase, deleting, pvc>>
    BY <1>3 DEF Reconcile, FinalizerAfter, Ended
  <2>2. Alone(r) /\ pc'[r] = "claim" /\ finalizer'[r] = (finalizer[r] \/ ~deleting[r])
    BY <1>0, <2>1 DEF TypeOK, Alone
  <2>3. AtWork(r)'
    BY <1>0, <2>1, <2>2 DEF AtWork
  <2> QED
    BY <1>2, <2>1, <2>2, <2>3
<1>4. CASE Claim(r)
  <2>1. pc[r] = "claim" /\ UNCHANGED <<phase, deleting, finalizer, pvc>>
    BY <1>4 DEF Claim
  <2>2. \/ pc' = [pc EXCEPT ![r] = IF phase[r] = "StsRebuilding" THEN "unpause" ELSE "pause"]
        \/ pc' = [pc EXCEPT ![r] = "idle"]
    BY <1>4 DEF Claim, Return
  <2>3. /\ Alone(r)
        /\ pc'[r] \in {IF phase[r] = "StsRebuilding" THEN "unpause" ELSE "pause", "idle"}
    BY <1>0, <2>1, <2>2 DEF TypeOK, Alone
  <2>4. phase[r] \in {"", "Started", "StsRebuilding"}
    BY <1>0, <2>1 DEF TypeOK, AtWork, Ended, EtcdRestorePhase
  <2>5. AtWork(r)'
    BY <1>0, <2>1, <2>3, <2>4 DEF AtWork
  <2> QED
    BY <1>2, <2>1, <2>3, <2>5
<1>5. CASE PauseCluster(r) \/ ReleaseCluster(r) \/ ResetAndUnpause(r)
  <2>1. /\ UNCHANGED <<phase, deleting, finalizer, pvc>>
        /\ \/ pc[r] = "pause" /\ pc' = [pc EXCEPT ![r] = "start"]
           \/ pc[r] = "release" /\ pc' = [pc EXCEPT ![r] = "complete"]
           \/ pc[r] = "unpause" /\ pc' = [pc EXCEPT ![r] = "wait"]
    BY <1>5 DEF PauseCluster, ReleaseCluster, ResetAndUnpause
  <2>2. /\ Alone(r)
        /\ \/ pc[r] = "pause" /\ pc'[r] = "start"
           \/ pc[r] = "release" /\ pc'[r] = "complete"
           \/ pc[r] = "unpause" /\ pc'[r] = "wait"
    BY <1>0, <2>1 DEF TypeOK, Alone
  <2>3. AtWork(r)'
    BY <1>0, <2>1, <2>2 DEF AtWork
  <2> QED
    BY <1>2, <2>1, <2>2, <2>3
<1>6. CASE SetStarted(r) \/ SetStsRebuilding(r)
  <2>1. /\ UNCHANGED <<deleting, finalizer, pvc>>
        /\ \/ /\ pc[r] = "start" /\ pc' = [pc EXCEPT ![r] = "sts"]
              /\ phase' = [phase EXCEPT ![r] = "Started"]
           \/ /\ pc[r] = "rebuilding" /\ pc' = [pc EXCEPT ![r] = "unpause"]
              /\ phase' = [phase EXCEPT ![r] = "StsRebuilding"]
    BY <1>6 DEF SetStarted, SetStsRebuilding
  <2>2. /\ Alone(r)
        /\ \/ pc[r] = "start" /\ pc'[r] = "sts" /\ phase'[r] = "Started"
           \/ pc[r] = "rebuilding" /\ pc'[r] = "unpause" /\ phase'[r] = "StsRebuilding"
    BY <1>0, <2>1 DEF TypeOK, Alone
  <2>3. AtWork(r)'
    BY <1>0, <2>1, <2>2 DEF AtWork, Ended
  <2> QED
    BY <1>2, <2>1, <2>2, <2>3
<1>7. CASE DeleteStatefulSet(r)
  <2>1. pc[r] = "sts" /\ pc' = [pc EXCEPT ![r] = "pvcs"] /\ UNCHANGED <<phase, deleting, finalizer, pvc>>
    BY <1>7 DEF DeleteStatefulSet
  <2>2. Alone(r) /\ pc'[r] = "pvcs"
    BY <1>0, <2>1 DEF TypeOK, Alone
  <2>3. AtWork(r)'
    BY <1>0, <2>1, <2>2 DEF AtWork
  <2> QED
    BY <1>2, <2>1, <2>2, <2>3
<1>8. CASE WaitInitialized(r) \/ WorkerAborts(r)
  <2>1. /\ UNCHANGED <<phase, deleting, finalizer, pvc>>
        /\ \/ pc[r] = "wait" /\ pc' = [pc EXCEPT ![r] = "release"]
           \/ pc' = [pc EXCEPT ![r] = "idle"]
    BY <1>8 DEF WaitInitialized, WorkerAborts, Return
  <2>2. Alone(r) /\ ((pc[r] = "wait" /\ pc'[r] = "release") \/ pc'[r] = "idle")
    BY <1>0, <2>1 DEF TypeOK, Alone
  <2>3. AtWork(r)'
    BY <1>0, <2>1, <2>2 DEF AtWork
  <2> QED
    BY <1>2, <2>1, <2>2, <2>3
<1>9. CASE CompleteRestore(r)
  <2>1. /\ pc[r] = "complete" /\ pc' = [pc EXCEPT ![r] = "idle"] /\ UNCHANGED <<deleting, pvc>>
        /\ phase' = [phase EXCEPT ![r] = IF deleting[r] THEN "absent" ELSE "Completed"]
        /\ finalizer' = [finalizer EXCEPT ![r] = FALSE]
    BY <1>9 DEF CompleteRestore, LastPhase, Return
  <2>2. Alone(r) /\ pc'[r] = "idle" /\ phase'[r] \in Ended
    BY <1>0, <2>1 DEF TypeOK, Alone, Ended
  <2>3. AtWork(r)' /\ phase[r] = "StsRebuilding"
    BY <1>0, <2>1, <2>2 DEF AtWork, Ended
  <2> QED
    BY <1>2, <2>1, <2>2, <2>3
<1>10. CASE CreateRestore(r)
  <2>1. /\ phase[r] = "absent" /\ ~deleting[r] /\ phase' = [phase EXCEPT ![r] = ""]
        /\ UNCHANGED <<deleting, finalizer, pc, pvc>>
    BY <1>10 DEF CreateRestore
  <2>2. Alone(r) /\ phase'[r] = "" /\ pc[r] = "idle"
    BY <1>0, <2>1 DEF TypeOK, Alone, AtWork, Ended
  <2>3. AtWork(r)'
    BY <1>0, <2>1, <2>2 DEF AtWork
  <2> QED
    BY <1>2, <2>1, <2>2, <2>3
<1>11. CASE DeleteRestore(r)
  <2>1. /\ deleting' = [deleting EXCEPT ![r] = TRUE] /\ UNCHANGED <<finalizer, pc, pvc>>
        /\ phase' = [phase EXCEPT ![r] = IF finalizer[r] THEN phase[r] ELSE "absent"]
    BY <1>11 DEF DeleteRestore
  <2>2. Alone(r) /\ phase'[r] = IF finalizer[r] THEN phase[r] ELSE "absent"
    BY <1>0, <2>1 DEF TypeOK, Alone
  <2>3. AtWork(r)'
    <3>1. finalizer'[r] = finalizer[r] /\ pc'[r] = pc[r]
      BY <2>1
    <3>2. CASE finalizer[r]
      BY <1>0, <2>2, <3>1, <3>2 DEF AtWork
    <3>3. CASE ~finalizer[r]
      <4>1. pc'[r] = "idle" /\ phase'[r] = "absent"
        BY <1>0, <2>2, <3>1, <3>3 DEF AtWork
      <4> QED
        BY <4>1 DEF AtWork, Ended
    <3> QED
      BY <3>2, <3>3
  <2>4. phase[r] = "Started" => finalizer[r]
    BY <1>0 DEF AtWork
  <2> QED
    BY <1>2, <2>1, <2>2, <2>3, <2>4
<1> QED
  BY <1>3, <1>4, <1>5, <1>6, <1>7, <1>8, <1>9, <1>10, <1>11, VolumesMarked DEF WorkerStep

\* Everybody else only removes the volumes already marked
LEMMA NextVolumeInv == VolumeInv /\ [Next]_vars => VolumeInv'
<1> SUFFICES ASSUME VolumeInv, [Next]_vars PROVE VolumeInv'
  OBVIOUS
<1>0. TypeOK' /\ TypeOK
  BY NextTypes DEF VolumeInv
<1>1. ASSUME UNCHANGED <<phase, deleting, finalizer, pc>>,
             \A p \in Pods : pvc'[p] = "terminating" => pvc[p] = "terminating"
      PROVE  VolumeInv'
  BY <1>0, <1>1 DEF VolumeInv, AtWork, Removing
<1>2. CASE ControllerStep \/ OtherStep \/ CacheSync \/ UNCHANGED vars
  <2>1. UNCHANGED <<phase, deleting, finalizer, pc, pvc>>
    BY <1>2 DEF ControllerStep, OtherStep, ClusterReconcile, ClusterHealth, UpdateExtendedHealth, SyncHealth,
       EnsureStatefulSets, ClusterReconcileEnds, OtherReconcile, OtherReconcileEnds, CacheSync, vars, restoreVars, workerVars, etcdVars
  <2> QED
    BY <1>1, <2>1
<1>3. ASSUME NEW p \in Pods, PodStep(p) \/ PodRestarts(p) \/ LoseData(p) PROVE VolumeInv'
  <2>1. UNCHANGED <<phase, deleting, finalizer, pc>>
    BY <1>3 DEF PodStep, PodRestarts, LoseData, LauncherStarts, RestoreDatadir, LauncherPanics, Rejoin,
       CreatePod, RemovePod, RemoveVolume, LauncherUnchanged, KubernetesUnchanged, restoreVars, workerVars
  <2>2. \A q \in Pods : pvc'[q] = "terminating" => pvc[q] = "terminating"
    BY <1>0, <1>3 DEF TypeOK, PodStep, PodRestarts, LoseData, LauncherStarts, RestoreDatadir, LauncherPanics,
       Rejoin, CreatePod, RemovePod, RemoveVolume, LauncherUnchanged, KubernetesUnchanged
  <2> QED
    BY <1>1, <2>1, <2>2
<1> QED
  BY <1>2, <1>3, RestoreVolumes DEF Next

(* A volume of etcd goes only while a restore is in the phase Started, for *)
(* any number of pods and restores, and whatever calls of the restore      *)
(* controller fail, pods restart or volumes lose their data.               *)
THEOREM VolumesStay == Spec => VolumesKept
<1> DEFINE Kept ==
      \A p \in Pods : pvc[p] # "none" /\ pvc'[p] = "none"
        => \E r \in Restores : phase[r] = "Started"
<1>1. VolumeInv /\ [Next]_vars => [Kept]_vars
  <2> SUFFICES ASSUME VolumeInv, Next, NEW p \in Pods, pvc[p] # "none", pvc'[p] = "none"
               PROVE  \E r \in Restores : phase[r] = "Started"
    OBVIOUS
  <2>1. pvc[p] = "terminating"
    <3>1. ASSUME NEW r \in Restores, WorkerStep(r) \/ WorkerAborts(r) \/ CreateRestore(r) \/ DeleteRestore(r)
          PROVE  pvc'[p] = pvc[p] \/ pvc'[p] = "terminating"
      BY <3>1 DEF WorkerStep, Reconcile, Claim, PauseCluster, SetStarted, DeleteStatefulSet, DeleteVolumes,
         SetStsRebuilding, ResetAndUnpause, WaitInitialized, ReleaseCluster, CompleteRestore,
         WorkerAborts, CreateRestore, DeleteRestore, etcdVars
    <3>2. ASSUME ControllerStep \/ OtherStep \/ CacheSync
          PROVE  pvc' = pvc
      BY <3>2 DEF ControllerStep, OtherStep, ClusterReconcile, ClusterHealth, UpdateExtendedHealth, SyncHealth,
         EnsureStatefulSets, ClusterReconcileEnds, OtherReconcile, OtherReconcileEnds, CacheSync, etcdVars
    <3>3. ASSUME NEW q \in Pods, PodStep(q) \/ PodRestarts(q) \/ LoseData(q)
          PROVE  pvc'[p] = pvc[p] \/ pvc'[p] = "bound" \/ pvc[p] = "terminating"
      BY <3>3 DEF VolumeInv, TypeOK, PodStep, PodRestarts, LoseData, LauncherStarts, RestoreDatadir,
         LauncherPanics, Rejoin, CreatePod, RemovePod, RemoveVolume, LauncherUnchanged, KubernetesUnchanged
    <3> QED
      BY <3>1, <3>2, <3>3 DEF Next
  <2> QED
    BY <2>1 DEF VolumeInv, Removing
<1>2. Spec => [][Kept]_vars
  BY <1>1, InitVolumeInv, NextVolumeInv, PTL DEF Spec
<1> QED
  BY <1>2 DEF VolumesKept

----------------------------------------------------------------------------
(* The old data, whatever fails *)

\* A pod without a volume does not run, and there is no data without a volume
Vacant == \A p \in Pods : pvc[p] = "none" => pod[p] = "none" /\ data[p] = ""

NoOldData == \A p \in Pods : data[p] # "old"

\* The restore has found all volumes gone
Past(r) == pc[r] = "rebuilding" \/ phase[r] \in {"StsRebuilding", "Completed"}

DataInv == VolumeInv /\ Vacant /\ \A r \in Restores : Past(r) => NoOldData

LEMMA InitDataInv == Init => DataInv
BY InitVolumeInv DEF Init, DataInv, Vacant, Past

LEMMA VacantKept ==
  ASSUME Vacant, UNCHANGED <<pod, pvc, data>>
  PROVE  Vacant'
BY DEF Vacant

\* A ring runs on the data of some pod
LEMMA RingHasMember ==
  ASSUME NEW d, HasRing(d)
  PROVE  d \notin NoData /\ \E p \in Pods : data[p] = d
<1>1. IsFiniteSet(Pods) /\ Cardinality(Pods) \in Nat
  BY RestoreConstants, FS_CardinalityType
<1>2. CASE RunningOn(d) = {}
  <2>1. Cardinality(RunningOn(d)) = 0
    BY <1>2, FS_EmptySet
  <2> QED
    BY <1>1, <2>1 DEF HasRing
<1>3. CASE RunningOn(d) # {}
  BY <1>3 DEF HasRing, RunningOn
<1> QED
  BY <1>2, <1>3

\* Only the launchers and the volumes change the data
LEMMA DataSteps ==
  ASSUME [Next]_vars
  PROVE  \/ UNCHANGED data
         \/ \E p \in Pods : RestoreDatadir(p) \/ Rejoin(p) \/ LoseData(p) \/ RemoveVolume(p)
<1>1. ASSUME NEW r \in Restores, WorkerStep(r) \/ WorkerAborts(r) \/ CreateRestore(r) \/ DeleteRestore(r)
      PROVE  UNCHANGED data
  BY <1>1 DEF WorkerStep, Reconcile, Claim, PauseCluster, SetStarted, DeleteStatefulSet, DeleteVolumes,
     SetStsRebuilding, ResetAndUnpause, WaitInitialized, ReleaseCluster, CompleteRestore,
     WorkerAborts, CreateRestore, DeleteRestore, etcdVars
<1>2. ASSUME ControllerStep \/ OtherStep \/ CacheSync
      PROVE  UNCHANGED data
  BY <1>2 DEF ControllerStep, OtherStep, ClusterReconcile, ClusterHealth, UpdateExtendedHealth, SyncHealth,
     EnsureStatefulSets, ClusterReconcileEnds, OtherReconcile, OtherReconcileEnds, CacheSync, etcdVars
<1>3. ASSUME NEW p \in Pods, \/ LauncherStarts(p) \/ LauncherPanics(p) \/ CreatePod(p) \/ RemovePod(p)
                             \/ PodRestarts(p)
      PROVE  UNCHANGED data
  BY <1>3 DEF LauncherStarts, LauncherPanics, CreatePod, RemovePod, PodRestarts
<1>4. CASE UNCHANGED vars
  BY <1>4 DEF vars, etcdVars
<1> QED
  BY <1>1, <1>2, <1>3, <1>4 DEF Next, PodStep

\* No data comes back: a launcher fills its directory from a backup, from a ring or with
\* an empty one
LEMMA OldDataStaysGone ==
  ASSUME TypeOK, NoOldData, [Next]_vars
  PROVE  NoOldData'
<1>0. "old" \notin Restores /\ "old" \notin NoData
  BY RestoreConstants DEF NoData
<1>1. ASSUME NEW p \in Pods, NEW d, d # "old", data' = [data EXCEPT ![p] = d]
      PROVE  NoOldData'
  BY <1>1 DEF TypeOK, NoOldData
<1>2. CASE UNCHANGED data
  BY <1>2 DEF NoOldData
<1>3. ASSUME NEW p \in Pods, RestoreDatadir(p) PROVE NoOldData'
  <2>1. \/ UNCHANGED data
        \/ data' = [data EXCEPT ![p] = IF data[p] \in NoData THEN "fresh" ELSE data[p]]
        \/ \E r \in ActiveRestores : data' = [data EXCEPT ![p] = r]
    BY <1>3 DEF RestoreDatadir
  <2>2. (IF data[p] \in NoData THEN "fresh" ELSE data[p]) # "old"
    BY DEF NoOldData
  <2>3. \A r \in ActiveRestores : r # "old"
    BY <1>0 DEF ActiveRestores
  <2> QED
    BY <1>1, <1>2, <2>1, <2>2, <2>3
<1>4. ASSUME NEW p \in Pods, Rejoin(p) PROVE NoOldData'
  <2>1. PICK d \in Contents : HasRing(d) /\ data' = [data EXCEPT ![p] = d]
    BY <1>4 DEF Rejoin
  <2>2. d # "old"
    BY <2>1, RingHasMember DEF NoOldData
  <2> QED
    BY <1>1, <2>1, <2>2
<1>5. ASSUME NEW p \in Pods, LoseData(p) \/ RemoveVolume(p) PROVE NoOldData'
  <2>1. \E d \in NoData : data' = [data EXCEPT ![p] = d]
    BY <1>5 DEF LoseData, RemoveVolume, NoData
  <2> QED
    BY <1>0, <1>1, <2>1
<1> QED
  BY <1>2, <1>3, <1>4, <1>5, DataSteps

LEMMA NextVacant == TypeOK /\ Vacant /\ [Next]_vars => Vacant'
<1> SUFFICES ASSUME TypeOK, Vacant, [Next]_vars PROVE Vacant'
  OBVIOUS
<1>1. ASSUME NEW r \in Restores, WorkerStep(r) \/ WorkerAborts(r) \/ CreateRestore(r) \/ DeleteRestore(r)
      PROVE  Vacant'
  <2>1. CASE DeleteStatefulSet(r)
    <3>1. UNCHANGED <<pvc, data>> /\ \A p \in Pods : pod[p] = "none" => pod'[p] = "none"
      BY <2>1 DEF TypeOK, DeleteStatefulSet, Doomed
    <3> QED
      BY <3>1 DEF Vacant
  <2>2. CASE DeleteVolumes(r)
    <3>1. UNCHANGED <<pod, data>> /\ \A p \in Pods : pvc'[p] = "none" => pvc[p] = "none"
      BY <2>2 DEF DeleteVolumes
    <3> QED
      BY <3>1 DEF Vacant
  <2>3. CASE ~DeleteStatefulSet(r) /\ ~DeleteVolumes(r)
    <3>1. UNCHANGED <<pod, pvc, data>>
      BY <1>1, <2>3 DEF WorkerStep, Reconcile, Claim, PauseCluster, SetStarted, SetStsRebuilding,
         ResetAndUnpause, WaitInitialized, ReleaseCluster, CompleteRestore, WorkerAborts, CreateRestore,
         DeleteRestore, etcdVars
    <3> QED
      BY <3>1, VacantKept
  <2> QED
    BY <2>1, <2>2, <2>3
<1>2. CASE ControllerStep \/ OtherStep \/ CacheSync \/ UNCHANGED vars
  <2>1. UNCHANGED <<pod, pvc, data>>
    BY <1>2 DEF ControllerStep, OtherStep, ClusterReconcile, ClusterHealth, UpdateExtendedHealth, SyncHealth,
       EnsureStatefulSets, ClusterReconcileEnds, OtherReconcile, OtherReconcileEnds, CacheSync, vars, etcdVars
  <2> QED
    BY <2>1, VacantKept
<1>3. ASSUME NEW p \in Pods, PodStep(p) \/ PodRestarts(p) \/ LoseData(p) PROVE Vacant'
  <2>1. \A q \in Pods \ {p} : pod'[q] = pod[q] /\ pvc'[q] = pvc[q] /\ data'[q] = data[q]
    <3>1. CASE LauncherStarts(p) \/ RestoreDatadir(p) \/ LauncherPanics(p) \/ Rejoin(p)
      BY <3>1 DEF TypeOK, LauncherStarts, RestoreDatadir, LauncherPanics, Rejoin, LauncherUnchanged
    <3>2. CASE PodRestarts(p) \/ LoseData(p)
      BY <3>2 DEF TypeOK, PodRestarts, LoseData, LauncherUnchanged
    <3>3. CASE CreatePod(p) \/ RemovePod(p) \/ RemoveVolume(p)
      BY <3>3 DEF TypeOK, CreatePod, RemovePod, RemoveVolume
    <3> QED
      BY <1>3, <3>1, <3>2, <3>3 DEF PodStep
  <2>2. \/ pvc'[p] = pvc[p] /\ pod[p] # "none"
        \/ pvc'[p] = "bound"
        \/ pod'[p] = "none" /\ data'[p] = ""
    <3>1. CASE LauncherStarts(p) \/ RestoreDatadir(p) \/ LauncherPanics(p) \/ Rejoin(p) \/ RemovePod(p)
      BY <3>1 DEF LauncherStarts, RestoreDatadir, LauncherPanics, Rejoin, RemovePod, LauncherUnchanged
    <3>2. CASE PodRestarts(p) \/ LoseData(p)
      BY <3>2 DEF PodRestarts, LoseData, LauncherUnchanged
    <3>3. CASE CreatePod(p) \/ RemoveVolume(p)
      BY <3>3 DEF TypeOK, CreatePod, RemoveVolume
    <3> QED
      BY <1>3, <3>1, <3>2, <3>3 DEF PodStep
  <2> QED
    BY <2>1, <2>2 DEF Vacant
<1> QED
  BY <1>1, <1>2, <1>3 DEF Next

\* A restore gets past the deletion of the volumes only when it finds none
LEMMA PastWhenGone ==
  ASSUME VolumeInv, [Next]_vars, NEW r \in Restores, Past(r)'
  PROVE  Past(r) \/ (VolumesGone /\ UNCHANGED data)
<1>0. TypeOK /\ AtWork(r)
  BY DEF VolumeInv
<1>1. CASE UNCHANGED <<pc, phase>>
  BY <1>1 DEF Past
<1>2. ASSUME NEW s \in Restores, WorkerStep(s) \/ WorkerAborts(s)
      PROVE  Past(r) \/ (VolumesGone /\ UNCHANGED data)
  <2>1. CASE DeleteVolumes(s)
    <3>1. UNCHANGED <<phase, data>> /\ (VolumesGone \/ pc'[r] = pc[r] \/ pc'[r] = "idle")
      BY <1>0, <2>1 DEF TypeOK, DeleteVolumes, Return, Goto, restoreVars
    <3> QED
      BY <3>1 DEF Past
  <2>2. CASE SetStsRebuilding(s) \/ CompleteRestore(s)
    <3>1. /\ s # r => pc'[r] = pc[r] /\ phase'[r] = phase[r]
          /\ pc[s] \in {"rebuilding", "complete"}
      BY <1>0, <2>2 DEF TypeOK, SetStsRebuilding, CompleteRestore, Return, Goto
    <3> QED
      BY <1>0, <3>1 DEF Past, AtWork
  <2>3. CASE SetStarted(s)
    <3>1. (phase'[r] = phase[r] \/ phase'[r] = "Started") /\ (pc'[r] = pc[r] \/ pc'[r] = "sts")
      BY <1>0, <2>3 DEF TypeOK, SetStarted, Goto
    <3> QED
      BY <3>1 DEF Past
  <2>4. CASE \/ Reconcile(s) \/ Claim(s) \/ PauseCluster(s) \/ DeleteStatefulSet(s) \/ ResetAndUnpause(s)
             \/ WaitInitialized(s) \/ ReleaseCluster(s) \/ WorkerAborts(s)
    <3>1. phase' = phase
      BY <2>4 DEF Reconcile, Claim, PauseCluster, DeleteStatefulSet, ResetAndUnpause, WaitInitialized,
         ReleaseCluster, WorkerAborts, restoreVars
    <3>2. \E next : pc' = [pc EXCEPT ![s] = next] /\ next # "rebuilding"
      BY <2>4 DEF Reconcile, Claim, PauseCluster, DeleteStatefulSet, ResetAndUnpause, WaitInitialized,
         ReleaseCluster, WorkerAborts, Return, Goto
    <3>3. pc'[r] = pc[r] \/ pc'[r] # "rebuilding"
      BY <1>0, <3>2 DEF TypeOK
    <3> QED
      BY <3>1, <3>3 DEF Past
  <2> QED
    BY <1>2, <2>1, <2>2, <2>3, <2>4 DEF WorkerStep
<1>3. ASSUME NEW s \in Restores, CreateRestore(s) \/ DeleteRestore(s)
      PROVE  Past(r)
  <2>1. pc' = pc /\ phase'[r] \in {phase[r], "", "absent"}
    BY <1>0, <1>3 DEF TypeOK, CreateRestore, DeleteRestore, workerVars
  <2> QED
    BY <2>1 DEF Past
<1>4. CASE ControllerStep \/ OtherStep \/ CacheSync \/ UNCHANGED vars
  <2>1. UNCHANGED <<pc, phase>>
    BY <1>4 DEF ControllerStep, OtherStep, ClusterReconcile, ClusterHealth, UpdateExtendedHealth, SyncHealth,
       EnsureStatefulSets, ClusterReconcileEnds, OtherReconcile, OtherReconcileEnds, CacheSync, vars, restoreVars,
       workerVars
  <2> QED
    BY <1>1, <2>1
<1>5. ASSUME NEW p \in Pods, PodStep(p) \/ PodRestarts(p) \/ LoseData(p)
      PROVE  UNCHANGED <<pc, phase>>
  BY <1>5 DEF PodStep, PodRestarts, LoseData, LauncherStarts, RestoreDatadir, LauncherPanics, Rejoin,
     CreatePod, RemovePod, RemoveVolume, LauncherUnchanged, KubernetesUnchanged, restoreVars, workerVars
<1> QED
  BY <1>1, <1>2, <1>3, <1>4, <1>5 DEF Next

LEMMA NextDataInv == DataInv /\ [Next]_vars => DataInv'
<1> SUFFICES ASSUME DataInv, [Next]_vars PROVE DataInv'
  OBVIOUS
<1>1. VolumeInv' /\ Vacant'
  BY NextVolumeInv, NextVacant DEF DataInv, VolumeInv
<1>2. ASSUME NEW r \in Restores, Past(r)' PROVE NoOldData'
  <2>1. CASE Past(r)
    BY <2>1, OldDataStaysGone DEF DataInv, VolumeInv
  <2>2. CASE VolumesGone /\ UNCHANGED data
    BY <2>2 DEF DataInv, Vacant, VolumesGone, Claims, NoOldData
  <2> QED
    BY <1>2, <2>1, <2>2, PastWhenGone DEF DataInv
<1> QED
  BY <1>1, <1>2 DEF DataInv

(* Once a restore has deleted the volumes, no etcd pod runs on the data of *)
(* before: for any number of pods and restores, however old the copies of  *)
(* the Cluster are on which the cluster controller recreates the stateful  *)
(* set meanwhile, however hasty the restores, and whatever fails.          *)
THEOREM OldDataGoes == Spec => []OldDataGone
<1>1. DataInv => OldDataGone
  BY DEF DataInv, Past, NoOldData, OldDataGone
<1> QED
  BY <1>1, InitDataInv, NextDataInv, PTL DEF Spec
============================================================================
