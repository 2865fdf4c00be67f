------------------------- MODULE EtcdReleaseProofs -------------------------
(***************************************************************************)
(* A restore gives the annotation back only when every etcd pod has its    *)
(* backup, unless there was a hasty reconciliation: the proof of           *)
(* ReleasedWhenRestored, for any number of restores and pods, of stale     *)
(* copies and of conditions written by the other controllers, as long as   *)
(* no call fails and no data is lost.                                      *)
(*                                                                         *)
(* The argument.  As long as there was no haste, nobody works on a copy of *)
(* the Cluster from before it was paused when the volumes are gone         *)
(* (Clearing), so nobody recreates the stateful set, and all data          *)
(* directories are empty (Emptied) until the worker resets the condition   *)
(* and unpauses the cluster.  No copy names the restore in its condition   *)
(* before that (Unnamed), so the reset takes effect.  From then on the     *)
(* data directories are filled from this backup only, and the condition is *)
(* true in no copy that counts unless all of them are filled (Refilling).  *)
(***************************************************************************)
EXTENDS EtcdRestoreProofs

NoneBound == \A p \in Pods : pvc[p] # "bound"

\* The stateful set and its volumes are gone, and nobody recreates them
Emptied == Settled /\ sts = FALSE /\ \A p \in Pods : pvc[p] = "none"

Rebuilds(r) == phase[r] = "StsRebuilding" /\ cluster.activeRestore = r

Restored(r) == \A p \in Pods : data[p] = r

\* The restore has not reset the condition, and may still do so
Unreset(r) ==
  \/ phase[r] \in {"", "Started"}
  \/ phase[r] = "absent" /\ ~deleting[r]
  \/ Rebuilds(r) /\ cluster.pause

\* The copies of the condition that may be written or compared on behalf of r
Copied(r) == {cluster.initialized, cached.initialized, ctrlMem, otherMem, mem[r].initialized}

Unnamed(r) == Unreset(r) => r \notin Copied(r)

\* A controller that does nothing has no copy, and keeps no health it has used
Idle ==
  /\ ctrl = "idle" => ctrlMem = ""
  /\ ctrl # "initialized" => ~ctrlUp
  /\ other = "idle" => otherMem = ""

\* The volumes are there except while a restore has deleted them
Whole ==
  (\A r \in Restores : phase[r] # "Started" /\ ~Rebuilds(r)) => \A p \in Pods : pvc[p] = "bound"

\* The cluster of a restore that has Started is paused, also when its worker trusts a copy
Paused(r) ==
  /\ cluster.activeRestore = r /\ phase[r] \in {"", "Started"} =>
       /\ cached.activeRestore = r /\ cached.pause => cluster.pause
       /\ mem[r].activeRestore = r /\ mem[r].pause => cluster.pause
  /\ phase[r] = "Started" => cluster.pause

\* A reconciliation that finds no volume began when the controllers had settled
Clearing(r) ==
  /\ phase[r] = "Started" /\ pc[r] # "idle" /\ NoneBound => Settled /\ (pc[r] = "pvcs" => sts = FALSE)
  /\ pc[r] = "rebuilding" => Emptied

\* No copy from after the reset has the condition True
Waiting(r) ==
  /\ cluster.initialized # "True" /\ ctrlMem # "True" /\ ~ctrlUp /\ otherMem # "True"
  /\ cached.pause \/ cached.initialized # "True"
  /\ pc[r] \in {"claim", "unpause"} => mem[r].pause \/ mem[r].initialized # "True"
  /\ pc[r] \in {"wait", "release"} => mem[r].initialized # "True"

Filled(r) == (\A p \in Pods : data[p] \in {"", r}) /\ (Restored(r) \/ Waiting(r))

Refilling(r) ==
  /\ Rebuilds(r) /\ cluster.pause => Emptied
  /\ Rebuilds(r) /\ ~cluster.pause => Filled(r)
  /\ pc[r] = "release" => mem[r].initialized = "True"

OneInv(r) == Paused(r) /\ Unnamed(r) /\ Clearing(r) /\ Refilling(r)

ReleaseInv == IInv /\ Idle /\ Vacant /\ Whole /\ \A r \in Restores : OneInv(r)

LEMMA NoNames == \A r \in Restores : r # "" /\ r # "True"
BY RestoreConstants

\* A copy that is dropped
LEMMA Dropped == NoCopy.activeRestore = "" /\ ~NoCopy.pause /\ NoCopy.initialized = ""
BY DEF NoCopy

\* Only the holder of the annotation is in one of these phases
LEMMA Holder ==
  ASSUME IInv, NEW r \in Restores
  PROVE  /\ phase[r] = "Started" => cluster.activeRestore = r
         /\ pc[r] \in Holding => cluster.activeRestore = r /\ mem[r].activeRestore = r
         /\ cluster.activeRestore = r => finalizer[r] /\ phase[r] \notin Ended
BY DEF IInv, Lock, Phases

LEMMA ReleaseInit == Init => ReleaseInv
<1> SUFFICES ASSUME Init PROVE ReleaseInv
  OBVIOUS
<1>1. IInv
  BY InitIInv
<1>2. /\ cluster.activeRestore = "" /\ ~cluster.pause /\ cached = cluster
      /\ cluster.initialized \in {"", "True"}
      /\ ctrl = "idle" /\ ctrlMem = "" /\ ~ctrlUp /\ other = "idle" /\ otherMem = ""
      /\ \A p \in Pods : pvc[p] = "bound"
  BY DEF Init
<1>3. Idle /\ Vacant /\ Whole
  BY <1>2 DEF Idle, Vacant, Whole
<1>4. ASSUME NEW r \in Restores PROVE OneInv(r)
  <2>1. pc[r] = "idle" /\ phase[r] = "absent" /\ mem[r] = NoCopy
    BY DEF Init
  <2>2. mem[r].initialized = ""
    BY <2>1, Dropped
  <2>3. Unnamed(r)
    BY <1>2, <2>2, NoNames DEF Unnamed, Copied
  <2>4. Paused(r) /\ Clearing(r) /\ Refilling(r)
    BY <1>2, <2>1 DEF Paused, Clearing, Refilling, Rebuilds
  <2> QED
    BY <2>3, <2>4 DEF OneInv
<1> QED
  BY <1>1, <1>3, <1>4 DEF ReleaseInv

----------------------------------------------------------------------------
(* The pods *)

\* While r alone rebuilds, the launchers restore from r or refuse to
LEMMA OneBackup ==
  ASSUME NEW r \in ActiveRestores, ~RefusesToRestore, NEW s \in ActiveRestores
  PROVE  s = r
<1>1. ActiveRestores \subseteq Restores /\ IsFiniteSet(Restores)
  BY RestoreConstants DEF ActiveRestores
<1>2. IsFiniteSet(ActiveRestores) /\ Cardinality(ActiveRestores) \in Nat
  BY <1>1, FS_Subset, FS_CardinalityType
<1>3. SUFFICES ASSUME s # r PROVE FALSE
  OBVIOUS
<1>4. {r, s} \subseteq ActiveRestores
  OBVIOUS
<1>5. Cardinality({r, s}) <= Cardinality(ActiveRestores)
  BY <1>2, <1>4, FS_Subset
<1>6. Cardinality({r, s}) = 2
  <2>1. IsFiniteSet({r}) /\ Cardinality({r}) = 1
    BY FS_Singleton
  <2>2. s \notin {r} /\ {r} \cup {s} = {r, s}
    BY <1>3
  <2>3. Cardinality({r} \cup {s}) = Cardinality({r}) + 1
    BY <2>1, <2>2, FS_AddElement
  <2> QED
    BY <2>1, <2>2, <2>3
<1> QED
  BY <1>2, <1>5, <1>6 DEF RefusesToRestore

\* What the launcher of a pod does to the data, when r rebuilds
LEMMA LaunchersFill ==
  ASSUME TypeOK, NEW p \in Pods, RestoreDatadir(p) \/ Rejoin(p),
         NEW r \in Restores, Rebuilds(r), \A q \in Pods : data[q] \in {"", r}
  PROVE  \A q \in Pods : data'[q] = data[q] \/ data'[q] = r
<1>1. r \in ActiveRestores
  BY DEF Rebuilds, ActiveRestores
<1>2. CASE RestoreDatadir(p)
  <2>1. CASE RefusesToRestore
    BY <1>2, <2>1 DEF RestoreDatadir
  <2>2. CASE ~RefusesToRestore
    <3>1. \E s \in ActiveRestores : data' = [data EXCEPT ![p] = s]
      BY <1>1, <1>2, <2>2 DEF RestoreDatadir
    <3>2. data' = [data EXCEPT ![p] = r]
      BY <1>1, <2>2, <3>1, OneBackup
    <3> QED
      BY <3>2 DEF TypeOK
  <2> QED
    BY <2>1, <2>2
<1>3. CASE Rejoin(p)
  <2>1. PICK d \in Contents : HasRing(d) /\ data' = [data EXCEPT ![p] = d]
    BY <1>3 DEF Rejoin
  <2>2. d = r
    BY <2>1, RingHasMember DEF NoData
  <2> QED
    BY <2>1, <2>2 DEF TypeOK
<1> QED
  BY <1>2, <1>3

\* It is enough that the data is filled from the one restore that rebuilds, and that
\* a volume appears only with the stateful set and goes only for a restore that Started
LEMMA PodsMove ==
  ASSUME ReleaseInv, IInv', Vacant', UNCHANGED <<clusterVars, restoreVars, workerVars, ctrlVars, sts>>,
         \A q \in Pods : \/ pvc'[q] = pvc[q]
                         \/ sts = TRUE /\ pvc'[q] = "bound"
                         \/ pvc[q] = "terminating" /\ pvc'[q] = "none",
         \A r \in Restores : Rebuilds(r) /\ (\A q \in Pods : data[q] \in {"", r}) =>
           \A q \in Pods : data'[q] = data[q] \/ data'[q] = r
  PROVE  ReleaseInv'
<1>0. UNCHANGED <<cluster, cached, phase, deleting, pc, mem, ctrl, ctrlMem, ctrlUp, other, otherMem, sts>>
  BY DEF clusterVars, restoreVars, workerVars, ctrlVars
<1>1. Idle'
  BY <1>0 DEF ReleaseInv, Idle
<1>2. ASSUME NEW r \in Restores PROVE (Rebuilds(r)' <=> Rebuilds(r)) /\ (Unreset(r)' <=> Unreset(r))
  BY <1>0 DEF Rebuilds, Unreset
<1>3. Whole'
  <2> SUFFICES ASSUME \A r \in Restores : phase[r] # "Started" /\ ~Rebuilds(r)
               PROVE  \A q \in Pods : pvc'[q] = "bound"
    BY <1>0, <1>2 DEF Whole
  <2> QED
    BY DEF ReleaseInv, Whole
<1>s. Settled' <=> Settled
  BY <1>0 DEF Settled
<1>4. Emptied => Emptied'
  <2>1. SUFFICES ASSUME Emptied PROVE Emptied'
    OBVIOUS
  <2>2. Settled' /\ sts' = FALSE
    BY <1>0, <1>s, <2>1 DEF Emptied
  <2>3. ASSUME NEW q \in Pods PROVE pvc'[q] = "none"
    <3>1. pvc[q] = "none" /\ sts = FALSE
      BY <2>1 DEF Emptied
    <3> QED
      BY <3>1
  <2> QED
    BY <2>2, <2>3 DEF Emptied
<1>5. ASSUME NEW r \in Restores PROVE OneInv(r)'
  <2>0. Paused(r) /\ Unnamed(r) /\ Clearing(r) /\ Refilling(r)
    BY DEF ReleaseInv, OneInv
  <2>1. Paused(r)' /\ Unnamed(r)'
    BY <1>0, <1>2, <2>0 DEF Paused, Unnamed, Copied
  <2>2. Clearing(r)'
    <3>1. NoneBound' => NoneBound
      BY DEF NoneBound
    <3>2. phase'[r] = phase[r] /\ pc'[r] = pc[r] /\ sts' = sts
      BY <1>0
    <3> QED
      BY <1>s, <1>4, <2>0, <3>1, <3>2 DEF Clearing
  <2>3. Rebuilds(r) /\ ~cluster.pause => Filled(r)'
    <3>1. SUFFICES ASSUME Rebuilds(r), ~cluster.pause PROVE Filled(r)'
      OBVIOUS
    <3>2. Filled(r)
      BY <2>0, <3>1 DEF Refilling
    <3>3. \A q \in Pods : data'[q] = data[q] \/ data'[q] = r
      BY <3>1, <3>2 DEF Filled
    <3>4. Waiting(r)' = Waiting(r)
      BY <1>0 DEF Waiting
    <3>5. Restored(r) => Restored(r)'
      BY <3>3 DEF Restored
    <3>6. \A q \in Pods : data'[q] \in {"", r}
      BY <3>2, <3>3 DEF Filled
    <3> QED
      BY <3>2, <3>4, <3>5, <3>6 DEF Filled
  <2>4. Refilling(r)'
    BY <1>0, <1>2, <1>4, <2>0, <2>3 DEF Refilling
  <2> QED
    BY <2>1, <2>2, <2>4 DEF OneInv
<1> QED
  BY <1>1, <1>3, <1>5 DEF ReleaseInv

LEMMA PodsRelease ==
  ASSUME ReleaseInv, NEW p \in Pods, PodStep(p)
  PROVE  ReleaseInv'
<1>0. IInv /\ TypeOK /\ Vacant /\ IInv'
  BY PodIInv DEF ReleaseInv, IInv
<1>1. UNCHANGED <<clusterVars, restoreVars, workerVars, ctrlVars, sts>>
  BY DEF PodStep, LauncherStarts, RestoreDatadir, LauncherPanics, Rejoin, CreatePod, RemovePod,
     RemoveVolume, LauncherUnchanged, KubernetesUnchanged
<1>2. CASE LauncherStarts(p) \/ LauncherPanics(p) \/ RemovePod(p)
  <2>1. UNCHANGED <<pvc, data>>
    BY <1>2 DEF LauncherStarts, LauncherPanics, RemovePod, LauncherUnchanged
  <2>2. /\ pod[p] # "none" /\ \A q \in Pods \ {p} : pod'[q] = pod[q]
    BY <1>0, <1>2 DEF TypeOK, LauncherStarts, LauncherPanics, RemovePod
  <2>3. Vacant'
    BY <1>0, <2>1, <2>2 DEF Vacant
  <2> QED
    BY <1>0, <1>1, <2>1, <2>3, PodsMove
<1>3. CASE RestoreDatadir(p) \/ Rejoin(p)
  <2>1. pvc' = pvc /\ pod[p] # "none"
    BY <1>3 DEF RestoreDatadir, Rejoin, LauncherUnchanged
  <2>2. \A q \in Pods \ {p} : pod'[q] = pod[q] /\ data'[q] = data[q]
    BY <1>0, <1>3 DEF TypeOK, RestoreDatadir, Rejoin
  <2>3. Vacant'
    BY <1>0, <2>1, <2>2 DEF Vacant
  <2>4. \A r \in Restores : Rebuilds(r) /\ (\A q \in Pods : data[q] \in {"", r}) =>
          \A q \in Pods : data'[q] = data[q] \/ data'[q] = r
    BY <1>0, <1>3, LaunchersFill
  <2> QED
    BY <1>0, <1>1, <2>1, <2>3, <2>4, PodsMove
<1>4. CASE CreatePod(p)
  <2>1. /\ sts = TRUE /\ data' = data /\ pvc'[p] = "bound"
        /\ \A q \in Pods \ {p} : pod'[q] = pod[q] /\ pvc'[q] = pvc[q]
    BY <1>0, <1>4 DEF TypeOK, CreatePod
  <2>2. Vacant'
    BY <1>0, <2>1 DEF Vacant
  <2>3. \A q \in Pods : pvc'[q] = pvc[q] \/ (sts = TRUE /\ pvc'[q] = "bound")
    BY <2>1
  <2> QED
    BY <1>0, <1>1, <2>1, <2>2, <2>3, PodsMove
<1>5. CASE RemoveVolume(p)
  <2>1. /\ pvc[p] = "terminating" /\ pvc'[p] = "none" /\ pod[p] = "none" /\ data'[p] = "" /\ pod' = pod
        /\ \A q \in Pods \ {p} : pvc'[q] = pvc[q] /\ data'[q] = data[q]
    BY <1>0, <1>5 DEF TypeOK, RemoveVolume
  <2>2. Vacant'
    BY <1>0, <2>1 DEF Vacant
  <2>3. PICK s \in Restores : phase[s] = "Started" /\ cluster.activeRestore = s
    BY <1>0, <2>1, Holder DEF IInv, Removing
  <2>4. \A r \in Restores : ~Rebuilds(r)
    BY <2>3 DEF Rebuilds
  <2>5. \A q \in Pods : pvc'[q] = pvc[q] \/ (pvc[q] = "terminating" /\ pvc'[q] = "none")
    BY <2>1
  <2> QED
    BY <1>0, <1>1, <2>2, <2>4, <2>5, PodsMove
<1> QED
  BY <1>2, <1>3, <1>4, <1>5 DEF PodStep

----------------------------------------------------------------------------
(* The controllers that write conditions, and the cache *)

\* While some volume-less restore relies on it, no controller runs; otherwise a controller
\* passes on a condition, and True only if somebody has it or the data is restored
LEMMA ControllersMove ==
  ASSUME ReleaseInv, IInv', Idle', ~Settled,
         UNCHANGED <<restoreVars, workerVars, cached, pod, pvc, data>>,
         cluster'.activeRestore = cluster.activeRestore, cluster'.pause = cluster.pause,
         {cluster'.initialized, ctrlMem', otherMem'} \subseteq
           {"", "True", cluster.initialized, cached.initialized, ctrlMem, otherMem},
         \A r \in Restores : Rebuilds(r) /\ ~cluster.pause /\ Filled(r) =>
           \/ Restored(r)
           \/ cluster'.initialized # "True" /\ ctrlMem' # "True" /\ ~ctrlUp' /\ otherMem' # "True"
  PROVE  ReleaseInv'
<1>0. UNCHANGED <<phase, deleting, pc, mem>>
  BY DEF restoreVars, workerVars
<1>1. Vacant'
  BY DEF ReleaseInv, Vacant
<1>2. ASSUME NEW r \in Restores PROVE (Rebuilds(r)' <=> Rebuilds(r)) /\ (Unreset(r)' <=> Unreset(r))
  BY <1>0 DEF Rebuilds, Unreset
<1>3. Whole'
  BY <1>0, <1>2 DEF ReleaseInv, Whole
<1>4. ASSUME NEW r \in Restores PROVE OneInv(r)'
  <2>0. Paused(r) /\ Unnamed(r) /\ Clearing(r) /\ Refilling(r)
    BY DEF ReleaseInv, OneInv
  <2>1. Paused(r)'
    BY <1>0, <2>0 DEF Paused
  <2>2. Unnamed(r)'
    <3>1. SUFFICES ASSUME Unreset(r) PROVE r \notin Copied(r)'
      BY <1>2 DEF Unnamed
    <3>2. r \notin {"", "True", cluster.initialized, cached.initialized, ctrlMem, otherMem, mem[r].initialized}
      BY <2>0, <3>1, NoNames DEF Unnamed, Copied
    <3> QED
      BY <1>0, <3>2 DEF Copied
  <2>3. Clearing(r)'
    <3>1. NoneBound' <=> NoneBound
      BY DEF NoneBound
    <3> QED
      BY <1>0, <2>0, <3>1 DEF Clearing, Emptied
  <2>4. Rebuilds(r) => ~cluster.pause
    BY <2>0 DEF Refilling, Emptied
  <2>5. Rebuilds(r) => Filled(r)'
    <3>1. SUFFICES ASSUME Rebuilds(r) PROVE Filled(r)'
      OBVIOUS
    <3>2. Filled(r)
      BY <2>0, <2>4, <3>1 DEF Refilling
    <3>3. CASE Restored(r)
      BY <3>2, <3>3 DEF Filled, Restored
    <3>4. CASE ~Restored(r)
      <4>1. cluster'.initialized # "True" /\ ctrlMem' # "True" /\ ~ctrlUp' /\ otherMem' # "True"
        BY <2>4, <3>1, <3>2, <3>4
      <4>2. Waiting(r)'
        BY <1>0, <3>2, <3>4, <4>1 DEF Filled, Waiting
      <4> QED
        BY <3>2, <4>2 DEF Filled
    <3> QED
      BY <3>3, <3>4
  <2>6. Refilling(r)'
    BY <1>0, <1>2, <2>0, <2>4, <2>5 DEF Refilling
  <2> QED
    BY <2>1, <2>2, <2>3, <2>6 DEF OneInv
<1> QED
  BY <1>1, <1>3, <1>4 DEF ReleaseInv

LEMMA ControllersRelease ==
  ASSUME ReleaseInv, ControllerStep \/ OtherStep
  PROVE  ReleaseInv'
<1>0. IInv /\ TypeOK /\ Idle /\ IInv'
  BY ControllerIInv DEF ReleaseInv, IInv
<1>1. UNCHANGED <<restoreVars, workerVars, cached, pod, pvc, data>>
  BY DEF ControllerStep, OtherStep, ClusterReconcile, ClusterHealth, UpdateExtendedHealth, SyncHealth,
     EnsureStatefulSets, ClusterReconcileEnds, OtherReconcile, OtherReconcileEnds, WriteConditions, WritePatch, Write,
     clusterVars, workerVars, etcdVars
<1>2. ~Settled
  BY DEF ControllerStep, OtherStep, ClusterReconcile, ClusterHealth, UpdateExtendedHealth, SyncHealth,
     EnsureStatefulSets, ClusterReconcileEnds, OtherReconcile, OtherReconcileEnds, Settled
<1>3. ASSUME NEW i, WritePatch([cluster EXCEPT !.initialized = i])
      PROVE  /\ cluster'.activeRestore = cluster.activeRestore /\ cluster'.pause = cluster.pause
             /\ cluster'.initialized = i
  BY <1>0, <1>3 DEF TypeOK, Cluster, WritePatch, Write
<1>4. CASE ClusterReconcile
  <2>1. /\ cluster' = cluster /\ ctrl = "idle" /\ ctrl' = "health" /\ ctrlMem' = cached.initialized /\ ~cached.pause
        /\ UNCHANGED <<ctrlUp, other, otherMem>>
    BY <1>4 DEF ClusterReconcile, clusterVars
  <2>2. Idle'
    BY <1>0, <2>1 DEF Idle
  <2>3. ASSUME NEW r \in Restores, Filled(r)
        PROVE  \/ Restored(r)
               \/ cluster'.initialized # "True" /\ ctrlMem' # "True" /\ ~ctrlUp' /\ otherMem' # "True"
    BY <2>1, <2>3 DEF Filled, Waiting
  <2> QED
    BY <1>0, <1>1, <1>2, <2>1, <2>2, <2>3, ControllersMove
<1>5. CASE ClusterHealth
  <2>1. /\ cluster' = cluster /\ ctrl' = "initialized" /\ (ctrlUp' => HealthyStatefulSet)
        /\ UNCHANGED <<ctrlMem, other, otherMem>>
    BY <1>5 DEF ClusterHealth, clusterVars
  <2>2. Idle'
    BY <1>0, <1>5 DEF Idle, ClusterHealth
  <2>3. ASSUME NEW r \in Restores, Filled(r)
        PROVE  \/ Restored(r)
               \/ cluster'.initialized # "True" /\ ctrlMem' # "True" /\ ~ctrlUp' /\ otherMem' # "True"
    <3>1. HealthyStatefulSet => Restored(r)
      BY <2>3 DEF HealthyStatefulSet, HasRing, NoData, Filled, Restored
    <3> QED
      BY <2>1, <2>3, <3>1 DEF Filled, Waiting
  <2> QED
    BY <1>0, <1>1, <1>2, <2>1, <2>2, <2>3, ControllersMove
<1>6. CASE SyncHealth
  <2>1. /\ ctrl' = "deploy" /\ ctrlUp' = FALSE /\ UNCHANGED <<other, otherMem>>
        /\ \/ ctrlUp /\ WritePatch([cluster EXCEPT !.initialized = "True"]) /\ ctrlMem' = "True"
           \/ cluster' = cluster /\ ctrlMem' = ctrlMem
    BY <1>6 DEF SyncHealth, EtcdBecameHealthy, clusterVars
  <2>2. Idle'
    BY <1>0, <2>1 DEF Idle
  <2>3. /\ cluster'.activeRestore = cluster.activeRestore /\ cluster'.pause = cluster.pause
        /\ \/ ctrlUp /\ cluster'.initialized = "True" /\ ctrlMem' = "True"
           \/ cluster'.initialized = cluster.initialized /\ ctrlMem' = ctrlMem
    BY <1>3, <2>1
  <2>4. ASSUME NEW r \in Restores, Filled(r)
        PROVE  \/ Restored(r)
               \/ cluster'.initialized # "True" /\ ctrlMem' # "True" /\ ~ctrlUp' /\ otherMem' # "True"
    BY <2>1, <2>3, <2>4 DEF Filled, Waiting
  <2> QED
    BY <1>0, <1>1, <1>2, <2>1, <2>2, <2>3, <2>4, ControllersMove
<1>7. CASE EnsureStatefulSets
  <2>1. /\ cluster' = cluster /\ ctrl = "deploy" /\ ctrl' = "finish"
        /\ UNCHANGED <<ctrlMem, ctrlUp, other, otherMem>>
    BY <1>7 DEF EnsureStatefulSets, clusterVars
  <2>2. Idle'
    BY <1>0, <2>1 DEF Idle
  <2>3. ASSUME NEW r \in Restores, Filled(r)
        PROVE  \/ Restored(r)
               \/ cluster'.initialized # "True" /\ ctrlMem' # "True" /\ ~ctrlUp' /\ otherMem' # "True"
    BY <2>1, <2>3 DEF Filled, Waiting
  <2> QED
    BY <1>0, <1>1, <1>2, <2>1, <2>2, <2>3, ControllersMove
<1>8. CASE ClusterReconcileEnds
  <2>1. /\ ctrl = "finish" /\ ctrl' = "idle" /\ ctrlMem' = "" /\ UNCHANGED <<ctrlUp, other, otherMem>>
        /\ WritePatch([cluster EXCEPT !.initialized = ctrlMem]) \/ cluster' = cluster
    BY <1>8 DEF ClusterReconcileEnds, WriteConditions, clusterVars
  <2>2. Idle'
    BY <1>0, <2>1 DEF Idle
  <2>3. /\ cluster'.activeRestore = cluster.activeRestore /\ cluster'.pause = cluster.pause
        /\ cluster'.initialized \in {ctrlMem, cluster.initialized}
    BY <1>3, <2>1
  <2>4. ASSUME NEW r \in Restores, Filled(r)
        PROVE  \/ Restored(r)
               \/ cluster'.initialized # "True" /\ ctrlMem' # "True" /\ ~ctrlUp' /\ otherMem' # "True"
    BY <2>1, <2>3, <2>4 DEF Filled, Waiting
  <2> QED
    BY <1>0, <1>1, <1>2, <2>1, <2>2, <2>3, <2>4, ControllersMove
<1>9. CASE OtherReconcile
  <2>1. /\ cluster' = cluster /\ other' = "finish" /\ otherMem' = cached.initialized /\ ~cached.pause
        /\ UNCHANGED <<ctrl, ctrlMem, ctrlUp>>
    BY <1>9 DEF OtherReconcile, clusterVars
  <2>2. Idle'
    BY <1>0, <2>1 DEF Idle
  <2>3. ASSUME NEW r \in Restores, Filled(r)
        PROVE  \/ Restored(r)
               \/ cluster'.initialized # "True" /\ ctrlMem' # "True" /\ ~ctrlUp' /\ otherMem' # "True"
    BY <2>1, <2>3 DEF Filled, Waiting
  <2> QED
    BY <1>0, <1>1, <1>2, <2>1, <2>2, <2>3, ControllersMove
<1>10. CASE OtherReconcileEnds
  <2>1. /\ other' = "idle" /\ otherMem' = "" /\ UNCHANGED <<ctrl, ctrlMem, ctrlUp>>
        /\ WritePatch([cluster EXCEPT !.initialized = otherMem]) \/ cluster' = cluster
    BY <1>10 DEF OtherReconcileEnds, WriteConditions, clusterVars
  <2>2. Idle'
    BY <1>0, <2>1 DEF Idle
  <2>3. /\ cluster'.activeRestore = cluster.activeRestore /\ cluster'.pause = cluster.pause
        /\ cluster'.initialized \in {otherMem, cluster.initialized}
    BY <1>3, <2>1
  <2>4. ASSUME NEW r \in Restores, Filled(r)
        PROVE  \/ Restored(r)
               \/ cluster'.initialized # "True" /\ ctrlMem' # "True" /\ ~ctrlUp' /\ otherMem' # "True"
    BY <2>1, <2>3, <2>4 DEF Filled, Waiting
  <2> QED
    BY <1>0, <1>1, <1>2, <2>1, <2>2, <2>3, <2>4, ControllersMove
<1>11. CASE UpdateExtendedHealth
  <2>1. /\ cluster' = cluster /\ ctrlMem' = cluster.initialized
        /\ ctrl = "initialized" /\ UNCHANGED <<ctrl, ctrlUp, other, otherMem>>
    BY <1>11 DEF UpdateExtendedHealth, WritePatch, Write
  <2>2. Idle'
    BY <1>0, <2>1 DEF Idle
  <2>3. ASSUME NEW r \in Restores, Filled(r)
        PROVE  \/ Restored(r)
               \/ cluster'.initialized # "True" /\ ctrlMem' # "True" /\ ~ctrlUp' /\ otherMem' # "True"
    BY <2>1, <2>3 DEF Filled, Waiting
  <2> QED
    BY <1>0, <1>1, <1>2, <2>1, <2>2, <2>3, ControllersMove
<1> QED
  BY <1>4, <1>5, <1>6, <1>7, <1>8, <1>9, <1>10, <1>11 DEF ControllerStep, OtherStep

\* The cache catches up with a Cluster that has no more to tell than it is known of it
LEMMA SyncRelease ==
  ASSUME ReleaseInv, CacheSync
  PROVE  ReleaseInv'
<1>0. IInv /\ Idle /\ Vacant /\ Whole /\ IInv'
  BY SyncIInv DEF ReleaseInv
<1>1. /\ cached' = cluster
      /\ UNCHANGED <<cluster, phase, deleting, pc, mem, ctrl, ctrlMem, ctrlUp, other, otherMem, sts, pod, pvc, data>>
  BY DEF CacheSync, restoreVars, workerVars, ctrlVars, etcdVars
<1>2. ASSUME NEW r \in Restores PROVE (Rebuilds(r)' <=> Rebuilds(r)) /\ (Unreset(r)' <=> Unreset(r))
  BY <1>1 DEF Rebuilds, Unreset
<1>3. Idle' /\ Vacant' /\ Whole'
  BY <1>0, <1>1, <1>2 DEF Idle, Vacant, Whole
<1>4. cluster.pause /\ Settled => Settled'
  BY <1>1 DEF Settled
<1>5. cluster.pause /\ Emptied => Emptied'
  BY <1>1, <1>4 DEF Emptied
<1>6. ASSUME NEW r \in Restores PROVE OneInv(r)'
  <2>0. Paused(r) /\ Unnamed(r) /\ Clearing(r) /\ Refilling(r) /\ Phases(r)
    BY DEF ReleaseInv, OneInv, IInv
  <2>1. Paused(r)'
    BY <1>1, <2>0 DEF Paused
  <2>2. Unnamed(r)'
    BY <1>1, <1>2, <2>0 DEF Unnamed, Copied
  <2>3. Clearing(r)'
    <3>1. phase[r] = "Started" => cluster.pause
      BY <2>0 DEF Paused
    <3>2. pc[r] = "rebuilding" => phase[r] = "Started"
      BY <2>0 DEF Phases
    <3>3. NoneBound' <=> NoneBound
      BY <1>1 DEF NoneBound
    <3> QED
      BY <1>1, <1>4, <1>5, <2>0, <3>1, <3>2, <3>3 DEF Clearing
  <2>4. Filled(r) => Filled(r)'
    <3>1. Waiting(r) => Waiting(r)'
      BY <1>1 DEF Waiting
    <3> QED
      BY <1>1, <3>1 DEF Filled, Restored
  <2>5. Refilling(r)'
    BY <1>1, <1>2, <1>5, <2>0, <2>4 DEF Refilling
  <2> QED
    BY <2>1, <2>2, <2>3, <2>5 DEF OneInv
<1> QED
  BY <1>0, <1>3, <1>6 DEF ReleaseInv

----------------------------------------------------------------------------
(* The workers and the user *)

\* What a step on behalf of restore r leaves alone: the cluster, if another restore holds it
Apart(r) ==
  /\ \A s \in Restores \ {r} : /\ pc'[s] = pc[s] /\ phase'[s] = phase[s]
                               /\ deleting'[s] = deleting[s] /\ mem'[s] = mem[s]
  /\ UNCHANGED <<cached, ctrl, ctrlMem, ctrlUp, other, otherMem, data>>
  /\ \/ UNCHANGED <<cluster, sts, pvc>>
     \/ /\ {cluster.activeRestore, cluster'.activeRestore} \subseteq {"", r}
        /\ cluster'.initialized \in {cluster.initialized, r}

LEMMA OthersKept ==
  ASSUME ReleaseInv, IInv', NEW r \in Restores, Apart(r), NEW s \in Restores \ {r}
  PROVE  OneInv(s)'
<1>0. Paused(s) /\ Unnamed(s) /\ Clearing(s) /\ Refilling(s) /\ s # "" /\ s # r
  BY NoNames DEF ReleaseInv, OneInv
<1>1. /\ pc'[s] = pc[s] /\ phase'[s] = phase[s] /\ deleting'[s] = deleting[s] /\ mem'[s] = mem[s]
      /\ UNCHANGED <<cached, ctrl, ctrlMem, ctrlUp, other, otherMem, data>>
  BY DEF Apart
<1>2. CASE UNCHANGED <<cluster, sts, pvc>>
  <2>1. (Rebuilds(s)' <=> Rebuilds(s)) /\ (Unreset(s)' <=> Unreset(s))
    BY <1>1, <1>2 DEF Rebuilds, Unreset
  <2>2. (Settled' <=> Settled) /\ (NoneBound' <=> NoneBound)
    BY <1>1, <1>2 DEF Settled, NoneBound
  <2>3. Emptied' <=> Emptied
    BY <1>2, <2>2 DEF Emptied
  <2>4. Filled(s)' <=> Filled(s)
    BY <1>1, <1>2 DEF Filled, Restored, Waiting
  <2>5. Paused(s)' /\ Unnamed(s)'
    BY <1>0, <1>1, <1>2, <2>1 DEF Paused, Unnamed, Copied
  <2>6. Clearing(s)'
    BY <1>0, <1>1, <1>2, <2>2, <2>3 DEF Clearing
  <2>7. Refilling(s)'
    BY <1>0, <1>1, <1>2, <2>1, <2>3, <2>4 DEF Refilling
  <2> QED
    BY <2>5, <2>6, <2>7 DEF OneInv
<1>3. CASE /\ {cluster.activeRestore, cluster'.activeRestore} \subseteq {"", r}
           /\ cluster'.initialized \in {cluster.initialized, r}
  <2>1. cluster.activeRestore # s /\ cluster'.activeRestore # s
    BY <1>0, <1>3
  <2>2. phase'[s] # "Started" /\ pc'[s] \notin Holding
    BY <2>1 DEF IInv, Lock
  <2>3. ~Rebuilds(s)' /\ (Unreset(s)' => Unreset(s))
    BY <1>1, <2>1 DEF Rebuilds, Unreset
  <2>4. Paused(s)' /\ Clearing(s)' /\ Refilling(s)'
    BY <2>1, <2>2, <2>3 DEF Paused, Clearing, Refilling, Holding, Destroying
  <2>5. Unnamed(s)'
    BY <1>0, <1>1, <1>3, <2>3 DEF Unnamed, Copied
  <2> QED
    BY <2>4, <2>5 DEF OneInv
<1> QED
  BY <1>2, <1>3 DEF Apart

\* It is enough to look at the restore on whose behalf the step is taken
LEMMA OneMoves ==
  ASSUME ReleaseInv, IInv', NEW r \in Restores, Apart(r), Vacant', Whole', OneInv(r)'
  PROVE  ReleaseInv'
<1>1. Idle'
  BY DEF ReleaseInv, Idle, Apart
<1>2. \A s \in Restores : OneInv(s)'
  BY OthersKept
<1> QED
  BY <1>1, <1>2 DEF ReleaseInv

LEMMA WholeKept ==
  ASSUME Whole, NEW r \in Restores, Apart(r), UNCHANGED pvc,
         phase[r] = "Started" \/ Rebuilds(r) => phase'[r] = "Started" \/ Rebuilds(r)'
  PROVE  Whole'
<1>1. SUFFICES ASSUME \A s \in Restores : phase'[s] # "Started" /\ ~Rebuilds(s)'
               PROVE  \A p \in Pods : pvc[p] = "bound"
  BY DEF Whole
<1>2. ASSUME NEW s \in Restores \ {r} PROVE phase[s] # "Started" /\ ~Rebuilds(s)
  <2>1. phase[s] # "Started" /\ phase'[s] = phase[s]
    BY <1>1 DEF Apart
  <2>2. cluster.activeRestore = s => cluster'.activeRestore = s
    BY NoNames DEF Apart
  <2> QED
    BY <1>1, <2>1, <2>2 DEF Rebuilds
<1>3. phase[r] # "Started" /\ ~Rebuilds(r)
  BY <1>1
<1> QED
  BY <1>2, <1>3 DEF Whole

LEMMA Returned ==
  ASSUME TypeOK, NEW r \in Restores, Return(r)
  PROVE  /\ pc'[r] = "idle" /\ mem'[r] = NoCopy
         /\ \A s \in Restores \ {r} : pc'[s] = pc[s] /\ mem'[s] = mem[s]
BY DEF TypeOK, Return, Goto

LEMMA HastyNat == TypeOK => hasty \in Nat
<1>1. TypeOK => hasty \in 0 .. MaxHasty
  BY DEF TypeOK
<1> QED
  BY <1>1, Bounds

LEMMA ReconcileRelease ==
  ASSUME ReleaseInv, NEW r \in Restores, Reconcile(r), hasty' = 0
  PROVE  ReleaseInv'
<1>0. /\ IInv /\ TypeOK /\ Vacant /\ Whole /\ IInv'
      /\ Paused(r) /\ Unnamed(r) /\ Clearing(r) /\ Refilling(r)
  BY ReconcileIInv DEF ReleaseInv, IInv, OneInv
<1>h. ~Hasty(r)
  <2>1. hasty \in Nat
    BY <1>0, HastyNat
  <2>2. Hasty(r) => hasty' = hasty + 1
    BY Zenon DEF Reconcile
  <2> QED
    BY <2>1, <2>2
<1>1. /\ pc'[r] = "claim" /\ mem'[r] = cached
      /\ \A s \in Restores \ {r} : pc'[s] = pc[s] /\ mem'[s] = mem[s]
      /\ UNCHANGED <<cluster, cached, phase, deleting, ctrl, ctrlMem, ctrlUp, other, otherMem, sts, pod, pvc, data>>
  BY <1>0 DEF TypeOK, Reconcile, Goto, ctrlVars, etcdVars
<1>2. Apart(r) /\ (Rebuilds(r)' <=> Rebuilds(r)) /\ (Unreset(r)' <=> Unreset(r))
  BY <1>1 DEF Apart, Rebuilds, Unreset
<1>3. Vacant' /\ Whole'
  BY <1>0, <1>1, <1>2, VacantKept, WholeKept
<1>4. Paused(r)' /\ Unnamed(r)'
  BY <1>0, <1>1, <1>2 DEF Paused, Unnamed, Copied
<1>5. Clearing(r)'
  <2>1. phase[r] = "Started" /\ NoneBound => Settled
    BY <1>h DEF Hasty, NoneBound
  <2>2. (Settled' <=> Settled) /\ (NoneBound' <=> NoneBound)
    BY <1>1 DEF Settled, NoneBound
  <2> QED
    BY <1>1, <2>1, <2>2 DEF Clearing
<1>6. Refilling(r)'
  <2>1. Emptied' <=> Emptied
    BY <1>1 DEF Emptied, Settled
  <2>2. Filled(r) => Filled(r)'
    BY <1>1 DEF Filled, Restored, Waiting
  <2> QED
    BY <1>0, <1>1, <1>2, <2>1, <2>2 DEF Refilling
<1> QED
  BY <1>0, <1>2, <1>3, <1>4, <1>5, <1>6, OneMoves DEF OneInv

LEMMA ClaimRelease ==
  ASSUME ReleaseInv, NEW r \in Restores, Claim(r)
  PROVE  ReleaseInv'
<1>0. /\ IInv /\ TypeOK /\ Copies /\ PausedOnlyByRestore /\ Vacant /\ Whole /\ IInv'
      /\ Paused(r) /\ Unnamed(r) /\ Clearing(r) /\ Refilling(r) /\ Lock(r) /\ Phases(r)
  BY ClaimIInv DEF ReleaseInv, IInv, OneInv
<1>1. /\ pc[r] = "claim"
      /\ UNCHANGED <<phase, deleting, ctrl, ctrlMem, ctrlUp, other, otherMem, sts, pod, pvc, data>>
  BY DEF Claim, restoreVars, ctrlVars, etcdVars
<1>v. Vacant'
  BY <1>0, <1>1, VacantKept
<1> DEFINE next == IF phase[r] = "StsRebuilding" THEN "unpause" ELSE "pause"
<1>2. ASSUME UNCHANGED <<cluster, cached>>, pc'[r] \in {"pause", "unpause", "idle"},
             \/ pc'[r] = "idle" /\ mem'[r] = NoCopy
             \/ pc'[r] \in {"pause", "unpause"} /\ mem'[r] = mem[r],
             \A s \in Restores \ {r} : pc'[s] = pc[s] /\ mem'[s] = mem[s]
      PROVE  ReleaseInv'
  <2>1. Apart(r) /\ (Rebuilds(r)' <=> Rebuilds(r)) /\ (Unreset(r)' <=> Unreset(r))
    BY <1>1, <1>2 DEF Apart, Rebuilds, Unreset
  <2>2. Whole'
    BY <1>0, <1>1, <2>1, WholeKept
  <2>3. Paused(r)'
    BY <1>0, <1>1, <1>2, Dropped, NoNames DEF Paused
  <2>4. Unnamed(r)'
    BY <1>0, <1>1, <1>2, <2>1, Dropped, NoNames DEF Unnamed, Copied
  <2>5. Clearing(r)'
    <3>1. (Settled' <=> Settled) /\ (NoneBound' <=> NoneBound)
      BY <1>1, <1>2 DEF Settled, NoneBound
    <3> QED
      BY <1>0, <1>1, <1>2, <3>1 DEF Clearing
  <2>6. Refilling(r)'
    <3>1. Emptied' <=> Emptied
      BY <1>1, <1>2 DEF Emptied, Settled
    <3>2. Filled(r) => Filled(r)'
      BY <1>1, <1>2 DEF Filled, Restored, Waiting
    <3> QED
      BY <1>0, <1>1, <1>2, <2>1, <3>1, <3>2 DEF Refilling
  <2> QED
    BY <1>0, <1>v, <2>1, <2>2, <2>3, <2>4, <2>5, <2>6, OneMoves DEF OneInv
<1>3. CASE pc' = [pc EXCEPT ![r] = next] /\ UNCHANGED <<clusterVars, mem>>
  <2>1. pc'[r] = next /\ \A s \in Restores \ {r} : pc'[s] = pc[s]
    BY <1>0, <1>3 DEF TypeOK
  <2> QED
    BY <1>2, <1>3, <2>1 DEF clusterVars
<1>4. CASE Return(r) /\ UNCHANGED <<cluster, cached, cacheFresh>>
  BY <1>0, <1>2, <1>4, Returned
<1>5. CASE /\ ClaimSucceeds(r) /\ UpdateCluster(r, TRUE, [cluster EXCEPT !.activeRestore = r])
           /\ pc' = [pc EXCEPT ![r] = next]
  <2>1. /\ cluster.activeRestore = "" /\ cluster' = [cluster EXCEPT !.activeRestore = r] /\ mem'[r] = cluster'
        /\ UNCHANGED cached /\ \A s \in Restores \ {r} : mem'[s] = mem[s]
    BY <1>0, <1>5, Updated DEF ClaimSucceeds, Copies
  <2>2. cluster'.activeRestore = r /\ cluster'.pause = cluster.pause /\ cluster'.initialized = cluster.initialized
    BY <1>0, <2>1 DEF TypeOK, Cluster
  <2>3. ~cluster.pause
    BY <1>0, <2>1 DEF PausedOnlyByRestore
  <2>4. phase[r] = ""
    <3>1. phase[r] \notin Ended /\ phase[r] # "Started" /\ phase[r] # "StsRebuilding"
      BY <1>0, <1>1, <2>1, NoNames DEF Lock, Phases
    <3> QED
      BY <1>0, <3>1 DEF TypeOK, EtcdRestorePhase, Ended
  <2>5. pc'[r] = "pause" /\ \A s \in Restores \ {r} : pc'[s] = pc[s]
    BY <1>0, <1>5, <2>4 DEF TypeOK
  <2>6. Apart(r)
    BY <1>1, <2>1, <2>2, <2>5 DEF Apart
  <2>7. Whole'
    BY <1>0, <1>1, <2>4, <2>6, WholeKept DEF Rebuilds
  <2>8. cached.activeRestore # r
    BY <1>0, <1>1, <2>1, <2>4, NoNames DEF Lock, Done
  <2>9. Paused(r)'
    BY <1>1, <2>1, <2>2, <2>3, <2>4, <2>8 DEF Paused
  <2>10. Unnamed(r)'
    <3>1. r \notin Copied(r)
      BY <1>0, <2>4 DEF Unnamed, Unreset
    <3> QED
      BY <1>1, <2>1, <2>2, <3>1 DEF Unnamed, Copied
  <2>11. Clearing(r)' /\ Refilling(r)'
    BY <1>1, <2>4, <2>5 DEF Clearing, Refilling, Rebuilds
  <2> QED
    BY <1>0, <1>v, <2>6, <2>7, <2>9, <2>10, <2>11, OneMoves DEF OneInv
<1> QED
  BY <1>3, <1>4, <1>5 DEF Claim, Goto

LEMMA PauseRelease ==
  ASSUME ReleaseInv, NEW r \in Restores, PauseCluster(r)
  PROVE  ReleaseInv'
<1>0. /\ IInv /\ TypeOK /\ Vacant /\ Whole /\ IInv'
      /\ Paused(r) /\ Unnamed(r) /\ Clearing(r) /\ Refilling(r) /\ Phases(r)
  BY PauseIInv DEF ReleaseInv, IInv, OneInv
<1>1. /\ pc[r] = "pause" /\ UpdateCluster(r, ~mem[r].pause, [cluster EXCEPT !.pause = TRUE])
      /\ UNCHANGED <<phase, deleting, ctrl, ctrlMem, ctrlUp, other, otherMem, sts, pod, pvc, data>>
  BY DEF PauseCluster, restoreVars, ctrlVars, etcdVars
<1>2. pc'[r] = "start" /\ \A s \in Restores \ {r} : pc'[s] = pc[s]
  BY <1>0 DEF TypeOK, PauseCluster, Goto
<1>3. cluster.activeRestore = r /\ mem[r].activeRestore = r /\ phase[r] \in {"", "Started"}
  BY <1>0, <1>1, Holder DEF Phases, Holding, Destroying
<1>4. /\ cluster'.activeRestore = r /\ cluster'.initialized = cluster.initialized /\ cached' = cached
      /\ cluster'.pause /\ (mem'[r].initialized \in {mem[r].initialized, cluster.initialized})
      /\ \A s \in Restores \ {r} : mem'[s] = mem[s]
  <2>1. CASE mem[r].pause
    <3>1. cluster' = cluster /\ mem'[r] = mem[r] /\ cached' = cached /\ \A s \in Restores \ {r} : mem'[s] = mem[s]
      BY <1>0, <1>1, <2>1, Updated
    <3>2. cluster.pause
      BY <1>0, <1>3, <2>1 DEF Paused
    <3> QED
      BY <1>3, <3>1, <3>2
  <2>2. CASE ~mem[r].pause
    <3>1. /\ cluster' = [cluster EXCEPT !.pause = TRUE] /\ mem'[r] = cluster' /\ cached' = cached
          /\ \A s \in Restores \ {r} : mem'[s] = mem[s]
      BY <1>0, <1>1, <2>2, Updated
    <3>2. cluster'.activeRestore = r /\ cluster'.pause = TRUE /\ cluster'.initialized = cluster.initialized
      BY <1>0, <1>3, <3>1 DEF TypeOK, Cluster
    <3> QED
      BY <3>1, <3>2
  <2> QED
    BY <2>1, <2>2
<1>5. Apart(r)
  BY <1>1, <1>2, <1>3, <1>4 DEF Apart
<1>6. Vacant' /\ Whole'
  BY <1>0, <1>1, <1>3, <1>5, VacantKept, WholeKept DEF Rebuilds
<1>7. Paused(r)'
  BY <1>4 DEF Paused
<1>8. Unnamed(r)'
  BY <1>0, <1>1, <1>3, <1>4 DEF Unnamed, Unreset, Copied
<1>9. Clearing(r)'
  <2>1. (Settled' <=> Settled) /\ (NoneBound' <=> NoneBound)
    BY <1>1, <1>4 DEF Settled, NoneBound
  <2> QED
    BY <1>0, <1>1, <1>2, <2>1 DEF Clearing
<1>10. Refilling(r)'
  BY <1>1, <1>2, <1>3 DEF Refilling, Rebuilds
<1> QED
  BY <1>0, <1>5, <1>6, <1>7, <1>8, <1>9, <1>10, OneMoves DEF OneInv

\* The volumes are still there when the restore sets its first phase
LEMMA StartedRelease ==
  ASSUME Pods # {}, ReleaseInv, NEW r \in Restores, SetStarted(r)
  PROVE  ReleaseInv'
<1>0. /\ IInv /\ TypeOK /\ Vacant /\ Whole /\ IInv'
      /\ Paused(r) /\ Unnamed(r) /\ Clearing(r) /\ Refilling(r) /\ Phases(r) /\ Pausing(r)
  BY StartedIInv DEF ReleaseInv, IInv, OneInv
<1>1. /\ pc[r] = "start" /\ phase'[r] = "Started" /\ pc'[r] = "sts"
      /\ \A s \in Restores \ {r} : pc'[s] = pc[s] /\ phase'[s] = phase[s]
      /\ UNCHANGED <<cluster, cached, mem, deleting, ctrl, ctrlMem, ctrlUp, other, otherMem, sts, pod, pvc, data>>
  BY <1>0 DEF TypeOK, SetStarted, Goto, clusterVars, ctrlVars, etcdVars
<1>2. /\ cluster.activeRestore = r /\ mem[r].activeRestore = r /\ mem[r].pause /\ phase[r] \in {"", "Started"}
  BY <1>0, <1>1, Holder DEF Phases, Pausing, Holding, Destroying
<1>3. cluster.pause
  BY <1>0, <1>2 DEF Paused
<1>4. Apart(r)
  BY <1>1 DEF Apart
<1>5. Vacant' /\ Whole'
  BY <1>0, <1>1, <1>4, VacantKept, WholeKept
<1>6. Paused(r)' /\ Unnamed(r)'
  BY <1>0, <1>1, <1>2, <1>3 DEF Paused, Unnamed, Unreset, Copied
<1>7. Clearing(r)'
  <2>1. CASE phase[r] = "Started"
    <3>1. (Settled' <=> Settled) /\ (NoneBound' <=> NoneBound)
      BY <1>1 DEF Settled, NoneBound
    <3> QED
      BY <1>0, <1>1, <2>1, <3>1 DEF Clearing
  <2>2. CASE phase[r] = ""
    <3>1. \A s \in Restores : phase[s] # "Started" /\ ~Rebuilds(s)
      BY <1>0, <1>2, <2>2, Holder DEF Rebuilds
    <3>2. ~NoneBound'
      BY <1>0, <1>1, <3>1 DEF Whole, NoneBound
    <3> QED
      BY <1>1, <3>2 DEF Clearing
  <2> QED
    BY <1>2, <2>1, <2>2
<1>8. Refilling(r)'
  BY <1>1 DEF Refilling, Rebuilds
<1> QED
  BY <1>0, <1>4, <1>5, <1>6, <1>7, <1>8, OneMoves DEF OneInv

LEMMA StatefulSetRelease ==
  ASSUME ReleaseInv, NEW r \in Restores, DeleteStatefulSet(r)
  PROVE  ReleaseInv'
<1>0. /\ IInv /\ TypeOK /\ Vacant /\ Whole /\ IInv'
      /\ Paused(r) /\ Unnamed(r) /\ Clearing(r) /\ Refilling(r) /\ Phases(r)
  BY StatefulSetIInv DEF ReleaseInv, IInv, OneInv
<1>1. /\ pc[r] = "sts" /\ pc'[r] = "pvcs" /\ sts' = FALSE
      /\ \A s \in Restores \ {r} : pc'[s] = pc[s]
      /\ UNCHANGED <<cluster, cached, mem, phase, deleting, ctrl, ctrlMem, ctrlUp, other, otherMem, pvc, data>>
  BY <1>0 DEF TypeOK, DeleteStatefulSet, Goto, clusterVars, restoreVars, ctrlVars
<1>2. cluster.activeRestore = r /\ phase[r] = "Started"
  BY <1>0, <1>1, Holder DEF Phases, Holding, Destroying
<1>3. Apart(r)
  BY <1>1, <1>2 DEF Apart
<1>4. Whole'
  BY <1>0, <1>1, <1>2, <1>3, WholeKept
<1>5. Vacant'
  <2>1. \A p \in Pods : pod[p] = "none" => pod'[p] = "none"
    BY <1>0 DEF TypeOK, DeleteStatefulSet, Doomed
  <2> QED
    BY <1>0, <1>1, <2>1 DEF Vacant
<1>6. Paused(r)' /\ Unnamed(r)'
  BY <1>0, <1>1, <1>2 DEF Paused, Unnamed, Unreset, Copied
<1>7. Clearing(r)'
  <2>1. (Settled' <=> Settled) /\ (NoneBound' <=> NoneBound)
    BY <1>1 DEF Settled, NoneBound
  <2> QED
    BY <1>0, <1>1, <2>1 DEF Clearing
<1>8. Refilling(r)'
  BY <1>1, <1>2 DEF Refilling, Rebuilds
<1> QED
  BY <1>0, <1>3, <1>4, <1>5, <1>6, <1>7, <1>8, OneMoves DEF OneInv

LEMMA VolumesRelease ==
  ASSUME MaxFaults = 0, ReleaseInv, NEW r \in Restores, DeleteVolumes(r)
  PROVE  ReleaseInv'
<1>0. /\ IInv /\ TypeOK /\ Vacant /\ Whole
      /\ Paused(r) /\ Unnamed(r) /\ Clearing(r) /\ Refilling(r) /\ Phases(r)
  BY DEF ReleaseInv, IInv, OneInv
<1>1. IInv'
  BY <1>0, VolumesIInv
<1>2. /\ pc[r] = "pvcs"
      /\ UNCHANGED <<cluster, cached, phase, deleting, ctrl, ctrlMem, ctrlUp, other, otherMem, sts, pod, data>>
  BY DEF DeleteVolumes, restoreVars, ctrlVars
<1>3. PICK S \in SUBSET Claims :
        /\ pvc' = [p \in Pods |-> IF p \in S THEN "terminating" ELSE pvc[p]]
        /\ IF VolumesGone /\ S = Claims
           THEN Goto(r, "rebuilding") /\ UNCHANGED <<mem, fresh>>
           ELSE Return(r)
  BY DEF DeleteVolumes
<1>4. cluster.activeRestore = r /\ phase[r] = "Started"
  BY <1>0, <1>2, Holder DEF Phases, Holding, Destroying
<1>5. /\ \/ pc'[r] = "idle" /\ mem'[r] = NoCopy
         \/ pc'[r] = "rebuilding" /\ VolumesGone /\ S = Claims /\ mem'[r] = mem[r]
      /\ \A s \in Restores \ {r} : pc'[s] = pc[s] /\ mem'[s] = mem[s]
  <2>1. CASE VolumesGone /\ S = Claims
    BY <1>0, <1>3, <2>1 DEF TypeOK, Goto
  <2>2. CASE ~(VolumesGone /\ S = Claims)
    BY <1>0, <1>3, <2>2, Returned
  <2> QED
    BY <2>1, <2>2
<1>6. Apart(r)
  BY <1>2, <1>4, <1>5 DEF Apart
<1>7. Whole'
  BY <1>2, <1>4 DEF Whole
<1>8. Vacant'
  BY <1>0, <1>2, <1>3 DEF Vacant
<1>9. Paused(r)'
  BY <1>0, <1>2, <1>5, Dropped, NoNames DEF Paused
<1>10. Unnamed(r)'
  <2>1. Unreset(r) /\ mem'[r].initialized \in {"", mem[r].initialized}
    BY <1>4, <1>5, Dropped DEF Unreset
  <2> QED
    BY <1>0, <1>2, <2>1, NoNames DEF Unnamed, Copied
<1>11. Clearing(r)'
  <2>1. CASE pc'[r] = "idle"
    BY <2>1 DEF Clearing
  <2>2. CASE pc'[r] = "rebuilding"
    <3>1. \A p \in Pods : pvc[p] = "none" /\ p \notin S
      BY <1>5, <2>2 DEF VolumesGone, Claims
    <3>2. \A p \in Pods : pvc'[p] = "none"
      BY <1>3, <3>1
    <3>3. Settled /\ sts = FALSE
      BY <1>0, <1>2, <1>4, <3>1 DEF Clearing, NoneBound
    <3>4. Settled' /\ Emptied'
      BY <1>2, <3>2, <3>3 DEF Settled, Emptied
    <3> QED
      BY <2>2, <3>4 DEF Clearing
  <2> QED
    BY <1>5, <2>1, <2>2
<1>12. Refilling(r)'
  BY <1>2, <1>4, <1>5 DEF Refilling, Rebuilds
<1> QED
  BY <1>1, <1>6, <1>7, <1>8, <1>9, <1>10, <1>11, <1>12, OneMoves DEF OneInv

LEMMA RebuildingRelease ==
  ASSUME ReleaseInv, NEW r \in Restores, SetStsRebuilding(r)
  PROVE  ReleaseInv'
<1>0. /\ IInv /\ TypeOK /\ Vacant /\ Whole /\ IInv'
      /\ Paused(r) /\ Unnamed(r) /\ Clearing(r) /\ Refilling(r) /\ Phases(r)
  BY RebuildingIInv DEF ReleaseInv, IInv, OneInv
<1>1. /\ pc[r] = "rebuilding" /\ phase'[r] = "StsRebuilding" /\ pc'[r] = "unpause"
      /\ \A s \in Restores \ {r} : pc'[s] = pc[s] /\ phase'[s] = phase[s]
      /\ UNCHANGED <<cluster, cached, mem, deleting, ctrl, ctrlMem, ctrlUp, other, otherMem, sts, pod, pvc, data>>
  BY <1>0 DEF TypeOK, SetStsRebuilding, Goto, clusterVars, ctrlVars, etcdVars
<1>2. cluster.activeRestore = r /\ phase[r] = "Started"
  BY <1>0, <1>1, Holder DEF Phases, Holding, Destroying
<1>3. cluster.pause /\ Emptied
  BY <1>0, <1>1, <1>2 DEF Paused, Clearing
<1>4. Apart(r)
  BY <1>1 DEF Apart
<1>5. Vacant' /\ Whole'
  BY <1>0, <1>1, <1>2, <1>4, VacantKept, WholeKept DEF Rebuilds
<1>6. Paused(r)' /\ Unnamed(r)'
  BY <1>0, <1>1, <1>2 DEF Paused, Unnamed, Unreset, Copied
<1>7. Clearing(r)'
  BY <1>1 DEF Clearing
<1>8. Refilling(r)'
  <2>1. Emptied'
    BY <1>1, <1>3 DEF Emptied, Settled
  <2> QED
    BY <1>1, <1>3, <2>1 DEF Refilling
<1> QED
  BY <1>0, <1>4, <1>5, <1>6, <1>7, <1>8, OneMoves DEF OneInv

\* The first reset finds empty data directories and no controller at work, and takes
\* effect; a later one, from a copy that is still paused, sets nothing to True
LEMMA UnpauseRelease ==
  ASSUME ReleaseInv, NEW r \in Restores, ResetAndUnpause(r)
  PROVE  ReleaseInv'
<1>0. /\ IInv /\ TypeOK /\ Idle /\ Vacant /\ Whole /\ IInv'
      /\ Paused(r) /\ Unnamed(r) /\ Clearing(r) /\ Refilling(r) /\ Phases(r) /\ Pausing(r)
  BY UnpauseIInv DEF ReleaseInv, IInv, OneInv
<1> DEFINE c == [cluster EXCEPT !.pause = FALSE, !.initialized = ConditionAfterReset(r)]
<1>1. /\ pc[r] = "unpause" /\ UpdateCluster(r, mem[r].pause, c)
      /\ UNCHANGED <<phase, deleting, ctrl, ctrlMem, ctrlUp, other, otherMem, sts, pod, pvc, data>>
  BY DEF ResetAndUnpause, restoreVars, ctrlVars, etcdVars
<1>2. pc'[r] = "wait" /\ \A s \in Restores \ {r} : pc'[s] = pc[s]
  BY <1>0 DEF TypeOK, ResetAndUnpause, Goto
<1>3. Rebuilds(r) /\ cluster.activeRestore = r /\ phase[r] = "StsRebuilding"
  BY <1>0, <1>1, Holder DEF Phases, Holding, Rebuilds
<1>4. cluster.pause => mem[r].pause
  BY <1>0, <1>1 DEF Pausing
<1>5. /\ c.activeRestore = r /\ c.pause = FALSE /\ c.initialized = ConditionAfterReset(r)
      /\ c.initialized \in {cluster.initialized, r}
  BY <1>0, <1>3 DEF TypeOK, Cluster, ConditionAfterReset
<1> HIDE DEF c
<1>6. /\ mem[r].pause => cluster' = c /\ mem'[r] = c
      /\ ~mem[r].pause => cluster' = cluster /\ mem'[r] = mem[r]
      /\ cached' = cached /\ \A s \in Restores \ {r} : mem'[s] = mem[s]
  BY <1>0, <1>1, Updated
<1>7. /\ cluster'.activeRestore = r /\ ~cluster'.pause
      /\ cluster'.initialized \in {cluster.initialized, r}
  BY <1>3, <1>4, <1>5, <1>6
<1>8. Apart(r) /\ Rebuilds(r)'
  BY <1>1, <1>2, <1>3, <1>6, <1>7 DEF Apart, Rebuilds
<1>9. Vacant' /\ Whole'
  BY <1>0, <1>1, <1>8, VacantKept, WholeKept
<1>10. Paused(r)' /\ Unnamed(r)' /\ Clearing(r)'
  BY <1>1, <1>2, <1>3, <1>7 DEF Paused, Unnamed, Unreset, Clearing
<1>11. Filled(r)'
  <2>1. CASE cluster.pause
    <3>1. Emptied /\ r \notin Copied(r)
      BY <1>0, <1>3, <2>1 DEF Refilling, Unnamed, Unreset
    <3>2. mem[r].initialized # r
      BY <3>1 DEF Copied
    <3>3. c.initialized = r
      BY <1>5, <3>2 DEF ConditionAfterReset
    <3>4. cluster'.initialized = r /\ mem'[r].initialized = r
      BY <1>4, <1>6, <2>1, <3>3
    <3>5. \A p \in Pods : data'[p] = ""
      BY <1>0, <1>1, <3>1 DEF Emptied, Vacant
    <3>6. /\ ctrlMem' = "" /\ ~ctrlUp' /\ otherMem' = "" /\ cached'.pause
      BY <1>0, <1>1, <1>6, <3>1 DEF Emptied, Settled, Idle
    <3>7. Waiting(r)'
      BY <1>2, <3>4, <3>6, NoNames DEF Waiting
    <3> QED
      BY <3>5, <3>7 DEF Filled
  <2>2. CASE ~cluster.pause
    <3>1. Filled(r)
      BY <1>0, <1>3, <2>2 DEF Refilling
    <3>2. Waiting(r) => Waiting(r)'
      <4>1. SUFFICES ASSUME Waiting(r) PROVE Waiting(r)'
        OBVIOUS
      <4>2. cluster'.initialized # "True" /\ mem'[r].initialized # "True"
        <5>1. CASE mem[r].pause
          BY <1>5, <1>6, <4>1, <5>1, NoNames DEF Waiting
        <5>2. CASE ~mem[r].pause
          BY <1>1, <1>6, <4>1, <5>2 DEF Waiting
        <5> QED
          BY <5>1, <5>2
      <4> QED
        BY <1>1, <1>2, <1>6, <4>1, <4>2 DEF Waiting
    <3>3. Restored(r) => Restored(r)'
      BY <1>1 DEF Restored
    <3>4. \A p \in Pods : data'[p] \in {"", r}
      BY <1>1, <3>1 DEF Filled
    <3> QED
      BY <3>1, <3>2, <3>3, <3>4 DEF Filled
  <2> QED
    BY <2>1, <2>2
<1>12. Refilling(r)'
  BY <1>2, <1>7, <1>11 DEF Refilling
<1> QED
  BY <1>0, <1>8, <1>9, <1>10, <1>12, OneMoves DEF OneInv

LEMMA WaitRelease ==
  ASSUME ReleaseInv, NEW r \in Restores, WaitInitialized(r)
  PROVE  ReleaseInv'
<1>0. /\ IInv /\ TypeOK /\ Vacant /\ Whole /\ IInv'
      /\ Paused(r) /\ Unnamed(r) /\ Clearing(r) /\ Refilling(r) /\ Phases(r) /\ Pausing(r)
  BY WaitIInv DEF ReleaseInv, IInv, OneInv
<1>1. /\ pc[r] = "wait"
      /\ UNCHANGED <<cluster, cached, phase, deleting, ctrl, ctrlMem, ctrlUp, other, otherMem, sts, pod, pvc, data>>
  BY DEF WaitInitialized, restoreVars, ctrlVars, etcdVars
<1>2. /\ \/ pc'[r] = "release" /\ mem'[r] = mem[r] /\ mem[r].initialized = "True"
         \/ pc'[r] = "idle" /\ mem'[r] = NoCopy
      /\ \A s \in Restores \ {r} : pc'[s] = pc[s] /\ mem'[s] = mem[s]
  <2>1. CASE mem[r].initialized = "True"
    BY <1>0, <2>1 DEF TypeOK, WaitInitialized, Goto
  <2>2. CASE mem[r].initialized # "True"
    BY <1>0, <2>2, Returned DEF WaitInitialized
  <2> QED
    BY <2>1, <2>2
<1>3. phase[r] = "StsRebuilding" /\ cluster.activeRestore = r /\ ~cluster.pause
  BY <1>0, <1>1, Holder DEF Phases, Pausing, Holding
<1>4. Apart(r) /\ (Rebuilds(r)' <=> Rebuilds(r))
  BY <1>1, <1>2 DEF Apart, Rebuilds
<1>5. Vacant' /\ Whole'
  BY <1>0, <1>1, <1>4, VacantKept, WholeKept
<1>6. Paused(r)' /\ Unnamed(r)' /\ Clearing(r)'
  BY <1>1, <1>2, <1>3 DEF Paused, Unnamed, Unreset, Clearing
<1>7. Refilling(r)'
  <2>1. Filled(r)
    BY <1>0, <1>3 DEF Refilling, Rebuilds
  <2>2. Waiting(r) => Waiting(r)'
    BY <1>1, <1>2 DEF Waiting
  <2>3. Filled(r)'
    BY <1>1, <2>1, <2>2 DEF Filled, Restored
  <2> QED
    BY <1>1, <1>2, <1>3, <2>3 DEF Refilling
<1> QED
  BY <1>0, <1>4, <1>5, <1>6, <1>7, OneMoves DEF OneInv

\* The worker that clears the annotation has seen the condition True since its reset
LEMMA AllRestored ==
  ASSUME ReleaseInv, NEW r \in Restores, pc[r] = "release"
  PROVE  Restored(r)
<1>0. Refilling(r) /\ Phases(r) /\ Pausing(r) /\ IInv
  BY DEF ReleaseInv, OneInv, IInv
<1>1. Rebuilds(r) /\ ~cluster.pause
  BY <1>0, Holder DEF Phases, Pausing, Holding, Rebuilds
<1>2. Filled(r) /\ mem[r].initialized = "True"
  BY <1>0, <1>1 DEF Refilling
<1> QED
  BY <1>2 DEF Filled, Waiting

LEMMA ClusterRelease ==
  ASSUME ReleaseInv, NEW r \in Restores, ReleaseCluster(r)
  PROVE  ReleaseInv'
<1>0. /\ IInv /\ TypeOK /\ Removing /\ Vacant /\ IInv' /\ Phases(r)
  BY ReleaseIInv DEF ReleaseInv, IInv
<1>1. /\ pc[r] = "release"
      /\ UpdateCluster(r, mem[r].activeRestore # "", [cluster EXCEPT !.activeRestore = ""])
      /\ UNCHANGED <<phase, deleting, ctrl, ctrlMem, ctrlUp, other, otherMem, sts, pod, pvc, data>>
  BY DEF ReleaseCluster, restoreVars, ctrlVars, etcdVars
<1>2. pc'[r] = "complete" /\ \A s \in Restores \ {r} : pc'[s] = pc[s]
  BY <1>0 DEF TypeOK, ReleaseCluster, Goto
<1>3. cluster.activeRestore = r /\ mem[r].activeRestore = r /\ phase[r] = "StsRebuilding"
  BY <1>0, <1>1, Holder DEF Phases, Holding
<1>4. /\ cluster' = [cluster EXCEPT !.activeRestore = ""] /\ cached' = cached
      /\ \A s \in Restores \ {r} : mem'[s] = mem[s]
  <2>1. UpdateCluster(r, TRUE, [cluster EXCEPT !.activeRestore = ""])
    BY <1>1, <1>3, NoNames
  <2> QED
    BY <1>0, <2>1, Updated
<1>5. cluster'.activeRestore = "" /\ cluster'.initialized = cluster.initialized
  BY <1>0, <1>4 DEF TypeOK, Cluster
<1>6. Apart(r)
  BY <1>1, <1>2, <1>3, <1>4, <1>5 DEF Apart
<1>7. Vacant'
  BY <1>0, <1>1, VacantKept
<1>8. Whole'
  <2>1. ASSUME NEW p \in Pods PROVE pvc[p] = "bound"
    <3>1. data[p] # ""
      BY <1>1, AllRestored, NoNames DEF Restored
    <3>2. pvc[p] # "none"
      BY <1>0, <3>1 DEF Vacant
    <3>3. \A s \in Restores : phase[s] # "Started"
      BY <1>0, <1>3, Holder
    <3>4. pvc[p] # "terminating"
      BY <1>0, <3>3 DEF Removing
    <3> QED
      BY <1>0, <3>2, <3>4 DEF TypeOK
  <2> QED
    BY <1>1, <2>1 DEF Whole
<1>9. ~Rebuilds(r)' /\ ~Unreset(r)'
  BY <1>1, <1>3, <1>5, NoNames DEF Rebuilds, Unreset
<1>10. Paused(r)' /\ Unnamed(r)' /\ Clearing(r)' /\ Refilling(r)'
  BY <1>1, <1>2, <1>3, <1>5, <1>9, NoNames DEF Paused, Unnamed, Clearing, Refilling
<1> QED
  BY <1>0, <1>6, <1>7, <1>8, <1>10, OneMoves DEF OneInv

LEMMA CompleteRelease ==
  ASSUME ReleaseInv, NEW r \in Restores, CompleteRestore(r)
  PROVE  ReleaseInv'
<1>0. IInv /\ TypeOK /\ Vacant /\ Whole /\ IInv' /\ Lock(r) /\ Phases(r)
  BY CompleteIInv DEF ReleaseInv, IInv
<1>1. /\ pc[r] = "complete" /\ Return(r)
      /\ phase' = [phase EXCEPT ![r] = IF deleting[r] THEN "absent" ELSE "Completed"]
      /\ UNCHANGED <<cluster, cached, deleting, ctrl, ctrlMem, ctrlUp, other, otherMem, sts, pod, pvc, data>>
  BY DEF CompleteRestore, LastPhase, ctrlVars, etcdVars
<1>2. /\ phase'[r] = IF deleting[r] THEN "absent" ELSE "Completed"
      /\ \A s \in Restores \ {r} : phase'[s] = phase[s]
  BY <1>0, <1>1 DEF TypeOK
<1>3. pc'[r] = "idle" /\ \A s \in Restores \ {r} : pc'[s] = pc[s] /\ mem'[s] = mem[s]
  BY <1>0, <1>1, Returned
<1>4. phase[r] = "StsRebuilding" /\ cluster.activeRestore # r
  BY <1>0, <1>1 DEF Lock, Phases
<1>5. Apart(r)
  BY <1>1, <1>2, <1>3 DEF Apart
<1>6. Vacant' /\ Whole'
  BY <1>0, <1>1, <1>4, <1>5, VacantKept, WholeKept DEF Rebuilds
<1>7. ~Rebuilds(r)' /\ ~Unreset(r)' /\ phase'[r] # "Started"
  <2>1. CASE deleting[r]
    <3>1. phase'[r] = "absent" /\ deleting'[r]
      BY <1>1, <1>2, <2>1
    <3> QED
      BY <3>1 DEF Rebuilds, Unreset
  <2>2. CASE ~deleting[r]
    <3>1. phase'[r] = "Completed"
      BY <1>2, <2>2
    <3> QED
      BY <3>1 DEF Rebuilds, Unreset
  <2> QED
    BY <2>1, <2>2
<1>8. Paused(r)' /\ Unnamed(r)' /\ Clearing(r)' /\ Refilling(r)'
  BY <1>1, <1>3, <1>4, <1>7 DEF Paused, Unnamed, Clearing, Refilling
<1> QED
  BY <1>0, <1>5, <1>6, <1>8, OneMoves DEF OneInv

LEMMA UserRelease ==
  ASSUME ReleaseInv, NEW r \in Restores, CreateRestore(r) \/ DeleteRestore(r)
  PROVE  ReleaseInv'
<1>0. /\ IInv /\ TypeOK /\ Vacant /\ Whole /\ IInv' /\ Phases(r)
      /\ Paused(r) /\ Unnamed(r) /\ Clearing(r) /\ Refilling(r)
  BY CreateIInv, DeleteIInv DEF ReleaseInv, IInv, OneInv
<1>1. UNCHANGED <<cluster, cached, pc, mem, ctrl, ctrlMem, ctrlUp, other, otherMem, sts, pod, pvc, data>>
  BY DEF CreateRestore, DeleteRestore, clusterVars, workerVars, ctrlVars, etcdVars
<1>2. /\ \A s \in Restores \ {r} : phase'[s] = phase[s] /\ deleting'[s] = deleting[s]
      /\ \/ phase[r] = "absent" /\ ~deleting[r] /\ phase'[r] = ""
         \/ phase'[r] = phase[r] /\ finalizer[r] /\ deleting'[r] /\ phase[r] # "absent"
         \/ phase'[r] = "absent" /\ ~finalizer[r] /\ deleting'[r]
  BY <1>0 DEF TypeOK, CreateRestore, DeleteRestore
<1>3. Apart(r)
  BY <1>1, <1>2 DEF Apart
<1>4. CASE phase'[r] = phase[r] /\ deleting'[r] /\ phase[r] # "absent"
  <2>1. (Rebuilds(r)' <=> Rebuilds(r)) /\ (Unreset(r)' <=> Unreset(r))
    BY <1>1, <1>4 DEF Rebuilds, Unreset
  <2>2. (Settled' <=> Settled) /\ (NoneBound' <=> NoneBound)
    BY <1>1 DEF Settled, NoneBound
  <2>3. Emptied' <=> Emptied
    BY <1>1, <2>2 DEF Emptied
  <2>4. Filled(r)' <=> Filled(r)
    BY <1>1 DEF Filled, Restored, Waiting
  <2>5. Vacant' /\ Whole'
    BY <1>0, <1>1, <1>3, <1>4, <2>1, VacantKept, WholeKept
  <2>6. Paused(r)' /\ Unnamed(r)'
    BY <1>0, <1>1, <1>4, <2>1 DEF Paused, Unnamed, Copied
  <2>7. Clearing(r)'
    BY <1>0, <1>1, <1>4, <2>2, <2>3 DEF Clearing
  <2>8. Refilling(r)'
    BY <1>0, <1>1, <2>1, <2>3, <2>4 DEF Refilling
  <2> QED
    BY <1>0, <1>3, <2>5, <2>6, <2>7, <2>8, OneMoves DEF OneInv
<1>5. CASE \/ phase[r] = "absent" /\ ~deleting[r] /\ phase'[r] = ""
           \/ phase'[r] = "absent" /\ ~finalizer[r] /\ deleting'[r]
  <2>1. cluster.activeRestore # r /\ pc[r] = "idle"
    BY <1>0, <1>5 DEF Phases, Ended
  <2>2. phase[r] # "Started" /\ phase'[r] # "Started" /\ ~Rebuilds(r) /\ ~Rebuilds(r)'
    BY <1>0, <1>1, <1>5, <2>1, Holder DEF Rebuilds
  <2>3. Unreset(r)' => Unreset(r)
    BY <1>5, <2>2 DEF Unreset
  <2>4. Vacant' /\ Whole'
    BY <1>0, <1>1, <1>3, <2>2, VacantKept, WholeKept
  <2>5. Paused(r)' /\ Clearing(r)' /\ Refilling(r)'
    BY <1>1, <2>1, <2>2 DEF Paused, Clearing, Refilling
  <2>6. Unnamed(r)'
    BY <1>0, <1>1, <2>3 DEF Unnamed, Copied
  <2> QED
    BY <1>0, <1>3, <2>4, <2>5, <2>6, OneMoves DEF OneInv
<1> QED
  BY <1>2, <1>4, <1>5

LEMMA ReleaseNext ==
  ASSUME MaxFaults = 0, Pods # {}
  PROVE  ReleaseInv /\ [Next]_vars /\ hasty' = 0 => ReleaseInv'
<1> SUFFICES ASSUME ReleaseInv, [Next]_vars, hasty' = 0 PROVE ReleaseInv'
  OBVIOUS
<1>1. ~Fault
  <2>1. faults = 0
    BY DEF ReleaseInv, IInv, TypeOK
  <2> QED
    BY <2>1 DEF Fault
<1>2. ASSUME NEW r \in Restores, WorkerStep(r) PROVE ReleaseInv'
  BY <1>2, ReconcileRelease, ClaimRelease, PauseRelease, StartedRelease, StatefulSetRelease, VolumesRelease,
     RebuildingRelease, UnpauseRelease, WaitRelease, ClusterRelease, CompleteRelease DEF WorkerStep
<1>3. ASSUME NEW r \in Restores, WorkerAborts(r) \/ CreateRestore(r) \/ DeleteRestore(r) PROVE ReleaseInv'
  BY <1>1, <1>3, UserRelease DEF WorkerAborts
<1>4. CASE ControllerStep \/ OtherStep
  BY <1>4, ControllersRelease
<1>5. ASSUME NEW p \in Pods, PodStep(p) \/ PodRestarts(p) \/ LoseData(p) PROVE ReleaseInv'
  BY <1>1, <1>5, PodsRelease DEF PodRestarts, LoseData
<1>6. CASE CacheSync
  BY <1>6, SyncRelease
<1>7. CASE UNCHANGED vars
  <2>1. IInv'
    BY <1>7, NextIInv DEF ReleaseInv
  <2>2. /\ UNCHANGED <<clusterVars, restoreVars, workerVars, ctrlVars, sts>>
        /\ UNCHANGED <<pod, pvc, data>>
    BY <1>7 DEF vars, etcdVars
  <2>3. Vacant'
    BY <2>2, VacantKept DEF ReleaseInv
  <2> QED
    BY <2>1, <2>2, <2>3, PodsMove
<1> QED
  BY <1>2, <1>3, <1>4, <1>5, <1>6, <1>7 DEF Next

----------------------------------------------------------------------------
(* Haste *)

\* Until a reconciliation is hasty, all of this holds
HasteInv == IInv /\ (hasty = 0 => ReleaseInv)

\* Haste is not forgotten
LEMMA HasteStays ==
  ASSUME TypeOK, [Next]_vars, hasty' = 0
  PROVE  hasty = 0
<1>1. hasty \in Nat
  BY HastyNat
<1>2. hasty' = hasty \/ hasty' = hasty + 1
  <2>1. ASSUME NEW r \in Restores, WorkerStep(r) \/ WorkerAborts(r) \/ CreateRestore(r) \/ DeleteRestore(r)
        PROVE  hasty' = hasty \/ hasty' = hasty + 1
    BY <2>1 DEF WorkerStep, Reconcile, Claim, PauseCluster, SetStarted, DeleteStatefulSet, DeleteVolumes,
       SetStsRebuilding, ResetAndUnpause, WaitInitialized, ReleaseCluster, CompleteRestore,
       WorkerAborts, CreateRestore, DeleteRestore, boundVars
  <2>2. CASE ControllerStep \/ OtherStep \/ CacheSync \/ UNCHANGED vars
    BY <2>2 DEF ControllerStep, OtherStep, CacheSync, ClusterReconcile, ClusterHealth, UpdateExtendedHealth,
       SyncHealth, EnsureStatefulSets, ClusterReconcileEnds, OtherReconcile, OtherReconcileEnds, boundVars, vars
  <2>3. ASSUME NEW p \in Pods, PodStep(p) \/ PodRestarts(p) \/ LoseData(p)
        PROVE  hasty' = hasty
    BY <2>3 DEF PodStep, PodRestarts, LoseData, LauncherStarts, RestoreDatadir, LauncherPanics, Rejoin,
       CreatePod, RemovePod, RemoveVolume, LauncherUnchanged, KubernetesUnchanged, boundVars
  <2> QED
    BY <2>1, <2>2, <2>3 DEF Next
<1> QED
  BY <1>1, <1>2

LEMMA HasteNext ==
  ASSUME MaxFaults = 0, Pods # {}
  PROVE  HasteInv /\ [Next]_vars => HasteInv'
<1> SUFFICES ASSUME HasteInv, [Next]_vars PROVE HasteInv'
  OBVIOUS
<1>1. IInv'
  BY NextIInv DEF HasteInv
<1>2. hasty' = 0 => ReleaseInv'
  BY HasteStays, ReleaseNext DEF HasteInv, IInv
<1> QED
  BY <1>1, <1>2 DEF HasteInv

(* rebuildEtcdStatefulset gives the annotation back only when every etcd   *)
(* pod has the backup, for any number of restores and pods, of stale       *)
(* copies and of conditions written meanwhile, if no call fails and no     *)
(* data is lost: only a restore that went on with the volumes gone while   *)
(* the cache or a reconciliation in flight still knew the cluster as not   *)
(* paused can change that.                                                 *)
THEOREM RestoredFirst ==
  ASSUME MaxFaults = 0
  PROVE  Spec => ReleasedWhenRestored
<1> DEFINE Given ==
      \A r \in Restores :
        cluster.activeRestore = r /\ cluster'.activeRestore # r
          => hasty > 0 \/ \A p \in Pods : data[p] \in {r, "lost"}
<1>1. CASE Pods = {}
  <2>1. [Next]_vars => [Given]_vars
    BY <1>1
  <2>2. Spec => [][Given]_vars
    BY <2>1, PTL DEF Spec
  <2> QED
    BY <2>2 DEF ReleasedWhenRestored
<1>2. CASE Pods # {}
  <2>1. HasteInv /\ [Next]_vars => [Given]_vars
    <3> SUFFICES ASSUME HasteInv, Next, NEW r \in Restores,
                        cluster.activeRestore = r, cluster'.activeRestore # r, ~(hasty > 0)
                 PROVE  \A p \in Pods : data[p] \in {r, "lost"}
      OBVIOUS
    <3>r. ReleaseInv
      <4>1. TypeOK
        BY DEF HasteInv, IInv
      <4>2. hasty \in Nat
        BY <4>1, HastyNat
      <4> QED
        BY <4>2 DEF HasteInv
    <3>0. IInv /\ TypeOK /\ r # ""
      BY <3>r, NoNames DEF ReleaseInv, IInv
    <3>1. pc[r] = "release"
      <4>1. ASSUME NEW s \in Restores,
                   WorkerStep(s) \/ WorkerAborts(s) \/ CreateRestore(s) \/ DeleteRestore(s)
            PROVE  pc[r] = "release"
        <5>1. CASE Claim(s)
          <6>1. PICK c : c.activeRestore = s /\ (cluster' = cluster \/ (ClaimSucceeds(s) /\ cluster' = c))
            <7>1. [cluster EXCEPT !.activeRestore = s].activeRestore = s
              BY <3>0 DEF TypeOK, Cluster
            <7>2. \/ cluster' = cluster
                  \/ ClaimSucceeds(s) /\ cluster' = [cluster EXCEPT !.activeRestore = s]
              BY <5>1 DEF Claim, UpdateCluster, Write, clusterVars
            <7> QED
              BY <7>1, <7>2
          <6>2. ClaimSucceeds(s) => cluster.activeRestore = ""
            BY <3>0 DEF IInv, Copies, ClaimSucceeds
          <6> QED
            BY <3>0, <6>1, <6>2
        <5>2. CASE PauseCluster(s) \/ ResetAndUnpause(s)
          <6>1. cluster'.activeRestore = cluster.activeRestore
            BY <3>0, <5>2 DEF TypeOK, Cluster, PauseCluster, ResetAndUnpause, UpdateCluster, Write, clusterVars
          <6> QED
            BY <6>1
        <5>3. CASE ReleaseCluster(s)
          <6>1. pc[s] = "release" /\ cluster.activeRestore = s
            BY <3>0, <5>3, Holder DEF ReleaseCluster, Holding
          <6> QED
            BY <6>1
        <5>4. CASE \/ Reconcile(s) \/ SetStarted(s) \/ DeleteStatefulSet(s) \/ DeleteVolumes(s)
                   \/ SetStsRebuilding(s) \/ WaitInitialized(s) \/ CompleteRestore(s)
                   \/ WorkerAborts(s) \/ CreateRestore(s) \/ DeleteRestore(s)
          <6>1. cluster' = cluster
            BY <5>4 DEF Reconcile, SetStarted, DeleteStatefulSet, DeleteVolumes, SetStsRebuilding, WaitInitialized,
               CompleteRestore, WorkerAborts, CreateRestore, DeleteRestore, clusterVars
          <6> QED
            BY <6>1
        <5> QED
          BY <4>1, <5>1, <5>2, <5>3, <5>4 DEF WorkerStep
      <4>2. CASE ControllerStep \/ OtherStep \/ CacheSync
        <5>1. \/ cluster' = cluster
              \/ \E i : WritePatch([cluster EXCEPT !.initialized = i])
          <6>1. UpdateExtendedHealth => cluster' = cluster
            BY DEF UpdateExtendedHealth, WritePatch, Write
          <6> QED
            BY <4>2, <6>1 DEF ControllerStep, OtherStep, CacheSync, ClusterReconcile, ClusterHealth, SyncHealth,
               EnsureStatefulSets, ClusterReconcileEnds, OtherReconcile, OtherReconcileEnds, WriteConditions,
               clusterVars
        <5>2. cluster'.activeRestore = cluster.activeRestore
          BY <3>0, <5>1 DEF TypeOK, Cluster, WritePatch, Write
        <5> QED
          BY <5>2
      <4>3. ASSUME NEW p \in Pods, PodStep(p) \/ PodRestarts(p) \/ LoseData(p)
            PROVE  cluster' = cluster
        BY <4>3 DEF PodStep, PodRestarts, LoseData, LauncherStarts, RestoreDatadir, LauncherPanics, Rejoin,
           CreatePod, RemovePod, RemoveVolume, LauncherUnchanged, KubernetesUnchanged, clusterVars
      <4> QED
        BY <4>1, <4>2, <4>3 DEF Next
    <3> QED
      BY <3>1, <3>r, AllRestored DEF Restored
  <2>2. Init => HasteInv
    BY ReleaseInit, InitIInv DEF HasteInv
  <2>3. Spec => [][Given]_vars
    BY <1>2, <2>1, <2>2, HasteNext, PTL DEF Spec
  <2> QED
    BY <2>3 DEF ReleasedWhenRestored
<1> QED
  BY <1>1, <1>2
============================================================================
