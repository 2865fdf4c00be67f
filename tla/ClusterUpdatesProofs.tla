------------------------ MODULE ClusterUpdatesProofs ------------------------
(***************************************************************************)
(* Proofs about ClusterUpdates, for any number of clusters, any table of   *)
(* updates that go up, any limit, and however far the cache is behind.     *)
(*                                                                         *)
(* A controller patches from an old copy without looking, so that the      *)
(* version does not go back needs an invariant on the cache: what is       *)
(* stored is what the cache has, or the one update that the version        *)
(* manager finds for what the cache has.  The kubelets follow the cache.   *)
(***************************************************************************)
EXTENDS ClusterUpdates, TLAPS

\* What is stored is at most one automatic update ahead of the cache
OneAhead(c) ==
  \/ stored[c].version = cached[c].version
  \/ stored[c].version \in AutomaticControlplaneUpdate(cached[c].version)

\* The kubelets follow the cache
NodesFollow(c) == kubelet[c] =< cached[c].version

\* A worker that deploys has a copy of the Cluster
HasCopy(c) == pc[c] = "deploy" => copy[c] \in Cluster

IInv == TypeOK /\ \A c \in Clusters : OneAhead(c) /\ NodesFollow(c) /\ HasCopy(c)

\* Updates go up, and there is at most one
LEMMA UpdatesGoUp ==
  ASSUME NEW v \in Versions, NEW w \in AutomaticControlplaneUpdate(v)
  PROVE  /\ w \in Versions /\ v < w
         /\ \A x \in AutomaticControlplaneUpdate(v) : x = w
<1>1. PICK u \in LoadUpdates : AutomaticUpdates(v, FALSE) = {u} /\ w = u.to
  BY DEF AutomaticControlplaneUpdate
<1>2. v \in u.from
  BY <1>1 DEF AutomaticUpdates
<1>3. PICK t \in Updates : u = [t EXCEPT !.automatic = t.automatic \/ t.automaticNodeUpdate]
  BY <1>1 DEF LoadUpdates
<1>4. t \in [from : SUBSET Versions, to : Nat, automatic : BOOLEAN, automaticNodeUpdate : BOOLEAN]
  BY UpdateConstants
<1>5. u.from = t.from /\ u.to = t.to
  BY <1>3, <1>4
<1> QED
  BY <1>1, <1>2, <1>5, UpdateConstants DEF AutomaticControlplaneUpdate

LEMMA VersionsAreNumbers == Versions \subseteq Int
BY UpdateConstants

LEMMA InitIInv == Init => IInv
<1> SUFFICES ASSUME Init PROVE IInv
  OBVIOUS
<1>1. stored \in [Clusters -> Cluster] /\ cached = stored /\ kubelet \in [Clusters -> Versions]
  BY DEF Init
<1>2. \A c \in Clusters : stored[c].version \in Versions
  BY <1>1 DEF Cluster
<1>3. deployed \in [Clusters -> Versions] /\ running \in [Clusters -> Versions]
  BY <1>2 DEF Init
<1>4. writes \in 0 .. MaxWrites
  <2>1. writes = 0
    BY DEF Init
  <2> QED
    BY <2>1, UpdateConstants
<1>5. TypeOK
  BY <1>1, <1>3, <1>4 DEF Init, TypeOK
<1>6. \A c \in Clusters : kubelet[c] =< stored[c].version
  BY DEF Init
<1> QED
  BY <1>1, <1>5, <1>6 DEF Init, IInv, OneAhead, NodesFollow, HasCopy

----------------------------------------------------------------------------
(* Types *)

LEMMA Clusterwise ==
  ASSUME NEW o \in Cluster
  PROVE  /\ o.version \in Versions /\ o.healthy \in BOOLEAN /\ o.upToDate \in BOOLEAN
         /\ \A b \in BOOLEAN :
              /\ [o EXCEPT !.upToDate = b] \in Cluster
              /\ [o EXCEPT !.upToDate = b].version = o.version
              /\ [o EXCEPT !.healthy = b] \in Cluster
              /\ [o EXCEPT !.healthy = b].version = o.version
         /\ \A v \in Versions :
              /\ [o EXCEPT !.version = v, !.healthy = FALSE] \in Cluster
              /\ [o EXCEPT !.version = v, !.healthy = FALSE].version = v
BY DEF Cluster

LEMMA Upgraded ==
  ASSUME NEW o \in Cluster, NEW v \in Versions
  PROVE  LET u == [o EXCEPT !.version = v, !.healthy = FALSE]
         IN  u \in Cluster /\ u.version = v
BY DEF Cluster

LEMMA Behind == \A k, a, b \in Int : k =< a /\ (b = a \/ a < b) => k =< b
OBVIOUS

LEMMA Health ==
  ASSUME NEW c
  PROVE  ClusterHealth(c) = TRUE \/ ClusterHealth(c) = FALSE
BY DEF ClusterHealth

\* A write of the wrapper leaves the version alone
LEMMA Wrapped ==
  ASSUME TypeOK, NEW c \in Clusters, NEW o, o.upToDate \in BOOLEAN, WrapperEnds(c, o)
  PROVE  /\ stored' \in [Clusters -> Cluster] /\ behind' \subseteq Clusters
         /\ writes' \in 0 .. MaxWrites
         /\ \A d \in Clusters : stored'[d].version = stored[d].version
<1>1. CASE UNCHANGED <<stored, behind, writes>>
  BY <1>1 DEF TypeOK
<1>2. CASE /\ writes < MaxWrites /\ writes' = writes + 1 /\ behind' = behind \cup {c}
           /\ stored' = [stored EXCEPT ![c].upToDate = o.upToDate]
  <2>1. stored' = [stored EXCEPT ![c] = [stored[c] EXCEPT !.upToDate = o.upToDate]]
    BY <1>2
  <2>2. stored[c] \in Cluster
    BY DEF TypeOK
  <2>3. writes' \in 0 .. MaxWrites
    BY <1>2, UpdateConstants DEF TypeOK
  <2>4. /\ [stored[c] EXCEPT !.upToDate = o.upToDate] \in Cluster
        /\ [stored[c] EXCEPT !.upToDate = o.upToDate].version = stored[c].version
    BY <2>2, Clusterwise
  <2> QED
    BY <1>2, <2>1, <2>3, <2>4 DEF TypeOK
<1> QED
  BY <1>1, <1>2 DEF WrapperEnds

LEMMA Patched ==
  ASSUME TypeOK, NEW c \in Clusters, NEW o \in Cluster, Patch(c, o)
  PROVE  /\ stored' \in [Clusters -> Cluster] /\ behind' \subseteq Clusters /\ stored'[c] = o
         /\ \A d \in Clusters \ {c} : stored'[d] = stored[d]
BY DEF TypeOK, Patch

\* The queues keep their type
LEMMA Queues ==
  ASSUME TypeOK, NEW c \in Clusters,
         \/ UNCHANGED queued
         \/ \E k \in Controllers : Take(k, c)
         \/ ClusterEvent(c)
         \/ DeploymentEvent(c)
  PROVE  queued' \in [Controllers -> SUBSET Clusters]
BY DEF TypeOK, Take, ClusterEvent, DeploymentEvent

----------------------------------------------------------------------------
(* The steps *)

Forward == \A c \in Clusters : stored'[c].version >= stored[c].version

\* A step that leaves the versions alone
LEMMA VersionsKept ==
  ASSUME IInv, TypeOK', UNCHANGED <<cached, kubelet>>,
         \A c \in Clusters : stored'[c].version = stored[c].version /\ HasCopy(c)'
  PROVE  IInv' /\ Forward
<1>1. \A c \in Clusters : stored[c].version \in Int
  BY Clusterwise, VersionsAreNumbers DEF IInv, TypeOK
<1> QED
  BY <1>1 DEF IInv, OneAhead, NodesFollow, Forward

LEMMA NotHealthyStep ==
  ASSUME IInv, NEW c \in Clusters, NotHealthy(c)
  PROVE  IInv' /\ Forward
<1>1. TypeOK /\ cached[c] \in Cluster
  BY DEF IInv, TypeOK
<1>2. /\ stored' \in [Clusters -> Cluster] /\ behind' \subseteq Clusters /\ writes' \in 0 .. MaxWrites
      /\ \A d \in Clusters : stored'[d].version = stored[d].version
  <2>1. cached[c].upToDate \in BOOLEAN
    BY <1>1, Clusterwise
  <2>2. WrapperEnds(c, cached[c])
    BY DEF NotHealthy
  <2> QED
    BY <1>1, <2>1, <2>2, Wrapped
<1>3. queued' \in [Controllers -> SUBSET Clusters]
  BY <1>1, Queues DEF NotHealthy, Controllers
<1>4. TypeOK' /\ UNCHANGED <<cached, kubelet, pc, copy>>
  BY <1>1, <1>2, <1>3 DEF TypeOK, NotHealthy, UpdateUnchanged
<1> QED
  BY <1>2, <1>4, VersionsKept DEF IInv, HasCopy

LEMMA UpgradeStep ==
  ASSUME IInv, NEW c \in Clusters, ControlPlaneUpgrade(c)
  PROVE  IInv' /\ Forward
<1>1. TypeOK /\ OneAhead(c) /\ stored[c] \in Cluster /\ cached[c].version \in Versions
  BY Clusterwise DEF IInv, TypeOK
<1>2. PICK v \in AutomaticControlplaneUpdate(cached[c].version) :
        Patch(c, [stored[c] EXCEPT !.version = v, !.healthy = FALSE])
  BY DEF ControlPlaneUpgrade
<1>3. /\ v \in Versions /\ cached[c].version < v
      /\ \A x \in AutomaticControlplaneUpdate(cached[c].version) : x = v
  BY <1>1, <1>2, UpdatesGoUp
<1>4. /\ stored' \in [Clusters -> Cluster] /\ behind' \subseteq Clusters /\ stored'[c].version = v
      /\ \A d \in Clusters \ {c} : stored'[d] = stored[d]
  <2> DEFINE o == [stored[c] EXCEPT !.version = v, !.healthy = FALSE]
  <2>1. o \in Cluster /\ o.version = v
    BY <1>1, <1>3, Upgraded
  <2> HIDE DEF o
  <2>2. Patch(c, o)
    BY <1>2 DEF o
  <2> QED
    BY <1>1, <2>1, <2>2, Patched
<1>5. TypeOK' /\ UNCHANGED <<cached, kubelet, pc, copy>>
  BY <1>1, <1>4 DEF TypeOK, ControlPlaneUpgrade, UpdateUnchanged
<1>6. v >= stored[c].version
  <2>1. stored[c].version = cached[c].version \/ stored[c].version = v
    BY <1>1, <1>3 DEF OneAhead
  <2>2. v \in Int /\ cached[c].version \in Int
    BY <1>1, <1>3, VersionsAreNumbers
  <2> QED
    BY <1>3, <2>1, <2>2
<1>7. \A d \in Clusters : stored[d].version \in Int
  BY <1>1, Clusterwise, VersionsAreNumbers DEF TypeOK
<1>8. Forward
  BY <1>4, <1>6, <1>7 DEF Forward
<1>9. \A d \in Clusters : OneAhead(d)' /\ NodesFollow(d)' /\ HasCopy(d)'
  BY <1>2, <1>4, <1>5 DEF IInv, OneAhead, NodesFollow, HasCopy
<1> QED
  BY <1>5, <1>8, <1>9 DEF IInv

LEMMA NodeStep ==
  ASSUME IInv, NEW c \in Clusters, NodeUpdate(c)
  PROVE  IInv' /\ Forward
<1>1. TypeOK /\ cached[c] \in Cluster
  BY DEF IInv, TypeOK
<1>2. /\ stored' \in [Clusters -> Cluster] /\ behind' \subseteq Clusters /\ writes' \in 0 .. MaxWrites
      /\ \A d \in Clusters : stored'[d].version = stored[d].version
  <2>1. cached[c].upToDate \in BOOLEAN
    BY <1>1, Clusterwise
  <2>2. WrapperEnds(c, cached[c])
    BY DEF NodeUpdate
  <2> QED
    BY <1>1, <2>1, <2>2, Wrapped
<1>3. queued' \in [Controllers -> SUBSET Clusters] /\ UNCHANGED <<cached, pc, copy, deployed, running, rollout>>
  BY <1>1, Queues DEF NodeUpdate, Controllers, UpdateUnchanged
<1>4. \/ UNCHANGED kubelet
      \/ \E v \in Versions : v =< cached[c].version /\ kubelet' = [kubelet EXCEPT ![c] = v]
  BY DEF NodeUpdate, AutomaticNodeUpdate, EnsureVersionCompatible
<1>5. TypeOK'
  BY <1>1, <1>2, <1>3, <1>4 DEF TypeOK
<1>6. \A d \in Clusters : NodesFollow(d)'
  BY <1>1, <1>3, <1>4 DEF IInv, TypeOK, NodesFollow
<1>7. \A d \in Clusters : OneAhead(d)' /\ HasCopy(d)'
  BY <1>2, <1>3 DEF IInv, OneAhead, HasCopy
<1>8. \A d \in Clusters : stored[d].version \in Int
  BY <1>1, Clusterwise, VersionsAreNumbers DEF TypeOK
<1> QED
  BY <1>2, <1>5, <1>6, <1>7, <1>8 DEF IInv, Forward

LEMMA FailsStep ==
  ASSUME IInv, NEW c \in Clusters, UpdateFails(c)
  PROVE  IInv' /\ Forward
<1>1. TypeOK /\ cached[c] \in Cluster
  BY DEF IInv, TypeOK
<1>2. /\ stored' \in [Clusters -> Cluster] /\ behind' \subseteq Clusters /\ writes' \in 0 .. MaxWrites
      /\ \A d \in Clusters : stored'[d].version = stored[d].version
  <2>1. cached[c].upToDate \in BOOLEAN
    BY <1>1, Clusterwise
  <2>2. WrapperEnds(c, cached[c])
    BY DEF UpdateFails
  <2> QED
    BY <1>1, <2>1, <2>2, Wrapped
<1>3. TypeOK' /\ UNCHANGED <<cached, kubelet, pc, copy>>
  BY <1>1, <1>2 DEF TypeOK, UpdateFails, UpdateUnchanged
<1> QED
  BY <1>2, <1>3, VersionsKept DEF IInv, HasCopy

LEMMA ReconcileStep ==
  ASSUME IInv, NEW c \in Clusters, ClusterReconcile(c)
  PROVE  IInv' /\ Forward
<1>1. TypeOK /\ cached[c] \in Cluster /\ stored[c] \in Cluster
  BY DEF IInv, TypeOK
<1>2. queued' \in [Controllers -> SUBSET Clusters]
  BY <1>1, Queues DEF ClusterReconcile, Controllers
<1>3. /\ stored' \in [Clusters -> Cluster] /\ behind' \subseteq Clusters
      /\ \A d \in Clusters : stored'[d].version = stored[d].version
      /\ \E o \in Cluster : copy' = [copy EXCEPT ![c] = o]
  <2>1. CASE Patch(c, WithHealth(c)) /\ copy' = [copy EXCEPT ![c] = stored'[c]]
    <3>1. WithHealth(c) \in Cluster /\ WithHealth(c).version = stored[c].version
      <4>1. PICK b \in BOOLEAN : WithHealth(c) = [stored[c] EXCEPT !.healthy = b]
        BY Health DEF WithHealth
      <4>2. /\ [stored[c] EXCEPT !.healthy = b] \in Cluster
            /\ [stored[c] EXCEPT !.healthy = b].version = stored[c].version
        BY <1>1, Clusterwise
      <4> QED
        BY <4>1, <4>2, Zenon
    <3> QED
      BY <1>1, <2>1, <3>1, Patched
  <2>2. CASE copy' = [copy EXCEPT ![c] = cached[c]] /\ UNCHANGED <<stored, behind>>
    BY <1>1, <2>2 DEF TypeOK
  <2> QED
    BY <2>1, <2>2 DEF ClusterReconcile
<1>4. /\ pc' = [pc EXCEPT ![c] = "deploy"]
      /\ UNCHANGED <<cached, deployed, running, rollout, kubelet, writes>>
  BY DEF ClusterReconcile
<1>5. TypeOK'
  BY <1>1, <1>2, <1>3, <1>4 DEF TypeOK
<1>6. \A d \in Clusters : HasCopy(d)'
  BY <1>1, <1>3, <1>4 DEF IInv, TypeOK, HasCopy
<1> QED
  BY <1>3, <1>4, <1>5, <1>6, VersionsKept

LEMMA LimitStep ==
  ASSUME IInv, NEW c \in Clusters, LimitReached(c)
  PROVE  IInv' /\ Forward
<1>1. TypeOK /\ cached[c] \in Cluster
  BY DEF IInv, TypeOK
<1>2. /\ stored' \in [Clusters -> Cluster] /\ behind' \subseteq Clusters /\ writes' \in 0 .. MaxWrites
      /\ \A d \in Clusters : stored'[d].version = stored[d].version
  <2>1. cached[c].upToDate \in BOOLEAN
    BY <1>1, Clusterwise
  <2>2. WrapperEnds(c, cached[c])
    BY DEF LimitReached
  <2> QED
    BY <1>1, <2>1, <2>2, Wrapped
<1>3. TypeOK' /\ UNCHANGED <<cached, kubelet, pc, copy>>
  BY <1>1, <1>2 DEF TypeOK, LimitReached, RequeueAfterLimit
<1> QED
  BY <1>2, <1>3, VersionsKept DEF IInv, HasCopy

LEMMA DeployStep ==
  ASSUME IInv, NEW c \in Clusters, EnsureResourcesAreDeployed(c)
  PROVE  IInv' /\ Forward
<1>1. TypeOK /\ copy[c] \in Cluster
  BY DEF IInv, HasCopy, EnsureResourcesAreDeployed
<1>2. /\ stored' \in [Clusters -> Cluster] /\ behind' \subseteq Clusters /\ writes' \in 0 .. MaxWrites
      /\ \A d \in Clusters : stored'[d].version = stored[d].version
  <2>1. copy[c].upToDate \in BOOLEAN
    BY <1>1, Clusterwise
  <2>2. WrapperEnds(c, copy[c])
    BY DEF EnsureResourcesAreDeployed
  <2> QED
    BY <1>1, <2>1, <2>2, Wrapped
<1>3. queued' \in [Controllers -> SUBSET Clusters]
  <2>1. UNCHANGED queued \/ DeploymentEvent(c)
    BY DEF EnsureResourcesAreDeployed
  <2> QED
    BY <1>1, <2>1, Queues
<1>4. deployed' \in [Clusters -> Versions]
  BY <1>1, Clusterwise DEF TypeOK, EnsureResourcesAreDeployed
<1>5. /\ pc' = [pc EXCEPT ![c] = "idle"] /\ copy' = [copy EXCEPT ![c] = NoCopy]
      /\ UNCHANGED <<cached, running, rollout, kubelet>>
  BY DEF EnsureResourcesAreDeployed
<1>6. TypeOK'
  BY <1>1, <1>2, <1>3, <1>4, <1>5 DEF TypeOK
<1>7. \A d \in Clusters : HasCopy(d)'
  BY <1>1, <1>5 DEF IInv, TypeOK, HasCopy
<1> QED
  BY <1>2, <1>5, <1>6, <1>7, VersionsKept

LEMMA ResourcesStep ==
  ASSUME IInv, NEW c \in Clusters, SetUpToDate(c)
  PROVE  IInv' /\ Forward
<1>1. TypeOK /\ stored[c] \in Cluster
  BY DEF IInv, TypeOK
<1> DEFINE o == [stored[c] EXCEPT !.upToDate = ClusterHealth(c)]
<1>2. o \in Cluster /\ o.version = stored[c].version
  <2>1. PICK b \in BOOLEAN : o = [stored[c] EXCEPT !.upToDate = b]
    BY Health
  <2>2. /\ [stored[c] EXCEPT !.upToDate = b] \in Cluster
        /\ [stored[c] EXCEPT !.upToDate = b].version = stored[c].version
    BY <1>1, Clusterwise
  <2> HIDE DEF o
  <2> QED
    BY <2>1, <2>2, Zenon
<1> HIDE DEF o
<1>3. Patch(c, o) \/ UNCHANGED <<stored, behind>>
  BY DEF SetUpToDate, o
<1>4. /\ stored' \in [Clusters -> Cluster] /\ behind' \subseteq Clusters
      /\ \A d \in Clusters : stored'[d].version = stored[d].version
  BY <1>1, <1>2, <1>3, Patched DEF TypeOK
<1>5. queued' \in [Controllers -> SUBSET Clusters]
  BY <1>1, Queues DEF SetUpToDate, Controllers
<1>6. TypeOK' /\ UNCHANGED <<cached, kubelet, pc, copy>>
  BY <1>1, <1>4, <1>5 DEF TypeOK, SetUpToDate
<1> QED
  BY <1>4, <1>6, VersionsKept DEF IInv, HasCopy

LEMMA RolloutSteps ==
  ASSUME IInv, NEW c \in Clusters, RolloutStep(c)
  PROVE  IInv' /\ Forward
<1>1. TypeOK
  BY DEF IInv
<1>2. queued' \in [Controllers -> SUBSET Clusters]
  BY <1>1, Queues DEF RolloutStep, StartRollout, FinishRollout
<1>3. TypeOK' /\ UNCHANGED <<stored, cached, kubelet, pc, copy>>
  BY <1>1, <1>2 DEF TypeOK, RolloutStep, StartRollout, FinishRollout
<1> QED
  BY <1>3, VersionsKept DEF IInv, HasCopy

LEMMA SyncStep ==
  ASSUME IInv, NEW c \in Clusters, CacheSync(c)
  PROVE  IInv' /\ Forward
<1>1. TypeOK /\ OneAhead(c) /\ cached[c].version \in Versions /\ stored[c].version \in Versions
  BY Clusterwise DEF IInv, TypeOK
<1>2. queued' \in [Controllers -> SUBSET Clusters]
  BY <1>1, Queues DEF CacheSync
<1>3. /\ cached' = [cached EXCEPT ![c] = stored[c]] /\ behind' = behind \ {c}
      /\ UNCHANGED <<stored, pc, copy, deployed, running, rollout, kubelet, writes>>
  BY DEF CacheSync
<1>4. TypeOK'
  BY <1>1, <1>2, <1>3 DEF TypeOK
<1>5. cached[c].version =< stored[c].version
  <2>1. stored[c].version = cached[c].version \/ cached[c].version < stored[c].version
    BY <1>1, UpdatesGoUp DEF OneAhead
  <2>2. cached[c].version \in Int /\ stored[c].version \in Int
    BY <1>1, VersionsAreNumbers
  <2> QED
    BY <2>1, <2>2
<1>6. \A d \in Clusters : OneAhead(d)' /\ HasCopy(d)'
  BY <1>1, <1>3 DEF IInv, TypeOK, OneAhead, HasCopy
<1>7. \A d \in Clusters : NodesFollow(d)'
  <2>1. kubelet[c] =< cached[c].version /\ kubelet[c] \in Int
    BY VersionsAreNumbers DEF IInv, TypeOK, NodesFollow
  <2>2. kubelet[c] =< stored[c].version
    <3>1. cached[c].version \in Int /\ stored[c].version \in Int
      BY <1>1, VersionsAreNumbers
    <3> QED
      BY <1>5, <2>1, <3>1
  <2> QED
    BY <1>1, <1>3, <2>2 DEF IInv, TypeOK, NodesFollow
<1>8. \A d \in Clusters : stored[d].version \in Int
  BY <1>1, Clusterwise, VersionsAreNumbers DEF TypeOK
<1> QED
  BY <1>3, <1>4, <1>6, <1>7, <1>8 DEF IInv, Forward

LEMMA NextSteps == IInv /\ [Next]_vars => IInv' /\ (Forward \/ UNCHANGED vars)
<1> SUFFICES ASSUME IInv, [Next]_vars PROVE IInv' /\ (Forward \/ UNCHANGED vars)
  OBVIOUS
<1>1. CASE UNCHANGED vars
  BY <1>1 DEF IInv, TypeOK, OneAhead, NodesFollow, HasCopy, vars
<1>2. CASE Next
  BY <1>2, NotHealthyStep, UpgradeStep, NodeStep, FailsStep, ReconcileStep, LimitStep, DeployStep,
     ResourcesStep, RolloutSteps, SyncStep DEF Next, UpdateStep, ClusterStep
<1> QED
  BY <1>1, <1>2

LEMMA AlwaysIInv == Spec => []IInv
BY InitIInv, NextSteps, PTL DEF Spec

----------------------------------------------------------------------------
(* The theorems *)

(* The variables keep their types, and the update controller finds an      *)
(* update of a version that exists.                                        *)
THEOREM UpdateTypes == Spec => []TypeOK
<1>1. IInv => TypeOK
  BY DEF IInv
<1> QED
  BY <1>1, AlwaysIInv, PTL

(* The kubelets are never told to be newer than spec.version, for any      *)
(* number of clusters and any table of updates that go up.                 *)
THEOREM NodesStayBehind == Spec => []NodesNotAhead
<1>1. IInv => NodesNotAhead
  <2> SUFFICES ASSUME IInv, NEW c \in Clusters PROVE kubelet[c] =< stored[c].version
    BY DEF NodesNotAhead
  <2>1. /\ OneAhead(c) /\ cached[c].version \in Versions /\ stored[c].version \in Versions
        /\ kubelet[c] \in Versions /\ kubelet[c] =< cached[c].version
    <3>1. TypeOK /\ OneAhead(c) /\ NodesFollow(c)
      BY DEF IInv
    <3>2. cached[c] \in Cluster /\ stored[c] \in Cluster /\ kubelet[c] \in Versions
      BY <3>1 DEF TypeOK
    <3>3. cached[c].version \in Versions /\ stored[c].version \in Versions
      BY <3>2, Clusterwise
    <3> QED
      BY <3>1, <3>2, <3>3 DEF NodesFollow
  <2>2. stored[c].version = cached[c].version \/ cached[c].version < stored[c].version
    BY <2>1, UpdatesGoUp DEF OneAhead
  <2> QED
    <3>1. cached[c].version \in Int /\ stored[c].version \in Int /\ kubelet[c] \in Int
      BY <2>1, VersionsAreNumbers
    <3> QED
      BY <2>1, <2>2, <3>1, Behind
<1> QED
  BY <1>1, AlwaysIInv, PTL

(* No patch of a controller takes an update of spec.version back.          *)
THEOREM VersionsGoForward == Spec => NeverBack
<1>1. IInv /\ [Next]_vars => [Forward]_vars
  BY NextSteps
<1>2. Spec => [][Forward]_vars
  BY <1>1, AlwaysIInv, PTL DEF Spec
<1> QED
  BY <1>2 DEF NeverBack, Forward
=============================================================================
