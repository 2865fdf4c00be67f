----------------------- MODULE ClusterLifecycleProofs -----------------------
(***************************************************************************)
(* Proofs about ClusterLifecycle, for every set of providers (without      *)
(* OpenStack), services, recorded resources and number of failures.        *)
(***************************************************************************)
EXTENDS ClusterLifecycle, TLAPS

Cleaning ==
  {"constraints", "unconstrain", "services", "note", "wait", "block", "volumes", "check",
   "release", "configs", "unconfig", "nodes", "unnode", "secret", "unsecret"}
Infrastructure == {"configs", "unconfig", "nodes", "unnode", "secret", "unsecret"}

\* A copy made after the request has at least the finalizers that are stored
Current(c) == (c.exists /\ c.deleting) => stored.deleting /\ stored.fins \subseteq c.fins

StoredOK ==
  /\ ~stored.exists => stored = Gone
  /\ stored.exists /\ stored.deleting => stored.fins # {}
  /\ ~stored.deleting => Outdated(cached)
  /\ \A c \in {stored, cached, kube.copy} : ~c.deleting => "credentials" \in c.fins
  /\ Current(cached) /\ Current(kube.copy)

\* What CleanupCluster has established when it stands at a step with the copy c
Fits(at, c) ==
  /\ at # "idle" => c.exists
  /\ at \in Cleaning => c.deleting
  /\ at = "unconstrain" => world["constraints"] # "present"
  /\ at \in {"block", "volumes", "check", "release"} /\ "lb" \in c.fins => services = {}
  /\ at = "volumes" => webhook
  /\ at \in {"check", "release"} /\ "pv" \in c.fins => webhook /\ world["volumes"] = "absent"
  /\ at \in Infrastructure => c.fins \cap InClusterFinalizers = {}
  /\ at = "unconfig" => world["configs"] = "absent"
  /\ at = "unnode" => \A l \in Layers : world[l] = "absent"
  /\ at \in {"secret", "unsecret"} => c.fins = {"credentials"}
  /\ at = "unsecret" => world["secret"] = "absent"

KubeOK ==
  /\ Fits(kube.at, kube.copy)
  /\ kube.at = "add" => kube.arg \in Finalizers \ kube.copy.fins
  /\ kube.at = "note" => kube.arg \in Services

CloudOK ==
  /\ cloud.at \in {"create", "record"} => cloud.n \in 1 .. Len(InitializeCloudProvider(provider))
  /\ cloud.at \in {"delete", "unrecord"} =>
       /\ cloud.n \in 1 .. Len(CleanUpCloudProvider(provider))
       /\ stored.deleting /\ cached.deleting
       /\ stored.fins \cap (InClusterFinalizers \cup {"nodes"}) = {}
  /\ cloud.at = "unrecord" => world[CleanUpCloudProvider(provider)[cloud.n]] = "absent"

WorldOK ==
  /\ \A t \in Things : world[t] # "double"
  /\ ~EtcdBackupRestore => world["configs"] = "absent"
  /\ world["secret"] = "absent" => stored.deleting /\ stored.fins \subseteq {"credentials"}

\* Whoever deletes services remembers that the volumes are to be deleted as well
Deleting == {"services", "note", "wait"}
VolumesAsked == kube.at \in Deleting /\ "pv" \in kube.copy.fins => kube.pvs

IInv == TypeOK /\ StoredOK /\ KubeOK /\ CloudOK /\ WorldOK /\ VolumesAsked

----------------------------------------------------------------------------
(* The tables of the providers *)

\* A set of positions in one of the tables has a smallest element.
LEMMA SmallestPosition ==
  ASSUME NEW S, S \subseteq 1 .. 6, S # {}
  PROVE  \E i \in S : \A j \in S : i =< j
<1>1. CASE 1 \in S  BY <1>1
<1>2. CASE 1 \notin S /\ 2 \in S  BY <1>2
<1>3. CASE 1 \notin S /\ 2 \notin S /\ 3 \in S  BY <1>3
<1>4. CASE 1 \notin S /\ 2 \notin S /\ 3 \notin S /\ 4 \in S  BY <1>4
<1>5. CASE 1 \notin S /\ 2 \notin S /\ 3 \notin S /\ 4 \notin S /\ 5 \in S  BY <1>5
<1>6. CASE 1 \notin S /\ 2 \notin S /\ 3 \notin S /\ 4 \notin S /\ 5 \notin S
  <2>1. S \subseteq {6}  BY <1>6
  <2>2. S = {6}  BY <2>1
  <2> QED  BY <2>2
<1> QED  BY <1>1, <1>2, <1>3, <1>4, <1>5, <1>6

\* Both tables of every provider have at most six entries, which name resources.
LEMMA TableEntries ==
  ASSUME NEW p \in ProviderNames
  PROVE  /\ Len(InitializeCloudProvider(p)) \in 0 .. 6
         /\ \A i \in 1 .. Len(InitializeCloudProvider(p)) :
              InitializeCloudProvider(p)[i].res \in CloudResources
         /\ Len(CleanUpCloudProvider(p)) \in 0 .. 6
         /\ \A i \in 1 .. Len(CleanUpCloudProvider(p)) :
              CleanUpCloudProvider(p)[i] \in CloudResources
<1>1. CASE p = "aws"
  BY <1>1 DEF InitializeCloudProvider, CleanUpCloudProvider, AWSInitialize, AWSCleanUp,
     BySpec, ByFinalizer, CloudResources
<1>2. CASE p = "azure"
  BY <1>2 DEF InitializeCloudProvider, CleanUpCloudProvider, AzureInitialize, AzureCleanUp,
     BySpec, ByFinalizer, CloudResources
<1>3. CASE p = "openstack"
  BY <1>3 DEF InitializeCloudProvider, CleanUpCloudProvider, OpenstackInitialize,
     OpenstackCleanUp, BySpec, ByFinalizer, CloudResources
<1>4. CASE p = "gcp"
  BY <1>4 DEF InitializeCloudProvider, CleanUpCloudProvider, GCPInitialize, GCPCleanUp,
     BySpec, ByFinalizer, CloudResources
<1>5. CASE p = "vsphere"
  BY <1>5 DEF InitializeCloudProvider, CleanUpCloudProvider, VSphereInitialize,
     VSphereCleanUp, BySpec, ByFinalizer, CloudResources
<1>6. CASE p = "none"
  BY <1>6 DEF InitializeCloudProvider, CleanUpCloudProvider
<1> QED  BY <1>1, <1>2, <1>3, <1>4, <1>5, <1>6 DEF ProviderNames

\* NextDue and NextOwned find a position of their table, or one past its end.
LEMMA NextPositions ==
  ASSUME NEW p \in ProviderNames, NEW n \in Nat \ {0}, NEW c
  PROVE  /\ NextDue(p, n, c) \in 1 .. Len(InitializeCloudProvider(p)) + 1
         /\ NextOwned(p, n, c) \in 1 .. Len(CleanUpCloudProvider(p)) + 1
<1> DEFINE I == InitializeCloudProvider(p)
           C == CleanUpCloudProvider(p)
           due == {i \in n .. Len(I) : Due(I[i], c)}
           owned == {i \in n .. Len(C) : C[i] \in c.fins}
<1>1. Len(I) \in 0 .. 6 /\ Len(C) \in 0 .. 6  BY TableEntries
<1>2. due \subseteq 1 .. 6 /\ due \subseteq 1 .. Len(I)  BY <1>1
<1>3. owned \subseteq 1 .. 6 /\ owned \subseteq 1 .. Len(C)  BY <1>1
<1>4. NextDue(p, n, c) = IF due = {} THEN Len(I) + 1 ELSE CHOOSE i \in due : \A j \in due : i =< j
  BY DEF NextDue
<1>5. NextOwned(p, n, c) =
        IF owned = {} THEN Len(C) + 1 ELSE CHOOSE i \in owned : \A j \in owned : i =< j
  BY DEF NextOwned
<1> HIDE DEF due, owned, I, C
<1>6. due # {} => (CHOOSE i \in due : \A j \in due : i =< j) \in due  BY <1>2, SmallestPosition
<1>7. owned # {} => (CHOOSE i \in owned : \A j \in owned : i =< j) \in owned
  BY <1>3, SmallestPosition
<1>8. NextDue(p, n, c) \in 1 .. Len(I) + 1
  <2>1. CASE due = {}  BY <2>1, <1>1, <1>4
  <2>2. CASE due # {}
    <3>1. NextDue(p, n, c) \in due  BY <2>2, <1>4, <1>6
    <3>2. NextDue(p, n, c) \in 1 .. Len(I)  BY <3>1, <1>2
    <3>3. Len(I) \in Nat  BY <1>1
    <3> QED  BY <3>2, <3>3
  <2> QED  BY <2>1, <2>2
<1>9. NextOwned(p, n, c) \in 1 .. Len(C) + 1
  <2>1. CASE owned = {}  BY <2>1, <1>1, <1>5
  <2>2. CASE owned # {}
    <3>1. NextOwned(p, n, c) \in owned  BY <2>2, <1>5, <1>7
    <3>2. NextOwned(p, n, c) \in 1 .. Len(C)  BY <3>1, <1>3
    <3>3. Len(C) \in Nat  BY <1>1
    <3> QED  BY <3>2, <3>3
  <2> QED  BY <2>1, <2>2
<1> QED  BY <1>8, <1>9 DEF I, C

----------------------------------------------------------------------------
(* Type correctness *)

KubeType ==
  [at : KubeSteps, copy : ClusterObject, arg : Finalizers \cup Services \cup {""},
   some : BOOLEAN, pvs : BOOLEAN]
CloudType ==
  [at : {"idle", "create", "record", "delete", "unrecord"}, copy : ClusterObject, n : Nat]
WorldType == [Things -> {"absent", "present", "deleting", "double"}]

\* The object that is gone, and the idle states of the controllers, have their type.
LEMMA IdleTypes == Gone \in ClusterObject /\ KubeIdle \in KubeType /\ CloudIdle \in CloudType
<1>1. Gone \in ClusterObject  BY DEF Gone, ClusterObject
<1> QED  BY <1>1 DEF KubeIdle, CloudIdle, KubeType, CloudType, KubeSteps

\* What a merge patch from old to new makes of the stored object.
LEMMA MergeFacts ==
  ASSUME stored \in ClusterObject, NEW old \in ClusterObject, NEW new \in ClusterObject
  PROVE  /\ Merged(old, new) \in ClusterObject
         /\ Merged(old, new).exists = stored.exists
         /\ Merged(old, new).deleting = stored.deleting
         /\ Merged(old, new).fins = IF new.fins = old.fins THEN stored.fins ELSE new.fins
         /\ Merged(old, new).lbs = IF new.lbs = old.lbs THEN stored.lbs ELSE new.lbs
BY DEF Merged, ClusterObject

\* An object that loses its last finalizer while it is being deleted is gone.
LEMMA SettledFacts ==
  ASSUME NEW c \in ClusterObject
  PROVE  /\ Settled(c) \in ClusterObject
         /\ Settled(c).fins = c.fins
         /\ Settled(c).deleting = c.deleting
         /\ Settled(c) # c => Settled(c) = Gone /\ c.deleting /\ c.fins = {}
         /\ c.deleting /\ c.fins = {} => Settled(c) = Gone
BY IdleTypes DEF Settled, ClusterObject, Gone

\* Removing finalizers yields a Cluster again.
LEMMA WithoutFacts ==
  ASSUME NEW c \in ClusterObject, NEW fs
  PROVE  /\ Without(c, fs) \in ClusterObject
         /\ Without(c, fs).fins = c.fins \ fs
         /\ Without(c, fs).lbs = c.lbs
BY DEF Without, ClusterObject

\* The ways in which the cluster controller goes on keep the types.
LEMMA KubeGoesType ==
  ASSUME TypeOK, NEW at \in KubeSteps, NEW c \in ClusterObject, KubeGoes(at, c)
  PROVE  kube' \in KubeType /\ queued' \subseteq {"kube", "cloud"}
<1>1. kube \in KubeType /\ queued \subseteq {"kube", "cloud"}  BY DEF TypeOK, KubeType
<1>2. CASE at = "idle"
  BY <1>1, <1>2, IdleTypes DEF KubeGoes, KubeRequeues
<1>3. CASE at # "idle"
  <2> DEFINE p == IF kube.at = "unconstrain" THEN "pv" \in c.fins ELSE kube.pvs
  <2>1. p \in BOOLEAN
    <3>1. kube.pvs \in BOOLEAN  BY <1>1 DEF KubeType
    <3>2. CASE kube.at = "unconstrain"
      <4>1. CASE "pv" \in c.fins  BY <3>2, <4>1
      <4>2. CASE "pv" \notin c.fins  BY <3>2, <4>2
      <4> QED  BY <4>1, <4>2
    <3>3. CASE kube.at # "unconstrain"  BY <3>1, <3>3
    <3> QED  BY <3>2, <3>3
  <2>2. kube' = [kube EXCEPT !.at = at, !.copy = c, !.pvs = p] /\ UNCHANGED queued
    BY <1>1, <1>3 DEF KubeGoes, KubeType
  <2> HIDE DEF p
  <2> QED  BY <1>1, <2>1, <2>2 DEF KubeType
<1> QED  BY <1>2, <1>3

\* A patch by the cluster controller keeps the types, whatever becomes of it.
LEMMA KubePatchesType ==
  ASSUME TypeOK, NEW at \in KubeSteps, NEW new \in ClusterObject, KubePatches(new, at)
  PROVE  stored' \in ClusterObject /\ kube' \in KubeType /\ queued' \subseteq {"kube", "cloud"}
<1>1. stored \in ClusterObject /\ kube.copy \in ClusterObject /\ queued \subseteq {"kube", "cloud"}
  BY DEF TypeOK
<1>2. Merged(kube.copy, new) \in ClusterObject  BY <1>1, MergeFacts
<1>3. CASE Accepted(kube.copy, new)
  <2>1. stored' = Settled(Merged(kube.copy, new)) /\ KubeGoes(at, Merged(kube.copy, new))
    BY <1>3 DEF KubePatches
  <2> QED  BY <2>1, <1>2, SettledFacts, KubeGoesType
<1>4. CASE ~Accepted(kube.copy, new)
  BY <1>1, <1>4, IdleTypes DEF KubePatches, KubeRequeues
<1> QED  BY <1>3, <1>4

\* The cloud controller goes on within its tables.
LEMMA CloudPositions ==
  ASSUME LifecycleConstants, TypeOK, NEW n \in Nat \ {0}, NEW c \in ClusterObject
  PROVE  /\ InitializesFrom(n, c) \in CloudType
         /\ CleansFrom(n, c) \in CloudType
         /\ InitializesFrom(n, c).at \in {"idle", "create"}
         /\ InitializesFrom(n, c).at = "create" =>
              InitializesFrom(n, c).n \in 1 .. Len(InitializeCloudProvider(provider))
         /\ CleansFrom(n, c).at \in {"idle", "delete"}
         /\ CleansFrom(n, c).at = "delete" =>
              CleansFrom(n, c).n \in 1 .. Len(CleanUpCloudProvider(provider))
         /\ InitializesFrom(n, c).copy \in {Gone, c} /\ CleansFrom(n, c).copy \in {Gone, c}
<1> DEFINE d == NextDue(provider, n, c)
           o == NextOwned(provider, n, c)
           LI == Len(InitializeCloudProvider(provider))
           LC == Len(CleanUpCloudProvider(provider))
<1>1. provider \in ProviderNames  BY DEF TypeOK, LifecycleConstants
<1>2. d \in 1 .. LI + 1 /\ o \in 1 .. LC + 1  BY <1>1, NextPositions
<1>3. LI \in Nat /\ LC \in Nat  BY <1>1, TableEntries
<1>4. InitializesFrom(n, c) = IF d > LI THEN CloudIdle ELSE [at |-> "create", copy |-> c, n |-> d]
  BY DEF InitializesFrom
<1>5. CleansFrom(n, c) = IF o > LC THEN CloudIdle ELSE [at |-> "delete", copy |-> c, n |-> o]
  BY DEF CleansFrom
<1> HIDE DEF d, o, LI, LC
<1>6. d \in Nat /\ o \in Nat /\ (~(d > LI) => d \in 1 .. LI) /\ (~(o > LC) => o \in 1 .. LC)
  BY <1>2, <1>3
<1>7. CASE d > LI /\ o > LC  BY <1>4, <1>5, <1>7, IdleTypes DEF CloudIdle, CloudType
<1>8. CASE d > LI /\ ~(o > LC)  BY <1>4, <1>5, <1>6, <1>8, IdleTypes DEF CloudIdle, CloudType, LC
<1>9. CASE ~(d > LI) /\ o > LC  BY <1>4, <1>5, <1>6, <1>9, IdleTypes DEF CloudIdle, CloudType, LI
<1>10. CASE ~(d > LI) /\ ~(o > LC)
  BY <1>4, <1>5, <1>6, <1>10, IdleTypes DEF CloudIdle, CloudType, LI, LC
<1> QED  BY <1>7, <1>8, <1>9, <1>10

\* The steps that CleanupCluster goes on with exist.
LEMMA AfterTypes ==
  ASSUME NEW c
  PROVE  {AfterNodes(c), AfterConfigs(c), AfterInCluster(c), AfterServices(c), AfterConstraints(c)}
           \subseteq KubeSteps
<1>1. AfterNodes(c) \in KubeSteps  BY DEF AfterNodes, KubeSteps
<1>2. AfterConfigs(c) \in KubeSteps  BY <1>1 DEF AfterConfigs, KubeSteps
<1>3. AfterInCluster(c) \in KubeSteps  BY <1>2 DEF AfterInCluster, KubeSteps
<1>4. AfterServices(c) \in KubeSteps  BY DEF AfterServices, KubeSteps
<1>5. AfterConstraints(c) \in KubeSteps  BY <1>3 DEF AfterConstraints, KubeSteps
<1> QED  BY <1>1, <1>2, <1>3, <1>4, <1>5

\* The finalizer that is added next is missing.
LEMMA FirstMissingFacts ==
  ASSUME NEW c \in ClusterObject, NEW b
  PROVE  FirstMissing(c, b) \in {"", "etcd", "nodes", "constraints"} \ c.fins \/ FirstMissing(c, b) = ""
BY DEF FirstMissing

\* Every step of the cluster controller keeps the types.
LEMMA KubeTypes ==
  ASSUME LifecycleConstants, IInv, KubeNext
  PROVE  TypeOK'
<1> USE DEF KubeType, WorldType
<1>0. /\ stored \in ClusterObject /\ cached \in ClusterObject /\ kube \in KubeType
      /\ kube.copy \in ClusterObject /\ queued \subseteq {"kube", "cloud"} /\ world \in WorldType
      /\ TypeOK
  BY DEF TypeOK, IInv
<1>s. {"idle", "add", "constraints", "unconstrain", "services", "note", "wait", "block", "volumes",
       "check", "release", "configs", "unconfig", "nodes", "unnode", "secret", "unsecret"}
        \subseteq KubeSteps
  BY DEF KubeSteps
<1>t. {"constraints", "volumes", "configs", "secret", "deployments", "sets", "machines"} \subseteq Things
  BY DEF Things, Lingering, Layers
<1>a. ASSUME NEW c \in ClusterObject, NEW b, KubeAddsNext(c, b)  PROVE kube' \in KubeType
  <2> DEFINE f == FirstMissing(c, b)
  <2>1. f \in Finalizers \cup {""}  BY FirstMissingFacts DEF Finalizers
  <2>2. kube' = IF f = "" THEN KubeIdle ELSE [KubeIdle EXCEPT !.at = "add", !.copy = c, !.arg = f]
    BY <1>a DEF KubeAddsNext
  <2> HIDE DEF f
  <2> QED  BY <2>1, <2>2, <1>s, <1>a, IdleTypes
<1>1. CASE KubeStart
  <2>1. queued' \subseteq {"kube", "cloud"}  BY <1>1, <1>0 DEF KubeStart
  <2>2. kube' \in KubeType
    <3>1. CASE ~cached.exists  BY <3>1, <1>1, IdleTypes DEF KubeStart
    <3>2. CASE cached.exists
      <4>1. PICK c \in {cached, stored} :
              \/ c.exists /\ c.deleting /\ kube' = [KubeIdle EXCEPT !.at = "constraints", !.copy = c]
              \/ c.exists /\ ~c.deleting /\ KubeAddsNext(c, "")
        BY <3>2, <1>1 DEF KubeStart
      <4>2. c \in ClusterObject  BY <4>1, <1>0
      <4> QED  BY <4>1, <4>2, <1>a, <1>s, IdleTypes
    <3> QED  BY <3>1, <3>2
  <2> QED  BY <1>1, <1>0, <2>1, <2>2 DEF KubeStart, TypeOK, clusterVars, lbVars
<1>2. CASE KubeAdds
  <2> DEFINE new == [kube.copy EXCEPT !.fins = @ \cup {kube.arg}]
  <2>1. CASE Accepted(kube.copy, new)
    <3>1. stored' = Settled(Merged(kube.copy, new)) /\ KubeAddsNext(Merged(kube.copy, new), kube.arg)
      BY <1>2, <2>1 DEF KubeAdds
    <3>2. new \in ClusterObject
      <4>1. kube.arg \in Finalizers  BY <1>2 DEF KubeAdds, IInv, KubeOK
      <4> QED  BY <4>1, <1>0 DEF ClusterObject
    <3>3. Merged(kube.copy, new) \in ClusterObject  BY <3>2, <1>0, MergeFacts
    <3>4. stored' \in ClusterObject /\ kube' \in KubeType  BY <3>1, <3>3, <1>a, SettledFacts
    <3>5. UNCHANGED queued  BY <1>2, <2>1 DEF KubeAdds
    <3> QED  BY <3>4, <3>5, <1>0, <1>2 DEF KubeAdds, TypeOK, lbVars
  <2>2. CASE ~Accepted(kube.copy, new)
    <3>1. KubeRequeues /\ UNCHANGED stored  BY <1>2, <2>2 DEF KubeAdds
    <3> QED  BY <3>1, <1>0, <1>2, IdleTypes DEF KubeAdds, KubeRequeues, TypeOK, lbVars
  <2> QED  BY <2>1, <2>2
<1>3. CASE CleanupConstraints
  <2>1. world' \in WorldType  BY <1>3, <1>0, <1>t DEF CleanupConstraints
  <2>2. kube' \in KubeType /\ queued' \subseteq {"kube", "cloud"}
    BY <1>3, <1>0, <1>s, KubeGoesType DEF CleanupConstraints
  <2> QED  BY <1>3, <2>1, <2>2, <1>0 DEF CleanupConstraints, TypeOK, clusterVars, lbVars
<1>p. ASSUME NEW new \in ClusterObject, NEW at \in KubeSteps, KubePatches(new, at),
             UNCHANGED <<provider, cached, cloud, handler, up, world, lbVars, webhook, late, faults>>
      PROVE  TypeOK'
  <2>1. stored' \in ClusterObject /\ kube' \in KubeType /\ queued' \subseteq {"kube", "cloud"}
    BY <1>0, <1>p, KubePatchesType
  <2> QED  BY <2>1, <1>p, <1>0 DEF TypeOK, lbVars
<1>4. CASE ReleaseConstraints
  BY <1>4, <1>0, <1>p, WithoutFacts, AfterTypes DEF ReleaseConstraints
<1>5. CASE CleanupLBs
  <2>1. CASE services = {}
    <3>1. KubeGoes(AfterServices(kube.copy), kube.copy) /\ UNCHANGED services
      BY <1>5, <2>1 DEF CleanupLBs
    <3>2. kube' \in KubeType /\ queued' \subseteq {"kube", "cloud"}
      BY <3>1, <1>0, KubeGoesType, AfterTypes
    <3> QED  BY <3>1, <3>2, <1>5, <1>0 DEF CleanupLBs, TypeOK, clusterVars
  <2>2. CASE services # {}
    <3>1. PICK u \in services :
            /\ services' = services \ {u}
            /\ kube' = [kube EXCEPT !.at = "note", !.arg = u, !.some = TRUE]
            /\ UNCHANGED queued
      BY <1>5, <2>2 DEF CleanupLBs
    <3>2. services \subseteq Services  BY <1>0 DEF TypeOK
    <3>3. kube' \in KubeType  BY <3>1, <3>2, <1>0, <1>s
    <3> QED  BY <3>1, <3>2, <3>3, <1>5, <1>0 DEF CleanupLBs, TypeOK, clusterVars
  <2> QED  BY <2>1, <2>2
<1>6. CASE NoteLB
  <2>1. kube.at = "note" /\ KubePatches([kube.copy EXCEPT !.lbs = @ \cup {kube.arg}], "wait")
    BY <1>6 DEF NoteLB
  <2>2. kube.arg \in Services  BY <2>1 DEF IInv, KubeOK
  <2>3. [kube.copy EXCEPT !.lbs = @ \cup {kube.arg}] \in ClusterObject
    BY <2>2, <1>0 DEF ClusterObject
  <2> QED  BY <2>1, <2>3, <1>6, <1>p, <1>s DEF NoteLB
<1>7. CASE AwaitNote
  <2>1. kube' \in KubeType /\ queued' \subseteq {"kube", "cloud"}
    BY <1>7, <1>0, <1>s, KubeGoesType, IdleTypes DEF AwaitNote, KubeRequeues
  <2> QED  BY <1>7, <2>1, <1>0 DEF AwaitNote, TypeOK, clusterVars, lbVars
<1>8. CASE BlockVolumes
  <2>1. kube' \in KubeType /\ queued' \subseteq {"kube", "cloud"}
    BY <1>8, <1>0, <1>s, KubeGoesType DEF BlockVolumes
  <2> QED  BY <1>8, <2>1, <1>0 DEF BlockVolumes, TypeOK, clusterVars, lbVars
<1>9. CASE CleanupVolumes
  <2>1. kube' \in KubeType /\ queued' \subseteq {"kube", "cloud"}
    BY <1>9, <1>0, <1>s, KubeGoesType, IdleTypes DEF CleanupVolumes, KubeRequeues
  <2>2. world' \in WorldType  BY <1>9, <1>0, <1>t DEF CleanupVolumes
  <2> QED  BY <1>9, <2>1, <2>2, <1>0 DEF CleanupVolumes, TypeOK, clusterVars, lbVars
<1>10. CASE CheckLBs
  <2> DEFINE left == kube.copy.lbs \ events
             new == [kube.copy EXCEPT !.lbs = left]
  <2>1. \/ KubeGoes("release", kube.copy) /\ UNCHANGED stored
        \/ KubePatches(new, IF left # {} THEN "release" ELSE "idle")
    BY <1>10 DEF CheckLBs
  <2>2. CASE KubeGoes("release", kube.copy) /\ UNCHANGED stored
    <3>1. kube' \in KubeType /\ queued' \subseteq {"kube", "cloud"}
      BY <2>2, <1>0, <1>s, KubeGoesType
    <3> QED  BY <1>10, <2>2, <3>1, <1>0 DEF CheckLBs, TypeOK, lbVars
  <2>3. CASE KubePatches(new, IF left # {} THEN "release" ELSE "idle")
    <3>1. new \in ClusterObject  BY <1>0 DEF ClusterObject
    <3>2. (IF left # {} THEN "release" ELSE "idle") \in KubeSteps  BY <1>s
    <3> HIDE DEF new, left
    <3> QED  BY <1>10, <2>3, <3>1, <3>2, <1>p DEF CheckLBs
  <2> QED  BY <2>1, <2>2, <2>3
<1>11. CASE ReleaseInCluster
  BY <1>11, <1>0, <1>p, WithoutFacts, AfterTypes DEF ReleaseInCluster
<1>12. CASE CleanupConfigs
  <2>1. kube' \in KubeType /\ queued' \subseteq {"kube", "cloud"}
    BY <1>12, <1>0, <1>s, KubeGoesType, AfterTypes DEF CleanupConfigs
  <2>2. world' \in WorldType  BY <1>12, <1>0, <1>t DEF CleanupConfigs
  <2> QED  BY <1>12, <2>1, <2>2, <1>0 DEF CleanupConfigs, TypeOK, clusterVars, lbVars
<1>13. CASE ReleaseConfigs
  BY <1>13, <1>0, <1>p, WithoutFacts, AfterTypes DEF ReleaseConfigs
<1>14. CASE CleanupNodes
  <2>1. kube' \in KubeType /\ queued' \subseteq {"kube", "cloud"}
    BY <1>14, <1>0, <1>s, KubeGoesType, IdleTypes DEF CleanupNodes, KubeRequeues
  <2>2. world' \in WorldType  BY <1>14, <1>0, <1>t DEF CleanupNodes, NodeLayers
  <2> QED  BY <1>14, <2>1, <2>2, <1>0 DEF CleanupNodes, TypeOK, clusterVars, lbVars
<1>15. CASE ReleaseNodes
  BY <1>15, <1>0, <1>p, WithoutFacts, AfterTypes DEF ReleaseNodes
<1>16. CASE DeleteSecret
  <2>1. kube' \in KubeType /\ queued' \subseteq {"kube", "cloud"}
    BY <1>16, <1>0, <1>s, KubeGoesType DEF DeleteSecret
  <2>2. world' \in WorldType  BY <1>16, <1>0, <1>t DEF DeleteSecret
  <2> QED  BY <1>16, <2>1, <2>2, <1>0 DEF DeleteSecret, TypeOK, clusterVars, lbVars
<1>17. CASE ReleaseSecret
  BY <1>17, <1>0, <1>p, <1>s, WithoutFacts DEF ReleaseSecret
<1> QED
  BY <1>1, <1>2, <1>3, <1>4, <1>5, <1>6, <1>7, <1>8, <1>9, <1>10, <1>11, <1>12, <1>13, <1>14, <1>15,
     <1>16, <1>17 DEF KubeNext

\* An update by the cloud controller keeps the types, whatever becomes of it.
LEMMA CloudUpdatesType ==
  ASSUME LifecycleConstants, TypeOK, NEW new \in ClusterObject, CloudUpdates(new)
  PROVE  stored' \in ClusterObject /\ cloud' \in CloudType /\ queued' \subseteq {"kube", "cloud"}
<1>1. /\ stored \in ClusterObject /\ cached \in ClusterObject /\ queued \subseteq {"kube", "cloud"}
      /\ cloud.n \in Nat
  BY DEF TypeOK
<1>2. Merged(cached, new) \in ClusterObject  BY <1>1, MergeFacts
<1>3. ASSUME NEW c \in ClusterObject, CloudGoesOn(c)  PROVE cloud' \in CloudType
  <2>1. cloud.n + 1 \in Nat \ {0}  BY <1>1
  <2>2. InitializesFrom(cloud.n + 1, c) \in CloudType /\ CleansFrom(cloud.n + 1, c) \in CloudType
    BY <2>1, CloudPositions
  <2> QED  BY <1>3, <2>2 DEF CloudGoesOn
<1>4. CASE cached.exists /\ new = cached
  BY <1>1, <1>3, <1>4 DEF CloudUpdates
<1>5. CASE cached.exists /\ new # cached /\ Accepted(cached, new)
  BY <1>1, <1>2, <1>3, <1>5, SettledFacts DEF CloudUpdates
<1>6. CASE ~cached.exists \/ (new # cached /\ ~Accepted(cached, new))
  BY <1>1, <1>6, IdleTypes DEF CloudUpdates, CloudFails
<1> QED  BY <1>4, <1>5, <1>6

\* Every step of the cloud controller keeps the types.
LEMMA CloudTypes ==
  ASSUME LifecycleConstants, IInv, CloudNext
  PROVE  TypeOK'
<1> USE DEF CloudType, WorldType
<1>0. /\ stored \in ClusterObject /\ cached \in ClusterObject /\ cloud \in CloudType
      /\ queued \subseteq {"kube", "cloud"} /\ world \in WorldType /\ TypeOK
      /\ provider \in ProviderNames
  BY DEF TypeOK, IInv, LifecycleConstants
<1>t. CloudResources \subseteq Things /\ CloudResources \subseteq Finalizers
  BY DEF Things, Finalizers
<1>1. CASE CloudStart
  <2>1. InitializesFrom(1, cached) \in CloudType /\ CleansFrom(1, cached) \in CloudType
    BY <1>0, CloudPositions
  <2>2. cloud' \in CloudType /\ queued' \subseteq {"kube", "cloud"}
    BY <1>1, <1>0, <2>1, IdleTypes DEF CloudStart, CloudFails
  <2> QED  BY <1>1, <2>2, <1>0 DEF CloudStart, TypeOK, clusterVars, lbVars
<1>2. CASE CloudCreates
  <2> DEFINE r == InitializeCloudProvider(provider)[cloud.n].res
  <2>1. r \in CloudResources
    BY <1>2, <1>0, TableEntries DEF CloudCreates, IInv, CloudOK
  <2>2. world' = world \/ world' = Created(provider, r, world)  BY <1>2 DEF CloudCreates
  <2>3. cloud' \in CloudType /\ queued' \subseteq {"kube", "cloud"}
    BY <1>2, <1>0, IdleTypes DEF CloudCreates, CloudFails
  <2> HIDE DEF r
  <2>4. world' \in WorldType  BY <1>0, <1>t, <2>1, <2>2 DEF Created
  <2> QED  BY <1>2, <2>3, <2>4, <1>0 DEF CloudCreates, TypeOK, clusterVars, lbVars
<1>3. CASE CloudRecords
  <2> DEFINE step == InitializeCloudProvider(provider)[cloud.n]
             ids == IF step.by = "spec" THEN {step.res} ELSE {}
             new == [cached EXCEPT !.fins = @ \cup {step.res}, !.ids = @ \cup ids]
  <2>1. step.res \in CloudResources
    BY <1>3, <1>0, TableEntries DEF CloudRecords, IInv, CloudOK
  <2>2. CloudUpdates(new)  BY <1>3 DEF CloudRecords
  <2>3. ids \subseteq CloudResources  BY <2>1
  <2> HIDE DEF step, ids
  <2>4. new \in ClusterObject  BY <2>1, <2>3, <1>0, <1>t DEF ClusterObject
  <2> HIDE DEF new
  <2>5. stored' \in ClusterObject /\ cloud' \in CloudType /\ queued' \subseteq {"kube", "cloud"}
    BY <2>2, <2>4, <1>0, CloudUpdatesType
  <2> QED  BY <1>3, <2>5, <1>0 DEF CloudRecords, TypeOK, lbVars
<1>4. CASE CloudDeletes
  <2> DEFINE r == CleanUpCloudProvider(provider)[cloud.n]
  <2>1. world' = world \/ world' = Deleted(provider, r, world)  BY <1>4 DEF CloudDeletes
  <2>2. cloud' \in CloudType /\ queued' \subseteq {"kube", "cloud"}
    BY <1>4, <1>0, IdleTypes DEF CloudDeletes, CloudFails
  <2> HIDE DEF r
  <2>3. world' \in WorldType  BY <1>0, <2>1 DEF Deleted
  <2> QED  BY <1>4, <2>2, <2>3, <1>0 DEF CloudDeletes, TypeOK, clusterVars, lbVars
<1>5. CASE CloudUnrecords
  <2>1. stored' \in ClusterObject /\ cloud' \in CloudType /\ queued' \subseteq {"kube", "cloud"}
    BY <1>5, <1>0, WithoutFacts, CloudUpdatesType DEF CloudUnrecords
  <2> QED  BY <1>5, <2>1, <1>0 DEF CloudUnrecords, TypeOK, lbVars
<1> QED  BY <1>1, <1>2, <1>3, <1>4, <1>5 DEF CloudNext

\* So do the delete handler, the users, the passing of time and failures.
LEMMA OtherTypes ==
  ASSUME LifecycleConstants, IInv,
         Delete \/ Sync \/ User \/ Vanish \/ BalancerGone \/ TwoHoursPass \/ Fault
  PROVE  TypeOK'
<1> USE DEF WorldType
<1>0. /\ stored \in ClusterObject /\ cached \in ClusterObject /\ world \in WorldType /\ TypeOK
  BY DEF TypeOK, IInv
<1>t. {"constraints", "volumes", "configs", "secret"} \cup Layers \cup Lingering \subseteq Things
  BY DEF Things, Lingering
<1>1. CASE RequestDeletion
  <2>1. InClusterFinalizers \subseteq Finalizers  BY DEF InClusterFinalizers, Finalizers
  <2>2. stored' \in ClusterObject  BY <1>1, <2>1, <1>0 DEF RequestDeletion, ClusterObject
  <2> QED  BY <1>1, <2>2, <1>0 DEF RequestDeletion, TypeOK, lbVars
<1>2. CASE Delete
  <2>1. [stored EXCEPT !.deleting = TRUE] \in ClusterObject  BY <1>0 DEF ClusterObject
  <2>2. stored' \in ClusterObject  BY <1>2, <2>1, SettledFacts DEF Delete
  <2> QED  BY <1>2, <2>2, <1>0 DEF Delete, TypeOK, lbVars
<1>3. CASE Sync  BY <1>3, <1>0 DEF Sync, TypeOK, lbVars
<1>4. CASE ApiserverUp  BY <1>4, <1>0 DEF ApiserverUp, TypeOK, clusterVars, lbVars
<1>5. CASE AddNodes
  <2>1. world' \in WorldType  BY <1>5, <1>0 DEF AddNodes
  <2> QED  BY <1>5, <2>1, <1>0 DEF AddNodes, TypeOK, clusterVars, lbVars
<1>6. CASE AddService  BY <1>6, <1>0 DEF AddService, TypeOK, clusterVars
<1>7. CASE AddVolume
  <2>1. world' \in WorldType  BY <1>7, <1>0, <1>t DEF AddVolume
  <2> QED  BY <1>7, <2>1, <1>0 DEF AddVolume, TypeOK, clusterVars, lbVars
<1>8. CASE AddObject
  <2>1. world' \in WorldType  BY <1>8, <1>0, <1>t DEF AddObject
  <2> QED  BY <1>8, <2>1, <1>0 DEF AddObject, TypeOK, clusterVars, lbVars
<1>9. CASE Vanish
  <2>1. world' \in WorldType  BY <1>9, <1>0, <1>t DEF Vanish
  <2> QED  BY <1>9, <2>1, <1>0 DEF Vanish, TypeOK, clusterVars, lbVars
<1>10. CASE BalancerGone  BY <1>10, <1>0 DEF BalancerGone, TypeOK, clusterVars
<1>11. CASE TwoHoursPass  BY <1>11, <1>0 DEF TwoHoursPass, TypeOK, clusterVars, lbVars
<1>12. CASE Fault
  <2>a. MaxFaults \in Nat  BY DEF LifecycleConstants
  <2>b. faults \in 0 .. MaxFaults  BY <1>0 DEF TypeOK
  <2>c. faults < MaxFaults /\ faults' = faults + 1  BY <1>12 DEF Fault
  <2>1. faults' \in 0 .. MaxFaults  BY <2>a, <2>b, <2>c
  <2>2. /\ kube' \in KubeType /\ cloud' \in CloudType /\ queued' \subseteq {"kube", "cloud"}
        /\ handler' \in {"none", "updated", "done"}
    BY <1>12, <1>0, IdleTypes DEF Fault, TypeOK, KubeFault, CloudFault, HandlerFault, KubeRequeues,
       CloudFails, KubeType, CloudType
  <2> QED
    BY <1>12, <1>0, <2>1, <2>2 DEF Fault, TypeOK, clusterVars, lbVars, KubeType, CloudType
<1> QED
  BY <1>1, <1>2, <1>3, <1>4, <1>5, <1>6, <1>7, <1>8, <1>9, <1>10, <1>11, <1>12 DEF User

----------------------------------------------------------------------------
(* What leaves the parts of the invariant alone *)

\* Steps that do not write the Cluster keep what is known of it and its copies.
LEMMA SameStored ==
  ASSUME IInv, stored' = stored, cached' = cached,
         kube'.copy \in {kube.copy, Gone, cached, stored}
  PROVE  StoredOK'
<1>1. ~Gone.exists /\ Gone.deleting  BY DEF Gone
<1> QED  BY <1>1 DEF IInv, StoredOK, Current, Outdated

\* During the deletion finalizers only go, so that older copies have them all.
LEMMA ShrinkKeeps ==
  ASSUME IInv, stored.deleting, stored'.deleting, stored'.fins \subseteq stored.fins,
         stored' = Gone \/ (stored'.exists /\ stored'.fins # {}), cached' = cached,
         \/ kube'.copy \in {kube.copy, Gone}
         \/ kube'.copy.deleting /\ stored'.fins \subseteq kube'.copy.fins
  PROVE  StoredOK'
<1>1. ~Gone.exists /\ Gone.deleting /\ Gone.fins = {}  BY DEF Gone
<1> QED  BY <1>1 DEF IInv, StoredOK, Current, Outdated

\* Before the request, the object is there with the finalizer of its credentials.
LEMMA AliveFacts ==
  ASSUME StoredOK, ~stored.deleting
  PROVE  stored.exists /\ "credentials" \in stored.fins
<1>1. Gone.deleting  BY DEF Gone
<1>2. stored # Gone  BY <1>1
<1>3. stored.exists  BY <1>2 DEF StoredOK
<1>4. "credentials" \in stored.fins  BY DEF StoredOK
<1> QED  BY <1>3, <1>4

\* What was established at a step stays so while nothing outside changes.
LEMMA FitsSame ==
  ASSUME NEW at, NEW c, Fits(at, c), UNCHANGED <<world, services, webhook>>,
         kube'.at = at, kube'.copy = c
  PROVE  Fits(kube.at, kube.copy)'
<1>1. UNCHANGED world /\ UNCHANGED services /\ UNCHANGED webhook  OBVIOUS
<1>2. Fits(at, c)'  BY <1>1 DEF Fits
<1> QED  BY <1>2 DEF Fits

\* At the other steps the cluster controller relies on nothing else.
LEMMA FitsSuffices ==
  ASSUME kube'.at \notin {"add", "note"}, Fits(kube.at, kube.copy)'
  PROVE  KubeOK'
BY DEF KubeOK

\* The stored object is gone, or it has a finalizer while it is being deleted.
LEMMA StoredForm ==
  ASSUME IInv, stored.deleting
  PROVE  stored = Gone \/ (stored.exists /\ stored.fins # {})
BY DEF IInv, StoredOK

\* A cleanup runs only after the request.
LEMMA CleaningDeletes ==
  ASSUME IInv, kube.at \in Cleaning
  PROVE  stored.deleting /\ stored.fins \subseteq kube.copy.fins /\ kube.copy.exists /\ kube.copy.deleting
<1>1. kube.at # "idle"  BY DEF Cleaning
<1> QED  BY <1>1 DEF IInv, StoredOK, KubeOK, Fits, Current

\* What the cluster controller relies on is not undone by others.
LEMMA KubeStable ==
  ASSUME IInv, kube' = kube,
         kube.at \in Cleaning =>
           /\ services' = services
           /\ webhook => webhook'
           /\ \A t \in {"constraints", "configs", "secret"} \cup Layers :
                world'[t] \in {world[t], "absent"}
           /\ webhook /\ world["volumes"] = "absent" => world'["volumes"] = "absent"
  PROVE  KubeOK'
<1>0. KubeOK  BY DEF IInv
<1>1. CASE kube.at \notin Cleaning
  <2>1. kube.at \notin {"unconstrain", "block", "volumes", "check", "release", "unconfig", "unnode",
                        "secret", "unsecret"} \cup Infrastructure
    BY <1>1 DEF Cleaning, Infrastructure
  <2> QED  BY <1>0, <1>1, <2>1 DEF KubeOK, Fits
<1>2. CASE kube.at \in Cleaning
  <2>1. kube.at = "unconstrain" => world'["constraints"] # "present"  BY <1>0, <1>2 DEF KubeOK, Fits
  <2>2. kube.at = "volumes" => webhook'  BY <1>0, <1>2 DEF KubeOK, Fits
  <2>3. kube.at \in {"check", "release"} /\ "pv" \in kube.copy.fins
          => webhook' /\ world'["volumes"] = "absent"
    BY <1>0, <1>2 DEF KubeOK, Fits
  <2>4. kube.at = "unconfig" => world'["configs"] = "absent"  BY <1>0, <1>2 DEF KubeOK, Fits
  <2>5. kube.at = "unnode" => \A l \in Layers : world'[l] = "absent"  BY <1>0, <1>2 DEF KubeOK, Fits
  <2>6. kube.at = "unsecret" => world'["secret"] = "absent"  BY <1>0, <1>2 DEF KubeOK, Fits
  <2> QED  BY <1>0, <1>2, <2>1, <2>2, <2>3, <2>4, <2>5, <2>6 DEF KubeOK, Fits
<1> QED  BY <1>1, <1>2

\* What the cloud controller relies on is not undone by others.
LEMMA CloudStable ==
  ASSUME LifecycleConstants, IInv, cloud' = cloud, provider' = provider,
         cloud.at \in {"delete", "unrecord"} =>
           /\ stored'.deleting /\ cached'.deleting /\ stored'.fins \subseteq stored.fins
           /\ \A r \in CloudResources : world[r] = "absent" => world'[r] = "absent"
  PROVE  CloudOK'
<1>1. provider \in ProviderNames  BY DEF IInv, TypeOK, LifecycleConstants
<1>2. cloud.at \in {"delete", "unrecord"} => CleanUpCloudProvider(provider)[cloud.n] \in CloudResources
  BY <1>1, TableEntries DEF IInv, CloudOK
<1> QED  BY <1>2 DEF IInv, CloudOK

\* In particular by steps that leave the Cluster and the resources alone.
LEMMA CloudSame ==
  ASSUME LifecycleConstants, IInv, cloud' = cloud, provider' = provider, stored' = stored,
         cached' = cached, \A r \in CloudResources : world'[r] = world[r]
  PROVE  CloudOK'
BY CloudStable DEF IInv, CloudOK

\* Nothing happens to the world when only finalizers go.
LEMMA WorldStable ==
  ASSUME IInv, world' = world, stored.deleting => stored'.deleting /\ stored'.fins \subseteq stored.fins
  PROVE  WorldOK'
BY DEF IInv, WorldOK

\* A patch that removes the finalizers X during a cleanup removes exactly those,
\* even if it was computed from a stale copy.
Released(X) ==
  /\ stored'.deleting
  /\ stored'.fins = stored.fins \ X
  /\ stored' = Gone \/ (stored'.exists /\ stored'.fins # {})

LEMMA ReleaseEffect ==
  ASSUME IInv, kube.at \in Cleaning, NEW X, NEW new \in ClusterObject,
         new.fins = kube.copy.fins \ X, NEW at \in KubeSteps, KubePatches(new, at)
  PROVE  \/ stored' = stored /\ kube' = KubeIdle
         \/ /\ stored.exists /\ Released(X)
            /\ \/ at = "idle" /\ kube' = KubeIdle
               \/ /\ at # "idle" /\ kube'.at = at /\ kube'.copy = Merged(kube.copy, new)
                  /\ Merged(kube.copy, new).fins = stored.fins \ X
                  /\ Merged(kube.copy, new).exists /\ Merged(kube.copy, new).deleting
<1> DEFINE m == Merged(kube.copy, new)
<1>0. stored \in ClusterObject /\ kube.copy \in ClusterObject /\ kube \in KubeType
  BY DEF IInv, TypeOK, KubeType
<1>1. stored.deleting /\ stored.fins \subseteq kube.copy.fins  BY CleaningDeletes
<1>2. /\ m \in ClusterObject /\ m.exists = stored.exists /\ m.deleting = stored.deleting
      /\ m.fins = IF new.fins = kube.copy.fins THEN stored.fins ELSE new.fins
  BY <1>0, MergeFacts
<1>3. CASE ~Accepted(kube.copy, new)
  BY <1>3 DEF KubePatches, KubeRequeues
<1>4. CASE Accepted(kube.copy, new)
  <2>1. stored.exists /\ m.fins \subseteq stored.fins  BY <1>1, <1>4 DEF Accepted
  <2>2. stored' = Settled(m) /\ KubeGoes(at, m)  BY <1>4 DEF KubePatches
  <2> HIDE DEF m
  <2>3. m.fins = stored.fins \ X  BY <1>1, <1>2, <2>1
  <2>4. Released(X)  BY <1>1, <1>2, <2>1, <2>2, <2>3, SettledFacts DEF Released
  <2>5. \/ at = "idle" /\ kube' = KubeIdle
        \/ at # "idle" /\ kube'.at = at /\ kube'.copy = m
    BY <2>2, <1>0 DEF KubeGoes, KubeRequeues, KubeType
  <2> QED  BY <1>1, <1>2, <2>1, <2>3, <2>4, <2>5 DEF m
<1> QED  BY <1>3, <1>4

----------------------------------------------------------------------------
(* The cluster controller keeps the invariant *)

\* CleanupCluster goes on with what the next part relies on.
LEMMA AfterFits ==
  ASSUME NEW c, c.exists, c.deleting
  PROVE  /\ c.fins \cap InClusterFinalizers = {}
              => Fits(AfterNodes(c), c) /\ Fits(AfterConfigs(c), c)
         /\ Fits(AfterInCluster(c), c)
         /\ services = {} /\ ("pv" \in c.fins => kube.pvs) => Fits(AfterServices(c), c)
         /\ Fits(AfterConstraints(c), c)
<1>1. ASSUME c.fins \cap InClusterFinalizers = {}  PROVE Fits(AfterNodes(c), c)
  BY <1>1 DEF AfterNodes, Fits, Cleaning, Infrastructure
<1>2. ASSUME c.fins \cap InClusterFinalizers = {}  PROVE Fits(AfterConfigs(c), c)
  <2>1. CASE "nodes" \in c.fins
    <3>1. AfterConfigs(c) = "nodes"  BY <2>1 DEF AfterConfigs
    <3> QED  BY <3>1, <1>2 DEF Fits, Cleaning, Infrastructure
  <2>2. CASE "nodes" \notin c.fins
    BY <2>2, <1>1, <1>2 DEF AfterConfigs
  <2> QED  BY <2>1, <2>2
<1>3. Fits(AfterInCluster(c), c)
  <2>1. CASE c.fins \cap InClusterFinalizers # {}
    <3>1. AfterInCluster(c) = "idle"  BY <2>1 DEF AfterInCluster
    <3> QED  BY <3>1 DEF Fits, Cleaning, Infrastructure
  <2>2. CASE c.fins \cap InClusterFinalizers = {} /\ "etcd" \in c.fins
    <3>1. AfterInCluster(c) = "configs"  BY <2>2 DEF AfterInCluster
    <3> QED  BY <3>1, <2>2 DEF Fits, Cleaning, Infrastructure
  <2>3. CASE c.fins \cap InClusterFinalizers = {} /\ "etcd" \notin c.fins
    <3>1. AfterInCluster(c) = AfterConfigs(c)  BY <2>3 DEF AfterInCluster
    <3> QED  BY <3>1, <2>3, <1>2
  <2> QED  BY <2>1, <2>2, <2>3
<1>4. ASSUME services = {}, "pv" \in c.fins => kube.pvs  PROVE Fits(AfterServices(c), c)
  <2>1. AfterServices(c) \in {"block", "idle"} \/ (AfterServices(c) = "check" /\ "pv" \notin c.fins)
    BY <1>4 DEF AfterServices
  <2> QED  BY <2>1, <1>4 DEF Fits, Cleaning, Infrastructure
<1>5. Fits(AfterConstraints(c), c)
  <2>1. \/ AfterConstraints(c) = "services"
        \/ AfterConstraints(c) = "block" /\ "lb" \notin c.fins
        \/ AfterConstraints(c) = AfterInCluster(c)
    BY DEF AfterConstraints
  <2>2. CASE AfterConstraints(c) = "services"  BY <2>2 DEF Fits, Cleaning, Infrastructure
  <2>3. CASE AfterConstraints(c) = "block" /\ "lb" \notin c.fins
    BY <2>3 DEF Fits, Cleaning, Infrastructure
  <2>4. CASE AfterConstraints(c) = AfterInCluster(c)  BY <2>4, <1>3
  <2> QED  BY <2>1, <2>2, <2>3, <2>4
<1> QED  BY <1>1, <1>2, <1>3, <1>4, <1>5

\* CleanupCluster never goes on with adding a finalizer or noting a service.
LEMMA AfterSteps ==
  ASSUME NEW c
  PROVE  {AfterNodes(c), AfterConfigs(c), AfterInCluster(c), AfterServices(c), AfterConstraints(c)}
           \cap {"add", "note"} = {}
<1>1. AfterNodes(c) \notin {"add", "note"}  BY DEF AfterNodes
<1>2. AfterConfigs(c) \notin {"add", "note"}  BY <1>1 DEF AfterConfigs
<1>3. AfterInCluster(c) \notin {"add", "note"}  BY <1>2 DEF AfterInCluster
<1>4. AfterServices(c) \notin {"add", "note"}  BY DEF AfterServices
<1>5. AfterConstraints(c) \notin {"add", "note"}  BY <1>3 DEF AfterConstraints
<1> QED  BY <1>1, <1>2, <1>3, <1>4, <1>5

\* The idle controller relies on nothing.
LEMMA IdleFits == ASSUME kube' = KubeIdle PROVE KubeOK' /\ kube'.copy = Gone
<1>1. kube'.at = "idle" /\ kube'.copy = Gone  BY DEF KubeIdle
<1> QED  BY <1>1 DEF KubeOK, Fits, Cleaning, Infrastructure

\* A cleanup step that patches the Cluster to remove the finalizers X, and goes
\* on at a step that fits, keeps the invariant.
LEMMA ReleaseKeeps ==
  ASSUME LifecycleConstants, IInv, kube.at \in Cleaning, NEW X, NEW new \in ClusterObject,
         new.fins = kube.copy.fins \ X, NEW at \in KubeSteps \ {"add", "note"}, KubePatches(new, at),
         UNCHANGED <<provider, cached, cloud, handler, up, world, lbVars, webhook, late, faults>>,
         (stored.exists /\ Merged(kube.copy, new).fins = stored.fins \ X
            /\ Merged(kube.copy, new).exists /\ Merged(kube.copy, new).deleting)
           => Fits(at, Merged(kube.copy, new))
  PROVE  StoredOK' /\ KubeOK' /\ CloudOK' /\ WorldOK'
<1> DEFINE m == Merged(kube.copy, new)
<1>0. stored.deleting  BY CleaningDeletes
<1>u. UNCHANGED <<provider, cached, cloud, world, services, webhook>>  BY DEF lbVars
<1>1. \/ stored' = stored /\ kube' = KubeIdle
      \/ /\ stored.exists /\ Released(X)
         /\ \/ at = "idle" /\ kube' = KubeIdle
            \/ /\ at # "idle" /\ kube'.at = at /\ kube'.copy = m
               /\ m.fins = stored.fins \ X /\ m.exists /\ m.deleting
  BY ReleaseEffect
<1>2. stored'.deleting /\ stored'.fins \subseteq stored.fins
      /\ (stored' = Gone \/ (stored'.exists /\ stored'.fins # {}))
  BY <1>0, <1>1, StoredForm DEF Released
<1>k. kube \in KubeType  BY DEF IInv, TypeOK, KubeType
<1> HIDE DEF m
<1>3. CASE kube' = KubeIdle
  <2>1. StoredOK'  BY <1>0, <1>2, <1>3, <1>u, IdleFits, ShrinkKeeps
  <2>2. KubeOK'  BY <1>3, IdleFits
  <2> QED  BY <2>1, <2>2, <1>0, <1>2, <1>u, CloudStable, WorldStable DEF IInv, CloudOK
<1>4. CASE /\ at # "idle" /\ kube'.at = at /\ kube'.copy = m
           /\ stored.exists /\ Released(X) /\ m.fins = stored.fins \ X /\ m.exists /\ m.deleting
  <2>1. kube'.copy = m /\ kube'.at = at  BY <1>4
  <2>2. StoredOK'  BY <1>0, <1>2, <1>4, <2>1, <1>u, ShrinkKeeps DEF Released
  <2>3. Fits(at, m)  BY <1>4 DEF m
  <2>4. Fits(kube.at, kube.copy)'  BY <2>1, <2>3, <1>u, FitsSame
  <2>5. KubeOK'  BY <2>1, <2>4, FitsSuffices
  <2> QED  BY <2>2, <2>5, <1>0, <1>2, <1>u, CloudStable, WorldStable DEF IInv, CloudOK
<1> QED  BY <1>1, <1>3, <1>4

\* Going on without a patch keeps the copy.
LEMMA GoesCopy ==
  ASSUME IInv, NEW at \in KubeSteps \ {"idle"}, KubeGoes(at, kube.copy)
  PROVE  kube'.copy = kube.copy
BY DEF KubeGoes, IInv, TypeOK

\* A cleanup step that writes no Cluster and goes on at a step that fits.
LEMMA GoingKeeps ==
  ASSUME LifecycleConstants, IInv, kube.at \in Cleaning, NEW at \in KubeSteps \ {"add", "note"},
         KubeGoes(at, kube.copy) \/ KubeRequeues,
         UNCHANGED <<provider, stored, cached, cloud>>,
         \A r \in CloudResources : world'[r] = world[r],
         KubeGoes(at, kube.copy) => Fits(at, kube.copy)'
  PROVE  StoredOK' /\ KubeOK' /\ CloudOK'
<1>k. kube \in KubeType  BY DEF IInv, TypeOK, KubeType
<1>1. CASE kube' = KubeIdle
  <2>1. KubeOK' /\ kube'.copy = Gone  BY <1>1, IdleFits
  <2> QED  BY <2>1, SameStored, CloudStable DEF IInv, CloudOK
<1>2. CASE KubeGoes(at, kube.copy) /\ kube'.at = at /\ kube'.copy = kube.copy
  <2>1. kube'.at = at /\ kube'.copy = kube.copy  BY <1>2
  <2>2. KubeOK'
    <3>1. Fits(kube.at, kube.copy)'  BY <1>2, <2>1 DEF Fits
    <3> QED  BY <2>1, <3>1, FitsSuffices
  <2>3. CloudOK'  BY CloudStable DEF IInv, CloudOK
  <2> QED  BY <2>1, <2>2, <2>3, SameStored
<1>3. kube' = KubeIdle \/ (KubeGoes(at, kube.copy) /\ kube'.at = at /\ kube'.copy = kube.copy)
  BY <1>k DEF KubeGoes, KubeRequeues, KubeType
<1> QED  BY <1>1, <1>2, <1>3

\* Adding finalizers, from a stale copy or not, keeps the invariant.
LEMMA AddsKeeps ==
  ASSUME LifecycleConstants, IInv, KubeAdds
  PROVE  StoredOK' /\ KubeOK' /\ CloudOK' /\ WorldOK'
<1> DEFINE new == [kube.copy EXCEPT !.fins = @ \cup {kube.arg}]
           m == Merged(kube.copy, new)
<1>0. /\ stored \in ClusterObject /\ kube.copy \in ClusterObject /\ kube \in KubeType
      /\ kube.at = "add" /\ kube.copy.exists /\ kube.arg \in Finalizers \ kube.copy.fins
  BY DEF KubeAdds, IInv, KubeOK, Fits, TypeOK, KubeType
<1>1. new \in ClusterObject /\ new.fins = kube.copy.fins \cup {kube.arg}  BY <1>0 DEF ClusterObject
<1>u. UNCHANGED <<provider, cached, cloud, world, services, webhook>>  BY DEF KubeAdds, lbVars
<1>2. CASE ~Accepted(kube.copy, new)
  <2>1. kube' = KubeIdle /\ stored' = stored  BY <1>2 DEF KubeAdds, KubeRequeues
  <2> QED  BY <2>1, <1>u, IdleFits, SameStored, CloudStable, WorldStable DEF IInv, CloudOK
<1>3. CASE Accepted(kube.copy, new)
  <2>1. stored' = Settled(m) /\ KubeAddsNext(m, kube.arg)  BY <1>3 DEF KubeAdds
  <2> HIDE DEF new
  <2>2. /\ m \in ClusterObject /\ m.exists = stored.exists /\ m.deleting = stored.deleting
        /\ m.fins = IF new.fins = kube.copy.fins THEN stored.fins ELSE new.fins
    <3>1. stored \in ClusterObject /\ kube.copy \in ClusterObject /\ new \in ClusterObject
      BY <1>0, <1>1
    <3> QED  BY ONLY <3>1, MergeFacts
  <2>3. stored.exists /\ (stored.deleting => m.fins \subseteq stored.fins)  BY <1>3 DEF Accepted
  <2>4. m.fins = kube.copy.fins \cup {kube.arg}  BY <1>0, <1>1, <2>2
  <2> HIDE DEF m
  \* A copy made after the request would lead to a finalizer that is refused
  <2>5. ~kube.copy.deleting
    BY <1>0, <2>3, <2>4 DEF IInv, StoredOK, Current
  <2>6. "credentials" \in m.fins  BY <2>4, <2>5 DEF IInv, StoredOK
  <2>7. stored' = m  BY <2>1, <2>2, <2>6, SettledFacts
  <2> DEFINE f == FirstMissing(m, kube.arg)
  <2>8. \/ kube' = KubeIdle
        \/ f # "" /\ kube' = [KubeIdle EXCEPT !.at = "add", !.copy = m, !.arg = f]
    BY <2>1 DEF KubeAddsNext
  <2>9. f # "" => f \in Finalizers \ m.fins  BY <2>2, FirstMissingFacts DEF Finalizers
  <2> HIDE DEF f
  <2>10. KubeOK' /\ kube'.copy \in {Gone, m}
    <3>1. CASE kube' = KubeIdle  BY <3>1, IdleFits
    <3>2. CASE f # "" /\ kube' = [KubeIdle EXCEPT !.at = "add", !.copy = m, !.arg = f]
      <4>1. kube'.at = "add" /\ kube'.copy = m /\ kube'.arg = f  BY <3>2 DEF KubeIdle
      <4> QED
        BY <4>1, <3>2, <2>2, <2>3, <2>9 DEF KubeOK, Fits, Cleaning, Infrastructure
    <3> QED  BY <2>8, <3>1, <3>2
  <2>11. stored.deleting => stored'.deleting /\ stored'.fins \subseteq stored.fins  BY <2>2, <2>3, <2>7
  <2>12. StoredOK'
    <3>1. ~Gone.exists /\ Gone.deleting  BY DEF Gone
    <3>2. stored'.exists /\ "credentials" \in stored'.fins  BY <2>2, <2>3, <2>6, <2>7
    <3>3. ~stored'.deleting => Outdated(cached')  BY <1>u, <2>2, <2>7 DEF IInv, StoredOK
    <3>4. Current(cached)'  BY <1>u, <2>11 DEF IInv, StoredOK, Current
    <3>5. Current(kube.copy)'  BY <2>7, <2>10, <3>1 DEF Current
    <3>6. ~cached.deleting => "credentials" \in cached.fins  BY DEF IInv, StoredOK
    <3>7. ~kube'.copy.deleting => "credentials" \in kube'.copy.fins  BY <2>6, <2>10, <3>1
    <3> QED  BY <1>u, <3>2, <3>3, <3>4, <3>5, <3>6, <3>7 DEF StoredOK
  <2> QED  BY <1>u, <2>10, <2>11, <2>12, CloudStable, WorldStable DEF IInv, CloudOK
<1> QED  BY <1>2, <1>3

\* The cluster controller keeps the invariant.
LEMMA KubeKeeps ==
  ASSUME LifecycleConstants, IInv, KubeNext
  PROVE  StoredOK' /\ KubeOK' /\ CloudOK' /\ WorldOK'
<1>0. /\ stored \in ClusterObject /\ cached \in ClusterObject /\ kube.copy \in ClusterObject
      /\ kube \in KubeType /\ world \in WorldType /\ TypeOK /\ WorldOK /\ KubeOK
  BY DEF TypeOK, IInv, KubeType, WorldType
<1>s. {"idle", "add", "constraints", "unconstrain", "services", "note", "wait", "block", "volumes",
       "check", "release", "configs", "unconfig", "nodes", "unnode", "secret", "unsecret"}
        \subseteq KubeSteps
  BY DEF KubeSteps
<1>t. /\ {"constraints", "volumes", "configs", "secret", "deployments", "sets", "machines"} \subseteq Things
      /\ {"constraints", "volumes", "configs", "secret", "deployments", "sets", "machines"}
           \cap CloudResources = {}
      /\ CloudResources \subseteq Things
  BY DEF Things, Lingering, Layers, CloudResources
<1>1. CASE KubeStart
  <2>u. UNCHANGED <<provider, stored, cached, cloud, world, services, webhook>>
    BY <1>1 DEF KubeStart, clusterVars, lbVars
  <2>1. KubeOK' /\ kube'.copy \in {Gone, cached, stored}
    <3>1. CASE kube' = KubeIdle  BY <3>1, IdleFits
    <3>2. CASE \E c \in {cached, stored} :
                 c.exists /\ c.deleting /\ kube' = [KubeIdle EXCEPT !.at = "constraints", !.copy = c]
      <4>1. PICK c \in {cached, stored} :
              c.exists /\ c.deleting /\ kube' = [KubeIdle EXCEPT !.at = "constraints", !.copy = c]
        BY <3>2
      <4>2. kube'.at = "constraints" /\ kube'.copy = c  BY <4>1 DEF KubeIdle
      <4> QED  BY <4>1, <4>2 DEF KubeOK, Fits, Cleaning, Infrastructure
    <3>3. CASE \E c \in {cached, stored} : c.exists /\ ~c.deleting /\ KubeAddsNext(c, "")
      <4>1. PICK c \in {cached, stored} : c.exists /\ ~c.deleting /\ KubeAddsNext(c, "")  BY <3>3
      <4> DEFINE f == FirstMissing(c, "")
      <4>2. \/ kube' = KubeIdle
            \/ f # "" /\ kube' = [KubeIdle EXCEPT !.at = "add", !.copy = c, !.arg = f]
        BY <4>1 DEF KubeAddsNext
      <4>3. f # "" => f \in Finalizers \ c.fins  BY <1>0, <4>1, FirstMissingFacts DEF Finalizers
      <4> HIDE DEF f
      <4>4. CASE f # "" /\ kube' = [KubeIdle EXCEPT !.at = "add", !.copy = c, !.arg = f]
        <5>1. kube'.at = "add" /\ kube'.copy = c /\ kube'.arg = f  BY <4>4 DEF KubeIdle
        <5> QED  BY <5>1, <4>1, <4>3, <4>4 DEF KubeOK, Fits, Cleaning, Infrastructure
      <4> QED  BY <4>2, <4>4, IdleFits
    <3> QED  BY <1>1, <3>1, <3>2, <3>3 DEF KubeStart
  <2> QED  BY <2>1, <2>u, SameStored, CloudStable, WorldStable DEF IInv, CloudOK
<1>2. CASE KubeAdds  BY <1>2, AddsKeeps
<1>3. CASE CleanupConstraints
  <2>1. kube.at \in Cleaning  BY <1>3 DEF CleanupConstraints, Cleaning
  <2>2. /\ KubeGoes("unconstrain", kube.copy)
        /\ world' = [world EXCEPT !["constraints"] = IF @ = "absent" THEN @ ELSE "deleting"]
        /\ UNCHANGED <<provider, stored, cached, cloud>>
    BY <1>3 DEF CleanupConstraints, clusterVars
  <2>3. /\ world'["constraints"] \in {"absent", "deleting"}
        /\ \A t \in Things \ {"constraints"} : world'[t] = world[t]
    BY <2>2, <1>0, <1>t DEF WorldType
  <2>c. kube'.copy = kube.copy  BY <2>2, <1>s, GoesCopy
  <2>4. Fits("unconstrain", kube.copy)'
    BY <2>1, <2>c, <2>3, CleaningDeletes DEF Fits, Cleaning, Infrastructure
  <2>5. StoredOK' /\ KubeOK' /\ CloudOK'  BY <2>1, <2>2, <2>3, <2>4, <1>s, <1>t, GoingKeeps
  <2>6. WorldOK'  BY <2>2, <2>3, <1>0, <1>t DEF WorldOK
  <2> QED  BY <2>5, <2>6
<1>4. CASE ReleaseConstraints
  <2> DEFINE new == Without(kube.copy, {"constraints"})
             m == Merged(kube.copy, new)
  <2>1. kube.at = "unconstrain" /\ kube.at \in Cleaning  BY <1>4 DEF ReleaseConstraints, Cleaning
  <2>2. /\ KubePatches(new, AfterConstraints(m))
        /\ UNCHANGED <<provider, cached, cloud, handler, up, world, lbVars, webhook, late, faults>>
    BY <1>4 DEF ReleaseConstraints
  <2>3. new \in ClusterObject /\ new.fins = kube.copy.fins \ {"constraints"}  BY <1>0, WithoutFacts
  <2>4. AfterConstraints(m) \in KubeSteps \ {"add", "note"}  BY AfterTypes, AfterSteps
  <2>5. m.fins = stored.fins \ {"constraints"} /\ m.exists /\ m.deleting => Fits(AfterConstraints(m), m)
    BY AfterFits
  <2> HIDE DEF new, m
  <2> QED  BY <2>1, <2>2, <2>3, <2>4, <2>5, ReleaseKeeps DEF m
<1>5. CASE CleanupLBs
  <2>1. kube.at = "services" /\ kube.at \in Cleaning  BY <1>5 DEF CleanupLBs, Cleaning
  <2>2. UNCHANGED <<provider, stored, cached, cloud, world, webhook>>
    BY <1>5 DEF CleanupLBs, clusterVars
  <2>3. kube.copy.exists /\ kube.copy.deleting  BY <2>1, CleaningDeletes
  <2>4. CASE services = {}
    <3> DEFINE at == AfterServices(kube.copy)
    <3>1. KubeGoes(at, kube.copy) /\ UNCHANGED services  BY <1>5, <2>4 DEF CleanupLBs
    <3>2. at \in KubeSteps \ {"add", "note"}  BY AfterTypes, AfterSteps
    <3>3. Fits(at, kube.copy)
      <4>1. "pv" \in kube.copy.fins => kube.pvs  BY <2>1 DEF IInv, VolumesAsked, Deleting
      <4> QED  BY <4>1, <2>3, <2>4, AfterFits
    <3> HIDE DEF at
    <3>4. at # "idle" => kube'.copy = kube.copy  BY <3>1, <3>2, GoesCopy
    <3>5. at = "idle" => kube' = KubeIdle  BY <3>1 DEF KubeGoes, KubeRequeues
    <3>6. CASE at = "idle"
      BY <3>5, <3>6, <2>2, IdleFits, SameStored, CloudStable, WorldStable DEF IInv, CloudOK
    <3>7. CASE at # "idle"
      <4>1. kube'.at = at /\ kube'.copy = kube.copy
        BY <3>1, <3>7, <1>0 DEF KubeGoes, KubeType
      <4>2. Fits(kube.at, kube.copy)'  BY <4>1, <3>1, <3>3, <2>2, FitsSame
      <4>3. KubeOK'  BY <4>1, <4>2, <3>2, FitsSuffices
      <4> QED  BY <4>1, <4>3, <2>2, SameStored, CloudStable, WorldStable DEF IInv, CloudOK
    <3> QED  BY <3>6, <3>7
  <2>5. CASE services # {}
    <3>1. PICK u \in services : kube' = [kube EXCEPT !.at = "note", !.arg = u, !.some = TRUE]
      BY <1>5, <2>5 DEF CleanupLBs
    <3>2. u \in Services  BY <1>0 DEF TypeOK
    <3>3. kube'.at = "note" /\ kube'.arg = u /\ kube'.copy = kube.copy  BY <3>1, <1>0 DEF KubeType
    <3>4. KubeOK'  BY <3>2, <3>3, <2>3 DEF KubeOK, Fits, Cleaning, Infrastructure
    <3> QED  BY <3>3, <3>4, <2>2, SameStored, CloudStable, WorldStable DEF IInv, CloudOK
  <2> QED  BY <2>4, <2>5
<1>6. CASE NoteLB
  <2> DEFINE new == [kube.copy EXCEPT !.lbs = @ \cup {kube.arg}]
             m == Merged(kube.copy, new)
  <2>1. kube.at = "note" /\ kube.at \in Cleaning  BY <1>6 DEF NoteLB, Cleaning
  <2>2. /\ KubePatches(new, "wait")
        /\ UNCHANGED <<provider, cached, cloud, handler, up, world, lbVars, webhook, late, faults>>
    BY <1>6 DEF NoteLB
  <2>3. new \in ClusterObject /\ new.fins = kube.copy.fins \ {}
    BY <2>1, <1>0 DEF KubeOK, ClusterObject
  <2>4. m.exists /\ m.deleting => Fits("wait", m)  BY DEF Fits, Cleaning, Infrastructure
  <2> HIDE DEF new, m
  <2> QED  BY <2>1, <2>2, <2>3, <2>4, <1>s, ReleaseKeeps DEF m
<1>7. CASE AwaitNote
  <2>1. kube.at \in Cleaning  BY <1>7 DEF AwaitNote, Cleaning
  <2>2. /\ KubeGoes("services", kube.copy) \/ KubeRequeues
        /\ UNCHANGED <<provider, stored, cached, cloud, world>>
    BY <1>7 DEF AwaitNote, clusterVars
  <2>3. ASSUME KubeGoes("services", kube.copy)  PROVE Fits("services", kube.copy)'
    <3>1. kube'.copy = kube.copy  BY <2>3, <1>s, GoesCopy
    <3> QED  BY <3>1, <2>1, CleaningDeletes DEF Fits, Cleaning, Infrastructure
  <2>4. StoredOK' /\ KubeOK' /\ CloudOK'  BY <2>1, <2>2, <2>3, <1>s, GoingKeeps
  <2> QED  BY <2>2, <2>4, WorldStable
<1>8. CASE BlockVolumes
  <2>1. kube.at = "block" /\ kube.at \in Cleaning  BY <1>8 DEF BlockVolumes, Cleaning
  <2>2. /\ KubeGoes("volumes", kube.copy) /\ webhook'
        /\ UNCHANGED <<provider, stored, cached, cloud, world, services>>
    BY <1>8 DEF BlockVolumes, clusterVars, lbVars
  <2>3. kube'.copy = kube.copy  BY <2>2, <1>s, GoesCopy
  <2>4. Fits("volumes", kube.copy)'
    BY <2>1, <2>2, <2>3, <1>0, CleaningDeletes DEF KubeOK, Fits, Cleaning, Infrastructure
  <2>5. StoredOK' /\ KubeOK' /\ CloudOK'  BY <2>1, <2>2, <2>4, <1>s, GoingKeeps
  <2> QED  BY <2>2, <2>5, WorldStable
<1>9. CASE CleanupVolumes
  <2>1. kube.at = "volumes" /\ kube.at \in Cleaning /\ webhook
    BY <1>9, <1>0 DEF CleanupVolumes, Cleaning, KubeOK, Fits
  <2>2. /\ UNCHANGED <<provider, stored, cached, cloud, services, webhook>>
        /\ \A t \in Things \ {"volumes"} : world'[t] = world[t]
        /\ world'["volumes"] # "double"
    <3>1. UNCHANGED <<provider, stored, cached, cloud, services, webhook>>
      BY <1>9 DEF CleanupVolumes, clusterVars, lbVars
    <3>2. UNCHANGED world \/ world' = [world EXCEPT !["volumes"] = "deleting"]
      BY <1>9 DEF CleanupVolumes
    <3>3. world \in WorldType /\ WorldOK /\ "volumes" \in Things  BY <1>0, <1>t
    <3> QED  BY <3>1, <3>2, <3>3 DEF WorldType, WorldOK
  <2>3. WorldOK'  BY <2>2, <1>0, <1>t DEF WorldOK
  <2>4. CASE world["volumes"] = "absent" /\ ~kube.some
    <3>1. KubeGoes("check", kube.copy) /\ UNCHANGED world  BY <1>9, <2>4 DEF CleanupVolumes
    <3>2. kube'.copy = kube.copy  BY <3>1, <1>s, GoesCopy
    <3>3. Fits("check", kube.copy)'
      BY <2>1, <2>2, <2>4, <3>1, <3>2, <1>0, CleaningDeletes DEF KubeOK, Fits, Cleaning, Infrastructure
    <3> QED  BY <2>1, <2>2, <2>3, <3>1, <3>3, <1>s, GoingKeeps
  <2>5. CASE ~(world["volumes"] = "absent" /\ ~kube.some)
    <3>1. kube' = KubeIdle  BY <1>9, <2>5 DEF CleanupVolumes, KubeGoes, KubeRequeues
    <3> QED  BY <3>1, <2>2, <2>3, <1>t, IdleFits, SameStored, CloudStable DEF IInv, CloudOK
  <2> QED  BY <2>4, <2>5
<1>10. CASE CheckLBs
  <2> DEFINE left == kube.copy.lbs \ events
             new == [kube.copy EXCEPT !.lbs = left]
             m == Merged(kube.copy, new)
             at == IF left # {} THEN "release" ELSE "idle"
  <2>1. kube.at = "check" /\ kube.at \in Cleaning  BY <1>10 DEF CheckLBs, Cleaning
  <2>2. UNCHANGED <<provider, cached, cloud, handler, up, world, lbVars, webhook, late, faults>>
    BY <1>10 DEF CheckLBs
  <2>3. \/ KubeGoes("release", kube.copy) /\ UNCHANGED stored
        \/ KubePatches(new, at)
    BY <1>10 DEF CheckLBs
  <2>4. new \in ClusterObject /\ new.fins = kube.copy.fins \ {}  BY <1>0 DEF ClusterObject
  <2>5. at \in KubeSteps \ {"add", "note"}  BY <1>s
  <2>6. CASE KubeGoes("release", kube.copy) /\ UNCHANGED stored
    <3>1. kube'.copy = kube.copy  BY <2>6, <1>s, GoesCopy
    <3>2. Fits("release", kube.copy)'
      BY <2>1, <2>2, <3>1, <1>0, CleaningDeletes DEF KubeOK, Fits, Cleaning, Infrastructure, lbVars
    <3>3. StoredOK' /\ KubeOK' /\ CloudOK'  BY <2>1, <2>2, <2>6, <3>2, <1>s, GoingKeeps
    <3> QED  BY <2>2, <2>6, <3>3, WorldStable
  <2>7. CASE KubePatches(new, at)
    <3>1. m.fins = stored.fins \ {} /\ m.exists /\ m.deleting => Fits(at, m)
      <4>1. stored.fins \subseteq kube.copy.fins  BY <2>1, CleaningDeletes
      <4>2. at \in {"release", "idle"}  OBVIOUS
      <4> HIDE DEF at, m
      <4> QED  BY <4>1, <4>2, <2>1, <1>0 DEF KubeOK, Fits, Cleaning, Infrastructure
    <3> HIDE DEF left, new, m, at
    <3> QED  BY <2>1, <2>2, <2>4, <2>5, <2>7, <3>1, ReleaseKeeps DEF m
  <2> QED  BY <2>3, <2>6, <2>7
<1>11. CASE ReleaseInCluster
  <2> DEFINE new == Without(kube.copy, InClusterFinalizers)
             m == Merged(kube.copy, new)
  <2>1. kube.at = "release" /\ kube.at \in Cleaning  BY <1>11 DEF ReleaseInCluster, Cleaning
  <2>2. /\ KubePatches(new, AfterInCluster(m))
        /\ UNCHANGED <<provider, cached, cloud, handler, up, world, lbVars, webhook, late, faults>>
    BY <1>11 DEF ReleaseInCluster
  <2>3. new \in ClusterObject /\ new.fins = kube.copy.fins \ InClusterFinalizers  BY <1>0, WithoutFacts
  <2>4. AfterInCluster(m) \in KubeSteps \ {"add", "note"}  BY AfterTypes, AfterSteps
  <2>5. m.fins = stored.fins \ InClusterFinalizers /\ m.exists /\ m.deleting => Fits(AfterInCluster(m), m)
    BY AfterFits
  <2> HIDE DEF new, m
  <2> QED  BY <2>1, <2>2, <2>3, <2>4, <2>5, ReleaseKeeps DEF m
<1>12. CASE CleanupConfigs
  <2>1. kube.at = "configs" /\ kube.at \in Cleaning  BY <1>12 DEF CleanupConfigs, Cleaning
  <2>2. /\ UNCHANGED <<provider, stored, cached, cloud, services, webhook>>
        /\ \A t \in Things \ {"configs"} : world'[t] = world[t]
    BY <1>12, <1>0, <1>t DEF CleanupConfigs, clusterVars, lbVars, WorldType
  <2>3. kube.copy.exists /\ kube.copy.deleting /\ kube.copy.fins \cap InClusterFinalizers = {}
    BY <2>1, <1>0, CleaningDeletes DEF KubeOK, Fits, Infrastructure
  <2>4. CASE EtcdBackupRestore /\ world["configs"] # "absent"
    <3> DEFINE at == AfterConfigs(kube.copy)
    <3>1. KubeGoes(at, kube.copy) /\ world'["configs"] = "deleting"
      BY <1>12, <2>4, <1>0, <1>t DEF CleanupConfigs, WorldType
    <3>2. at \in KubeSteps \ {"add", "note"}  BY AfterTypes, AfterSteps
    <3>3. Fits(at, kube.copy) /\ at \in {"idle", "nodes", "secret"}
      BY <2>3, AfterFits DEF AfterConfigs, AfterNodes
    <3>6. WorldOK'  BY <2>2, <2>4, <3>1, <1>0, <1>t DEF WorldOK
    <3> HIDE DEF at
    <3>4. CASE at = "idle"
      <4>1. kube' = KubeIdle  BY <3>1, <3>4 DEF KubeGoes, KubeRequeues
      <4>2. \A r \in CloudResources : world'[r] = world[r]  BY <2>2, <1>t
      <4> QED  BY <4>1, <4>2, <3>6, <2>2, IdleFits, SameStored, CloudSame
    <3>5. CASE at # "idle"
      <4>1. kube'.at = at /\ kube'.copy = kube.copy
        BY <3>1, <3>5, <1>0 DEF KubeGoes, KubeType
      <4>2. KubeOK'
        BY <4>1, <3>3, <2>2, <1>t DEF KubeOK, Fits, Cleaning, Infrastructure
      <4>3. \A r \in CloudResources : world'[r] = world[r]  BY <2>2, <1>t
      <4> QED  BY <4>1, <4>2, <4>3, <3>6, <2>2, SameStored, CloudSame
    <3> QED  BY <3>4, <3>5
  <2>5. CASE ~(EtcdBackupRestore /\ world["configs"] # "absent")
    <3>1. KubeGoes("unconfig", kube.copy) /\ UNCHANGED world  BY <1>12, <2>5 DEF CleanupConfigs
    <3>2. world["configs"] = "absent"  BY <2>5, <1>0 DEF WorldOK
    <3>3. kube'.copy = kube.copy  BY <3>1, <1>s, GoesCopy
    <3>4. Fits("unconfig", kube.copy)'
      BY <2>3, <3>1, <3>2, <3>3 DEF Fits, Cleaning, Infrastructure
    <3>5. StoredOK' /\ KubeOK' /\ CloudOK'  BY <2>1, <2>2, <3>1, <3>4, <1>s, GoingKeeps
    <3> QED  BY <2>2, <3>1, <3>5, WorldStable
  <2> QED  BY <2>4, <2>5
<1>13. CASE ReleaseConfigs
  <2> DEFINE new == Without(kube.copy, {"etcd"})
             m == Merged(kube.copy, new)
  <2>1. kube.at = "unconfig" /\ kube.at \in Cleaning  BY <1>13 DEF ReleaseConfigs, Cleaning
  <2>2. /\ KubePatches(new, AfterConfigs(m))
        /\ UNCHANGED <<provider, cached, cloud, handler, up, world, lbVars, webhook, late, faults>>
    BY <1>13 DEF ReleaseConfigs
  <2>3. new \in ClusterObject /\ new.fins = kube.copy.fins \ {"etcd"}  BY <1>0, WithoutFacts
  <2>4. AfterConfigs(m) \in KubeSteps \ {"add", "note"}  BY AfterTypes, AfterSteps
  <2>5. stored.fins \subseteq kube.copy.fins /\ kube.copy.fins \cap InClusterFinalizers = {}
    BY <2>1, <1>0, CleaningDeletes DEF KubeOK, Fits, Infrastructure
  <2>6. m.fins = stored.fins \ {"etcd"} /\ m.exists /\ m.deleting => Fits(AfterConfigs(m), m)
    BY <2>5, AfterFits
  <2> HIDE DEF new, m
  <2> QED  BY <2>1, <2>2, <2>3, <2>4, <2>6, ReleaseKeeps DEF m
<1>14. CASE CleanupNodes
  <2>1. kube.at = "nodes" /\ kube.at \in Cleaning  BY <1>14 DEF CleanupNodes, Cleaning
  <2>2. UNCHANGED <<provider, stored, cached, cloud, services, webhook>>
    BY <1>14 DEF CleanupNodes, clusterVars, lbVars
  <2>3. kube.copy.exists /\ kube.copy.deleting /\ kube.copy.fins \cap InClusterFinalizers = {}
    BY <2>1, <1>0, CleaningDeletes DEF KubeOK, Fits, Infrastructure
  <2>4. CASE \E l \in Layers : world' = [world EXCEPT ![l] = "deleting"] /\ KubeRequeues
    <3>1. PICK l \in Layers : world' = [world EXCEPT ![l] = "deleting"] /\ KubeRequeues  BY <2>4
    <3>2. /\ \A t \in Things \ Layers : world'[t] = world[t]
          /\ \A t \in Layers : world'[t] \in {world[t], "deleting"}
          /\ Layers \subseteq Things /\ Layers \cap (CloudResources \cup {"configs", "secret"}) = {}
      BY <3>1, <1>0, <1>t DEF WorldType, Layers, Things, Lingering
    <3>3. WorldOK'  BY <2>2, <3>2, <1>0, <1>t DEF WorldOK
    <3>4. kube' = KubeIdle  BY <3>1 DEF KubeRequeues
    <3> QED  BY <2>2, <3>2, <3>3, <3>4, <1>t, IdleFits, SameStored, CloudStable DEF IInv, CloudOK
  <2>5. CASE (\A l \in Layers : world[l] = "absent") /\ KubeGoes("unnode", kube.copy) /\ UNCHANGED world
    <3>1. kube'.copy = kube.copy  BY <2>5, <1>s, GoesCopy
    <3>2. Fits("unnode", kube.copy)'
      BY <2>3, <2>5, <3>1 DEF Fits, Cleaning, Infrastructure
    <3>3. StoredOK' /\ KubeOK' /\ CloudOK'  BY <2>1, <2>2, <2>5, <3>2, <1>s, GoingKeeps
    <3> QED  BY <2>2, <2>5, <3>3, WorldStable
  <2>6. \A n \in DOMAIN NodeLayers : NodeLayers[n] \in Layers  BY DEF NodeLayers, Layers
  <2> QED  BY <1>14, <2>4, <2>5, <2>6 DEF CleanupNodes
<1>15. CASE ReleaseNodes
  <2> DEFINE new == Without(kube.copy, {"nodes"})
             m == Merged(kube.copy, new)
  <2>1. kube.at = "unnode" /\ kube.at \in Cleaning  BY <1>15 DEF ReleaseNodes, Cleaning
  <2>2. /\ KubePatches(new, AfterNodes(m))
        /\ UNCHANGED <<provider, cached, cloud, handler, up, world, lbVars, webhook, late, faults>>
    BY <1>15 DEF ReleaseNodes
  <2>3. new \in ClusterObject /\ new.fins = kube.copy.fins \ {"nodes"}  BY <1>0, WithoutFacts
  <2>4. AfterNodes(m) \in KubeSteps \ {"add", "note"}  BY AfterTypes, AfterSteps
  <2>5. stored.fins \subseteq kube.copy.fins /\ kube.copy.fins \cap InClusterFinalizers = {}
    BY <2>1, <1>0, CleaningDeletes DEF KubeOK, Fits, Infrastructure
  <2>6. m.fins = stored.fins \ {"nodes"} /\ m.exists /\ m.deleting => Fits(AfterNodes(m), m)
    BY <2>5, AfterFits
  <2> HIDE DEF new, m
  <2> QED  BY <2>1, <2>2, <2>3, <2>4, <2>6, ReleaseKeeps DEF m
<1>16. CASE DeleteSecret
  <2>1. kube.at = "secret" /\ kube.at \in Cleaning  BY <1>16 DEF DeleteSecret, Cleaning
  <2>2. /\ UNCHANGED <<provider, stored, cached, cloud, services, webhook>>
        /\ KubeGoes("unsecret", kube.copy) /\ world'["secret"] = "absent"
        /\ \A t \in Things \ {"secret"} : world'[t] = world[t]
    BY <1>16, <1>0, <1>t DEF DeleteSecret, clusterVars, lbVars, WorldType
  <2>3. /\ kube.copy.exists /\ kube.copy.deleting /\ stored.deleting
        /\ kube.copy.fins = {"credentials"} /\ stored.fins \subseteq {"credentials"}
        /\ kube.copy.fins \cap InClusterFinalizers = {}
    BY <2>1, <1>0, CleaningDeletes DEF KubeOK, Fits, Infrastructure
  <2>4. kube'.copy = kube.copy  BY <2>2, <1>s, GoesCopy
  <2>5. Fits("unsecret", kube.copy)'
    BY <2>2, <2>3, <2>4 DEF Fits, Cleaning, Infrastructure
  <2>6. StoredOK' /\ KubeOK' /\ CloudOK'  BY <2>1, <2>2, <2>5, <1>s, <1>t, GoingKeeps
  <2>7. WorldOK'  BY <2>2, <2>3, <1>0, <1>t DEF WorldOK
  <2> QED  BY <2>6, <2>7
<1>17. CASE ReleaseSecret
  <2> DEFINE new == Without(kube.copy, {"credentials"})
             m == Merged(kube.copy, new)
  <2>1. kube.at \in Cleaning  BY <1>17 DEF ReleaseSecret, Cleaning
  <2>2. /\ KubePatches(new, "idle")
        /\ UNCHANGED <<provider, cached, cloud, handler, up, world, lbVars, webhook, late, faults>>
    BY <1>17 DEF ReleaseSecret
  <2>3. new \in ClusterObject /\ new.fins = kube.copy.fins \ {"credentials"}  BY <1>0, WithoutFacts
  <2>4. Fits("idle", m)  BY DEF Fits, Cleaning, Infrastructure
  <2> HIDE DEF new, m
  <2> QED  BY <2>1, <2>2, <2>3, <2>4, <1>s, ReleaseKeeps DEF m
<1> QED
  BY <1>1, <1>2, <1>3, <1>4, <1>5, <1>6, <1>7, <1>8, <1>9, <1>10, <1>11, <1>12, <1>13, <1>14, <1>15,
     <1>16, <1>17 DEF KubeNext

----------------------------------------------------------------------------
(* The cloud controller keeps the invariant *)

\* Going on with its table, the cloud controller stays within it.
LEMMA CloudGoes ==
  ASSUME LifecycleConstants, IInv, NEW c \in ClusterObject, CloudGoesOn(c), provider' = provider,
         cloud.at \in {"record", "unrecord"},
         cloud.at = "unrecord" =>
           /\ stored'.deleting /\ cached'.deleting
           /\ stored'.fins \cap (InClusterFinalizers \cup {"nodes"}) = {}
  PROVE  CloudOK'
<1>0. cloud.n \in Nat /\ TypeOK  BY DEF IInv, TypeOK
<1>1. cloud.n + 1 \in Nat \ {0}
  <2> DEFINE n == cloud.n
  <2> HIDE DEF n
  <2>1. n \in Nat  BY <1>0 DEF n
  <2>2. n + 1 \in Nat \ {0}  BY <2>1
  <2> QED  BY <2>2 DEF n
<1>2. CASE cloud.at = "record"
  <2>1. cloud' = InitializesFrom(cloud.n + 1, c)  BY <1>2 DEF CloudGoesOn
  <2>2. /\ cloud'.at \in {"idle", "create"}
        /\ cloud'.at = "create" => cloud'.n \in 1 .. Len(InitializeCloudProvider(provider))
    BY <2>1, <1>0, <1>1, CloudPositions
  <2> QED  BY <2>2 DEF CloudOK
<1>3. CASE cloud.at = "unrecord"
  <2>1. cloud' = CleansFrom(cloud.n + 1, c)  BY <1>3 DEF CloudGoesOn
  <2>2. /\ cloud'.at \in {"idle", "delete"}
        /\ cloud'.at = "delete" => cloud'.n \in 1 .. Len(CleanUpCloudProvider(provider))
    BY <2>1, <1>0, <1>1, CloudPositions
  <2> QED  BY <2>2, <1>3 DEF CloudOK
<1> QED  BY <1>2, <1>3

\* The idle cloud controller relies on nothing.
LEMMA CloudIdleFits == ASSUME cloud' = CloudIdle PROVE CloudOK'
BY DEF CloudIdle, CloudOK

\* An update by the cloud controller that keeps the finalizer of the credentials
\* before the request, and only takes finalizers away after it, keeps what is
\* known of the Cluster.
LEMMA UpdateKeeps ==
  ASSUME IInv, NEW new \in ClusterObject, cached.exists, Accepted(cached, new),
         stored' = Settled(Merged(cached, new)), cached' = cached, kube' = kube, world' = world,
         ~cached.deleting => "credentials" \in new.fins
  PROVE  /\ StoredOK' /\ WorldOK'
         /\ stored.deleting => stored'.deleting /\ stored'.fins \subseteq stored.fins
<1> DEFINE m == Merged(cached, new)
<1>0. stored \in ClusterObject /\ cached \in ClusterObject  BY DEF IInv, TypeOK
<1>1. /\ m \in ClusterObject /\ m.exists = stored.exists /\ m.deleting = stored.deleting
      /\ m.fins = IF new.fins = cached.fins THEN stored.fins ELSE new.fins
  <2>1. /\ m \in ClusterObject
        /\ m.exists = stored.exists
        /\ m.deleting = stored.deleting
    <3>1. /\ Merged(cached, new) \in ClusterObject
          /\ Merged(cached, new).exists = stored.exists
          /\ Merged(cached, new).deleting = stored.deleting
      <4>1. stored \in ClusterObject /\ cached \in ClusterObject /\ new \in ClusterObject  BY <1>0
      <4> QED  BY ONLY <4>1, MergeFacts
    <3> QED  BY <3>1, Zenon
  <2>2. m.fins = IF new.fins = cached.fins THEN stored.fins ELSE new.fins
    BY <1>0, MergeFacts
  <2> QED  BY <2>1, <2>2
<1>2. stored.exists /\ (stored.deleting => m.fins \subseteq stored.fins)  BY DEF Accepted
<1>3. stored' = Settled(m)  OBVIOUS
<1> HIDE DEF m
<1>4. /\ stored'.fins = m.fins /\ stored'.deleting = m.deleting
      /\ stored' # m => stored' = Gone
      /\ m.deleting /\ m.fins = {} => stored' = Gone
  BY <1>1, <1>3, SettledFacts
<1>5. CASE stored.deleting
  <2>1. stored'.deleting /\ stored'.fins \subseteq stored.fins  BY <1>1, <1>2, <1>4, <1>5
  <2>2. stored' = Gone \/ (stored'.exists /\ stored'.fins # {})  BY <1>1, <1>2, <1>4, <1>5
  <2> QED  BY <1>5, <2>1, <2>2, ShrinkKeeps, WorldStable
<1>6. CASE ~stored.deleting
  <2>1. Outdated(cached) /\ "credentials" \in stored.fins  BY <1>6 DEF IInv, StoredOK
  <2>2. "credentials" \in m.fins  BY <1>1, <2>1 DEF Outdated
  <2>3. stored' = m /\ ~Gone.exists
    <3>1. Gone.deleting /\ ~Gone.exists  BY DEF Gone
    <3>2. ~stored'.deleting  BY <1>1, <1>4, <1>6
    <3> QED  BY <1>4, <3>1, <3>2
  <2>4. StoredOK'
    BY <1>1, <1>2, <1>6, <2>1, <2>2, <2>3 DEF IInv, StoredOK, Current, Outdated
  <2>5. WorldOK'  BY <1>6, WorldStable
  <2> QED  BY <1>6, <2>4, <2>5
<1> QED  BY <1>5, <1>6

\* The cloud controller keeps the invariant.  OpenStack is left out: there a
\* second network, subnet or router survives the deletion of the first.
LEMMA CloudKeeps ==
  ASSUME LifecycleConstants, "openstack" \notin Providers, IInv, CloudNext
  PROVE  StoredOK' /\ KubeOK' /\ CloudOK' /\ WorldOK'
<1>0. /\ stored \in ClusterObject /\ cached \in ClusterObject /\ cloud \in CloudType
      /\ world \in WorldType /\ TypeOK /\ WorldOK /\ StoredOK /\ CloudOK
      /\ provider \in ProviderNames /\ provider # "openstack" /\ cloud.n \in Nat
  BY DEF TypeOK, IInv, LifecycleConstants, CloudType, WorldType
<1>t. /\ CloudResources \subseteq Things
      /\ CloudResources \cap ({"constraints", "configs", "secret", "volumes"} \cup Layers) = {}
      /\ {"constraints", "configs", "secret", "volumes"} \cup Layers \subseteq Things
  BY DEF Things, CloudResources, Layers, Lingering
<1>u. kube' = kube /\ cached' = cached /\ provider' = provider /\ services' = services /\ webhook' = webhook
  BY DEF CloudNext, CloudStart, CloudCreates, CloudRecords, CloudDeletes, CloudUnrecords,
     clusterVars, lbVars
<1>k. ASSUME \A t \in Things \ CloudResources : world'[t] = world[t]  PROVE KubeOK'
  BY <1>k, <1>u, <1>t, KubeStable
<1>f. ASSUME CloudFails, world' = world, stored' = stored  PROVE StoredOK' /\ KubeOK' /\ CloudOK' /\ WorldOK'
  BY <1>f, <1>u, <1>k, CloudIdleFits, SameStored, WorldStable DEF CloudFails
<1>1. CASE CloudStart
  <2>1. stored' = stored /\ world' = world  BY <1>1 DEF CloudStart, clusterVars
  <2>2. StoredOK' /\ KubeOK' /\ WorldOK'  BY <2>1, <1>u, <1>k, SameStored, WorldStable
  <2>3. CASE cloud' = CloudIdle  BY <2>2, <2>3, CloudIdleFits
  <2>4. CASE cached.exists /\ ~cached.deleting /\ cloud' = InitializesFrom(1, cached)
    <3>1. /\ cloud'.at \in {"idle", "create"}
          /\ cloud'.at = "create" => cloud'.n \in 1 .. Len(InitializeCloudProvider(provider))
      BY <2>4, <1>0, CloudPositions
    <3> QED  BY <3>1, <2>2, <1>u DEF CloudOK
  <2>5. CASE cached.exists /\ ~CloudWaits /\ cached.deleting /\ cloud' = CleansFrom(1, cached)
    <3>1. /\ cloud'.at \in {"idle", "delete"}
          /\ cloud'.at = "delete" => cloud'.n \in 1 .. Len(CleanUpCloudProvider(provider))
      BY <2>5, <1>0, CloudPositions
    <3>2. stored.deleting /\ stored.fins \cap (InClusterFinalizers \cup {"nodes"}) = {}
      BY <2>5, <1>0 DEF CloudWaits, StoredOK, Current
    <3> QED  BY <3>1, <3>2, <2>1, <2>2, <2>5, <1>u DEF CloudOK
  <2> QED  BY <1>1, <2>3, <2>4, <2>5 DEF CloudStart, CloudFails
<1>2. CASE CloudCreates
  <2> DEFINE r == InitializeCloudProvider(provider)[cloud.n].res
  <2>0. stored' = stored /\ cloud.at = "create"  BY <1>2 DEF CloudCreates, clusterVars
  <2>1. r \in CloudResources  BY <2>0, <1>0, TableEntries DEF CloudOK
  <2>2. \/ CloudFails /\ world' = world
        \/ world' = Created(provider, r, world) /\ cloud' = [cloud EXCEPT !.at = "record"]
    BY <1>2 DEF CloudCreates
  <2> HIDE DEF r
  <2>3. CASE world' = Created(provider, r, world) /\ cloud' = [cloud EXCEPT !.at = "record"]
    <3>1. /\ \A t \in Things \ CloudResources : world'[t] = world[t]
          /\ \A t \in Things : world'[t] # "double"
      BY <2>1, <2>3, <1>0, <1>t DEF Created, CreatedAgain, WorldOK, WorldType
    <3>2. WorldOK'  BY <3>1, <2>0, <1>0, <1>t DEF WorldOK
    <3>3. cloud'.at = "record" /\ cloud'.n = cloud.n  BY <2>3, <1>0 DEF CloudType
    <3>4. CloudOK'  BY <3>3, <2>0, <1>0, <1>u DEF CloudOK
    <3> QED  BY <3>1, <3>2, <3>4, <2>0, <1>u, <1>k, SameStored
  <2> QED  BY <2>0, <2>2, <2>3, <1>f
<1>3. CASE CloudRecords
  <2> DEFINE step == InitializeCloudProvider(provider)[cloud.n]
             new == [cached EXCEPT !.fins = @ \cup {step.res},
                                   !.ids = @ \cup (IF step.by = "spec" THEN {step.res} ELSE {})]
  <2>0. world' = world /\ cloud.at = "record" /\ CloudUpdates(new)  BY <1>3 DEF CloudRecords
  <2>1. step.res \in CloudResources  BY <2>0, <1>0, TableEntries DEF CloudOK
  <2>2. new \in ClusterObject /\ (~cached.deleting => "credentials" \in new.fins)
    BY <2>1, <1>0 DEF ClusterObject, Finalizers, StoredOK
  <2> HIDE DEF new
  <2>3. Merged(cached, new) \in ClusterObject  BY <2>2, <1>0, MergeFacts
  <2>4. KubeOK'  BY <2>0, <1>k
  <2>5. CASE cached.exists /\ CloudGoesOn(cached) /\ stored' = stored
    BY <2>0, <2>4, <2>5, <1>0, <1>u, CloudGoes, SameStored, WorldStable
  <2>6. CASE cached.exists /\ Accepted(cached, new) /\ stored' = Settled(Merged(cached, new))
               /\ CloudGoesOn(Merged(cached, new))
    <3>1. StoredOK' /\ WorldOK'  BY <2>0, <2>2, <2>6, <1>u, UpdateKeeps
    <3>2. CloudOK'  BY <2>0, <2>3, <2>6, <1>u, CloudGoes
    <3> QED  BY <2>4, <3>1, <3>2
  <2>7. CASE CloudFails /\ stored' = stored  BY <2>0, <2>7, <1>f
  <2> QED  BY <2>0, <2>5, <2>6, <2>7 DEF CloudUpdates
<1>4. CASE CloudDeletes
  <2> DEFINE r == CleanUpCloudProvider(provider)[cloud.n]
  <2>0. stored' = stored /\ cloud.at = "delete"  BY <1>4 DEF CloudDeletes, clusterVars
  <2>1. r \in CloudResources  BY <2>0, <1>0, TableEntries DEF CloudOK
  <2>2. \/ CloudFails /\ world' = world
        \/ world' = Deleted(provider, r, world) /\ cloud' = [cloud EXCEPT !.at = "unrecord"]
    BY <1>4 DEF CloudDeletes
  <2>3. CASE world' = Deleted(provider, r, world) /\ cloud' = [cloud EXCEPT !.at = "unrecord"]
    <3>1. cloud'.at = "unrecord" /\ cloud'.n = cloud.n  BY <2>3, <1>0 DEF CloudType
    <3>2. DOMAIN world = Things /\ world[r] # "double"  BY <2>1, <1>0, <1>t DEF WorldType, WorldOK
    <3> HIDE DEF r
    <3>3. /\ world'[r] = "absent"
          /\ \A t \in Things : world'[t] \in {world[t], "absent"} \/ (t = r /\ world[t] = "double")
          /\ \A t \in Things \ CloudResources : world'[t] = world[t]
      BY <2>1, <2>3, <3>2, <1>t DEF Deleted
    <3>4. WorldOK'  BY <3>2, <3>3, <2>0, <1>0, <1>t DEF WorldOK
    <3>5. CloudOK'  BY <3>1, <3>3, <2>0, <1>0, <1>u DEF CloudOK, r
    <3> QED  BY <3>3, <3>4, <3>5, <2>0, <1>u, <1>k, SameStored
  <2> QED  BY <2>0, <2>2, <2>3, <1>f
<1>5. CASE CloudUnrecords
  <2> DEFINE r == CleanUpCloudProvider(provider)[cloud.n]
             new == Without(cached, {r})
  <2>0. world' = world /\ cloud.at = "unrecord" /\ CloudUpdates(new)  BY <1>5 DEF CloudUnrecords
  <2>1. stored.deleting /\ cached.deleting /\ stored.fins \cap (InClusterFinalizers \cup {"nodes"}) = {}
    BY <2>0, <1>0 DEF CloudOK
  <2>2. new \in ClusterObject  BY <1>0, WithoutFacts
  <2> HIDE DEF new
  <2>3. Merged(cached, new) \in ClusterObject  BY <2>2, <1>0, MergeFacts
  <2>4. KubeOK'  BY <2>0, <1>k
  <2>5. CASE cached.exists /\ CloudGoesOn(cached) /\ stored' = stored
    BY <2>0, <2>1, <2>4, <2>5, <1>0, <1>u, CloudGoes, SameStored, WorldStable
  <2>6. CASE cached.exists /\ Accepted(cached, new) /\ stored' = Settled(Merged(cached, new))
               /\ CloudGoesOn(Merged(cached, new))
    <3>1. StoredOK' /\ WorldOK' /\ stored'.deleting /\ stored'.fins \subseteq stored.fins
      BY <2>0, <2>1, <2>2, <2>6, <1>u, UpdateKeeps
    <3>2. CloudOK'  BY <2>0, <2>1, <2>3, <2>6, <3>1, <1>u, CloudGoes
    <3> QED  BY <2>4, <3>1, <3>2
  <2>7. CASE CloudFails /\ stored' = stored  BY <2>0, <2>7, <1>f
  <2> QED  BY <2>0, <2>5, <2>6, <2>7 DEF CloudUpdates
<1> QED  BY <1>1, <1>2, <1>3, <1>4, <1>5 DEF CloudNext

----------------------------------------------------------------------------
(* The handler and the environment keep the invariant *)

\* Steps that touch neither the Cluster nor a controller keep what is known
\* when they disturb no thing that a cleanup step has seen to be gone.
LEMMA AroundKeeps ==
  ASSUME LifecycleConstants, IInv, UNCHANGED <<provider, stored, cached, kube, cloud>>,
         webhook' = webhook, stored.deleting => services' = services,
         \A t \in Things : world'[t] # "double",
         ~EtcdBackupRestore => world'["configs"] = "absent", world'["secret"] = world["secret"],
         stored.deleting => /\ \A t \in Things \ {"volumes"} : world'[t] \in {world[t], "absent"}
                            /\ webhook /\ world["volumes"] = "absent" => world'["volumes"] = "absent"
  PROVE  StoredOK' /\ KubeOK' /\ CloudOK' /\ WorldOK'
<1>t. /\ {"constraints", "configs", "secret"} \cup Layers \subseteq Things \ {"volumes"}
      /\ CloudResources \subseteq Things \ {"volumes"}
  BY DEF Things, CloudResources, Layers, Lingering
<1>1. StoredOK' /\ WorldOK'  BY SameStored DEF WorldOK, IInv
<1>2. kube.at \in Cleaning => stored.deleting  BY CleaningDeletes
<1>3. KubeOK'  BY <1>2, <1>t, KubeStable
<1>4. CloudOK'  BY <1>t, CloudStable DEF IInv, CloudOK
<1> QED  BY <1>1, <1>3, <1>4

\* The handler, the cache, the user, the passing of time and faults keep it.
LEMMA OtherKeeps ==
  ASSUME LifecycleConstants, IInv,
         Delete \/ Sync \/ User \/ Vanish \/ BalancerGone \/ TwoHoursPass \/ Fault
  PROVE  StoredOK' /\ KubeOK' /\ CloudOK' /\ WorldOK'
<1>0. /\ stored \in ClusterObject /\ cached \in ClusterObject /\ kube.copy \in ClusterObject
      /\ world \in WorldType /\ TypeOK /\ WorldOK /\ StoredOK /\ CloudOK /\ KubeOK
      /\ DOMAIN world = Things
  BY DEF TypeOK, IInv, WorldType
<1>t. /\ {"constraints", "configs", "secret", "volumes"} \cup Layers \subseteq Things
      /\ "secret" \notin Lingering \cup CloudResources \cup Layers
      /\ "routes" \in CloudResources /\ "configs" \notin CloudResources \cup Layers
      /\ CloudResources \subseteq Things /\ Lingering \subseteq Things
  BY DEF Things, CloudResources, Layers, Lingering
<1>1. CASE RequestDeletion
  <2>1. /\ UNCHANGED <<provider, cached, kube, cloud, world, services, webhook>>
        /\ stored.exists /\ ~stored.deleting
        /\ stored'.exists /\ ~stored'.deleting /\ stored.fins \subseteq stored'.fins
    BY <1>1, <1>0 DEF RequestDeletion, lbVars, ClusterObject
  <2>2. StoredOK'  BY <2>1, <1>0 DEF StoredOK, Current, Outdated
  <2>3. KubeOK'  BY <2>1, <1>t, KubeStable
  <2>4. CloudOK'  BY <2>1, CloudStable DEF IInv, CloudOK
  <2>5. WorldOK'  BY <2>1, WorldStable
  <2> QED  BY <2>2, <2>3, <2>4, <2>5
<1>2. CASE Delete
  <2> DEFINE d == [stored EXCEPT !.deleting = TRUE]
  <2>1. UNCHANGED <<provider, cached, kube, cloud, world, services, webhook>> /\ stored' = Settled(d)
    BY <1>2 DEF Delete, lbVars
  <2>2. d.deleting /\ d.exists = stored.exists /\ d.fins = stored.fins /\ (stored.deleting => d = stored)
    BY <1>0 DEF ClusterObject
  <2> HIDE DEF d
  <2>3. CASE stored.deleting
    <3>1. stored' = stored  BY <2>1, <2>2, <2>3, <1>0 DEF StoredOK, Settled, Gone
    <3> QED  BY <2>1, <3>1, <1>0, <1>t, AroundKeeps DEF WorldOK
  <2>4. CASE ~stored.deleting
    <3>1. stored.exists /\ "credentials" \in stored.fins  BY <2>4, <1>0, AliveFacts
    <3>2. stored' = d  BY <3>1, <2>1, <2>2 DEF Settled
    <3>3. StoredOK'  BY <2>1, <2>2, <2>4, <3>1, <3>2, <1>0 DEF StoredOK, Current, Outdated
    <3>4. KubeOK'  BY <2>1, <1>t, KubeStable
    <3>5. CloudOK'  BY <2>1, <2>4, CloudStable DEF IInv, CloudOK
    <3>6. WorldOK'  BY <2>1, <2>4, WorldStable
    <3> QED  BY <3>3, <3>4, <3>5, <3>6
  <2> QED  BY <2>3, <2>4
<1>3. CASE Sync
  <2>1. UNCHANGED <<provider, stored, kube, cloud, world, services, webhook>> /\ cached' = stored
    BY <1>3 DEF Sync, lbVars
  <2>2. StoredOK'
    <3>1. ~stored.deleting => stored.exists  BY <1>0, AliveFacts
    <3> QED  BY <2>1, <3>1, <1>0 DEF StoredOK, Current, Outdated
  <2>3. KubeOK'  BY <2>1, <1>t, KubeStable
  <2>4. CloudOK'  BY <2>1, CloudStable DEF IInv, CloudOK
  <2>5. WorldOK'  BY <2>1, WorldStable
  <2> QED  BY <2>2, <2>3, <2>4, <2>5
<1>4. CASE ApiserverUp \/ BalancerGone \/ TwoHoursPass
  <2>1. /\ UNCHANGED <<provider, stored, cached, kube, cloud>>
        /\ webhook' = webhook /\ services' = services /\ world' = world
    BY <1>4 DEF ApiserverUp, BalancerGone, TwoHoursPass, clusterVars, lbVars
  <2> QED  BY <2>1, <1>0, <1>t, AroundKeeps DEF WorldOK
<1>5. CASE AddNodes
  <2>1. /\ UNCHANGED <<provider, stored, cached, kube, cloud, webhook, services>> /\ ~stored.deleting
        /\ \A t \in Things : world'[t] \in {world[t], "present"}
        /\ \A t \in Things \ (Layers \cup CloudResources) : world'[t] = world[t]
    BY <1>5, <1>t DEF AddNodes, clusterVars, lbVars
  <2> QED  BY <2>1, <1>0, <1>t, AroundKeeps DEF WorldOK
<1>6. CASE AddService
  <2>1. UNCHANGED <<provider, stored, cached, kube, cloud, webhook, world>> /\ ~stored.deleting
    BY <1>6 DEF AddService, clusterVars
  <2> QED  BY <2>1, <1>0, <1>t, AroundKeeps DEF WorldOK
<1>7. CASE AddVolume
  <2>1. /\ UNCHANGED <<provider, stored, cached, kube, cloud, webhook, services>> /\ ~webhook
        /\ world' = [world EXCEPT !["volumes"] = "present"]
    BY <1>7 DEF AddVolume, clusterVars, lbVars
  <2>2. world'["volumes"] = "present" /\ \A t \in Things \ {"volumes"} : world'[t] = world[t]
    BY <2>1, <1>0, <1>t
  <2> QED  BY <2>1, <2>2, <1>0, <1>t, AroundKeeps DEF WorldOK
<1>8. CASE AddObject
  <2>1. /\ UNCHANGED <<provider, stored, cached, kube, cloud, webhook, services>> /\ ~stored.deleting
    BY <1>8 DEF AddObject, clusterVars, lbVars
  <2>2. PICK t \in {"constraints", "configs"} \cap Used : world' = [world EXCEPT ![t] = "present"]
    BY <1>8 DEF AddObject
  <2>3. /\ \A u \in Things : world'[u] \in {world[u], "present"}
        /\ \A u \in Things \ {"constraints", "configs"} : world'[u] = world[u]
        /\ ~EtcdBackupRestore => world'["configs"] = world["configs"]
    BY <2>2, <1>0, <1>t DEF LifecycleConstants
  <2> QED  BY <2>1, <2>3, <1>0, <1>t, AroundKeeps DEF WorldOK
<1>9. CASE Vanish
  <2>1. UNCHANGED <<provider, stored, cached, kube, cloud, webhook, services>>
    BY <1>9 DEF Vanish, clusterVars, lbVars
  <2>2. PICK t \in Lingering : world' = [world EXCEPT ![t] = "absent"]  BY <1>9 DEF Vanish
  <2>3. /\ \A u \in Things : world'[u] \in {world[u], "absent"}
        /\ world'["secret"] = world["secret"]
    BY <2>2, <1>0, <1>t
  <2> QED  BY <2>1, <2>3, <1>0, <1>t, AroundKeeps DEF WorldOK
<1>10. CASE Fault
  <2>1. UNCHANGED <<provider, stored, cached, world, services, webhook>>
    BY <1>10 DEF Fault, clusterVars, lbVars
  <2>2. kube' \in {kube, KubeIdle} /\ cloud' \in {cloud, CloudIdle}
    BY <1>10 DEF Fault, KubeFault, CloudFault, HandlerFault, KubeRequeues, CloudFails
  <2>3. WorldOK'  BY <2>1, WorldStable
  <2>4. KubeOK' /\ kube'.copy \in {kube.copy, Gone}  BY <2>1, <2>2, <1>t, KubeStable, IdleFits
  <2>5. StoredOK'  BY <2>1, <2>4, SameStored
  <2>6. CloudOK'  BY <2>1, <2>2, CloudSame, CloudIdleFits
  <2> QED  BY <2>3, <2>4, <2>5, <2>6
<1> QED  BY <1>1, <1>2, <1>3, <1>4, <1>5, <1>6, <1>7, <1>8, <1>9, <1>10 DEF User

\* What the cluster controller remembers of the volumes while it goes on.
LEMMA GoesAsked ==
  ASSUME IInv, NEW at, NEW c, KubeGoes(at, c) \/ KubeRequeues,
         \/ kube.at = "unconstrain"
         \/ at \notin Deleting
         \/ kube.at \in Deleting /\ c.fins \subseteq kube.copy.fins
  PROVE  VolumesAsked'
<1>1. kube \in KubeType  BY DEF IInv, TypeOK, KubeType
<1>2. CASE kube' = KubeIdle  BY <1>2 DEF KubeIdle, VolumesAsked, Deleting
<1>3. CASE kube' # KubeIdle
  <2>1. kube' = [kube EXCEPT !.at = at, !.copy = c,
                             !.pvs = IF kube.at = "unconstrain" THEN "pv" \in c.fins ELSE @]
    BY <1>3 DEF KubeGoes, KubeRequeues
  <2>2. /\ kube'.at = at /\ kube'.copy = c
        /\ kube'.pvs = IF kube.at = "unconstrain" THEN "pv" \in c.fins ELSE kube.pvs
    BY <2>1, <1>1 DEF KubeType
  <2> QED  BY <2>2 DEF IInv, VolumesAsked
<1> QED  BY <1>2, <1>3

\* A patch by the cluster controller is remembered in the same way.
LEMMA PatchesAsked ==
  ASSUME IInv, NEW new, NEW at, KubePatches(new, at),
         \/ kube.at = "unconstrain"
         \/ at \notin Deleting
         \/ kube.at \in Deleting /\ Merged(kube.copy, new).fins \subseteq kube.copy.fins
  PROVE  VolumesAsked'
BY GoesAsked DEF KubePatches

\* Every step keeps what is remembered of the volumes.
LEMMA AskedKeeps ==
  ASSUME IInv, Next
  PROVE  VolumesAsked'
<1>0. stored \in ClusterObject /\ kube.copy \in ClusterObject /\ kube \in KubeType
  BY DEF IInv, TypeOK, KubeType
<1>d. {"idle", "add", "constraints", "unconstrain", "block", "volumes", "check", "release", "configs",
       "unconfig", "nodes", "unnode", "secret", "unsecret"} \cap Deleting = {}
  BY DEF Deleting
<1>a. ASSUME NEW c
      PROVE  {AfterNodes(c), AfterConfigs(c), AfterInCluster(c), AfterServices(c)} \cap Deleting = {}
  <2>1. AfterNodes(c) \notin Deleting  BY <1>d DEF AfterNodes
  <2>2. AfterConfigs(c) \notin Deleting  BY <2>1, <1>d DEF AfterConfigs
  <2>3. AfterInCluster(c) \notin Deleting  BY <2>2, <1>d DEF AfterInCluster
  <2>4. AfterServices(c) \notin Deleting  BY <1>d DEF AfterServices
  <2> QED  BY <2>1, <2>2, <2>3, <2>4
<1>u. CASE UNCHANGED kube  BY <1>u DEF IInv, VolumesAsked
<1>n. ASSUME kube'.at \notin Deleting PROVE VolumesAsked'  BY <1>n DEF VolumesAsked
<1>i. ASSUME kube' = KubeIdle PROVE VolumesAsked'  BY <1>i, <1>d, <1>n DEF KubeIdle
<1>1. CASE KubeStart \/ KubeAdds
  <2>1. ASSUME NEW c, NEW b, KubeAddsNext(c, b)  PROVE VolumesAsked'
    <3>1. kube'.at \in {"idle", "add"}  BY <2>1 DEF KubeAddsNext, KubeIdle
    <3> QED  BY <3>1, <1>d, <1>n
  <2>2. ASSUME NEW c, kube' = [KubeIdle EXCEPT !.at = "constraints", !.copy = c]  PROVE VolumesAsked'
    <3>1. kube'.at = "constraints"  BY <2>2 DEF KubeIdle
    <3> QED  BY <3>1, <1>d, <1>n
  <2> QED  BY <1>1, <2>1, <2>2, <1>i DEF KubeStart, KubeAdds, KubeRequeues
<1>2. CASE CleanupConstraints \/ BlockVolumes \/ CleanupVolumes \/ CleanupConfigs \/ CleanupNodes \/ DeleteSecret
  BY <1>2, <1>a, <1>d, GoesAsked
     DEF CleanupConstraints, BlockVolumes, CleanupVolumes, CleanupConfigs, CleanupNodes, DeleteSecret
<1>3. CASE ReleaseConstraints  BY <1>3, PatchesAsked DEF ReleaseConstraints
<1>4. CASE CheckLBs \/ ReleaseInCluster \/ ReleaseConfigs \/ ReleaseNodes \/ ReleaseSecret
  BY <1>4, <1>a, <1>d, GoesAsked, PatchesAsked
     DEF CheckLBs, ReleaseInCluster, ReleaseConfigs, ReleaseNodes, ReleaseSecret
<1>5. CASE CleanupLBs
  <2>1. CASE KubeGoes(AfterServices(kube.copy), kube.copy)  BY <2>1, <1>a, GoesAsked
  <2>2. ASSUME NEW u, kube' = [kube EXCEPT !.at = "note", !.arg = u, !.some = TRUE]
        PROVE VolumesAsked'
    <3>1. kube'.copy = kube.copy /\ kube'.pvs = kube.pvs  BY <2>2, <1>0 DEF KubeType
    <3>2. kube.at \in Deleting  BY <1>5 DEF CleanupLBs, Deleting
    <3> QED  BY <3>1, <3>2 DEF IInv, VolumesAsked
  <2> QED  BY <1>5, <2>1, <2>2 DEF CleanupLBs
<1>6. CASE NoteLB
  <2> DEFINE new == [kube.copy EXCEPT !.lbs = @ \cup {kube.arg}]
  <2>1. kube.at = "note" /\ KubePatches(new, "wait")  BY <1>6 DEF NoteLB
  <2>2. kube.at \in Cleaning /\ kube.at \in Deleting  BY <2>1 DEF Cleaning, Deleting
  <2>3. stored.fins \subseteq kube.copy.fins
    BY <2>2 DEF IInv, KubeOK, Fits, StoredOK, Current, Cleaning
  <2>4. new \in ClusterObject /\ new.fins = kube.copy.fins
    BY <2>1, <1>0 DEF IInv, KubeOK, ClusterObject
  <2> HIDE DEF new
  <2>5. Merged(kube.copy, new).fins = stored.fins
    BY <2>4, <1>0, MergeFacts
  <2> QED  BY <2>1, <2>2, <2>3, <2>5, PatchesAsked
<1>7. CASE AwaitNote
  <2>1. kube.at \in Deleting  BY <1>7 DEF AwaitNote, Deleting
  <2> QED  BY <1>7, <2>1, GoesAsked DEF AwaitNote
<1>8. CASE CloudNext
  BY <1>8, <1>u DEF CloudNext, CloudStart, CloudCreates, CloudRecords, CloudDeletes, CloudUnrecords
<1>9. CASE Delete \/ Sync \/ User \/ Vanish \/ BalancerGone \/ TwoHoursPass
  BY <1>9, <1>u DEF Delete, Sync, User, RequestDeletion, ApiserverUp, AddNodes, AddService, AddVolume,
     AddObject, Vanish, BalancerGone, TwoHoursPass
<1>10. CASE Fault
  BY <1>10, <1>u, <1>i DEF Fault, KubeFault, CloudFault, HandlerFault, KubeRequeues
<1> QED
  BY <1>1, <1>2, <1>3, <1>4, <1>5, <1>6, <1>7, <1>8, <1>9, <1>10 DEF Next, KubeNext

----------------------------------------------------------------------------
(* The theorems *)

\* The invariant holds for a new cluster.
LEMMA LifecycleInit ==
  ASSUME LifecycleConstants, Init
  PROVE  IInv
<1>1. PICK ids \in Recorded :
        stored = [exists |-> TRUE, deleting |-> FALSE, fins |-> {"credentials"}, ids |-> ids, lbs |-> {}]
  BY DEF Init
<1>2. stored \in ClusterObject /\ cached = stored
  BY <1>1 DEF Init, ClusterObject, Finalizers, LifecycleConstants
<1>3. kube \in KubeType /\ cloud \in CloudType /\ kube = KubeIdle /\ cloud = CloudIdle
  BY IdleTypes DEF Init
<1>4. world = [t \in Things |-> IF t = "secret" THEN "present" ELSE "absent"]  BY DEF Init
<1>5. faults \in 0 .. MaxFaults
  <2>1. faults = 0 /\ MaxFaults \in Nat  BY DEF Init, LifecycleConstants
  <2> QED  BY <2>1
<1>6. TypeOK
  <2>1. /\ provider \in Providers /\ queued \subseteq {"kube", "cloud"} /\ handler = "none"
        /\ {up, webhook, late} \subseteq BOOLEAN /\ services = {} /\ balancers = {} /\ events = {}
    BY DEF Init
  <2>2. world \in WorldType  BY <1>4 DEF WorldType
  <2> QED  BY <2>1, <2>2, <1>2, <1>3, <1>5 DEF TypeOK, KubeType, CloudType, WorldType
<1>7. kube.at = "idle" /\ kube.copy = Gone /\ cloud.at = "idle"  BY <1>3 DEF KubeIdle, CloudIdle
<1>8. ~Gone.exists /\ Gone.deleting  BY DEF Gone
<1>9. StoredOK
  <2>1. stored.exists /\ ~stored.deleting /\ "credentials" \in stored.fins  BY <1>1
  <2> QED  BY <2>1, <1>2, <1>7, <1>8 DEF StoredOK, Current, Outdated
<1>10. KubeOK  BY <1>7 DEF KubeOK, Fits, Cleaning, Infrastructure
<1>11. CloudOK  BY <1>7 DEF CloudOK
<1>13. VolumesAsked  BY <1>7 DEF VolumesAsked, Deleting
<1>12. WorldOK
  <2>1. {"secret", "configs"} \subseteq Things  BY DEF Things, Lingering
  <2> QED  BY <2>1, <1>4 DEF WorldOK
<1> QED  BY <1>6, <1>9, <1>10, <1>11, <1>12, <1>13 DEF IInv

\* Every step keeps the invariant, if OpenStack is left out.
LEMMA LifecycleStep ==
  ASSUME LifecycleConstants, "openstack" \notin Providers, IInv, [Next]_vars
  PROVE  IInv'
<1>1. CASE Next
  <2>1. TypeOK'  BY <1>1, KubeTypes, CloudTypes, OtherTypes DEF Next
  <2>2. StoredOK' /\ KubeOK' /\ CloudOK' /\ WorldOK'
    BY <1>1, KubeKeeps, CloudKeeps, OtherKeeps DEF Next
  <2>3. VolumesAsked'  BY <1>1, AskedKeeps
  <2> QED  BY <2>1, <2>2, <2>3 DEF IInv
<1>2. CASE UNCHANGED vars
  <2>1. TypeOK'  BY <1>2 DEF vars, IInv, TypeOK
  <2>2. StoredOK'  BY <1>2 DEF vars, IInv, StoredOK, Current, Outdated
  <2>3. KubeOK'
    <3>1. UNCHANGED <<kube, services, webhook, world>>  BY <1>2 DEF vars, lbVars
    <3> QED  BY <3>1, KubeStable
  <2>4. CloudOK' /\ WorldOK'  BY <1>2 DEF vars, IInv, CloudOK, WorldOK
  <2>5. VolumesAsked'  BY <1>2 DEF vars, IInv, VolumesAsked
  <2> QED  BY <2>1, <2>2, <2>3, <2>4, <2>5 DEF IInv
<1> QED  BY <1>1, <1>2

\* The inductive invariant: what each controller has established at each step of
\* its cleanup stays true until it acts on it, although its copy is stale.
THEOREM LifecycleInvariant ==
  ASSUME "openstack" \notin Providers
  PROVE  Spec => []IInv
<1>1. Init => IInv  BY LifecycleConstants, LifecycleInit
<1>2. IInv /\ [Next]_vars => IInv'  BY LifecycleConstants, LifecycleStep
<1> QED  BY <1>1, <1>2, PTL DEF Spec

\* The variables of the life of a cluster keep their types.
THEOREM LifecycleTypes ==
  ASSUME "openstack" \notin Providers
  PROVE  Spec => []TypeOK
<1>1. IInv => TypeOK  BY DEF IInv
<1> QED  BY <1>1, LifecycleInvariant, PTL

\* The credentials of a cluster are deleted last, for every provider but
\* OpenStack and however stale the copy that CleanupCluster decides upon.
THEOREM CredentialsGoLast ==
  ASSUME "openstack" \notin Providers
  PROVE  Spec => []CredentialsLast
<1>1. IInv => CredentialsLast  BY DEF IInv, WorldOK, CredentialsLast
<1> QED  BY <1>1, LifecycleInvariant, PTL
=============================================================================
