----------------------- MODULE ClusterTeardownProofs -----------------------
(***************************************************************************)
(* Proof that ClusterLifecycle implements ClusterTeardown.                 *)
(***************************************************************************)
EXTENDS ClusterLifecycleProofs

\* The resources whose creation is recorded in the spec of the Cluster
InSpec ==
  {InitializeCloudProvider(provider)[i].res :
     i \in {j \in 1 .. Len(InitializeCloudProvider(provider)) :
              InitializeCloudProvider(provider)[j].by = "spec"}}

\* A resource with a finalizer is recorded, in the stored object and in every copy
Documented(c) == c.fins \cap InSpec \subseteq c.ids

\* What is recorded stays so until the Cluster is gone
Known(c) == stored.exists => c.ids \subseteq stored.ids

RecordOK ==
  /\ \A c \in {stored, cached, kube.copy, cloud.copy} : Documented(c) /\ Known(c)
  /\ kube.at = "add" => kube.arg \in {"etcd", "nodes", "constraints"}
  /\ cloud.at # "idle" => cloud.copy.exists
  /\ Current(cloud.copy)
  /\ cloud.at = "create" => InitializeCloudProvider(provider)[cloud.n].res \notin cloud.copy.fins

----------------------------------------------------------------------------
(* What a step makes of the Cluster and its copies *)

\* The finalizers of the cluster controller are not those of resources.
LEMMA SpecResources ==
  ASSUME LifecycleConstants, TypeOK
  PROVE  InSpec \subseteq CloudResources
<1>1. provider \in ProviderNames  BY DEF TypeOK, LifecycleConstants
<1> QED  BY <1>1, TableEntries DEF InSpec

\* A patch from old to new, with c as its answer
Patch(old, new, c) ==
  /\ Documented(new) /\ Accepted(old, new)
  /\ stored' = Settled(Merged(old, new))
  /\ c \in {Gone, Merged(old, new)}

\* The idle controller has no copy.
LEMMA IdleShape ==
  ASSUME kube' = KubeIdle
  PROVE  kube'.copy = Gone /\ kube'.at = "idle"
BY DEF KubeIdle

\* Going on, the cluster controller keeps its copy or ends.
LEMMA GoesShape ==
  ASSUME IInv, NEW at, NEW c, KubeGoes(at, c) \/ KubeRequeues
  PROVE  kube'.copy \in {Gone, c} /\ kube'.at \in {"idle", at}
<1>1. kube \in KubeType  BY DEF IInv, TypeOK, KubeType
<1>2. kube' = KubeIdle \/ (kube'.copy = c /\ kube'.at = at)
  BY <1>1 DEF KubeGoes, KubeRequeues, KubeType
<1>3. CASE kube' = KubeIdle  BY <1>3, IdleShape
<1> QED  BY <1>2, <1>3

\* A patch that is refused changes nothing, and ends the reconciliation.
LEMMA PatchShape ==
  ASSUME IInv, NEW new \in ClusterObject, NEW at, KubePatches(new, at), Documented(new)
  PROVE  /\ \/ stored' = stored /\ kube'.copy = Gone
            \/ Patch(kube.copy, new, kube'.copy)
         /\ kube'.at \in {"idle", at}
<1>1. CASE Accepted(kube.copy, new)  BY <1>1, GoesShape DEF KubePatches, Patch
<1>2. CASE ~Accepted(kube.copy, new)
  <2>1. kube' = KubeIdle /\ stored' = stored  BY <1>2 DEF KubePatches, KubeRequeues
  <2> QED  BY <2>1, IdleShape
<1> QED  BY <1>1, <1>2

\* Every step of the cluster controller leaves the Cluster alone or patches it.
LEMMA KubeShape ==
  ASSUME LifecycleConstants, IInv, RecordOK, KubeNext
  PROVE  /\ UNCHANGED <<provider, cached, cloud>>
         /\ \/ stored' = stored /\ kube'.copy \in {kube.copy, Gone, cached, stored}
            \/ \E new \in ClusterObject : Patch(kube.copy, new, kube'.copy)
         /\ kube'.at = "add" => kube'.arg \in {"etcd", "nodes", "constraints"}
<1> DEFINE same == stored' = stored /\ kube'.copy \in {kube.copy, Gone, cached, stored}
           patched == \E new \in ClusterObject : Patch(kube.copy, new, kube'.copy)
           added == kube'.at = "add" => kube'.arg \in {"etcd", "nodes", "constraints"}
<1>0. /\ kube \in KubeType /\ kube.copy \in ClusterObject /\ Documented(kube.copy)
      /\ stored \in ClusterObject /\ cached \in ClusterObject /\ kube.arg \in Finalizers \cup Services \cup {""}
      /\ kube.at = "note" => kube.arg \in Services
      /\ kube.at = "add" => kube.arg \in {"etcd", "nodes", "constraints"}
  BY DEF IInv, TypeOK, KubeType, RecordOK, KubeOK
<1>u. UNCHANGED <<provider, cached, cloud>>
  BY DEF KubeNext, KubeStart, KubeAdds, CleanupConstraints, ReleaseConstraints, CleanupLBs, NoteLB,
     AwaitNote, BlockVolumes, CleanupVolumes, CheckLBs, ReleaseInCluster, CleanupConfigs,
     ReleaseConfigs, CleanupNodes, ReleaseNodes, DeleteSecret, ReleaseSecret, clusterVars
\* Removing finalizers keeps what is documented
<1>w. ASSUME NEW X, NEW at \in KubeSteps \ {"add"}, KubePatches(Without(kube.copy, X), at)
      PROVE  (same \/ patched) /\ added
  <2>1. Without(kube.copy, X) \in ClusterObject /\ Documented(Without(kube.copy, X))
    BY <1>0 DEF Without, ClusterObject, Documented
  <2>2. (same \/ patched) /\ kube'.at # "add"  BY <1>w, <2>1, PatchShape
  <2> QED  BY <2>2
<1>g. ASSUME NEW at \in KubeSteps \ {"add"}, KubeGoes(at, kube.copy) \/ KubeRequeues, stored' = stored
      PROVE  same /\ added
  <2>1. same /\ kube'.at # "add"  BY <1>g, GoesShape
  <2> QED  BY <2>1
<1>n. ASSUME NEW c \in ClusterObject, NEW b, KubeAddsNext(c, b)  PROVE kube'.copy \in {Gone, c} /\ added
  <2>1. FirstMissing(c, b) \in {"", "etcd", "nodes", "constraints"}  BY FirstMissingFacts
  <2> QED  BY <1>n, <2>1 DEF KubeAddsNext, KubeIdle
<1>s. KubeSteps \ {"add"} =
        {"idle", "constraints", "unconstrain", "services", "note", "wait", "block", "volumes", "check",
         "release", "configs", "unconfig", "nodes", "unnode", "secret", "unsecret"}
  BY DEF KubeSteps
<1>a. \A c \in ClusterObject :
        {AfterNodes(c), AfterConfigs(c), AfterInCluster(c), AfterServices(c), AfterConstraints(c)}
          \subseteq KubeSteps \ {"add"}
  BY AfterTypes, AfterSteps
<1>m. \A new \in ClusterObject : Merged(kube.copy, new) \in ClusterObject  BY <1>0, MergeFacts
<1> SUFFICES (same \/ patched) /\ added  BY <1>u
<1> HIDE DEF same, patched, added
<1>1. CASE KubeStart
  <2>1. stored' = stored  BY <1>1 DEF KubeStart, clusterVars
  <2>2. CASE kube' = KubeIdle
    <3>1. kube'.copy = Gone /\ kube'.at = "idle"  BY <2>2, IdleShape
    <3> QED  BY <2>1, <3>1 DEF same, added
  <2>3. ASSUME NEW c \in {cached, stored}, kube' = [KubeIdle EXCEPT !.at = "constraints", !.copy = c]
        PROVE same /\ added
    <3>1. kube'.copy = c /\ kube'.at = "constraints"  BY <2>3 DEF KubeIdle
    <3> QED  BY <2>1, <3>1 DEF same, added
  <2>4. ASSUME NEW c \in {cached, stored}, KubeAddsNext(c, "")  PROVE same /\ added
    BY <2>1, <2>4, <1>n, <1>0 DEF same
  <2> QED  BY <1>1, <2>2, <2>3, <2>4 DEF KubeStart
<1>2. CASE KubeAdds
  <2> DEFINE new == [kube.copy EXCEPT !.fins = @ \cup {kube.arg}]
  <2>1. new.fins = kube.copy.fins \cup {kube.arg} /\ new.ids = kube.copy.ids /\ new \in ClusterObject
    BY <1>2, <1>0 DEF KubeAdds, ClusterObject, Finalizers
  <2>2. kube.arg \notin InSpec
    <3>1. kube.arg \in {"etcd", "nodes", "constraints"}  BY <1>2, <1>0 DEF KubeAdds
    <3> QED  BY <3>1, SpecResources DEF CloudResources, IInv
  <2>3. \/ Accepted(kube.copy, new) /\ stored' = Settled(Merged(kube.copy, new))
             /\ KubeAddsNext(Merged(kube.copy, new), kube.arg)
        \/ kube' = KubeIdle /\ stored' = stored
    BY <1>2 DEF KubeAdds, KubeRequeues
  <2> HIDE DEF new
  <2>4. Documented(new)  BY <2>1, <2>2, <1>0 DEF Documented
  <2>5. CASE kube' = KubeIdle /\ stored' = stored
    <3>1. kube'.copy = Gone /\ kube'.at = "idle"  BY <2>5, IdleShape
    <3> QED  BY <2>5, <3>1 DEF same, added
  <2>6. CASE Accepted(kube.copy, new) /\ stored' = Settled(Merged(kube.copy, new))
               /\ KubeAddsNext(Merged(kube.copy, new), kube.arg)
    <3>1. kube'.copy \in {Gone, Merged(kube.copy, new)} /\ added  BY <2>1, <2>6, <1>m, <1>n
    <3>2. patched  BY <2>1, <2>4, <2>6, <3>1 DEF patched, Patch
    <3> QED  BY <3>1, <3>2
  <2> QED  BY <2>3, <2>5, <2>6
<1>3. CASE CleanupConstraints  BY <1>3, <1>s, <1>g DEF CleanupConstraints, clusterVars
<1>4. CASE ReleaseConstraints
  <2>1. Without(kube.copy, {"constraints"}) \in ClusterObject  BY <1>0, WithoutFacts
  <2> QED  BY <1>4, <2>1, <1>m, <1>a, <1>w DEF ReleaseConstraints
<1>5. CASE CleanupLBs
  <2>0. stored' = stored  BY <1>5 DEF CleanupLBs, clusterVars
  <2>1. CASE KubeGoes(AfterServices(kube.copy), kube.copy)  BY <2>0, <2>1, <1>0, <1>a, <1>g
  <2>2. ASSUME NEW u, kube' = [kube EXCEPT !.at = "note", !.arg = u, !.some = TRUE]  PROVE same /\ added
    <3>1. kube'.copy = kube.copy /\ kube'.at = "note"  BY <2>2, <1>0 DEF KubeType
    <3> QED  BY <2>0, <3>1 DEF same, added
  <2> QED  BY <1>5, <2>1, <2>2 DEF CleanupLBs
<1>6. CASE NoteLB
  <2> DEFINE new == [kube.copy EXCEPT !.lbs = @ \cup {kube.arg}]
  <2>1. new \in ClusterObject /\ Documented(new)
    BY <1>6, <1>0 DEF NoteLB, ClusterObject, Documented
  <2>2. KubePatches(new, "wait")  BY <1>6 DEF NoteLB
  <2> HIDE DEF new
  <2>3. /\ (stored' = stored /\ kube'.copy = Gone) \/ Patch(kube.copy, new, kube'.copy)
        /\ kube'.at \in {"idle", "wait"}
    BY <2>1, <2>2, PatchShape
  <2> QED  BY <2>1, <2>3 DEF same, patched, added
<1>7. CASE AwaitNote  BY <1>7, <1>s, <1>g DEF AwaitNote, clusterVars
<1>8. CASE BlockVolumes  BY <1>8, <1>s, <1>g DEF BlockVolumes, clusterVars
<1>9. CASE CleanupVolumes  BY <1>9, <1>s, <1>g DEF CleanupVolumes, clusterVars
<1>10. CASE CheckLBs
  <2> DEFINE new == [kube.copy EXCEPT !.lbs = kube.copy.lbs \ events]
             at == IF kube.copy.lbs \ events # {} THEN "release" ELSE "idle"
  <2>1. new \in ClusterObject /\ Documented(new)  BY <1>0 DEF ClusterObject, Documented
  <2>2. (KubeGoes("release", kube.copy) /\ stored' = stored) \/ KubePatches(new, at)
    BY <1>10 DEF CheckLBs
  <2> HIDE DEF new
  <2>3. CASE KubePatches(new, at)
    <3>1. /\ (stored' = stored /\ kube'.copy = Gone) \/ Patch(kube.copy, new, kube'.copy)
          /\ kube'.at \in {"idle", at}
      BY <2>1, <2>3, PatchShape
    <3> QED  BY <2>1, <3>1 DEF same, patched, added
  <2> QED  BY <2>2, <2>3, <1>s, <1>g
<1>11. CASE ReleaseInCluster
  <2>1. Without(kube.copy, InClusterFinalizers) \in ClusterObject  BY <1>0, WithoutFacts
  <2> QED  BY <1>11, <2>1, <1>m, <1>a, <1>w DEF ReleaseInCluster
<1>12. CASE CleanupConfigs  BY <1>12, <1>0, <1>s, <1>a, <1>g DEF CleanupConfigs, clusterVars
<1>13. CASE ReleaseConfigs
  <2>1. Without(kube.copy, {"etcd"}) \in ClusterObject  BY <1>0, WithoutFacts
  <2> QED  BY <1>13, <2>1, <1>m, <1>a, <1>w DEF ReleaseConfigs
<1>14. CASE CleanupNodes  BY <1>14, <1>s, <1>g DEF CleanupNodes, clusterVars
<1>15. CASE ReleaseNodes
  <2>1. Without(kube.copy, {"nodes"}) \in ClusterObject  BY <1>0, WithoutFacts
  <2> QED  BY <1>15, <2>1, <1>m, <1>a, <1>w DEF ReleaseNodes
<1>16. CASE DeleteSecret  BY <1>16, <1>s, <1>g DEF DeleteSecret, clusterVars
<1>17. CASE ReleaseSecret  BY <1>17, <1>s, <1>w DEF ReleaseSecret
<1> QED
  BY <1>1, <1>2, <1>3, <1>4, <1>5, <1>6, <1>7, <1>8, <1>9, <1>10, <1>11, <1>12, <1>13, <1>14, <1>15,
     <1>16, <1>17 DEF KubeNext

\* A resource is recorded in one way.
LEMMA OneRecord ==
  ASSUME NEW p \in ProviderNames
  PROVE  \A i, j \in 1 .. Len(InitializeCloudProvider(p)) :
           InitializeCloudProvider(p)[i].res = InitializeCloudProvider(p)[j].res
             => InitializeCloudProvider(p)[i].by = InitializeCloudProvider(p)[j].by
<1>1. CASE p = "aws"  BY <1>1 DEF InitializeCloudProvider, AWSInitialize, BySpec, ByFinalizer
<1>2. CASE p = "azure"  BY <1>2 DEF InitializeCloudProvider, AzureInitialize, BySpec, ByFinalizer
<1>3. CASE p = "openstack"
  BY <1>3 DEF InitializeCloudProvider, OpenstackInitialize, BySpec, ByFinalizer
<1>4. CASE p = "gcp"  BY <1>4 DEF InitializeCloudProvider, GCPInitialize, BySpec, ByFinalizer
<1>5. CASE p = "vsphere"  BY <1>5 DEF InitializeCloudProvider, VSphereInitialize, BySpec, ByFinalizer
<1>6. CASE p = "none"  BY <1>6 DEF InitializeCloudProvider
<1> QED  BY <1>1, <1>2, <1>3, <1>4, <1>5, <1>6 DEF ProviderNames

\* A resource is created only if the copy has no finalizer for it.
LEMMA DueFits ==
  ASSUME LifecycleConstants, TypeOK, NEW n \in Nat \ {0}, NEW c \in ClusterObject, Documented(c)
  PROVE  /\ InitializesFrom(n, c).at = "create" =>
              /\ InitializesFrom(n, c).copy = c
              /\ InitializeCloudProvider(provider)[InitializesFrom(n, c).n].res \notin c.fins
         /\ InitializesFrom(n, c).at # "idle" => InitializesFrom(n, c).copy = c
         /\ CleansFrom(n, c).at # "idle" => CleansFrom(n, c).copy = c
<1> DEFINE I == InitializeCloudProvider(provider)
           d == NextDue(provider, n, c)
           due == {i \in n .. Len(I) : Due(I[i], c)}
<1>1. provider \in ProviderNames  BY DEF TypeOK, LifecycleConstants
<1>2. Len(I) \in 0 .. 6  BY <1>1, TableEntries
<1>3. InitializesFrom(n, c) = IF d > Len(I) THEN CloudIdle ELSE [at |-> "create", copy |-> c, n |-> d]
  BY DEF InitializesFrom
<1>4. CleansFrom(n, c).at # "idle" => CleansFrom(n, c).copy = c  BY DEF CleansFrom, CloudIdle
<1>5. d = IF due = {} THEN Len(I) + 1 ELSE CHOOSE i \in due : \A j \in due : i =< j
  BY DEF NextDue
<1>6. due \subseteq 1 .. 6 /\ due \subseteq 1 .. Len(I)  BY <1>2
<1> HIDE DEF d
<1>7. CASE d > Len(I)  BY <1>3, <1>4, <1>7 DEF CloudIdle
<1>8. CASE ~(d > Len(I))
  <2>1. due # {}  BY <1>2, <1>5, <1>8
  <2> HIDE DEF due
  <2>2. d \in due  BY <2>1, <1>5, <1>6, SmallestPosition
  <2>3. d \in 1 .. Len(I) /\ Due(I[d], c)  BY <2>2, <1>6 DEF due
  <2>4. I[d].res \notin c.fins
    <3>1. CASE I[d].by = "spec"
      <4>1. I[d].res \in InSpec  BY <2>3, <3>1 DEF InSpec
      <4> QED  BY <2>3, <3>1, <4>1 DEF Due, Documented
    <3>2. CASE I[d].by # "spec"  BY <2>3, <3>2 DEF Due
    <3> QED  BY <3>1, <3>2
  <2>5. InitializesFrom(n, c) = [at |-> "create", copy |-> c, n |-> d]  BY <1>3, <1>8
  <2> QED  BY <2>4, <2>5, <1>4
<1> QED  BY <1>7, <1>8

\* What is kept of the copy and the table when the cloud controller goes on
CloudCopyOK ==
  /\ cloud.at # "idle" => cloud.copy.exists
  /\ cloud.at = "create" => InitializeCloudProvider(provider)[cloud.n].res \notin cloud.copy.fins

\* Every step of the cloud controller leaves the Cluster alone or patches it.
LEMMA CloudShape ==
  ASSUME LifecycleConstants, IInv, RecordOK, CloudNext
  PROVE  /\ UNCHANGED <<provider, cached, kube>>
         /\ \/ stored' = stored /\ cloud'.copy \in {cloud.copy, Gone, cached, stored}
            \/ \E new \in ClusterObject : Patch(cached, new, cloud'.copy)
         /\ CloudCopyOK'
<1> DEFINE same == stored' = stored /\ cloud'.copy \in {cloud.copy, Gone, cached, stored}
           patched == \E new \in ClusterObject : Patch(cached, new, cloud'.copy)
<1>0. /\ stored \in ClusterObject /\ cached \in ClusterObject /\ cloud \in CloudType
      /\ TypeOK /\ CloudOK /\ provider \in ProviderNames /\ cloud.n \in Nat
      /\ Documented(cached) /\ Documented(stored) /\ CloudCopyOK /\ Known(cached)
  BY DEF IInv, TypeOK, LifecycleConstants, CloudType, RecordOK, CloudCopyOK
<1>u. UNCHANGED <<provider, cached, kube>>
  BY DEF CloudNext, CloudStart, CloudCreates, CloudRecords, CloudDeletes, CloudUnrecords, clusterVars
<1>i. ASSUME cloud' = CloudIdle  PROVE cloud'.copy = Gone /\ CloudCopyOK'
  BY <1>i DEF CloudIdle, CloudCopyOK
<1>g. ASSUME NEW n \in Nat \ {0}, NEW c \in ClusterObject, c.exists, Documented(c),
             cloud' = InitializesFrom(n, c) \/ cloud' = CleansFrom(n, c)
      PROVE  cloud'.copy \in {Gone, c} /\ CloudCopyOK'
  <2>1. cloud'.copy \in {Gone, c}  BY <1>g, <1>0, CloudPositions
  <2>2. CASE cloud' = InitializesFrom(n, c)
    <3>1. /\ cloud'.at # "idle" => cloud'.copy = c
          /\ cloud'.at = "create" => InitializeCloudProvider(provider)[cloud'.n].res \notin c.fins
      BY <2>2, <1>g, <1>0, DueFits
    <3> QED  BY <2>1, <3>1, <1>g, <1>u DEF CloudCopyOK
  <2>3. CASE cloud' = CleansFrom(n, c)
    <3>1. (cloud'.at # "idle" => cloud'.copy = c) /\ cloud'.at # "create"
      BY <2>3, <1>g, <1>0, DueFits, CloudPositions
    <3> QED  BY <2>1, <3>1, <1>g DEF CloudCopyOK
  <2> QED  BY <1>g, <2>2, <2>3
<1>p. ASSUME NEW new \in ClusterObject, Documented(new), CloudUpdates(new)
      PROVE  (same \/ patched) /\ CloudCopyOK'
  <2>n. cloud.n + 1 \in Nat \ {0}  BY <1>0
  <2>m. /\ Merged(cached, new) \in ClusterObject /\ Merged(cached, new).exists = stored.exists
        /\ stored.exists => Documented(Merged(cached, new))
    <3>1. Merged(cached, new).ids = stored.ids \cup (new.ids \ cached.ids)
      BY <1>0 DEF Merged, ClusterObject
    <3>2. /\ Merged(cached, new) \in ClusterObject /\ Merged(cached, new).exists = stored.exists
          /\ Merged(cached, new).fins = IF new.fins = cached.fins THEN stored.fins ELSE new.fins
      BY <1>0, MergeFacts
    <3> QED  BY <3>1, <3>2, <1>0, <1>p DEF Documented, Known
  <2>1. CASE cached.exists /\ CloudGoesOn(cached) /\ stored' = stored
    <3>1. cloud'.copy \in {Gone, cached} /\ CloudCopyOK'  BY <2>1, <2>n, <1>0, <1>g DEF CloudGoesOn
    <3> QED  BY <2>1, <3>1
  <2>2. CASE cached.exists /\ Accepted(cached, new) /\ stored' = Settled(Merged(cached, new))
               /\ CloudGoesOn(Merged(cached, new))
    <3>1. stored.exists  BY <2>2 DEF Accepted
    <3>2. cloud'.copy \in {Gone, Merged(cached, new)} /\ CloudCopyOK'
      BY <2>2, <2>n, <2>m, <3>1, <1>g DEF CloudGoesOn
    <3> QED  BY <2>2, <3>2, <1>p DEF Patch
  <2>3. CASE CloudFails /\ stored' = stored  BY <2>3, <1>i DEF CloudFails
  <2> QED  BY <1>p, <2>1, <2>2, <2>3 DEF CloudUpdates
<1> SUFFICES (same \/ patched) /\ CloudCopyOK'  BY <1>u
<1> HIDE DEF patched
<1>1. CASE CloudStart
  <2>1. stored' = stored  BY <1>1 DEF CloudStart, clusterVars
  <2>2. \/ cloud' = CloudIdle
        \/ cached.exists /\ (cloud' = InitializesFrom(1, cached) \/ cloud' = CleansFrom(1, cached))
    BY <1>1 DEF CloudStart, CloudFails
  <2> QED  BY <2>1, <2>2, <1>0, <1>i, <1>g
<1>2. CASE CloudCreates
  <2>1. stored' = stored  BY <1>2 DEF CloudCreates, clusterVars
  <2>2. CASE cloud' = [cloud EXCEPT !.at = "record"]
    <3>1. cloud'.at = "record" /\ cloud'.copy = cloud.copy  BY <2>2, <1>0 DEF CloudType
    <3>2. cloud.copy.exists  BY <1>2, <1>0 DEF CloudCreates, CloudCopyOK
    <3> QED  BY <2>1, <3>1, <3>2 DEF CloudCopyOK
  <2> QED  BY <1>2, <2>1, <2>2, <1>i DEF CloudCreates, CloudFails
<1>3. CASE CloudRecords
  <2> DEFINE step == InitializeCloudProvider(provider)[cloud.n]
             new == [cached EXCEPT !.fins = @ \cup {step.res},
                                   !.ids = @ \cup (IF step.by = "spec" THEN {step.res} ELSE {})]
  <2>1. cloud.at = "record" /\ CloudUpdates(new)  BY <1>3 DEF CloudRecords
  <2>2. step.res \in CloudResources  BY <2>1, <1>0, TableEntries DEF CloudOK
  <2>3. step.res \in InSpec => step.by = "spec"  BY <2>1, <1>0, OneRecord DEF InSpec, CloudOK
  <2>4. /\ cached.fins \cup {step.res} \subseteq Finalizers
        /\ cached.ids \cup (IF step.by = "spec" THEN {step.res} ELSE {}) \subseteq CloudResources
    BY <2>2, <1>0 DEF ClusterObject, Finalizers
  <2>5. /\ new \in ClusterObject /\ new.exists = cached.exists /\ new.fins = cached.fins \cup {step.res}
        /\ new.ids = cached.ids \cup (IF step.by = "spec" THEN {step.res} ELSE {})
    BY <2>4, <1>0 DEF ClusterObject
  <2>6. new \in ClusterObject /\ Documented(new)
    BY <2>3, <2>5, <1>0 DEF Documented
  <2> HIDE DEF new
  <2> QED  BY <2>1, <2>6, <1>p
<1>4. CASE CloudDeletes
  <2>1. stored' = stored  BY <1>4 DEF CloudDeletes, clusterVars
  <2>2. CASE cloud' = [cloud EXCEPT !.at = "unrecord"]
    <3>1. cloud'.at = "unrecord" /\ cloud'.copy = cloud.copy  BY <2>2, <1>0 DEF CloudType
    <3>2. cloud.copy.exists  BY <1>4, <1>0 DEF CloudDeletes, CloudCopyOK
    <3> QED  BY <2>1, <3>1, <3>2 DEF CloudCopyOK
  <2> QED  BY <1>4, <2>1, <2>2, <1>i DEF CloudDeletes, CloudFails
<1>5. CASE CloudUnrecords
  <2> DEFINE new == Without(cached, {CleanUpCloudProvider(provider)[cloud.n]})
  <2>1. CloudUpdates(new)  BY <1>5 DEF CloudUnrecords
  <2>2. new \in ClusterObject /\ Documented(new)  BY <1>0 DEF Without, ClusterObject, Documented
  <2> HIDE DEF new
  <2> QED  BY <2>1, <2>2, <1>p
<1> QED  BY <1>1, <1>2, <1>3, <1>4, <1>5 DEF CloudNext

\* Steps other than those of the controllers.
LEMMA OtherShape ==
  ASSUME LifecycleConstants, IInv,
         Delete \/ Sync \/ User \/ Vanish \/ BalancerGone \/ TwoHoursPass \/ Fault
  PROVE  /\ provider' = provider
         /\ kube' \in {kube, KubeIdle} /\ cloud' \in {cloud, CloudIdle} /\ cached' \in {cached, stored}
         /\ \/ stored' = stored
            \/ /\ RequestDeletion /\ ~stored.deleting
               /\ stored'.exists /\ ~stored'.deleting /\ stored'.ids = stored.ids
               /\ stored'.fins \subseteq stored.fins \cup InClusterFinalizers
            \/ /\ Delete /\ ~stored.deleting /\ cached' = cached /\ kube' = kube /\ cloud' = cloud
               /\ stored'.exists /\ stored'.deleting /\ stored'.ids = stored.ids
               /\ stored'.fins = stored.fins
<1>0. stored \in ClusterObject /\ StoredOK  BY DEF IInv, TypeOK
<1>1. CASE RequestDeletion
  <2>1. UNCHANGED <<provider, cached, kube, cloud>>  BY <1>1 DEF RequestDeletion
  <2>2. PICK asked \in SUBSET InClusterFinalizers :
          stored' = [stored EXCEPT !.fins = @ \cup (IF "nodes" \in @ THEN asked ELSE {})]
    BY <1>1 DEF RequestDeletion
  <2>3. /\ stored'.exists = stored.exists /\ stored'.deleting = stored.deleting
        /\ stored'.ids = stored.ids /\ stored'.fins \subseteq stored.fins \cup InClusterFinalizers
    BY <2>2, <1>0 DEF ClusterObject
  <2> QED  BY <1>1, <2>1, <2>3 DEF RequestDeletion
<1>2. CASE Delete
  <2> DEFINE d == [stored EXCEPT !.deleting = TRUE]
  <2>1. UNCHANGED <<provider, cached, kube, cloud>> /\ stored' = Settled(d)  BY <1>2 DEF Delete
  <2>2. /\ d.deleting /\ d.exists = stored.exists /\ d.fins = stored.fins /\ d.ids = stored.ids
        /\ stored.deleting => d = stored
    BY <1>0 DEF ClusterObject
  <2> HIDE DEF d
  <2>3. CASE stored.deleting
    <3>1. stored' = stored  BY <2>1, <2>2, <2>3, <1>0 DEF StoredOK, Settled, Gone
    <3> QED  BY <2>1, <3>1
  <2>4. CASE ~stored.deleting
    <3>1. stored.exists /\ "credentials" \in stored.fins  BY <2>4, <1>0 DEF StoredOK, Gone
    <3>2. stored' = d  BY <3>1, <2>1, <2>2 DEF Settled
    <3> QED  BY <1>2, <2>1, <2>2, <2>4, <3>1, <3>2
  <2> QED  BY <2>3, <2>4
<1>3. CASE Sync  BY <1>3 DEF Sync
<1>4. CASE ApiserverUp \/ AddNodes \/ AddService \/ AddVolume \/ AddObject
  BY <1>4 DEF ApiserverUp, AddNodes, AddService, AddVolume, AddObject, clusterVars
<1>5. CASE Vanish \/ BalancerGone \/ TwoHoursPass
  BY <1>5 DEF Vanish, BalancerGone, TwoHoursPass, clusterVars
<1>6. CASE Fault
  BY <1>6 DEF Fault, KubeFault, CloudFault, HandlerFault, KubeRequeues, CloudFails, clusterVars
<1> QED  BY <1>1, <1>2, <1>3, <1>4, <1>5, <1>6 DEF User

\* What an accepted patch does to the stored object.
LEMMA PatchEffect ==
  ASSUME IInv, RecordOK, NEW old \in {cached, kube.copy}, NEW new \in ClusterObject, NEW c,
         Patch(old, new, c)
  PROVE  /\ stored.exists /\ stored'.deleting = stored.deleting
         /\ stored.deleting => stored'.fins \subseteq stored.fins
         /\ stored'.exists => stored.ids \subseteq stored'.ids
         /\ Documented(stored') /\ Documented(c)
         /\ stored'.exists => c.ids \subseteq stored'.ids
         /\ c # Gone => c.exists /\ c.deleting = stored.deleting /\ c.fins = stored'.fins
<1> DEFINE m == Merged(old, new)
<1>0. stored \in ClusterObject /\ old \in ClusterObject  BY DEF IInv, TypeOK
<1>1. /\ m \in ClusterObject /\ m.exists = stored.exists /\ m.deleting = stored.deleting
      /\ m.fins = IF new.fins = old.fins THEN stored.fins ELSE new.fins
  BY <1>0, MergeFacts
<1>2. m.ids = stored.ids \cup (new.ids \ old.ids)  BY <1>0 DEF Merged, ClusterObject
<1>3. /\ stored.exists /\ (stored.deleting => m.fins \subseteq stored.fins)
      /\ stored' = Settled(m) /\ c \in {Gone, m} /\ Documented(new)
  BY DEF Patch, Accepted
<1>4. Documented(stored) /\ old.ids \subseteq stored.ids  BY <1>3 DEF RecordOK, Known
<1> HIDE DEF m
<1>5. Documented(m)  BY <1>1, <1>2, <1>3, <1>4 DEF Documented
<1>6. ~Gone.exists /\ Gone.ids = {} /\ Gone.fins = {} /\ Documented(Gone)  BY DEF Gone, Documented
<1>7. /\ stored'.fins = m.fins /\ stored'.deleting = m.deleting
      /\ stored' = m \/ stored' = Gone
  BY <1>1, <1>3, SettledFacts
<1> QED  BY <1>1, <1>2, <1>3, <1>5, <1>6, <1>7

\* No controller acts on what it read before the request
Noticed == \A c \in {cached, kube.copy, cloud.copy} : ~Outdated(c)

\* The request is irrevocable: finalizers only go after it, and once the copies
\* from before it are gone there are no new ones.
LEMMA Irrevocable ==
  ASSUME LifecycleConstants, IInv, RecordOK, Next
  PROVE  /\ stored.deleting => stored'.deleting /\ stored'.fins \subseteq stored.fins
         /\ ~stored.deleting /\ stored'.deleting
              => Delete /\ cached' = cached /\ stored'.exists /\ stored'.fins = stored.fins
         /\ stored.deleting /\ Noticed => Noticed'
<1>g. ~Gone.exists  BY DEF Gone
<1>1. CASE KubeNext
  <2>u. UNCHANGED <<cached, cloud>>  BY <1>1, KubeShape
  <2>1. CASE stored' = stored /\ kube'.copy \in {kube.copy, Gone, cached, stored}
    BY <2>u, <2>1, <1>g DEF Noticed, Outdated
  <2>2. ASSUME NEW new \in ClusterObject, Patch(kube.copy, new, kube'.copy)
        PROVE  /\ stored'.deleting = stored.deleting
               /\ stored.deleting => stored'.fins \subseteq stored.fins
               /\ stored.deleting /\ Noticed => Noticed'
    <3>1. /\ stored'.deleting = stored.deleting /\ (stored.deleting => stored'.fins \subseteq stored.fins)
          /\ kube'.copy # Gone => kube'.copy.deleting = stored.deleting
      BY <2>2, PatchEffect
    <3> QED  BY <2>u, <3>1, <1>g DEF Noticed, Outdated
  <2> QED  BY <1>1, <2>1, <2>2, KubeShape
<1>2. CASE CloudNext
  <2>u. UNCHANGED <<cached, kube>>  BY <1>2, CloudShape
  <2>1. CASE stored' = stored /\ cloud'.copy \in {cloud.copy, Gone, cached, stored}
    BY <2>u, <2>1, <1>g DEF Noticed, Outdated
  <2>2. ASSUME NEW new \in ClusterObject, Patch(cached, new, cloud'.copy)
        PROVE  /\ stored'.deleting = stored.deleting
               /\ stored.deleting => stored'.fins \subseteq stored.fins
               /\ stored.deleting /\ Noticed => Noticed'
    <3>1. /\ stored'.deleting = stored.deleting /\ (stored.deleting => stored'.fins \subseteq stored.fins)
          /\ cloud'.copy # Gone => cloud'.copy.deleting = stored.deleting
      BY <2>2, PatchEffect
    <3> QED  BY <2>u, <3>1, <1>g DEF Noticed, Outdated
  <2> QED  BY <1>2, <2>1, <2>2, CloudShape
<1>3. CASE Delete \/ Sync \/ User \/ Vanish \/ BalancerGone \/ TwoHoursPass \/ Fault
  <2>1. KubeIdle.copy = Gone /\ CloudIdle.copy = Gone  BY DEF KubeIdle, CloudIdle
  <2>2. kube'.copy \in {kube.copy, Gone} /\ cloud'.copy \in {cloud.copy, Gone} /\ cached' \in {cached, stored}
    BY <1>3, <2>1, OtherShape
  <2>3. stored.deleting /\ Noticed => Noticed'  BY <2>2, <1>g DEF Noticed, Outdated
  <2> QED  BY <1>3, <2>3, OtherShape
<1> QED  BY <1>1, <1>2, <1>3 DEF Next

\* Every step keeps what is recorded in step with the finalizers.
LEMMA RecordKeeps ==
  ASSUME LifecycleConstants, IInv, RecordOK, Next
  PROVE  RecordOK'
<1>g. ~Gone.exists /\ Gone.ids = {} /\ Gone.fins = {}  BY DEF Gone
<1>0. StoredOK /\ TypeOK  BY DEF IInv
<1>p. provider' = provider  BY KubeShape, CloudShape, OtherShape DEF Next
<1>i. InSpec' = InSpec  BY <1>p DEF InSpec
<1>s. /\ stored.deleting => stored'.deleting /\ stored'.fins \subseteq stored.fins
      /\ Current(cached) /\ Current(cloud.copy)
  BY Irrevocable DEF RecordOK, IInv, StoredOK
<1>d. \A c \in {stored, cached, kube.copy, cloud.copy, Gone} :
        c.fins \cap InSpec \subseteq c.ids /\ (stored.exists => c.ids \subseteq stored.ids)
  BY <1>g DEF RecordOK, Documented, Known
<1>1. CASE KubeNext
  <2>u. UNCHANGED <<provider, cached, cloud>>  BY <1>1, KubeShape
  <2>a. kube'.at = "add" => kube'.arg \in {"etcd", "nodes", "constraints"}  BY <1>1, KubeShape
  <2>c. Current(cloud.copy)'  BY <2>u, <1>s DEF Current
  <2>1. CASE stored' = stored /\ kube'.copy \in {kube.copy, Gone, cached, stored}
    <3>1. \A c \in {stored', cached', kube'.copy, cloud'.copy} :
            c.fins \cap InSpec \subseteq c.ids /\ (stored'.exists => c.ids \subseteq stored'.ids)
      BY <2>u, <2>1, <1>d
    <3> QED  BY <2>u, <2>a, <2>c, <3>1, <1>i DEF RecordOK, Documented, Known
  <2>2. ASSUME NEW new \in ClusterObject, Patch(kube.copy, new, kube'.copy)  PROVE RecordOK'
    <3>1. /\ stored.exists /\ Documented(stored') /\ Documented(kube'.copy)
          /\ stored'.exists => stored.ids \subseteq stored'.ids /\ kube'.copy.ids \subseteq stored'.ids
      BY <2>2, PatchEffect
    <3>2. \A c \in {stored', cached', kube'.copy, cloud'.copy} :
            c.fins \cap InSpec \subseteq c.ids /\ (stored'.exists => c.ids \subseteq stored'.ids)
      BY <2>u, <3>1, <1>d DEF Documented
    <3> QED  BY <2>u, <2>a, <2>c, <3>2, <1>i DEF RecordOK, Documented, Known
  <2> QED  BY <1>1, <2>1, <2>2, KubeShape
<1>2. CASE CloudNext
  <2>u. UNCHANGED <<provider, cached, kube>> /\ CloudCopyOK'  BY <1>2, CloudShape
  <2>1. CASE stored' = stored /\ cloud'.copy \in {cloud.copy, Gone, cached, stored}
    <3>1. \A c \in {stored', cached', kube'.copy, cloud'.copy} :
            c.fins \cap InSpec \subseteq c.ids /\ (stored'.exists => c.ids \subseteq stored'.ids)
      BY <2>u, <2>1, <1>d
    <3>2. Current(cloud.copy)'  BY <2>1, <1>s, <1>g DEF Current
    <3> QED  BY <2>u, <3>1, <3>2, <1>i DEF RecordOK, Documented, Known, CloudCopyOK
  <2>2. ASSUME NEW new \in ClusterObject, Patch(cached, new, cloud'.copy)  PROVE RecordOK'
    <3>1. /\ stored.exists /\ Documented(stored') /\ Documented(cloud'.copy)
          /\ stored'.exists => stored.ids \subseteq stored'.ids /\ cloud'.copy.ids \subseteq stored'.ids
          /\ stored'.deleting = stored.deleting
          /\ cloud'.copy # Gone => cloud'.copy.deleting = stored.deleting /\ cloud'.copy.fins = stored'.fins
      BY <2>2, PatchEffect
    <3>2. \A c \in {stored', cached', kube'.copy, cloud'.copy} :
            c.fins \cap InSpec \subseteq c.ids /\ (stored'.exists => c.ids \subseteq stored'.ids)
      BY <2>u, <3>1, <1>d DEF Documented
    <3>3. Current(cloud.copy)'  BY <3>1, <1>g DEF Current
    <3> QED  BY <2>u, <3>2, <3>3, <1>i DEF RecordOK, Documented, Known, CloudCopyOK
  <2> QED  BY <1>2, <2>1, <2>2, CloudShape
<1>3. CASE Delete \/ Sync \/ User \/ Vanish \/ BalancerGone \/ TwoHoursPass \/ Fault
  <2>1. /\ KubeIdle.copy = Gone /\ CloudIdle.copy = Gone /\ KubeIdle.at = "idle" /\ CloudIdle.at = "idle"
    BY DEF KubeIdle, CloudIdle
  <2>2. /\ kube' \in {kube, KubeIdle} /\ cloud' \in {cloud, CloudIdle} /\ cached' \in {cached, stored}
        /\ stored' = stored \/ (/\ stored.exists /\ stored'.ids = stored.ids
                                /\ stored'.fins \subseteq stored.fins \cup InClusterFinalizers)
    <3>1. ~stored.deleting => stored.exists  BY <1>0, AliveFacts
    <3> QED  BY <1>3, <3>1, OtherShape
  <2>3. InSpec \cap InClusterFinalizers = {}
    BY <1>0, SpecResources DEF CloudResources, InClusterFinalizers
  <2>4. \A c \in {stored', cached', kube'.copy, cloud'.copy} :
          c.fins \cap InSpec \subseteq c.ids /\ (stored'.exists => c.ids \subseteq stored'.ids)
    BY <2>1, <2>2, <2>3, <1>d
  <2>5. Current(cloud.copy)'  BY <2>1, <2>2, <1>s, <1>g DEF Current
  <2>6. kube'.at = "add" => kube'.arg \in {"etcd", "nodes", "constraints"}  BY <2>1, <2>2 DEF RecordOK
  <2>7. CloudCopyOK'  BY <2>1, <2>2, <1>p DEF RecordOK, CloudCopyOK
  <2> QED  BY <2>4, <2>5, <2>6, <2>7, <1>i DEF RecordOK, Documented, Known, CloudCopyOK
<1> QED  BY <1>1, <1>2, <1>3 DEF Next

----------------------------------------------------------------------------
(* The steps of the deletion, as the abstract specification sees them *)

OwesForm ==
  /\ Owes["lb"] = IF services = {} THEN "absent" ELSE "present"
  /\ Owes["pv"] = world["volumes"] /\ Owes["etcd"] = world["configs"]
  /\ Owes["nodes"] = State(Layers) /\ Owes["credentials"] = world["secret"]
  /\ \A f \in {"constraints"} \cup CloudResources : Owes[f] = world[f]

\* The things that the finalizers stand for, one by one.
LEMMA OwesFacts == OwesForm /\ OwesForm'
<1>1. {"lb", "pv", "etcd", "nodes", "credentials", "constraints"} \cup CloudResources = Finalizers
  BY DEF Finalizers
<1>2. {"lb", "pv", "etcd", "nodes", "credentials"} \cap ({"constraints"} \cup CloudResources) = {}
  BY DEF CloudResources
<1>3. OwesForm  BY <1>1, <1>2 DEF OwesForm, Owes
<1>4. OwesForm'  BY <1>1, <1>2 DEF OwesForm, Owes
<1> QED  BY <1>3, <1>4

\* The order of the removals, one by one.
LEMMA BeforeFacts ==
  /\ \A f \in {"lb", "pv", "constraints"} : MustGoBefore[f] = {}
  /\ \A f \in {"etcd", "nodes"} : MustGoBefore[f] = InClusterFinalizers
  /\ \A f \in CloudResources : MustGoBefore[f] = InClusterFinalizers \cup {"nodes"}
  /\ MustGoBefore["credentials"] = Finalizers \ {"credentials"}
<1>1. {"lb", "pv", "etcd", "nodes", "credentials", "constraints"} \cup CloudResources = Finalizers
  BY DEF Finalizers
<1>2. {"lb", "pv", "etcd", "nodes", "credentials", "constraints"} \cap CloudResources = {}
  BY DEF CloudResources
<1> QED  BY <1>1, <1>2 DEF MustGoBefore

\* Machines, machine sets and machine deployments count as one thing.
StateForm ==
  \/ State(Layers) = "absent" /\ \A l \in Layers : world[l] = "absent"
  \/ State(Layers) = "present" /\ \A l \in Layers : world[l] = "present"
  \/ /\ State(Layers) = "deleting"
     /\ \E l \in Layers : world[l] # "absent"
     /\ \E l \in Layers : world[l] # "present"

\* Their state is absent or present only when it is so for all of them.
LEMMA StateFacts == StateForm /\ StateForm'
<1>1. StateForm  BY DEF StateForm, State, Layers
<1>2. StateForm'  BY DEF StateForm, State, Layers
<1> QED  BY <1>1, <1>2

\* A step that turns some things, or that writes off some debts
Turning ==
  /\ stored'.fins = stored.fins
  /\ \A d \in Finalizers : Teardown!MayTurn(d, Owes[d], Owes'[d])
WritingOff ==
  /\ UNCHANGED <<world, services>>
  /\ \A d \in stored.fins \ stored'.fins :
       Teardown!MayWriteOff(d) /\ MustGoBefore[d] \cap stored'.fins = {} /\ (d = "pv" => webhook)

\* A step that changes no thing.
LEMMA StillTurns ==
  ASSUME stored'.fins = stored.fins, UNCHANGED <<world, services>>
  PROVE  Turning
<1>1. Owes' = Owes  BY DEF Owes, State
<1> QED  BY <1>1 DEF Turning, Teardown!MayTurn

\* A step that changes one thing t, which only the debt f stands for.
LEMMA OneTurns ==
  ASSUME stored'.fins = stored.fins, services' = services,
         NEW f \in {"pv", "etcd", "credentials", "constraints"},
         NEW t, <<f, t>> \in {<<"pv", "volumes">>, <<"etcd", "configs">>, <<"credentials", "secret">>,
                              <<"constraints", "constraints">>},
         \A u \in Things \ {t} : world'[u] = world[u],
         Teardown!MayTurn(f, world[t], world'[t])
  PROVE  Turning
<1>1. /\ CloudResources \cup Layers \cup {"volumes", "configs", "secret", "constraints"} \subseteq Things
      /\ (CloudResources \cup Layers) \cap {"volumes", "configs", "secret", "constraints"} = {}
      /\ Finalizers = {"lb", "pv", "etcd", "nodes", "credentials", "constraints"} \cup CloudResources
  BY DEF Things, CloudResources, Layers, Lingering, Finalizers
<1>2. t \notin CloudResources \cup Layers  BY <1>1
<1>3. State(Layers)' = State(Layers)  BY <1>1, <1>2 DEF State
<1>4. Owes'[f] = world'[t] /\ Owes[f] = world[t]  BY OwesFacts DEF OwesForm
<1>5. \A d \in Finalizers \ {f} : Owes'[d] = Owes[d]
  <2> SUFFICES ASSUME NEW d \in Finalizers \ {f} PROVE Owes'[d] = Owes[d]  OBVIOUS
  <2>1. CASE d \in {"lb", "nodes"}  BY <2>1, <1>3, OwesFacts DEF OwesForm
  <2>2. CASE d \in {"pv", "etcd", "credentials"}  BY <2>2, <1>1, OwesFacts DEF OwesForm
  <2>3. CASE d \in {"constraints"} \cup CloudResources  BY <2>3, <1>1, <1>2, OwesFacts DEF OwesForm
  <2> QED  BY <1>1, <2>1, <2>2, <2>3
<1> QED  BY <1>4, <1>5 DEF Turning, Teardown!MayTurn

\* A step that changes one layer of the nodes, which together are one debt.
LEMMA NodesTurn ==
  ASSUME stored'.fins = stored.fins, services' = services, NEW l \in Layers,
         \A u \in Things \ {l} : world'[u] = world[u],
         Teardown!MayTurn("nodes", State(Layers), State(Layers)')
  PROVE  Turning
<1>1. /\ Finalizers = {"lb", "pv", "etcd", "nodes", "credentials", "constraints"} \cup CloudResources
      /\ CloudResources \cup {"volumes", "configs", "secret", "constraints"} \subseteq Things \ Layers
  BY DEF Finalizers, Things, CloudResources, Layers, Lingering
<1>2. Owes["nodes"] = State(Layers) /\ Owes'["nodes"] = State(Layers)'  BY OwesFacts DEF OwesForm
<1>3. \A d \in Finalizers \ {"nodes"} : Owes'[d] = Owes[d]
  <2> SUFFICES ASSUME NEW d \in Finalizers \ {"nodes"} PROVE Owes'[d] = Owes[d]  OBVIOUS
  <2>1. CASE d = "lb"  BY <2>1, OwesFacts DEF OwesForm
  <2>2. CASE d \in {"pv", "etcd", "credentials"}  BY <2>2, <1>1, OwesFacts DEF OwesForm
  <2>3. CASE d \in {"constraints"} \cup CloudResources  BY <2>3, <1>1, OwesFacts DEF OwesForm
  <2> QED  BY <1>1, <2>1, <2>2, <2>3
<1>4. ASSUME NEW d \in Finalizers PROVE Teardown!MayTurn(d, Owes[d], Owes'[d])
  <2>1. CASE d = "nodes"  BY <2>1, <1>2
  <2>2. CASE d # "nodes"  BY <2>2, <1>3 DEF Teardown!MayTurn
  <2> QED  BY <2>1, <2>2
<1> QED  BY <1>4 DEF Turning

\* A patch of the cleanup that removes the finalizers X writes them off.
LEMMA ReleaseWritesOff ==
  ASSUME LifecycleConstants, IInv, kube.at \in Cleaning, NEW X, NEW new \in ClusterObject,
         new.fins = kube.copy.fins \ X, NEW at \in KubeSteps, KubePatches(new, at),
         UNCHANGED <<world, services>>,
         \A d \in stored.fins \cap X :
           Teardown!MayWriteOff(d) /\ MustGoBefore[d] \cap (stored.fins \ X) = {} /\ (d = "pv" => webhook)
  PROVE  Turning \/ WritingOff
<1>1. stored' = stored \/ stored'.fins = stored.fins \ X  BY ReleaseEffect DEF Released
<1>2. CASE stored' = stored  BY <1>2, StillTurns
<1>3. CASE stored'.fins = stored.fins \ X  BY <1>3 DEF WritingOff
<1> QED  BY <1>1, <1>2, <1>3

\* The cluster controller removes things and finalizers in order.
LEMMA KubeOrderly ==
  ASSUME LifecycleConstants, IInv, RecordOK, KubeNext, stored.deleting, Noticed
  PROVE  Turning \/ WritingOff
<1>0. /\ kube \in KubeType /\ kube.copy \in ClusterObject /\ world \in WorldType /\ KubeOK /\ WorldOK
      /\ stored \in ClusterObject /\ DOMAIN world = Things /\ stored.fins \subseteq Finalizers
  BY DEF IInv, TypeOK, KubeType, WorldType, ClusterObject
<1>t. /\ {"constraints", "volumes", "configs", "secret"} \cup Layers \subseteq Things
      /\ {"constraints", "volumes", "configs", "secret"} \cap Layers = {}
  BY DEF Things, Layers, Lingering
<1>s. {"idle", "add", "constraints", "unconstrain", "services", "note", "wait", "block", "volumes",
       "check", "release", "configs", "unconfig", "nodes", "unnode", "secret", "unsecret"}
        \subseteq KubeSteps
  BY DEF KubeSteps
<1>a. \A c : {AfterNodes(c), AfterConfigs(c), AfterInCluster(c), AfterServices(c), AfterConstraints(c)}
               \subseteq KubeSteps
  BY AfterTypes
<1>w. \A X : Without(kube.copy, X) \in ClusterObject /\ Without(kube.copy, X).fins = kube.copy.fins \ X
  BY <1>0, WithoutFacts
<1>c. kube.at \in Cleaning => stored.fins \subseteq kube.copy.fins  BY CleaningDeletes
<1>1. CASE KubeStart \/ AwaitNote \/ BlockVolumes
  BY <1>1, StillTurns DEF KubeStart, AwaitNote, BlockVolumes, clusterVars, lbVars
<1>2. CASE KubeAdds
  <2> DEFINE new == [kube.copy EXCEPT !.fins = @ \cup {kube.arg}]
  <2>1. kube.copy.exists /\ kube.arg \in Finalizers \ kube.copy.fins
    BY <1>2, <1>0 DEF KubeAdds, KubeOK, Fits
  <2>2. stored.fins \subseteq kube.copy.fins  BY <2>1 DEF Noticed, Outdated, IInv, StoredOK, Current
  <2>3. new \in ClusterObject /\ new.fins = kube.copy.fins \cup {kube.arg}
    BY <2>1, <1>0 DEF ClusterObject
  <2>4. UNCHANGED <<world, services>> /\ (Accepted(kube.copy, new) \/ stored' = stored)
    BY <1>2 DEF KubeAdds, lbVars
  <2> HIDE DEF new
  <2>5. Merged(kube.copy, new).fins = kube.copy.fins \cup {kube.arg}
    <3>1. stored \in ClusterObject /\ kube.copy \in ClusterObject /\ new \in ClusterObject
      BY <1>0, <2>3
    <3>2. Merged(kube.copy, new).fins = IF new.fins = kube.copy.fins THEN stored.fins ELSE new.fins
      BY ONLY <3>1, MergeFacts
    <3> QED  BY <2>1, <2>3, <3>2
  <2>6. ~Accepted(kube.copy, new)  BY <2>1, <2>2, <2>5 DEF Accepted
  <2> QED  BY <2>4, <2>6, StillTurns
<1>3. CASE CleanupConstraints
  <2>1. /\ stored' = stored /\ services' = services
        /\ \A u \in Things \ {"constraints"} : world'[u] = world[u]
        /\ world'["constraints"] = IF world["constraints"] = "absent" THEN "absent" ELSE "deleting"
    BY <1>3, <1>0, <1>t DEF CleanupConstraints, clusterVars, lbVars
  <2>2. world["constraints"] \in {"absent", "present", "deleting"}
    BY <1>0, <1>t DEF WorldType, WorldOK
  <2>3. Teardown!MayTurn("constraints", world["constraints"], world'["constraints"])
    BY <2>1, <2>2, BeforeFacts DEF Teardown!MayTurn
  <2> QED  BY <2>1, <2>3, OneTurns
<1>4. CASE ReleaseConstraints
  <2> DEFINE new == Without(kube.copy, {"constraints"})
  <2>1. /\ kube.at = "unconstrain" /\ kube.at \in Cleaning /\ UNCHANGED <<world, services>>
        /\ KubePatches(new, AfterConstraints(Merged(kube.copy, new)))
    BY <1>4 DEF ReleaseConstraints, Cleaning, lbVars
  <2>2. world["constraints"] \in {"absent", "deleting"}
    <3>1. world["constraints"] # "present"  BY <2>1, <1>0 DEF KubeOK, Fits
    <3> QED  BY <3>1, <1>0, <1>t DEF WorldType, WorldOK
  <2>3. Teardown!MayWriteOff("constraints") /\ MustGoBefore["constraints"] = {}
    BY <2>2, OwesFacts, BeforeFacts DEF OwesForm, Teardown!MayWriteOff
  <2> HIDE DEF new
  <2>4. new \in ClusterObject /\ new.fins = kube.copy.fins \ {"constraints"}  BY <1>w DEF new
  <2>5. AfterConstraints(Merged(kube.copy, new)) \in KubeSteps  BY <1>a
  <2>6. \A d \in stored.fins \cap {"constraints"} :
          Teardown!MayWriteOff(d) /\ MustGoBefore[d] \cap (stored.fins \ {"constraints"}) = {} /\ (d = "pv" => webhook)
    BY <2>3
  <2> QED  BY <2>1, <2>4, <2>5, <2>6, ReleaseWritesOff
<1>5. CASE CleanupLBs
  <2>1. world' = world /\ stored' = stored /\ services' \subseteq services
    BY <1>5 DEF CleanupLBs, clusterVars
  <2>2. \A d \in Finalizers \ {"lb"} : Owes'[d] = Owes[d]  BY <2>1 DEF Owes, State
  <2>3. Owes["lb"] = "present" \/ Owes'["lb"] = Owes["lb"]
    BY <2>1, OwesFacts DEF OwesForm
  <2>4. Owes'["lb"] \in {"absent", "present"}  BY OwesFacts DEF OwesForm
  <2>5. Teardown!MayTurn("lb", Owes["lb"], Owes'["lb"])
    BY <2>3, <2>4, BeforeFacts DEF Teardown!MayTurn
  <2> QED  BY <2>1, <2>2, <2>5 DEF Turning, Teardown!MayTurn
<1>6. CASE NoteLB
  <2> DEFINE new == [kube.copy EXCEPT !.lbs = @ \cup {kube.arg}]
  <2>1. kube.at \in Cleaning /\ UNCHANGED <<world, services>> /\ KubePatches(new, "wait")
    BY <1>6 DEF NoteLB, Cleaning, lbVars
  <2>2. new \in ClusterObject /\ new.fins = kube.copy.fins \ {}
    BY <1>6, <1>0 DEF NoteLB, KubeOK, ClusterObject
  <2> HIDE DEF new
  <2>3. stored'.fins = stored.fins  BY <2>1, <2>2, <1>s, ReleaseEffect DEF Released
  <2> QED  BY <2>1, <2>3, StillTurns
<1>7. CASE CleanupVolumes
  <2>1. stored' = stored /\ services' = services  BY <1>7 DEF CleanupVolumes, clusterVars, lbVars
  <2>2. CASE world' = world  BY <2>1, <2>2, StillTurns
  <2>3. CASE world' = [world EXCEPT !["volumes"] = "deleting"] /\ world["volumes"] # "absent"
    <3>1. world'["volumes"] = "deleting" /\ \A u \in Things \ {"volumes"} : world'[u] = world[u]
      BY <2>3, <1>0, <1>t
    <3>2. world["volumes"] \in {"present", "deleting"}  BY <2>3, <1>0, <1>t DEF WorldType, WorldOK
    <3>3. Teardown!MayTurn("pv", world["volumes"], world'["volumes"])
      BY <3>1, <3>2, BeforeFacts DEF Teardown!MayTurn
    <3> QED  BY <2>1, <3>1, <3>3, OneTurns
  <2> QED  BY <1>7, <2>2, <2>3 DEF CleanupVolumes
<1>8. CASE CheckLBs
  <2> DEFINE new == [kube.copy EXCEPT !.lbs = kube.copy.lbs \ events]
             at == IF kube.copy.lbs \ events # {} THEN "release" ELSE "idle"
  <2>1. kube.at \in Cleaning /\ UNCHANGED <<world, services>> /\ (stored' = stored \/ KubePatches(new, at))
    BY <1>8 DEF CheckLBs, Cleaning, lbVars
  <2>2. new \in ClusterObject /\ new.fins = kube.copy.fins \ {}  BY <1>0 DEF ClusterObject
  <2>3. at \in KubeSteps  BY <1>s
  <2> HIDE DEF new, at
  <2>4. stored'.fins = stored.fins  BY <2>1, <2>2, <2>3, ReleaseEffect DEF Released
  <2> QED  BY <2>1, <2>4, StillTurns
<1>9. CASE ReleaseInCluster
  <2> DEFINE new == Without(kube.copy, InClusterFinalizers)
  <2>1. /\ kube.at = "release" /\ kube.at \in Cleaning /\ UNCHANGED <<world, services>>
        /\ KubePatches(new, AfterInCluster(Merged(kube.copy, new)))
    BY <1>9 DEF ReleaseInCluster, Cleaning, lbVars
  <2>2. /\ "lb" \in stored.fins => services = {}
        /\ "pv" \in stored.fins => webhook /\ world["volumes"] = "absent"
    BY <2>1, <1>0, <1>c DEF KubeOK, Fits
  <2>3. \A d \in stored.fins \cap InClusterFinalizers : Owes[d] = "absent" /\ MustGoBefore[d] = {}
    BY <2>2, OwesFacts, BeforeFacts DEF OwesForm, InClusterFinalizers
  <2> HIDE DEF new
  <2>4. new \in ClusterObject /\ new.fins = kube.copy.fins \ InClusterFinalizers  BY <1>w DEF new
  <2>5. AfterInCluster(Merged(kube.copy, new)) \in KubeSteps  BY <1>a, <1>s
  <2>6. \A d \in stored.fins \cap InClusterFinalizers :
          Teardown!MayWriteOff(d) /\ MustGoBefore[d] \cap (stored.fins \ InClusterFinalizers) = {} /\ (d = "pv" => webhook)
    BY <2>2, <2>3 DEF Teardown!MayWriteOff
  <2> QED  BY <2>1, <2>4, <2>5, <2>6, ReleaseWritesOff
<1>10. CASE CleanupConfigs
  <2>1. /\ stored' = stored /\ services' = services /\ kube.at = "configs" /\ kube.at \in Cleaning
    BY <1>10 DEF CleanupConfigs, clusterVars, lbVars, Cleaning
  <2>2. CASE world' = world  BY <2>1, <2>2, StillTurns
  <2>3. CASE world' = [world EXCEPT !["configs"] = "deleting"] /\ world["configs"] # "absent"
    <3>1. world'["configs"] = "deleting" /\ \A u \in Things \ {"configs"} : world'[u] = world[u]
      BY <2>3, <1>0, <1>t
    <3>2. world["configs"] \in {"present", "deleting"}  BY <2>3, <1>0, <1>t DEF WorldType, WorldOK
    <3>3. stored.fins \cap InClusterFinalizers = {}
      BY <2>1, <1>0, <1>c DEF KubeOK, Fits, Infrastructure
    <3>4. Teardown!MayTurn("etcd", world["configs"], world'["configs"])
      BY <3>1, <3>2, <3>3, BeforeFacts DEF Teardown!MayTurn
    <3> QED  BY <2>1, <3>1, <3>4, OneTurns
  <2> QED  BY <1>10, <2>2, <2>3 DEF CleanupConfigs
<1>11. CASE ReleaseConfigs
  <2> DEFINE new == Without(kube.copy, {"etcd"})
  <2>1. /\ kube.at = "unconfig" /\ kube.at \in Cleaning /\ UNCHANGED <<world, services>>
        /\ KubePatches(new, AfterConfigs(Merged(kube.copy, new)))
    BY <1>11 DEF ReleaseConfigs, Cleaning, lbVars
  <2>2. world["configs"] = "absent" /\ stored.fins \cap InClusterFinalizers = {}
    BY <2>1, <1>0, <1>c DEF KubeOK, Fits, Infrastructure
  <2>3. Owes["etcd"] = "absent" /\ MustGoBefore["etcd"] = InClusterFinalizers
    BY <2>2, OwesFacts, BeforeFacts DEF OwesForm
  <2> HIDE DEF new
  <2>4. new \in ClusterObject /\ new.fins = kube.copy.fins \ {"etcd"}  BY <1>w DEF new
  <2>5. AfterConfigs(Merged(kube.copy, new)) \in KubeSteps  BY <1>a, <1>s
  <2>6. \A d \in stored.fins \cap {"etcd"} :
          Teardown!MayWriteOff(d) /\ MustGoBefore[d] \cap (stored.fins \ {"etcd"}) = {} /\ (d = "pv" => webhook)
    BY <2>2, <2>3 DEF Teardown!MayWriteOff
  <2> QED  BY <2>1, <2>4, <2>5, <2>6, ReleaseWritesOff
<1>12. CASE CleanupNodes
  <2>1. /\ stored' = stored /\ services' = services /\ kube.at = "nodes" /\ kube.at \in Cleaning
    BY <1>12 DEF CleanupNodes, clusterVars, lbVars, Cleaning
  <2>2. CASE world' = world  BY <2>1, <2>2, StillTurns
  <2>3. ASSUME NEW l \in Layers, world[l] # "absent", world' = [world EXCEPT ![l] = "deleting"]
        PROVE  Turning
    <3>1. world'[l] = "deleting" /\ \A u \in Things \ {l} : world'[u] = world[u]
      BY <2>3, <1>0, <1>t
    <3>2. stored.fins \cap InClusterFinalizers = {}
      BY <2>1, <1>0, <1>c DEF KubeOK, Fits, Infrastructure
    <3>3. State(Layers)' = "deleting" /\ State(Layers) \in {"present", "deleting"}
      BY <2>3, <3>1, StateFacts DEF StateForm
    <3>4. MustGoBefore["nodes"] \cap stored.fins = {}
      BY <3>2, BeforeFacts
    <3>5. Teardown!MayTurn("nodes", State(Layers), State(Layers)')
      BY <3>3, <3>4 DEF Teardown!MayTurn
    <3> QED  BY <2>1, <3>1, <3>5, NodesTurn
  <2>4. \/ world' = world
        \/ \E l \in Layers : world[l] # "absent" /\ world' = [world EXCEPT ![l] = "deleting"]
    BY <1>12 DEF CleanupNodes, NodeLayers, Layers
  <2> QED  BY <2>2, <2>3, <2>4
<1>13. CASE ReleaseNodes
  <2> DEFINE new == Without(kube.copy, {"nodes"})
  <2>1. /\ kube.at = "unnode" /\ kube.at \in Cleaning /\ UNCHANGED <<world, services>>
        /\ KubePatches(new, AfterNodes(Merged(kube.copy, new)))
    BY <1>13 DEF ReleaseNodes, Cleaning, lbVars
  <2>2. (\A l \in Layers : world[l] = "absent") /\ stored.fins \cap InClusterFinalizers = {}
    BY <2>1, <1>0, <1>c DEF KubeOK, Fits, Infrastructure
  <2>3. Owes["nodes"] = "absent" /\ MustGoBefore["nodes"] = InClusterFinalizers
    BY <2>2, OwesFacts, BeforeFacts, StateFacts DEF OwesForm, StateForm, Layers
  <2> HIDE DEF new
  <2>4. new \in ClusterObject /\ new.fins = kube.copy.fins \ {"nodes"}  BY <1>w DEF new
  <2>5. AfterNodes(Merged(kube.copy, new)) \in KubeSteps  BY <1>a, <1>s
  <2>6. \A d \in stored.fins \cap {"nodes"} :
          Teardown!MayWriteOff(d) /\ MustGoBefore[d] \cap (stored.fins \ {"nodes"}) = {} /\ (d = "pv" => webhook)
    BY <2>2, <2>3 DEF Teardown!MayWriteOff
  <2> QED  BY <2>1, <2>4, <2>5, <2>6, ReleaseWritesOff
<1>14. CASE DeleteSecret
  <2>1. /\ stored' = stored /\ services' = services /\ kube.at = "secret" /\ kube.at \in Cleaning
        /\ world' = [world EXCEPT !["secret"] = "absent"]
    BY <1>14 DEF DeleteSecret, clusterVars, lbVars, Cleaning
  <2>2. world'["secret"] = "absent" /\ \A u \in Things \ {"secret"} : world'[u] = world[u]
    BY <2>1, <1>0, <1>t
  <2>3. world["secret"] \in {"absent", "present", "deleting"}  BY <1>0, <1>t DEF WorldType, WorldOK
  <2>4. stored.fins \subseteq {"credentials"}  BY <2>1, <1>0, <1>c DEF KubeOK, Fits
  <2>5. Teardown!MayTurn("credentials", world["secret"], world'["secret"])
    BY <2>2, <2>3, <2>4, BeforeFacts DEF Teardown!MayTurn
  <2> QED  BY <2>1, <2>2, <2>5, OneTurns
<1>15. CASE ReleaseSecret
  <2> DEFINE new == Without(kube.copy, {"credentials"})
  <2>1. /\ kube.at = "unsecret" /\ kube.at \in Cleaning /\ UNCHANGED <<world, services>>
        /\ KubePatches(new, "idle")
    BY <1>15 DEF ReleaseSecret, Cleaning, lbVars
  <2>2. world["secret"] = "absent" /\ stored.fins \subseteq {"credentials"}
    BY <2>1, <1>0, <1>c DEF KubeOK, Fits
  <2>3. Owes["credentials"] = "absent"  BY <2>2, OwesFacts DEF OwesForm
  <2> HIDE DEF new
  <2>4. new \in ClusterObject /\ new.fins = kube.copy.fins \ {"credentials"}  BY <1>w DEF new
  <2>5. "idle" \in KubeSteps  BY <1>a, <1>s
  <2>6. \A d \in stored.fins \cap {"credentials"} :
          Teardown!MayWriteOff(d) /\ MustGoBefore[d] \cap (stored.fins \ {"credentials"}) = {} /\ (d = "pv" => webhook)
    BY <2>2, <2>3 DEF Teardown!MayWriteOff
  <2> QED  BY <2>1, <2>4, <2>5, <2>6, ReleaseWritesOff
<1> QED
  BY <1>1, <1>2, <1>3, <1>4, <1>5, <1>6, <1>7, <1>8, <1>9, <1>10, <1>11, <1>12, <1>13, <1>14, <1>15
     DEF KubeNext

\* The cloud controller removes resources and their finalizers in order.
LEMMA CloudOrderly ==
  ASSUME LifecycleConstants, "openstack" \notin Providers, IInv, RecordOK, CloudNext,
         stored.deleting, Noticed
  PROVE  Turning \/ WritingOff
<1>0. /\ stored \in ClusterObject /\ cached \in ClusterObject /\ cloud \in CloudType
      /\ world \in WorldType /\ DOMAIN world = Things /\ TypeOK /\ CloudOK /\ WorldOK
      /\ provider \in ProviderNames /\ provider # "openstack"
  BY DEF IInv, TypeOK, LifecycleConstants, CloudType, WorldType
<1>t. /\ CloudResources \subseteq Things
      /\ CloudResources \cap ({"constraints", "configs", "secret", "volumes"} \cup Layers) = {}
      /\ {"constraints", "configs", "secret", "volumes"} \cup Layers \subseteq Things
      /\ Finalizers = {"lb", "pv", "etcd", "nodes", "credentials", "constraints"} \cup CloudResources
  BY DEF Things, CloudResources, Layers, Lingering, Finalizers
\* A step that changes resources only
<1>r. ASSUME stored' = stored, services' = services,
             \A t \in Things \ CloudResources : world'[t] = world[t],
             \A r \in CloudResources : Teardown!MayTurn(r, world[r], world'[r])
      PROVE  Turning
  <2>1. State(Layers)' = State(Layers)  BY <1>r, <1>t DEF State
  <2>2. \A d \in Finalizers \ CloudResources : Owes'[d] = Owes[d]
    BY <2>1, <1>r, <1>t, OwesFacts DEF OwesForm
  <2>3. \A r \in CloudResources : Owes'[r] = world'[r] /\ Owes[r] = world[r]
    BY OwesFacts DEF OwesForm
  <2> QED  BY <1>r, <2>2, <2>3 DEF Turning, Teardown!MayTurn
<1>1. CASE CloudStart
  BY <1>1, StillTurns DEF CloudStart, clusterVars, lbVars
<1>2. CASE CloudCreates
  <2> DEFINE r == InitializeCloudProvider(provider)[cloud.n].res
  <2>1. /\ stored' = stored /\ services' = services /\ cloud.at = "create"
        /\ world' = world \/ world' = Created(provider, r, world)
    BY <1>2 DEF CloudCreates, clusterVars, lbVars
  <2>2. CASE world' = world  BY <2>1, <2>2, StillTurns
  <2>3. CASE world' = Created(provider, r, world)
    <3>1. r \in CloudResources  BY <2>1, <1>0, TableEntries DEF CloudOK
    <3>2. r \notin stored.fins
      <4>1. cloud.copy.exists /\ r \notin cloud.copy.fins /\ Current(cloud.copy)
        BY <2>1 DEF RecordOK
      <4>2. stored.fins \subseteq cloud.copy.fins  BY <4>1 DEF Noticed, Outdated, Current
      <4> QED  BY <4>1, <4>2
    <3> HIDE DEF r
    <3>3. \A t \in Things \ {r} : world'[t] = world[t]  BY <2>3, <1>0 DEF Created
    <3>4. \A x \in CloudResources : Teardown!MayTurn(x, world[x], world'[x])
      BY <3>2, <3>3, <1>t DEF Teardown!MayTurn
    <3> QED  BY <2>1, <3>1, <3>3, <3>4, <1>r
  <2> QED  BY <2>1, <2>2, <2>3
<1>3. CASE CloudRecords
  <2> DEFINE step == InitializeCloudProvider(provider)[cloud.n]
             new == [cached EXCEPT !.fins = @ \cup {step.res},
                                   !.ids = @ \cup (IF step.by = "spec" THEN {step.res} ELSE {})]
             m == Merged(cached, new)
  <2>1. /\ cloud.at = "record" /\ UNCHANGED <<world, services>>
        /\ \/ stored' = stored
           \/ cached.exists /\ Accepted(cached, new) /\ stored' = Settled(m)
    BY <1>3 DEF CloudRecords, CloudUpdates, lbVars
  <2>2. step.res \in CloudResources  BY <2>1, <1>0, TableEntries DEF CloudOK
  <2>3. new \in ClusterObject /\ new.fins = cached.fins \cup {step.res}
    BY <2>2, <1>0 DEF ClusterObject, Finalizers
  <2> HIDE DEF new
  <2>4. m \in ClusterObject /\ m.fins = IF new.fins = cached.fins THEN stored.fins ELSE new.fins
    <3>1. stored \in ClusterObject /\ cached \in ClusterObject /\ new \in ClusterObject  BY <1>0, <2>3
    <3> QED  BY ONLY <3>1, MergeFacts
  <2>5. CASE cached.exists /\ Accepted(cached, new) /\ stored' = Settled(m)
    <3>1. m.fins \subseteq stored.fins  BY <2>5 DEF Accepted
    <3>2. stored.fins \subseteq cached.fins
      BY <2>5 DEF Noticed, Outdated, IInv, StoredOK, Current
    <3> HIDE DEF m
    <3>3. m.fins = stored.fins  BY <2>3, <2>4, <3>1, <3>2
    <3>4. stored'.fins = m.fins  BY <2>4, <2>5, SettledFacts
    <3> QED  BY <2>1, <3>3, <3>4, StillTurns
  <2> QED  BY <2>1, <2>5, StillTurns
<1>4. CASE CloudDeletes
  <2> DEFINE r == CleanUpCloudProvider(provider)[cloud.n]
  <2>1. /\ stored' = stored /\ services' = services /\ cloud.at = "delete"
        /\ world' = world \/ world' = Deleted(provider, r, world)
    BY <1>4 DEF CloudDeletes, clusterVars, lbVars
  <2>2. CASE world' = world  BY <2>1, <2>2, StillTurns
  <2>3. CASE world' = Deleted(provider, r, world)
    <3>1. r \in CloudResources  BY <2>1, <1>0, TableEntries DEF CloudOK
    <3>2. stored.fins \cap (InClusterFinalizers \cup {"nodes"}) = {}  BY <2>1, <1>0 DEF CloudOK
    <3> HIDE DEF r
    <3>3. /\ \A t \in Things : world[t] \in {"absent", "present", "deleting"}
      BY <1>0 DEF WorldType, WorldOK
    <3>4. /\ \A t \in Things \ CloudResources : world'[t] = world[t]
          /\ \A t \in CloudResources : world'[t] \in {world[t], "absent"}
      BY <2>3, <3>1, <3>3, <1>0, <1>t DEF Deleted
    <3>5. \A x \in CloudResources : Teardown!MayTurn(x, world[x], world'[x])
      BY <3>2, <3>3, <3>4, <1>t, BeforeFacts DEF Teardown!MayTurn
    <3> QED  BY <2>1, <3>4, <3>5, <1>r
  <2> QED  BY <2>1, <2>2, <2>3
<1>5. CASE CloudUnrecords
  <2> DEFINE r == CleanUpCloudProvider(provider)[cloud.n]
             new == Without(cached, {r})
             m == Merged(cached, new)
  <2>1. /\ cloud.at = "unrecord" /\ UNCHANGED <<world, services>>
        /\ \/ stored' = stored
           \/ cached.exists /\ Accepted(cached, new) /\ stored' = Settled(m)
    BY <1>5 DEF CloudUnrecords, CloudUpdates, lbVars
  <2>2. /\ r \in CloudResources /\ world[r] = "absent"
        /\ stored.fins \cap (InClusterFinalizers \cup {"nodes"}) = {}
    BY <2>1, <1>0, TableEntries DEF CloudOK
  <2>3. new \in ClusterObject /\ new.fins = cached.fins \ {r}  BY <1>0, WithoutFacts
  <2> HIDE DEF new, r
  <2>4. m \in ClusterObject /\ m.fins = IF new.fins = cached.fins THEN stored.fins ELSE new.fins
    <3>1. stored \in ClusterObject /\ cached \in ClusterObject /\ new \in ClusterObject  BY <1>0, <2>3
    <3> QED  BY ONLY <3>1, MergeFacts
  <2>5. CASE cached.exists /\ Accepted(cached, new) /\ stored' = Settled(m)
    <3>1. m.fins \subseteq stored.fins  BY <2>5 DEF Accepted
    <3>2. stored.fins \subseteq cached.fins
      BY <2>5 DEF Noticed, Outdated, IInv, StoredOK, Current
    <3> HIDE DEF m
    <3>3. m.fins = stored.fins \ {r}  BY <2>3, <2>4, <3>1, <3>2
    <3>4. stored'.fins = m.fins  BY <2>4, <2>5, SettledFacts
    <3>5. Owes[r] = "absent" /\ MustGoBefore[r] = InClusterFinalizers \cup {"nodes"}
      BY <2>2, OwesFacts, BeforeFacts DEF OwesForm
    <3>6. r # "pv"  BY <2>2 DEF CloudResources
    <3> QED  BY <2>1, <2>2, <3>3, <3>4, <3>5, <3>6 DEF WritingOff, Teardown!MayWriteOff
  <2> QED  BY <2>1, <2>5, StillTurns
<1> QED  BY <1>1, <1>2, <1>3, <1>4, <1>5 DEF CloudNext

\* So do all others: of the things that are owed only volumes can appear.
LEMMA OtherOrderly ==
  ASSUME LifecycleConstants, IInv, stored.deleting,
         Delete \/ Sync \/ User \/ Vanish \/ BalancerGone \/ TwoHoursPass \/ Fault
  PROVE  Turning
<1>0. /\ world \in WorldType /\ DOMAIN world = Things /\ stored' = stored
  BY OtherShape DEF IInv, TypeOK, WorldType
<1>t. /\ {"constraints", "volumes", "configs", "secret"} \cup Layers \subseteq Things
      /\ {"constraints", "volumes", "configs", "secret"} \cap Layers = {}
      /\ Lingering = {"constraints", "volumes", "configs"} \cup Layers
      /\ Finalizers = {"lb", "pv", "etcd", "nodes", "credentials", "constraints"} \cup CloudResources
      /\ CloudResources \cup {"volumes", "configs", "secret", "constraints"} \subseteq Things \ Layers
  BY DEF Things, Layers, Lingering, Finalizers, CloudResources
<1>1. CASE Delete \/ Sync \/ ApiserverUp \/ BalancerGone \/ TwoHoursPass \/ Fault
  <2>1. UNCHANGED <<world, services>>
    BY <1>1 DEF Delete, Sync, ApiserverUp, BalancerGone, TwoHoursPass, Fault, lbVars
  <2> QED  BY <2>1, <1>0, StillTurns
<1>2. CASE RequestDeletion \/ AddNodes \/ AddService \/ AddObject
  BY <1>2 DEF RequestDeletion, AddNodes, AddService, AddObject
<1>3. CASE AddVolume
  <2>1. /\ services' = services /\ world["volumes"] = "absent"
        /\ world' = [world EXCEPT !["volumes"] = "present"]
    BY <1>3 DEF AddVolume, lbVars
  <2>2. world'["volumes"] = "present" /\ \A u \in Things \ {"volumes"} : world'[u] = world[u]
    BY <2>1, <1>0, <1>t
  <2>3. Teardown!MayTurn("pv", world["volumes"], world'["volumes"])
    BY <2>1, <2>2 DEF Teardown!MayTurn
  <2> QED  BY <2>1, <2>2, <2>3, <1>0, OneTurns
<1>4. CASE Vanish
  <2>1. services' = services  BY <1>4 DEF Vanish, lbVars
  <2>2. PICK t \in Lingering : world[t] = "deleting" /\ world' = [world EXCEPT ![t] = "absent"]
    BY <1>4 DEF Vanish
  <2>3. world'[t] = "absent" /\ \A u \in Things \ {t} : world'[u] = world[u]  BY <2>2, <1>0, <1>t
  <2>4. \A f : Teardown!MayTurn(f, world[t], world'[t])  BY <2>2, <2>3 DEF Teardown!MayTurn
  <2>5. CASE t \in Layers
    <3>1. State(Layers) = "deleting" /\ State(Layers)' \in {"absent", "deleting"}
      BY <2>2, <2>3, <2>5, StateFacts DEF StateForm
    <3>2. Teardown!MayTurn("nodes", State(Layers), State(Layers)')
      BY <3>1 DEF Teardown!MayTurn
    <3> QED  BY <2>1, <2>3, <2>5, <3>2, <1>0, NodesTurn
  <2>6. CASE t = "volumes"  BY <2>1, <2>3, <2>4, <2>6, <1>0, OneTurns
  <2>7. CASE t = "configs"  BY <2>1, <2>3, <2>4, <2>7, <1>0, OneTurns
  <2>8. CASE t = "constraints"  BY <2>1, <2>3, <2>4, <2>8, <1>0, OneTurns
  <2> QED  BY <2>5, <2>6, <2>7, <2>8, <1>t
<1> QED  BY <1>1, <1>2, <1>3, <1>4 DEF User

----------------------------------------------------------------------------
(* The refinement *)

\* The phase of the abstract specification, in terms of the stored object.
PhaseForm ==
  /\ ~stored.exists => Phase = "gone"
  /\ stored.exists /\ ~stored.deleting => Phase = "alive"
  /\ stored.exists /\ stored.deleting /\ ~Noticed => Phase = "requested"
  /\ stored.exists /\ stored.deleting /\ Noticed => Phase = "deleting"

\* The cases of the phase exclude each other.
LEMMA PhaseFacts == PhaseForm /\ PhaseForm'
<1>1. PhaseForm  BY DEF PhaseForm, Phase, Noticed
<1>2. PhaseForm'  BY DEF PhaseForm, Phase, Noticed
<1> QED  BY <1>1, <1>2

\* The things have the states that the abstract specification knows.
LEMMA OwesType ==
  ASSUME TypeOK, WorldOK
  PROVE  Owes \in [Finalizers -> Teardown!States]
<1>0. \A t \in Things : world[t] \in Teardown!States
  BY DEF TypeOK, WorldOK, Teardown!States
<1>t. /\ Finalizers = {"lb", "pv", "etcd", "nodes", "credentials", "constraints"} \cup CloudResources
      /\ CloudResources \cup {"volumes", "configs", "secret", "constraints"} \subseteq Things
  BY DEF Things, Lingering, Finalizers
<1>1. \A f \in Finalizers : Owes[f] \in Teardown!States
  BY <1>0, <1>t, OwesFacts, StateFacts DEF OwesForm, StateForm, Teardown!States
<1>2. Owes = [f \in Finalizers |-> Owes[f]]  BY DEF Owes
<1> QED  BY <1>1, <1>2

\* Every step is a step of the abstract specification, or invisible to it.
LEMMA StepImplements ==
  ASSUME LifecycleConstants, "openstack" \notin Providers, IInv, RecordOK, IInv', RecordOK', Next,
         Owes \in [Finalizers -> Teardown!States], Owes' \in [Finalizers -> Teardown!States]
  PROVE  [Teardown!TeardownNext]_(Teardown!teardownVars)
<1>0. /\ stored.fins \in SUBSET Finalizers /\ stored'.fins \in SUBSET Finalizers
      /\ StoredOK /\ StoredOK' /\ TypeOK /\ TypeOK' /\ WorldOK /\ WorldOK'
  BY DEF IInv, TypeOK, ClusterObject
<1>1. Owes \in [Finalizers -> Teardown!States] /\ Owes' \in [Finalizers -> Teardown!States]
  OBVIOUS
<1>2. /\ ~stored.deleting => stored.exists
      /\ ~stored'.deleting => stored'.exists
      /\ stored.exists /\ stored.deleting => stored.fins # {}
      /\ stored'.exists /\ stored'.deleting => stored'.fins # {}
      /\ ~stored.exists => stored.deleting /\ stored.fins = {}
      /\ ~stored'.exists => stored'.deleting /\ stored'.fins = {}
  <2>1. Gone.deleting /\ Gone.fins = {}  BY DEF Gone
  <2>2. /\ ~stored.exists => stored = Gone
        /\ stored.exists /\ stored.deleting => stored.fins # {}
    BY <1>0 DEF StoredOK
  <2>3. /\ ~stored'.exists => stored' = Gone
        /\ stored'.exists /\ stored'.deleting => stored'.fins # {}
    BY <1>0 DEF StoredOK
  <2> QED  BY <2>1, <2>2, <2>3
<1>3. CASE ~stored.deleting /\ ~stored'.deleting
  <2>1. Phase = "alive" /\ Phase' = "alive"  BY <1>3, <1>2, PhaseFacts DEF PhaseForm
  <2>2. Teardown!Live  BY <2>1, <1>0, <1>1 DEF Teardown!Live
  <2> QED  BY <2>2 DEF Teardown!TeardownNext
<1>4. CASE ~stored.deleting /\ stored'.deleting
  <2>1. Delete /\ cached' = cached /\ stored'.exists /\ stored'.fins = stored.fins
    BY <1>4, Irrevocable
  <2>2. Outdated(cached)  BY <1>4, <1>0 DEF StoredOK
  <2>3. ~Noticed'  BY <2>1, <2>2 DEF Noticed, Outdated
  <2>4. Phase = "alive" /\ Phase' = "requested"  BY <1>2, <1>4, <2>1, <2>3, PhaseFacts DEF PhaseForm
  <2>5. Owes' = Owes  BY <2>1 DEF Delete, Owes, State, lbVars
  <2>6. Teardown!Request  BY <2>1, <2>4, <2>5 DEF Teardown!Request
  <2> QED  BY <2>6 DEF Teardown!TeardownNext
<1>5. CASE stored.deleting
  <2>1. stored'.deleting /\ stored'.fins \subseteq stored.fins /\ (Noticed => Noticed')
    BY <1>5, Irrevocable
  <2>2. CASE ~stored.exists
    <3>1. stored.fins = {} /\ stored'.fins = {} /\ ~stored'.exists  BY <2>1, <2>2, <1>2
    <3>2. Phase = "gone" /\ Phase' = "gone"  BY <2>2, <3>1, PhaseFacts DEF PhaseForm
    <3>3. Teardown!Turn  BY <3>1, <3>2, <1>1 DEF Teardown!Turn, Teardown!MayTurn
    <3> QED  BY <3>3 DEF Teardown!TeardownNext
  <2>3. CASE stored.exists /\ ~Noticed
    <3>1. Phase = "requested"  BY <1>5, <2>3, PhaseFacts DEF PhaseForm
    <3>2. Phase' \in IF stored'.fins = {} THEN {"gone"} ELSE {"requested", "deleting"}
      BY <2>1, <1>2, PhaseFacts DEF PhaseForm
    <3>3. Teardown!Unnoticed  BY <2>1, <3>1, <3>2, <1>1 DEF Teardown!Unnoticed
    <3> QED  BY <3>3 DEF Teardown!TeardownNext
  <2>4. CASE stored.exists /\ Noticed
    <3>1. Phase = "deleting"  BY <1>5, <2>4, PhaseFacts DEF PhaseForm
    <3>2. Phase' = IF stored'.fins = {} THEN "gone" ELSE "deleting"
      BY <2>1, <2>4, <1>2, PhaseFacts DEF PhaseForm
    <3>3. Turning \/ WritingOff
      BY <1>5, <2>4, KubeOrderly, CloudOrderly, OtherOrderly DEF Next
    <3>4. CASE Turning
      <4>1. stored'.fins = stored.fins /\ stored.fins # {}  BY <3>4, <1>2, <1>5, <2>4 DEF Turning
      <4>2. Teardown!Turn  BY <3>1, <3>2, <3>4, <4>1, <1>1 DEF Turning, Teardown!Turn
      <4> QED  BY <4>2 DEF Teardown!TeardownNext
    <3>5. CASE WritingOff
      <4>1. Owes' = Owes  BY <3>5 DEF WritingOff, Owes, State
      <4>2. Teardown!WriteOff
        BY <2>1, <3>1, <3>2, <3>5, <4>1 DEF WritingOff, Teardown!WriteOff
      <4> QED  BY <4>2 DEF Teardown!TeardownNext
    <3> QED  BY <3>3, <3>4, <3>5
  <2> QED  BY <2>2, <2>3, <2>4
<1> QED  BY <1>3, <1>4, <1>5

\* Stuttering is invisible.
LEMMA StutterImplements ==
  ASSUME UNCHANGED vars
  PROVE  UNCHANGED Teardown!teardownVars
BY DEF vars, Teardown!teardownVars, Phase, Owes, State, Outdated

\* The finalizer for volumes is removed when there are none and none can appear.
LEMMA VolumesLast ==
  ASSUME LifecycleConstants, "openstack" \notin Providers, IInv, RecordOK, Next
  PROVE  VolumesReleased
<1> SUFFICES ASSUME "pv" \in stored.fins, "pv" \notin stored'.fins, Phase = "deleting"
             PROVE  webhook /\ world["volumes"] = "absent"
  BY DEF VolumesReleased
<1>1. stored.deleting /\ Noticed  BY PhaseFacts DEF PhaseForm, IInv, StoredOK, Gone
<1>2. Turning \/ WritingOff  BY <1>1, KubeOrderly, CloudOrderly, OtherOrderly DEF Next
<1>3. WritingOff  BY <1>2 DEF Turning
<1>4. webhook /\ Teardown!MayWriteOff("pv")  BY <1>3 DEF WritingOff
<1> QED  BY <1>4, OwesFacts DEF OwesForm, Teardown!MayWriteOff

\* The record of resources is in order at all times.
LEMMA RecordInvariant ==
  ASSUME "openstack" \notin Providers
  PROVE  Spec => [](IInv /\ RecordOK)
<1>1. Init => RecordOK
  <2> SUFFICES ASSUME Init PROVE RecordOK  OBVIOUS
  <2>1. /\ kube.copy = Gone /\ cloud.copy = Gone /\ kube.at = "idle" /\ cloud.at = "idle"
    BY DEF Init, KubeIdle, CloudIdle
  <2>2. cached = stored /\ stored.fins = {"credentials"}  BY DEF Init
  <2>3. Gone.fins = {} /\ Gone.ids = {} /\ ~Gone.exists  BY DEF Gone
  <2>4. "credentials" \notin InSpec
    <3>1. TypeOK  BY LifecycleConstants, LifecycleInit DEF IInv
    <3> QED  BY <3>1, LifecycleConstants, SpecResources DEF CloudResources
  <2> QED  BY <2>1, <2>2, <2>3, <2>4 DEF RecordOK, Documented, Known, Current
<1>2. IInv /\ RecordOK /\ [Next]_vars => RecordOK'
  <2> SUFFICES ASSUME IInv, RecordOK, [Next]_vars PROVE RecordOK'  OBVIOUS
  <2>1. CASE Next  BY <2>1, LifecycleConstants, RecordKeeps
  <2>2. CASE UNCHANGED vars
    <3>1. UNCHANGED provider /\ UNCHANGED stored /\ UNCHANGED cached /\ UNCHANGED kube /\ UNCHANGED cloud
      BY <2>2 DEF vars, clusterVars
    <3>2. InSpec' = InSpec  BY <3>1 DEF InSpec
    <3>3. \A c \in {stored, cached, kube.copy, cloud.copy} :
            c.fins \cap InSpec \subseteq c.ids /\ (stored.exists => c.ids \subseteq stored.ids)
      BY DEF RecordOK, Documented, Known
    <3>4. (\A c \in {stored, cached, kube.copy, cloud.copy} : Documented(c) /\ Known(c))'
      BY <3>1, <3>2, <3>3 DEF Documented, Known
    <3> QED  BY <3>1, <3>4 DEF RecordOK, Current
  <2> QED  BY <2>1, <2>2
<1> QED  BY <1>1, <1>2, LifecycleInvariant, PTL DEF Spec

\* ClusterLifecycle implements ClusterTeardown, for every set of providers
\* without OpenStack, any services, any resources that the user brings along and
\* any number of failures: what CleanupCluster and CleanUpCloudProvider do to the
\* finalizers of a Cluster is an orderly teardown, however stale their copies.
THEOREM TeardownImplemented ==
  ASSUME "openstack" \notin Providers
  PROVE  Spec => ImplementsTeardown
<1>1. IInv => Owes \in [Finalizers -> Teardown!States]  BY OwesType DEF IInv
<1>2. Init => Teardown!TeardownInit
  <2> SUFFICES ASSUME Init PROVE Teardown!TeardownInit  OBVIOUS
  <2>1. IInv  BY LifecycleConstants, LifecycleInit
  <2>2. Owes \in [Finalizers -> Teardown!States]  BY <2>1, <1>1
  <2>3. stored.exists /\ ~stored.deleting /\ stored.fins \in SUBSET Finalizers
    <3>1. PICK ids \in Recorded :
            stored = [exists |-> TRUE, deleting |-> FALSE, fins |-> {"credentials"}, ids |-> ids, lbs |-> {}]
      BY DEF Init
    <3>2. "credentials" \in Finalizers  BY DEF Finalizers
    <3> QED  BY <3>1, <3>2
  <2>4. Phase = "alive"  BY <2>3, PhaseFacts DEF PhaseForm
  <2> QED  BY <2>2, <2>3, <2>4 DEF Teardown!TeardownInit
<1>3. /\ IInv /\ RecordOK /\ Owes \in [Finalizers -> Teardown!States]
      /\ (IInv /\ RecordOK /\ Owes \in [Finalizers -> Teardown!States])'
      /\ [Next]_vars
      => [Teardown!TeardownNext]_(Teardown!teardownVars)
  BY LifecycleConstants, StepImplements, StutterImplements
<1> QED
  BY <1>1, <1>2, <1>3, RecordInvariant, PTL DEF Spec, ImplementsTeardown, Teardown!TeardownSpec

\* No volume is left behind: when cleanupInClusterResources removes the finalizer
\* for volumes, there are none and the webhook keeps new ones from appearing.
THEOREM VolumesGone ==
  ASSUME "openstack" \notin Providers
  PROVE  Spec => NoVolumesLeft
<1>1. IInv /\ RecordOK /\ [Next]_vars => [VolumesReleased]_vars
  BY LifecycleConstants, VolumesLast
<1> QED  BY <1>1, RecordInvariant, PTL DEF Spec, NoVolumesLeft
=============================================================================
