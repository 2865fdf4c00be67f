-------------------------- MODULE ClusterLifecycle --------------------------
(***************************************************************************)
(* The life of ONE user cluster as its finalizers tell it: the cluster     *)
(* controller and the cloud controller add a finalizer for everything that *)
(* has to be removed with the cluster, the API's delete handler adds two   *)
(* more and requests the deletion, and then the two controllers remove     *)
(* things and finalizers until the API server forgets the Cluster.         *)
(*                                                                         *)
(* Both controllers run in one process and read the Cluster from one cache *)
(* that lags behind by any number of writes.  They write it with merge     *)
(* patches, which are not refused when the copy is stale and which replace *)
(* the whole list of finalizers.  The API server refuses finalizers that   *)
(* an object being deleted does not have already.  Every call of a         *)
(* controller that changes something is a step of its own; calls for       *)
(* several objects of one kind count as one.                               *)
(*                                                                         *)
(* Abstractions.  Of the Cluster the finalizers, the recorded resources of *)
(* the provider, the annotation with the load balancers and the deletion   *)
(* timestamp are kept.  Lists of objects other than the Cluster are read   *)
(* up to date.  The user stops creating machines, services, backup configs *)
(* and constraints once the deletion is requested; volumes may appear      *)
(* until the code blocks them.  Pausing is modelled with EtcdRestore.      *)
(***************************************************************************)
EXTENDS CloudProviders, FiniteSets

CONSTANTS
  Providers,          \* the cloud providers considered
  Recorded,           \* possible sets of resources the user brings along
  Services,           \* UIDs of services of type LoadBalancer
  Used,               \* the kinds of objects the user creates
  EtcdBackupRestore,  \* the etcd backup and restore controllers are enabled
  MaxFaults           \* bound: failed calls and lost requests in a behaviour

ASSUME LifecycleConstants ==
  /\ Providers \subseteq ProviderNames
  /\ \A r \in Recorded : r \subseteq CloudResources
  /\ Used \subseteq {"nodes", "volumes", "configs", "constraints"}
  /\ EtcdBackupRestore \in BOOLEAN /\ ("configs" \in Used => EtcdBackupRestore)
  /\ MaxFaults \in Nat

VARIABLES
  provider,  \* the cloud provider of the cluster
  stored,    \* the Cluster in the API server
  cached,    \* the Cluster in the cache of the seed controller manager
  queued,    \* the controllers whose queue holds the cluster
  kube,      \* where the cluster controller stands, with its copy
  cloud,     \* where the cloud controller stands, with its copy
  handler,   \* where the delete handler of the API stands
  up,        \* the API server of the user cluster runs and is reachable
  world,     \* what exists outside the Cluster object
  services,  \* services of type LoadBalancer in the user cluster
  balancers, \* load balancers at the cloud provider, by UID of their service
  events,    \* services for which there is a DeletedLoadBalancer event
  webhook,   \* the webhook that blocks new volumes is installed
  late,      \* two hours have passed since the deletion was requested
  faults     \* failures so far

clusterVars == <<stored, cached>>
lbVars == <<services, balancers, events>>
vars == <<provider, stored, cached, queued, kube, cloud, handler, up, world,
          services, balancers, events, webhook, late, faults>>

InClusterFinalizers == {"lb", "pv"}
Finalizers ==
  {"constraints", "lb", "pv", "etcd", "nodes", "credentials"} \cup CloudResources

\* Machines are owned by machine sets, and those by machine deployments
NodeLayers == <<"deployments", "sets", "machines">>
Layers == {"deployments", "sets", "machines"}

\* Objects that are gone some time after their deletion
Lingering == {"constraints", "volumes", "configs"} \cup Layers
Things == {"secret"} \cup Lingering \cup CloudResources

ClusterObject ==
  [exists : BOOLEAN, deleting : BOOLEAN, fins : SUBSET Finalizers,
   ids : SUBSET CloudResources, lbs : SUBSET Services]

Gone == [exists |-> FALSE, deleting |-> TRUE, fins |-> {}, ids |-> {}, lbs |-> {}]

KubeSteps ==
  {"idle", "add", "constraints", "unconstrain", "services", "note", "wait", "block",
   "volumes", "check", "release", "configs", "unconfig", "nodes", "unnode", "secret", "unsecret"}

TypeOK ==
  /\ provider \in Providers
  /\ stored \in ClusterObject /\ cached \in ClusterObject
  /\ queued \subseteq {"kube", "cloud"}
  /\ kube \in [at : KubeSteps, copy : ClusterObject,
               arg : Finalizers \cup Services \cup {""}, some : BOOLEAN, pvs : BOOLEAN]
  /\ cloud \in [at : {"idle", "create", "record", "delete", "unrecord"},
                copy : ClusterObject, n : Nat]
  /\ handler \in {"none", "updated", "done"}
  /\ {up, webhook, late} \subseteq BOOLEAN
  /\ world \in [Things -> {"absent", "present", "deleting", "double"}]
  /\ services \subseteq Services /\ balancers \subseteq Services
  /\ events \subseteq Services
  /\ faults \in 0 .. MaxFaults

----------------------------------------------------------------------------
(* The API server *)

\* What the stored object becomes under the merge patch from old to new: a
\* changed list replaces the stored one, the fields of the spec are merged
Merged(old, new) ==
  [stored EXCEPT !.fins = IF new.fins = old.fins THEN @ ELSE new.fins,
                 !.ids  = @ \cup (new.ids \ old.ids),
                 !.lbs  = IF new.lbs = old.lbs THEN @ ELSE new.lbs]

\* Patching fails for a missing object, and for new finalizers during deletion
Accepted(old, new) ==
  /\ stored.exists
  /\ stored.deleting => Merged(old, new).fins \subseteq stored.fins

\* An object being deleted is removed with its last finalizer
Settled(c) == IF c.deleting /\ c.fins = {} THEN Gone ELSE c

----------------------------------------------------------------------------
(* The cluster controller: Reconcile of one cluster *)

\* some: deletedSomeResource, pvs: shouldDeletePVs of cleanupInClusterResources
KubeIdle == [at |-> "idle", copy |-> Gone, arg |-> "", some |-> FALSE, pvs |-> FALSE]

\* The reconciliation ends with an error, or asks to be repeated
KubeRequeues == kube' = KubeIdle /\ queued' = queued \cup {"kube"}

\* It goes on at the given step with the copy c.  A cleanup is always requeued.
\* shouldDeletePVs is read off the copy when the constraints are done.
KubeGoes(at, c) ==
  IF at = "idle" THEN KubeRequeues
  ELSE /\ kube' = [kube EXCEPT !.at = at, !.copy = c,
                              !.pvs = IF kube.at = "unconstrain" THEN "pv" \in c.fins ELSE @]
       /\ UNCHANGED queued

\* It patches the Cluster and goes on with the answer, or gives up
KubePatches(new, at) ==
  \/ /\ Accepted(kube.copy, new)
     /\ stored' = Settled(Merged(kube.copy, new))
     /\ KubeGoes(at, Merged(kube.copy, new))
  \/ /\ ~Accepted(kube.copy, new)
     /\ KubeRequeues
     /\ UNCHANGED stored

Without(c, fs) == [c EXCEPT !.fins = @ \ fs]

\* The next finalizer reconcileCluster adds to the copy c, after the one before.
\* The one for the nodes waits for the API server of the user cluster.
FirstMissing(c, before) ==
  IF before = "" /\ "etcd" \notin c.fins THEN "etcd"
  ELSE IF before \in {"", "etcd"} /\ up /\ "nodes" \notin c.fins THEN "nodes"
  ELSE IF before # "constraints" /\ "constraints" \notin c.fins THEN "constraints"
  ELSE ""

KubeAddsNext(c, before) ==
  LET f == FirstMissing(c, before)
  IN  kube' = IF f = "" THEN KubeIdle ELSE [KubeIdle EXCEPT !.at = "add", !.copy = c, !.arg = f]

\* The copy is up to date if syncHealth had a changed health to patch
KubeStart ==
  /\ kube.at = "idle" /\ "kube" \in queued
  /\ queued' = queued \ {"kube"}
  /\ \/ ~cached.exists /\ kube' = KubeIdle
     \/ cached.exists /\ \E c \in {cached, stored} :
          \/ c.exists /\ c.deleting /\ kube' = [KubeIdle EXCEPT !.at = "constraints", !.copy = c]
          \/ c.exists /\ ~c.deleting /\ KubeAddsNext(c, "")
  /\ UNCHANGED <<provider, clusterVars, cloud, handler, up, world, lbVars, webhook, late, faults>>

\* reconcileCluster adds a finalizer and looks for the next one
KubeAdds ==
  /\ kube.at = "add"
  /\ LET new == [kube.copy EXCEPT !.fins = @ \cup {kube.arg}]
         m   == Merged(kube.copy, new)
     IN  \/ /\ Accepted(kube.copy, new)
            /\ stored' = Settled(m)
            /\ KubeAddsNext(m, kube.arg)
            /\ UNCHANGED queued
         \/ /\ ~Accepted(kube.copy, new)
            /\ KubeRequeues
            /\ UNCHANGED stored
  /\ UNCHANGED <<provider, cached, cloud, handler, up, world, lbVars, webhook, late, faults>>

(* mutant: it is enough that the finalizer of the credentials is there. *)
AfterNodesEager(c) == IF "credentials" \in c.fins THEN "secret" ELSE "idle"

\* Where CleanupCluster goes on with the copy c after each of its parts
AfterNodes(c) == IF c.fins = {"credentials"} THEN "secret" ELSE "idle"
AfterConfigs(c) == IF "nodes" \in c.fins THEN "nodes" ELSE AfterNodes(c)
AfterInCluster(c) ==
  IF c.fins \cap InClusterFinalizers # {} THEN "idle"
  ELSE IF "etcd" \in c.fins THEN "configs"
  ELSE AfterConfigs(c)
AfterServices(c) ==
  IF kube.pvs THEN "block"
  ELSE IF kube.some THEN "idle"
  ELSE "check"
AfterConstraints(c) ==
  IF "lb" \in c.fins THEN "services"
  ELSE IF "pv" \in c.fins THEN "block"
  ELSE AfterInCluster(c)

\* cleanupConstraints: deletes the constraints, then patches without waiting
\* until the constraint syncer of the user cluster has released them
CleanupConstraints ==
  /\ kube.at = "constraints"
  /\ world' = [world EXCEPT !["constraints"] = IF @ = "absent" THEN @ ELSE "deleting"]
  /\ KubeGoes("unconstrain", kube.copy)
  /\ UNCHANGED <<provider, clusterVars, cloud, handler, up, lbVars, webhook, late, faults>>

ReleaseConstraints ==
  /\ kube.at = "unconstrain"
  /\ LET new == Without(kube.copy, {"constraints"})
     IN  KubePatches(new, AfterConstraints(Merged(kube.copy, new)))
  /\ UNCHANGED <<provider, cached, cloud, handler, up, world, lbVars, webhook, late, faults>>

\* cleanupLB deletes a service and then notes its UID in the annotation
CleanupLBs ==
  /\ kube.at = "services"
  /\ \/ \E u \in services :
          /\ services' = services \ {u}
          /\ kube' = [kube EXCEPT !.at = "note", !.arg = u, !.some = TRUE]
          /\ UNCHANGED queued
     \/ /\ services = {}
        /\ KubeGoes(AfterServices(kube.copy), kube.copy)
        /\ UNCHANGED services
  /\ UNCHANGED <<provider, clusterVars, cloud, handler, up, world, balancers, events, webhook, late, faults>>

NoteLB ==
  /\ kube.at = "note"
  /\ KubePatches([kube.copy EXCEPT !.lbs = @ \cup {kube.arg}], "wait")
  /\ UNCHANGED <<provider, cached, cloud, handler, up, world, lbVars, webhook, late, faults>>

\* ... and polls the cache for it, for five seconds
AwaitNote ==
  /\ kube.at = "wait"
  /\ \/ kube.arg \in cached.lbs /\ KubeGoes("services", kube.copy)
     \/ kube.arg \notin cached.lbs /\ KubeRequeues
  /\ UNCHANGED <<provider, clusterVars, cloud, handler, up, world, lbVars, webhook, late, faults>>

(* mutant: new volumes are blocked only when there are some to delete. *)
BlockVolumesLazily ==
  /\ kube.at = "block"
  /\ webhook' = (webhook \/ world["volumes"] # "absent")
  /\ KubeGoes("volumes", kube.copy)
  /\ UNCHANGED <<provider, clusterVars, cloud, handler, up, world, lbVars, late, faults>>

\* cleanupVolumes blocks new volumes ...
BlockVolumes ==
  /\ kube.at = "block"
  /\ webhook' = TRUE
  /\ KubeGoes("volumes", kube.copy)
  /\ UNCHANGED <<provider, clusterVars, cloud, handler, up, world, lbVars, late, faults>>

\* ... and deletes the ones there are
CleanupVolumes ==
  /\ kube.at = "volumes"
  /\ IF world["volumes"] = "absent"
     THEN KubeGoes(IF kube.some THEN "idle" ELSE "check", kube.copy) /\ UNCHANGED world
     ELSE KubeRequeues /\ world' = [world EXCEPT !["volumes"] = "deleting"]
  /\ UNCHANGED <<provider, clusterVars, cloud, handler, up, lbVars, webhook, late, faults>>

\* checkIfAllLoadbalancersAreGone: strikes the load balancers with an event off
\* the annotation, and takes them for gone when SOME are left
CheckLBs ==
  /\ kube.at = "check"
  /\ LET left == kube.copy.lbs \ events
         new  == [kube.copy EXCEPT !.lbs = left]
     IN  IF provider \notin {"aws", "azure", "openstack"} \/ kube.copy.lbs = {} \/ late
         THEN KubeGoes("release", kube.copy) /\ UNCHANGED stored
         ELSE KubePatches(new, IF left # {} THEN "release" ELSE "idle")
  /\ UNCHANGED <<provider, cached, cloud, handler, up, world, lbVars, webhook, late, faults>>

ReleaseInCluster ==
  /\ kube.at = "release"
  /\ LET new == Without(kube.copy, InClusterFinalizers)
     IN  KubePatches(new, AfterInCluster(Merged(kube.copy, new)))
  /\ UNCHANGED <<provider, cached, cloud, handler, up, world, lbVars, webhook, late, faults>>

\* cleanupEtcdBackupConfigs: having deleted some, the cleanup goes on without
\* removing the finalizer
CleanupConfigs ==
  /\ kube.at = "configs"
  /\ IF EtcdBackupRestore /\ world["configs"] # "absent"
     THEN world' = [world EXCEPT !["configs"] = "deleting"]
          /\ KubeGoes(AfterConfigs(kube.copy), kube.copy)
     ELSE KubeGoes("unconfig", kube.copy) /\ UNCHANGED world
  /\ UNCHANGED <<provider, clusterVars, cloud, handler, up, lbVars, webhook, late, faults>>

ReleaseConfigs ==
  /\ kube.at = "unconfig"
  /\ LET new == Without(kube.copy, {"etcd"})
     IN  KubePatches(new, AfterConfigs(Merged(kube.copy, new)))
  /\ UNCHANGED <<provider, cached, cloud, handler, up, world, lbVars, webhook, late, faults>>

(* mutant: machines without a machine deployment are overlooked. *)
CleanupNodesShallow ==
  /\ kube.at = "nodes"
  /\ \/ /\ world["deployments"] # "absent"
        /\ world' = [world EXCEPT !["deployments"] = "deleting"]
        /\ KubeRequeues
     \/ /\ world["deployments"] = "absent"
        /\ KubeGoes("unnode", kube.copy)
        /\ UNCHANGED world
  /\ UNCHANGED <<provider, clusterVars, cloud, handler, up, lbVars, webhook, late, faults>>

\* cleanupNodes deletes one layer per reconciliation
CleanupNodes ==
  /\ kube.at = "nodes"
  /\ \/ \E n \in DOMAIN NodeLayers :
          /\ world[NodeLayers[n]] # "absent"
          /\ \A m \in 1 .. n - 1 : world[NodeLayers[m]] = "absent"
          /\ world' = [world EXCEPT ![NodeLayers[n]] = "deleting"]
          /\ KubeRequeues
     \/ /\ \A l \in Layers : world[l] = "absent"
        /\ KubeGoes("unnode", kube.copy)
        /\ UNCHANGED world
  /\ UNCHANGED <<provider, clusterVars, cloud, handler, up, lbVars, webhook, late, faults>>

ReleaseNodes ==
  /\ kube.at = "unnode"
  /\ LET new == Without(kube.copy, {"nodes"})
     IN  KubePatches(new, AfterNodes(Merged(kube.copy, new)))
  /\ UNCHANGED <<provider, cached, cloud, handler, up, world, lbVars, webhook, late, faults>>

\* cleanUpCredentialsSecrets
DeleteSecret ==
  /\ kube.at = "secret"
  /\ world' = [world EXCEPT !["secret"] = "absent"]
  /\ KubeGoes("unsecret", kube.copy)
  /\ UNCHANGED <<provider, clusterVars, cloud, handler, up, lbVars, webhook, late, faults>>

ReleaseSecret ==
  /\ kube.at = "unsecret"
  /\ KubePatches(Without(kube.copy, {"credentials"}), "idle")
  /\ UNCHANGED <<provider, cached, cloud, handler, up, world, lbVars, webhook, late, faults>>

KubeNext ==
  \/ KubeStart \/ KubeAdds
  \/ CleanupConstraints \/ ReleaseConstraints
  \/ CleanupLBs \/ NoteLB \/ AwaitNote
  \/ BlockVolumes \/ CleanupVolumes \/ CheckLBs \/ ReleaseInCluster
  \/ CleanupConfigs \/ ReleaseConfigs \/ CleanupNodes \/ ReleaseNodes
  \/ DeleteSecret \/ ReleaseSecret

----------------------------------------------------------------------------
(* The cloud controller: Reconcile of one cluster *)

CloudIdle == [at |-> "idle", copy |-> Gone, n |-> 0]

(* mutant: the error is swallowed. *)
CloudFailsSilently == cloud' = CloudIdle /\ UNCHANGED queued

\* The reconciliation ends with an error
CloudFails == cloud' = CloudIdle /\ queued' = queued \cup {"cloud"}

\* Cleaning up, or initialising, goes on from position n with the copy c
CleansFrom(n, c) ==
  LET i == NextOwned(provider, n, c)
  IN  IF i > Len(CleanUpCloudProvider(provider)) THEN CloudIdle
      ELSE [at |-> "delete", copy |-> c, n |-> i]
InitializesFrom(n, c) ==
  LET i == NextDue(provider, n, c)
  IN  IF i > Len(InitializeCloudProvider(provider)) THEN CloudIdle
      ELSE [at |-> "create", copy |-> c, n |-> i]

(* mutant: the nodes are not waited for. *)
CloudWaitsLess == cached.deleting /\ cached.fins \cap InClusterFinalizers # {}

\* Cleaning up waits for the nodes and all that is inside the user cluster
CloudWaits ==
  cached.deleting /\ cached.fins \cap (InClusterFinalizers \cup {"nodes"}) # {}

\* Both ways need the credentials of the cluster
CloudStart ==
  /\ cloud.at = "idle" /\ "cloud" \in queued
  /\ \/ /\ ~cached.exists
        /\ cloud' = CloudIdle /\ queued' = queued \ {"cloud"}
     \/ /\ cached.exists /\ (CloudWaits \/ world["secret"] = "absent")
        /\ CloudFails
     \/ /\ cached.exists /\ ~CloudWaits /\ world["secret"] # "absent"
        /\ cloud' = IF cached.deleting THEN CleansFrom(1, cached) ELSE InitializesFrom(1, cached)
        /\ queued' = queued \ {"cloud"}
  /\ UNCHANGED <<provider, clusterVars, kube, handler, up, world, lbVars, webhook, late, faults>>

\* updateCluster reads the Cluster anew, from the cache, and patches it unless
\* nothing changes; the reconciliation goes on with the result
CloudGoesOn(c) ==
  cloud' = IF cloud.at = "record" THEN InitializesFrom(cloud.n + 1, c) ELSE CleansFrom(cloud.n + 1, c)
CloudUpdates(new) ==
  \/ /\ cached.exists /\ new = cached
     /\ CloudGoesOn(cached)
     /\ UNCHANGED <<stored, queued>>
  \/ /\ cached.exists /\ new # cached /\ Accepted(cached, new)
     /\ stored' = Settled(Merged(cached, new))
     /\ CloudGoesOn(Merged(cached, new))
     /\ UNCHANGED queued
  \/ /\ ~cached.exists \/ (new # cached /\ ~Accepted(cached, new))
     /\ CloudFails
     /\ UNCHANGED stored

CloudCreates ==
  /\ cloud.at = "create"
  /\ LET r == InitializeCloudProvider(provider)[cloud.n].res
     IN  IF LookupFails(provider, world)
         THEN CloudFails /\ UNCHANGED world
         ELSE /\ world' = Created(provider, r, world)
              /\ cloud' = [cloud EXCEPT !.at = "record"]
              /\ UNCHANGED queued
  /\ UNCHANGED <<provider, clusterVars, kube, handler, up, lbVars, webhook, late, faults>>

CloudRecords ==
  /\ cloud.at = "record"
  /\ LET step == InitializeCloudProvider(provider)[cloud.n]
         ids  == IF step.by = "spec" THEN {step.res} ELSE {}
     IN  CloudUpdates([cached EXCEPT !.fins = @ \cup {step.res}, !.ids = @ \cup ids])
  /\ UNCHANGED <<provider, cached, kube, handler, up, world, lbVars, webhook, late, faults>>

CloudDeletes ==
  /\ cloud.at = "delete"
  /\ LET r == CleanUpCloudProvider(provider)[cloud.n]
     IN  IF DeleteFails(provider, r, world)
         THEN CloudFails /\ UNCHANGED world
         ELSE /\ world' = Deleted(provider, r, world)
              /\ cloud' = [cloud EXCEPT !.at = "unrecord"]
              /\ UNCHANGED queued
  /\ UNCHANGED <<provider, clusterVars, kube, handler, up, lbVars, webhook, late, faults>>

CloudUnrecords ==
  /\ cloud.at = "unrecord"
  /\ CloudUpdates(Without(cached, {CleanUpCloudProvider(provider)[cloud.n]}))
  /\ UNCHANGED <<provider, cached, kube, handler, up, world, lbVars, webhook, late, faults>>

CloudNext == CloudStart \/ CloudCreates \/ CloudRecords \/ CloudDeletes \/ CloudUnrecords

----------------------------------------------------------------------------
(* The delete handler of the API *)

(* mutant: the handler adds a finalizer that no controller knows. *)
RequestDeletionMisnamed ==
  /\ handler = "none" /\ stored.exists /\ ~stored.deleting
  /\ \E asked \in SUBSET {"lb", "volumes"} :
       stored' = [stored EXCEPT !.fins = @ \cup (IF "nodes" \in @ THEN asked ELSE {})]
  /\ handler' = "updated"
  /\ UNCHANGED <<provider, cached, queued, kube, cloud, up, world, lbVars, webhook, late, faults>>

\* DeleteEndpoint updates the Cluster, refused unless its copy is the latest ...
RequestDeletion ==
  /\ handler = "none" /\ stored.exists /\ ~stored.deleting
  /\ \E asked \in SUBSET InClusterFinalizers :
       stored' = [stored EXCEPT !.fins = @ \cup (IF "nodes" \in @ THEN asked ELSE {})]
  /\ handler' = "updated"
  /\ UNCHANGED <<provider, cached, queued, kube, cloud, up, world, lbVars, webhook, late, faults>>

\* ... and then deletes it
Delete ==
  /\ handler = "updated"
  /\ stored' = Settled([stored EXCEPT !.deleting = TRUE])
  /\ handler' = "done"
  /\ UNCHANGED <<provider, cached, queued, kube, cloud, up, world, lbVars, webhook, late, faults>>

----------------------------------------------------------------------------
(* The environment *)

\* A watch event brings the cache up to date and enqueues the cluster
Sync ==
  /\ cached # stored
  /\ cached' = stored
  /\ queued' = {"kube", "cloud"}
  /\ UNCHANGED <<provider, stored, kube, cloud, handler, up, world, lbVars, webhook, late, faults>>

\* The API server of the user cluster comes up; the controller watches it
ApiserverUp ==
  /\ ~up /\ stored.exists
  /\ up' = TRUE
  /\ queued' = queued \cup {"kube"}
  /\ UNCHANGED <<provider, clusterVars, kube, cloud, handler, world, lbVars, webhook, late, faults>>

\* The user creates machines, which get routes at GCP
AddNodes ==
  /\ "nodes" \in Used /\ up /\ ~stored.deleting /\ \A l \in Layers : world[l] = "absent"
  /\ world' = [t \in Things |->
                 IF t \in Layers \/ (provider = "gcp" /\ t = "routes") THEN "present" ELSE world[t]]
  /\ UNCHANGED <<provider, clusterVars, queued, kube, cloud, handler, up, lbVars, webhook, late, faults>>

AddService ==
  /\ up /\ ~stored.deleting
  /\ \E u \in Services \ (services \cup balancers \cup events) :
       services' = services \cup {u} /\ balancers' = balancers \cup {u}
  /\ UNCHANGED <<provider, clusterVars, queued, kube, cloud, handler, up, world, events, webhook, late, faults>>

AddVolume ==
  /\ "volumes" \in Used /\ up /\ stored.exists /\ ~webhook /\ world["volumes"] = "absent"
  /\ world' = [world EXCEPT !["volumes"] = "present"]
  /\ UNCHANGED <<provider, clusterVars, queued, kube, cloud, handler, up, lbVars, webhook, late, faults>>

AddObject ==
  /\ ~stored.deleting
  /\ \E t \in {"constraints", "configs"} \cap Used :
       world[t] = "absent" /\ world' = [world EXCEPT ![t] = "present"]
  /\ UNCHANGED <<provider, clusterVars, queued, kube, cloud, handler, up, lbVars, webhook, late, faults>>

\* An object being deleted is gone; for backup configs see EtcdBackup
Vanish ==
  /\ \E t \in Lingering :
       world[t] = "deleting" /\ world' = [world EXCEPT ![t] = "absent"]
  /\ UNCHANGED <<provider, clusterVars, queued, kube, cloud, handler, up, lbVars, webhook, late, faults>>

\* The load balancer of a deleted service is gone.  Events may get lost.
BalancerGone ==
  /\ \E u \in balancers \ services :
       /\ balancers' = balancers \ {u}
       /\ events' \in {events, events \cup {u}}
  /\ UNCHANGED <<provider, clusterVars, queued, kube, cloud, handler, up, world, services, webhook, late, faults>>

TwoHoursPass ==
  /\ stored.lbs # {} /\ ~late /\ late' = TRUE
  /\ UNCHANGED <<provider, clusterVars, queued, kube, cloud, handler, up, world, lbVars, webhook, faults>>

\* A call fails, or the process is restarted
KubeFault == kube.at # "idle" /\ KubeRequeues /\ UNCHANGED <<cloud, handler>>
CloudFault == cloud.at # "idle" /\ CloudFails /\ UNCHANGED <<kube, handler>>
HandlerFault == handler = "updated" /\ handler' = "none" /\ UNCHANGED <<queued, kube, cloud>>

Fault ==
  /\ faults < MaxFaults /\ faults' = faults + 1
  /\ KubeFault \/ CloudFault \/ HandlerFault
  /\ UNCHANGED <<provider, clusterVars, up, world, lbVars, webhook, late>>

Init ==
  /\ provider \in Providers
  /\ \E ids \in Recorded :
       stored = [exists |-> TRUE, deleting |-> FALSE, fins |-> {"credentials"},
                 ids |-> ids, lbs |-> {}]
  /\ cached = stored
  /\ queued = {"kube", "cloud"}
  /\ kube = KubeIdle /\ cloud = CloudIdle /\ handler = "none"
  /\ up = FALSE /\ webhook = FALSE /\ late = FALSE
  /\ world = [t \in Things |-> IF t = "secret" THEN "present" ELSE "absent"]
  /\ services = {} /\ balancers = {} /\ events = {}
  /\ faults = 0

User == RequestDeletion \/ ApiserverUp \/ AddNodes \/ AddService \/ AddVolume \/ AddObject

Next ==
  \/ KubeNext \/ CloudNext \/ Delete \/ Sync \/ User
  \/ Vanish \/ BalancerGone \/ TwoHoursPass \/ Fault

Spec == Init /\ [][Next]_vars

\* The controllers work off their queues, the cache catches up and what is
\* being deleted goes away; nothing forces the user, the clock or a fault
Fairness ==
  WF_vars(KubeNext) /\ WF_vars(CloudNext) /\ WF_vars(Sync) /\ WF_vars(Vanish)

FairSpec == Spec /\ Fairness

----------------------------------------------------------------------------
(* Properties *)

\* What a finalizer stands for.  Several objects make up the nodes, and the
\* load balancers are seen through the services that the code deletes.
State(set) ==
  CASE \A t \in set : world[t] = "absent" -> "absent"
    [] \A t \in set : world[t] = "present" -> "present"
    [] OTHER -> "deleting"

Owes ==
  [f \in Finalizers |->
     CASE f = "lb" -> IF services = {} THEN "absent" ELSE "present"
       [] f = "pv" -> world["volumes"]
       [] f = "etcd" -> world["configs"]
       [] f = "nodes" -> State(Layers)
       [] f = "credentials" -> world["secret"]
       [] OTHER -> world[f]]

\* In-cluster things go before nodes, nodes before the resources at the cloud
\* provider, and the credentials go last
MustGoBefore ==
  [f \in Finalizers |->
     CASE f \in {"etcd", "nodes"} -> InClusterFinalizers
       [] f \in CloudResources -> InClusterFinalizers \cup {"nodes"}
       [] f = "credentials" -> Finalizers \ {"credentials"}
       [] OTHER -> {}]

\* A copy read before the deletion was requested
Outdated(c) == c.exists /\ ~c.deleting

Phase ==
  CASE ~stored.exists -> "gone"
    [] stored.exists /\ ~stored.deleting -> "alive"
    [] OTHER -> IF \E c \in {cached, kube.copy, cloud.copy} : Outdated(c)
                THEN "requested" ELSE "deleting"

Teardown == INSTANCE ClusterTeardown WITH
  Debts      <- Finalizers,
  Before     <- MustGoBefore,
  Refillable <- {"pv"},
  Unawaited  <- {"constraints"},
  phase      <- Phase,
  owed       <- stored.fins,
  things     <- Owes

\* The controllers keep the promise of ClusterTeardown, whatever the provider
\* (except OpenStack, see CleanUpIdempotent), however stale the cache and
\* whatever calls fail: CleanupCluster and CleanUpCloudProvider remove things in
\* the order that the comments of CleanupCluster ask for, and no finalizer goes
\* before its thing, once both controllers have noticed the deletion.
ImplementsTeardown == Teardown!TeardownSpec

\* cleanUpCredentialsSecrets deletes the credentials only when no finalizer of
\* another controller is left that needs them, even if the copy of the Cluster
\* that CleanupCluster decides upon is stale.
CredentialsLast == world["secret"] = "absent" => stored.fins \subseteq {"credentials"}

\* When cleanupInClusterResources removes the finalizer for volumes, there are
\* none and cleanupVolumes has made sure that no new ones appear: no volume is
\* provisioned after the last look at them.
VolumesReleased ==
  ("pv" \in stored.fins /\ "pv" \notin stored'.fins /\ Phase = "deleting")
    => webhook /\ world["volumes"] = "absent"
NoVolumesLeft == [][VolumesReleased]_vars

\* A cluster whose deletion was requested is eventually gone, although calls
\* fail, and although the cleanup gives up and is repeated at nearly every step.
DeletionCompletes == stored.deleting ~> ~stored.exists

\* checkIfAllLoadbalancersAreGone: the finalizer for load balancers is removed
\* only when all load balancers of the services that were noted are gone, or two
\* hours after the request.
BalancersAwaited ==
  [][("lb" \in stored.fins /\ "lb" \notin stored'.fins /\ Phase = "deleting")
       => late \/ stored.lbs \cap balancers = {}]_vars

\* CleanUpCloudProvider of OpenStack can be repeated after a failed call: the
\* deletion of a cluster that has each of its resources once still completes.
CleanUpIdempotent ==
  (stored.deleting /\ \A r \in CloudResources : world[r] # "double") ~> ~stored.exists
=============================================================================
