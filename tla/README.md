# TLA+ models of the kubermatic controllers

kubermatic runs the control planes of user clusters inside seed clusters. A
master cluster holds users, projects and seeds; each seed holds `Cluster`
resources and the pods of their control planes; each user cluster holds the
machines and workloads. Nearly all behaviour lives in controllers that react to
resources, read them from a cache, and write them back to an API server that
knows only optimistic updates, patches and finalizers. The difficulty is the
same everywhere: a controller may stop between any two API calls, what it read
may be old, several controllers write one resource, and the work itself (a job,
a stateful set, a cloud provider) goes on at its own pace.

The modules here model such protocols one by one, TLC checks them on small
instances, and TLAPS proves what matters most for every value of the constants.
Paths below are relative to the root of the repository; `SCM` stands for
`pkg/controller/seed-controller-manager`.

## Modules

| module | what it is |
| --- | --- |
| `EtcdBackup` | the etcd backup controller, its jobs and the backend |
| `MCEtcdBackup` | its instance for TLC |
| `EtcdBackupProofs` | theorems about `EtcdBackup` |
| `EtcdRemovalProofs` | more of them: nothing is forgotten before it is removed, and the cleanup job comes last |
| `EtcdRestore` | the etcd restore controller, the cluster controller, another writer of conditions, the etcd launchers and Kubernetes |
| `MCEtcdRestore` | its instance for TLC, with the symmetry sets |
| `EtcdRestoreProofs` | theorems about `EtcdRestore` |
| `EtcdReleaseProofs` | one more: a restore gives the cluster back restored |
| `ClusterTeardown` | what the deletion of a cluster promises, as an abstract specification |
| `CloudProviders` | what each cloud provider creates and removes, as tables |
| `ClusterLifecycle` | the finalizers of one cluster: cluster controller, cloud controller and delete handler; checked by TLC as it is |
| `ClusterLifecycleProofs` | its inductive invariant, and the theorems that follow from it |
| `ClusterTeardownProofs` | the proof that `ClusterLifecycle` implements `ClusterTeardown` |
| `Ipam`, `MCIpam`, `IpamProofs` | the ipam controller, its instance and its theorems |
| `ClusterUpdates`, `MCClusterUpdates`, `ClusterUpdatesProofs` | automatic updates of several clusters: update controller, cluster controller and seed resources controller, the instance and the theorems |

## Inventory

What the system consists of, where its state is and what makes it hard. The
status of every part, with its sources, is in `PROJECT.json`.

| part | state | operations | what is hard |
| --- | --- | --- | --- |
| etcd backup controller (`SCM/etcdbackup`) | `EtcdBackupConfig` status, jobs, S3 | schedule, start, delete, clean up, finalize | jobs are created before they are recorded; job caches lag; names are reused |
| etcd restore controller (`SCM/etcdrestore`) | `EtcdRestore` phase, annotation, pause and conditions of the `Cluster`, stateful set, volumes | claim, pause, destroy, rebuild, release | mutual exclusion by an annotation; blind merge patches; four controllers on one resource |
| etcd launcher (`cmd/etcd-launcher`) | data directory, membership | restore, join, rejoin, remove dead members | decisions on a condition that others write; quorum |
| cluster controller (`SCM/kubernetes`) | `Cluster` status, control plane objects | health, conditions, deploy, finalizers | health and conditions written from old copies |
| cluster deletion (`pkg/clusterdeletion`) | finalizers, annotation of deleted load balancers | six cleanups in a fixed order | whole finalizer lists are patched; events may never come |
| conditions and reconcile wrapper (`pkg/crd/kubermatic/v1/helper`) | `status.conditions` | pause check, write back | the list is replaced as a whole |
| concurrency limit, update controller (`pkg/controller/util`, `SCM/update`) | conditions, versions | count clusters being updated, upgrade | check then act on a cached list |
| cloud controller and providers (`SCM/cloud`, `pkg/provider/cloud`) | cloud resources, finalizers | initialise, clean up | a resource is created before its finalizer or after it |
| addon controller and installer | `Addon` finalizer and labels | apply, delete | deletion races with the cluster's |
| seed controller lifecycle (`pkg/controller/shared/seed-controller-lifecycle`) | a manager per seed | restart managers | goroutines share state |
| ipam controller (`pkg/controller/user-cluster-controller-manager/ipam`) | machine annotations | allocate an address | addresses in use are read from a cache |
| nodeport proxy, lb updater (`cmd/nodeport-proxy`) | ports of one service | merge ports | ports of services that come and go |
| syncs, rbac, constraint templates, ssh keys | copies on seeds | create, update, delete | partial failure over several seeds |
| version manager, yaml editing, validation | none | pure functions | constraint selection |
| rendering, REST API, installer, dashboards | none of their own | data and I/O | not a protocol |

The properties that matter, by part: backups that are to be kept stay in the
backend and deletion ends; a restore destroys etcd only while it alone holds the
cluster, and gives it back restored; a cluster is gone only when everything it
owned outside is gone, in an order in which each cleanup still can work;
at most the configured number of clusters is updated at a time; no address is
given to two machines; a change of a seed ends in exactly one manager for it.

## EtcdBackup

`SCM/etcdbackup/etcd_backup_controller.go` reconciles one `EtcdBackupConfig`: it
schedules a backup for the latest cron instant, starts a batch job that stores a
snapshot, starts delete jobs for failed backups and for completed ones beyond
the number to keep, removes finished jobs after a retention time and then the
status entry, and at the end of the resource's life runs a cleanup job and
removes the finalizer.

*State.* `config` is the resource in the API server and `mem` the copy of the
running reconciliation, `fresh` whether an `Update` of the copy would be
accepted, `pc` the next call. `jobs`, `deleteJobs` and `cleanupJob` are the batch
jobs (`new` until the informer delivers them), `store` the backend.

*Actions.* Each function of `reconcile` is an action, split at its `Update`:
`StartPendingBackupJobs` creates jobs and changes the copy, `SaveStartedBackups`
writes it. The `...Fails` actions are the partial failures inside a loop,
`ReconcileAborts` a failed call or a restart anywhere. The environment completes,
fails and loses jobs, deletes the resource, pauses the cluster, and lets
time pass.

*Abstractions.* A backup is a number, its position in the list; time counts the
cron instants; whether a retention time is over is a free choice while the
resource lives. The resource itself is read up to date. What the containers of a
job do is not in the repository: it is modelled by the names and the commands the
job is created with.

## EtcdRestore

`SCM/etcdrestore/etcd_restore_controller.go` restores the etcd of a cluster from a
backup: it takes the annotation `kubermatic.io/active-restore` with an optimistic `Update`,
pauses the cluster, deletes the stateful set and its volumes, resets the
condition `EtcdClusterInitialized` and unpauses. The cluster controller
(`SCM/kubernetes`) then recreates the stateful set, the launchers
(`cmd/etcd-launcher`) fill the empty data directories from the backup because the
condition is not true, the cluster controller finds etcd healthy and sets the
condition, and the restore controller clears the annotation and completes.

*State.* `cluster` is the `Cluster` in the API server (annotation, pause,
condition), `cached` the seed's cache of it, `mem[r]` and `fresh[r]` the copy of
the worker of restore `r`; `ctrl`, `ctrlMem`, `ctrlUp` the cluster controller and
`other`, `otherMem` some other controller under the reconcile wrapper; `sts`,
`pod`, `pvc`, `data` the etcd of the cluster, where `data[p]` names what the data
directory of a pod comes from.

*Actions.* One per API call of the restore controller, in the order of the code;
the wrapper's check of the pause, health (found, then written), condition,
stateful set and the final patch of the conditions for the cluster controller; start, restore and rejoin for
the launcher; pods, claims and cache for Kubernetes. `WorkerAborts`, `PodRestarts`
and `LoseData` are the failures. A merge patch of the
conditions replaces the list, so it also writes back an old
`EtcdClusterInitialized`.

*Timing.* Nothing in the code makes a restore wait for reconciliations that
began before the pause, nor for the cache. Deleting volumes takes a while and
gives them the time. A reconciliation of a restore that finds the volumes on
their way out while the cache still knows the cluster as not paused, or another
controller is still at work, is *hasty*. The model allows it, `hasty` counts it
and the bound `MaxHasty` limits it in the runs. Every property but
`ReleasedWhenRestored` is stated without regard to it, and that one says that
haste is the only way to give back a cluster that is not restored.

*Abstractions.* The `EtcdRestore` is read up to date; so are the volume claims,
which the code lists from the cache: a claim that is gone but still listed makes
the deletion fail (`etcd_restore_controller.go:243`), and one retry more is all it
costs; a claim just created and not yet listed, which would be left alone, is
not considered. The backup found before the volumes are deleted is still there when the
launchers download it; users do not pause the cluster themselves; writes to etcd
are not modelled.

## ClusterLifecycle and ClusterTeardown

A `Cluster` has a finalizer for everything that must be removed with it. The
cluster controller (`SCM/kubernetes`) and the cloud controller (`SCM/cloud`) add
them, the API's delete handler adds two more and deletes the object, and then
`pkg/clusterdeletion` and the provider's `CleanUpCloudProvider` remove things and
finalizers until the API server drops the object.

*State.* `stored` and `cached` are the `Cluster` and its cached copy; `kube` and
`cloud` say where the two controllers stand, each with its own copy; `world` is
what exists outside the object; `services`, `balancers` and `events` are the load
balancers; `up` the API server of the user cluster.

*Actions.* One per call that changes something, in the order of the code. A
merge patch is not refused for an old copy and replaces the list of finalizers;
the API server refuses new finalizers on an object being deleted. The provider is
a table of `CloudProviders`: AWS, Azure, OpenStack, GCP and vSphere follow one
scheme, create, then record with a finalizer; delete, then remove the finalizer.

*Refinement.* `ClusterTeardown` says what all this amounts to: once the deletion
is noticed, a thing that is owed is removed only after what must go before it, and
a finalizer only after its thing. `ImplementsTeardown` maps the finalizers of the
stored object to the debts, and the phase "requested" to the time in which a
controller still acts on a copy from before the request. In that phase the
abstract specification lets finalizers get lost, because the code does: a patch
from an old copy replaces the list. Constraints are only asked to go, not awaited.

*Abstractions.* Objects other than the `Cluster` are read up to date, several
objects of one kind count as one, and users stop creating things (except volumes)
when they delete the cluster. A cluster with the one finalizer that OpenStack used
to have for all it created (`OldNetworkCleanupFinalizer`) is left out. Pausing and the limit on updates are left out.

## Ipam

`pkg/controller/user-cluster-controller-manager/ipam` gives each annotated machine
the first free address of the machine networks, where addresses in use are those
of the machines in its cache. After the `Update` its only worker polls until the
cache has the address. `stored` and `seen` are the machines and the cache,
`worker` the machine at work and the address chosen, `unsure` whether the
controller has once not learnt of its own write: the poll timed out, or the
answer to the `Update` was lost. The failures are those two, a restart, a conflict
and a refused call.

An address is a number and a byte has `Byte` values, so that the addresses the
code skips (last byte 0 or 255, the gateway) occur in a small network. That a
machine's annotation or a network cannot be parsed, which ends the reconciliation
with an error, is not modelled.

## ClusterUpdates

The update controller (`SCM/update`) moves `spec.version` along the automatic
updates of the version manager (`pkg/version`) and then the kubelets of the
machine deployments. The cluster controller writes the health and deploys the
version, unless too many clusters are being updated (`pkg/controller/util`). These
are counted by the condition `SeedResourcesUpToDate`, which a third controller sets.

*State.* `stored`, `cached`: version, health and condition of each `Cluster`;
`behind`: whose last change the cache has not seen; `queued`: the queue of each
controller, filled by watches only; `pc`, `copy`: the cluster controller between
writing the health and deploying; `deployed`, `running`, `rollout`, `kubelet`: the
control plane and the nodes.

*Actions.* One per outcome of a reconciliation; the cluster controller has two
steps. All controllers read the cache and patch blindly, and the wrapper may write
an old list of conditions back (`MaxWrites` times).

*Abstractions.* A version is its minor number, as in `EnsureVersionCompatible`,
and of these numbers only the order and the distance matter; a patch release is not told from another, so nothing is said about nodes that are
ahead by a patch release. Updates go up (`UpdateConstants`): the code does not
check that, the `updates.yaml` is trusted to. Minor versions are unsigned in the
code, which the model keeps. Users do not change the version: `spec.version` is
patched from an old copy, so an automatic update could replace a version the user
just chose. Clusters are not created, paused or deleted.

## Runs

| run | instance | shows |
| --- | --- | --- |
| `backup_backlog` | keep 1, no delete container, 4 backups, 4 instants, the cluster stays | the list stays sorted and bounded; 4 backups are the fewest that exceed the bound when the check is off by one |
| `backup_live` | keep 1, delete container, 2 backups, 1 failure, fair | the backup to keep stays stored, no job is forgotten, a completed backup is removed before it is forgotten, deletion ends, every backup finishes |
| `backup_cleanup` | one-shot, cleanup container, 3 failures, fair | the cleanup job comes last and deletion ends |
| `restore_lock` | 2 restores, 1 pod, no failure, fair | the annotation excludes, volumes disappear only during a restore, the cluster is never left paused, both restores end, each on its own backup |
| `restore_faults` | 1 restore, 3 pods, 1 hasty reconciliation, 1 failure | volumes and data when a call fails, the controller or a pod restarts, or a pod loses its data and joins again, and when the stateful set is recreated from an old copy: volumes disappear only during a restore, no old data survives it, and without haste the backup is there when it ends |
| `restore_live` | 1 restore, 1 pod, 1 failure, 1 foreign write of conditions, fair | the restore completes all the same |
| `lifecycle_teardown` | AWS, a load balancer, volumes, backup configs, constraints | the controllers implement `ClusterTeardown`, credentials go last, no volume is left |
| `lifecycle_live` | vSphere, nodes, 1 failure, fair | nodes go before the folder, and a requested deletion completes |
| `lifecycle_balancers` | AWS, a load balancer | refutes a comment, see below |
| `lifecycle_openstack` | OpenStack, 1 failure, fair | refutes the changelog, see below |
| `ipam_addresses` | 3 machines, 2 networks with one address each, 1 failure of any kind, fair | no address twice while the controller learns of its writes, none changes, nobody waits for ever |
| `updates_live` | 2 clusters, limit 1, 2 updates due, 1 foreign write of conditions, fair | kubelets stay behind, versions never go back, all updates complete |

*Bounds.* `MaxBackups`, `MaxTicks`, `MaxWrites`, `MaxHasty` and `MaxFaults` bound
how often something happens in a behaviour, `ClusterStays` leaves out the deletion
of the cluster in the largest run, and `MaxDue` bounds the updates that are due in
the beginning. `MaxHasty` is 0 in `restore_lock` and `restore_live`: after haste
liveness is not claimed, and the safety properties of `restore_lock` are proved with
it. Two backups with keep 1 are enough for a deletion and a reused name,
two restores for a conflict, three pods for a pod that loses its data while a
majority remains. In the run with two restores a single pod stands for the ring
(the code asks for at least two ready pods): the restores meet in the `Cluster` and
the claims, and not in the single pods. Three machines compete for two addresses,
so the networks are exhausted and become free again. Two updates due are either
two clusters that compete for the limit or one cluster with two updates in a row:
only the second lets a patch of the health from an old copy meet a newer version.
Both at once, or a failure with each, is beyond what TLC checks in minutes.

*Deadlock* is not checked: every system here may come to rest, when the resource
is gone, every restore is completed or every cluster up to date.

*Fairness.* Nothing forces users, clocks or failures to act.

- Backup, restore, lifecycle: weak, on the controllers, the caches, the jobs and
  pods. The work queue retries what failed, and Kubernetes runs what was created.
  Liveness of the backups is claimed only if the cluster does not stay paused,
  since the controller does nothing for a paused one. The queues of
  `ClusterLifecycle` are filled by events and requeues only.
- `Ipam`: strong for each machine in the queue, because one worker serves all of
  them and the queue is first in, first out.
- `ClusterUpdates`: some step is taken as long as there is one, and the caches
  catch up. No worker needs more. Without the second assumption the cluster
  controller may deploy an old and a new version in turn for ever.

*Mutants.* For each property of a passing run a changed definition, next to the
one it changes, stands for a plausible mistake in the code and violates the
property.

## What the code does and its comments do not say

Two disagreements have a run.

- `lifecycle_balancers`. `checkIfAllLoadbalancersAreGone`
  (`pkg/clusterdeletion/lb.go:162`) returns `deletedLoadBalancers.Len() > 0`, which
  is true when some are left. The finalizer goes while the load balancer exists.
- `lifecycle_openstack`. If the call that removes the finalizer of the network
  fails, every retry looks for a network that is gone and fails. `CHANGELOG.md:2205`
  says "Openstack: made cluster resource cleanup idempotent". The theorems about
  `ClusterLifecycle` therefore leave OpenStack out.

The following TLC showed while the models were built. No run is kept for them, and
the properties above are stated so that they hold in spite of them.

- *Backup.* A job created a moment ago may be missing from the cache; the
  controller takes it for deleted and drops the backup, and the job uploads
  afterwards. Nothing removes that upload. In the same way a missing cleanup job
  counts as completed, and the finalizer goes before the cleanup has run.
- *Backup.* A backup whose job was created but not recorded is dropped as "hasn't
  even started yet" from a resource being deleted, and its upload stays. A
  resource deleted between the creation of its first job and the save of the
  finalizer is gone at once, and the upload stays.
- *Restore.* The annotation is "used for mutual exclusion, i.e. to make sure that
  not more than one EtcdRestore resource is active for the cluster at the same
  time" (`SCM/etcdrestore/etcd_restore_controller.go:57`). It is cleared before the
  restore is marked completed, so a second one starts while the first still counts
  as rebuilding. If the call that marks it fails, both stay in that phase, and the
  launchers restore nothing while two restores rebuild: neither ends. So
  `RestoresComplete` fails for two restores and one failure.
- *Restore.* A restore retried from an old copy of the cluster clears the
  annotation of the one that took over: `DestroysOnlyWithLock` and
  `PausedOnlyByRestore` are claimed without failures only.
- *Restore.* A hasty restore may give the cluster back while there is no etcd, or
  an empty one. The check under the comment "wait until cluster controller has
  recreated the etcd cluster and etcd becomes healthy again"
  (`etcd_restore_controller.go:281`) is of `EtcdClusterInitialized` only, and a
  reconciliation that read the cluster before the pause may write its list of
  conditions after the reset and make it true again, or recreate the stateful set
  whose launchers then start under the old condition. Also, the patch that resets
  the condition is sent only if the copy is paused, and a copy from a cache of
  before the pause is not. Hence `hasty > 0` in `ReleasedWhenRestored`.
- *Restore.* If a hasty restore fails just after it recorded `StsRebuilding` and is
  retried from a cached cluster of before the pause, it sends no patch, reads the
  old condition as true, clears the annotation and completes: the cluster stays
  paused with nobody at work on it. Hence `PausedOnlyByRestore` is
  claimed without failures only, for a single restore too.
- *Lifecycle.* A vSphere folder created before a crash and not recorded has no
  finalizer. If the cluster is deleted next, the folder stays, although the
  comment at `pkg/provider/cloud/vsphere/provider.go:257` says otherwise.
- *Ipam.* "Block until the change is in the lister to make sure we don't hand out
  an IP twice" (`ipam_controller.go:145`) holds for 60 seconds; after the timeout,
  or a lost answer, the next machine may get the same address. Hence the
  condition in `UniqueWhenSure`.
- *Updates.* "This ensures that not too many cluster updates are running at the
  same time" (`pkg/controller/util/util.go:115`) does not hold strictly: the limit is
  checked against a cache, and the condition it counts changes only after the
  deployment did.
- *Updates.* Nodes may be updated before the pods of the control plane run the new
  version: the health that was invalidated is written as up again before anything
  is deployed. The update controller says so itself ("This is not really safe").
  `NodesNotAhead` is about `spec.version`, not about the pods.
- *Updates.* The deployed version may go back for a moment, when a reconciliation
  reads a cache older than what the one before got as the answer to its patch.
  `NeverBack` is about `spec.version`.

## Proofs

`EtcdBackupProofs` proves, for every number to keep, every configuration of the
containers and every value of the bounds (assumption `BackupConstants`):

| theorem | states |
| --- | --- |
| `TypeCorrect` | `Spec => []TypeOK` |
| `SchedulingOrder` | `Spec => []ScheduledInOrder` |
| `BacklogBounded` | `Spec => []TrackedBackupsBounded` |
| `JobsTracked` | `Spec => []NoForgottenJobs` |
| `BackupsKept` | `Spec => []KeptBackupsStored` |

None of the invariants is inductive alone, because the next `Update` may write
any copy the reconciliation holds. Three strengthenings build on each other.

- `ListInv`: the copy is as sound as the resource (sorted, bounded, scheduled no
  later than now), so saving it is safe.
- `JobInv`: a running reconciliation tracks no more than the resource does, knows
  that the resource lives if it does, and an entry it dropped has no jobs left;
  so a dropped entry whose save failed is dropped again, and one that was saved
  leaves nothing behind.
- `RetentionInv`: copy and resource agree on the phase of what both track, apart
  from what the pending save is about; whatever a delete job exists for, or will,
  may be deleted by the resource's own count; an upload not yet recorded is there.
  The lemma `EnoughLeft` carries it over dropped entries: above the newest dropped
  completed backup there are as many completed ones as are to be kept, so dropping
  never makes an older backup one to keep.

Each is shown to hold initially and to be preserved by one step per action;
what an action does to the copy is stated once, in lemmas on its effect.

`EtcdRemovalProofs` adds, under the same assumption:

| theorem | states |
| --- | --- |
| `CleanupIsLast` | `Spec => []CleanupComesLast` |
| `RemovedFirst` | `Spec => RemovedBeforeForgotten` |

It sorts the steps by what they do to the copy: they save it, abort, change the
entries they look at, append one, or happen elsewhere. Three more strengthenings
rest on this.

- `CopyInv`: also of a resource that is being deleted, the copy is the resource but
  for what the pending save is about, and an entry is missing from it only on the
  way to that save. So when the copy tracks nothing and the cleanup job is created,
  the resource tracks nothing.
- `NamesInv`: no two backups that are tracked or still have a job share a name in
  the backend, so removing one backup never removes the upload of another, and a
  job that is still running uploads under a name of its own.
- `RemovalInv`: an entry whose deletion is recorded as completed, in the resource or
  the copy, belongs to a backup whose upload is over and which is not in the
  backend. This is what makes forgetting it safe, also when the save of the removal
  is repeated after a failure.

`EtcdRestoreProofs`, for any restores, pods, hasty reconciliations and foreign
writes of conditions, from `RestoreConstants`:

| theorem | states |
| --- | --- |
| `RestoreTypes` | `Spec => []TypeOK`, whatever fails |
| `RestoresExclude` | `Spec => []DestroysOnlyWithLock` if `MaxFaults = 0` |
| `PausesEnd` | `Spec => []PausedOnlyByRestore` if `MaxFaults = 0` |
| `VolumesStay` | `Spec => VolumesKept`, whatever fails |
| `OldDataGoes` | `Spec => []OldDataGone`, whatever fails |

`MaxFaults` counts failed calls, restarted pods and lost data, so the second
and the third say nothing about behaviours with any of them. In `IInv`, `Lock` says that the annotation stays with a
restore that has begun, and that a cached copy naming a restore is true or the
restore is done; `Phases` ties phase and finalizer to the worker; `Pausing` says who
knows of the pause; `Removing` that volumes are terminating only for a restore
that waits for them. `VolumeInv` keeps of this what no failure can break: the
recorded phase follows the worker, and the finalizer keeps a restore that is at
work, so whoever deletes volumes is in the phase `Started`, and a volume that is
being removed has been marked in that phase. `DataInv` adds that a pod without a
volume neither runs nor has data, so all data is gone at the moment a restore
finds no claim, and that from then on no old data is anywhere: a launcher fills
its directory from a backup, from nothing, or from a ring, and a ring runs on what
some pod has. This needs nothing of the copies of the `Cluster`, which is why
neither haste nor failures matter.

`EtcdReleaseProofs`, under the same assumption:

| theorem | states |
| --- | --- |
| `RestoredFirst` | `Spec => ReleasedWhenRestored` if `MaxFaults = 0` |

`ReleaseInv` follows a restore through its work. The volumes are all there when it
begins (`Whole`); a reconciliation that finds none of them began when nobody worked
on a copy from before the pause (`Clearing`), so nobody recreates the stateful set;
until the condition is reset, all data directories are empty (`Emptied`) and no copy
of the condition names this restore (`Unnamed`), so that the reset is not skipped as
already done; and after it the directories hold this backup or nothing, and the
condition is true in no copy that is from after the reset unless all hold it
(`Refilling`). `Clearing` is what haste breaks, so the invariant is `HasteInv`:
`ReleaseInv` holds as long as there was no haste, and `hasty` never falls back to 0.
The theorem thus covers the behaviours with haste as well, and says of them that
the harm, if any, comes after the first hasty reconciliation. With failures and
several restores the property is false: the restore retried from an old copy,
above, clears the annotation while the pods hold the other's backup. With failures
and one restore the runs `restore_faults` and `restore_live` show it.

`ClusterLifecycleProofs` and `ClusterTeardownProofs`, for any services, recorded
resources and number of failures and every provider but OpenStack:

| theorem | states |
| --- | --- |
| `LifecycleTypes` | `Spec => []TypeOK` |
| `CredentialsGoLast` | `Spec => []CredentialsLast` |
| `TeardownImplemented` | `Spec => ImplementsTeardown` |
| `VolumesGone` | `Spec => NoVolumesLeft` |

The key is `Current`: a copy made after the request has at least the stored
finalizers, because from then on the stored list only shrinks. So a patch from
such a copy cannot bring a finalizer back, and what a cleanup concludes from
finalizers its copy lacks is true of the stored object. `Fits` states what the
cleanup has established at each of its steps. `RecordOK` adds that a resource with
a finalizer is recorded, so that no resource is created again during the deletion.
The refinement is proved per actor: what a step makes of the object and its copies,
then that things turn and debts are written off as `ClusterTeardown` allows.

`IpamProofs`, for any machines, networks and failures: `IpamTypes`
(`[]TypeOK`, which includes that a worker past the choice has an address), `NoIPTwice` (`[]UniqueWhenSure`) and `AddressesKept` (`IPsKept`). The
invariant says that the cache shows a past state of every machine, and, while
the controller is sure, that it holds every address but the one just written.

`ClusterUpdatesProofs`, for any clusters, limit, versions and updates that go up:
`UpdateTypes` (`[]TypeOK`), `NodesStayBehind` (`[]NodesNotAhead`) and
`VersionsGoForward` (`NeverBack`). The invariant: the stored version is the cached
one or its one automatic update, so a repeated patch from the old copy writes what
is stored already; and kubelets are no newer than the *cached* version.

Every safety property of a passing run is a theorem, within the restrictions
named above: no failures for three theorems about restores, no OpenStack in the
life of a cluster. Only model-checked is `ReleasedWhenRestored` with failures, and
every liveness property (`DeletionCompletes`, `BackupsFinish`, `LockReleased`,
`RestoresComplete`, `NobodyForgotten`, `UpdatesComplete`), since the prover does not
treat fairness.

## Plan

1. Composition of `EtcdBackup` and `EtcdRestore`: retention may remove the backup
   that a restore is about to download. `EtcdLauncher`: membership, quorum, dead
   members.
2. Deletion under the limit on updates: a cluster being deleted waits for it too.
3. Master side: seed lifecycle, synchronisation to seeds with an abstract
   specification of eventual equality that several syncs implement.
4. Addons; the load balancer updater of the nodeport proxy; pure algorithms (yaml
   editing, possible updates) against references.

## Not modelled

Most of the code: the models cover the protocols named above, a small part of the
repository. Rendering of Kubernetes objects, most of the REST API, provider
clients, installer, dashboards and command line tools are data and I/O without a
protocol of their own. The other controllers of the inventory are planned above or
listed, with the reason, in `PROJECT.json`.

Hazards of the modelled parts that no property covers are in `PROJECT.json` with a
note. It leaves out four more:

- the `EtcdBackupConfig` is itself read from a cache
  (`etcd_backup_controller.go:177`), and the model reads it up to date;
- re-creating a lost delete job asks for no requeue (`:559`), and the model relies on
  the periodic resync;
- a pod that restarts after it restored its data restores it again and forgets what
  its member acknowledged (`cmd/etcd-launcher/main.go:573`), and writes to etcd are
  not modelled;
- the address of a machine being deleted is free at once (`ipam_controller.go:193`)
  while its virtual machine may still run.
