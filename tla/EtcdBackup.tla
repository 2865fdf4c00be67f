----------------------------- MODULE EtcdBackup -----------------------------
(***************************************************************************)
(* The etcd backup controller of the seed controller manager               *)
(* (pkg/controller/seed-controller-manager/etcdbackup), reconciling ONE    *)
(* EtcdBackupConfig, together with the batch Jobs it starts and the        *)
(* backend (S3) those jobs write to.                                       *)
(*                                                                         *)
(* A call of Reconcile works on a copy `mem' of the resource and writes it *)
(* back with Update, which the API server refuses when the resource was    *)
(* written since it was read (`fresh').  Jobs are created and deleted      *)
(* between two Updates, so a reconciliation that stops in between (a       *)
(* conflict, an API error, a restart of the controller) leaves jobs behind *)
(* that the resource does not record.                                      *)
(*                                                                         *)
(* Abstractions.  A backup is identified by the position at which it was   *)
(* appended to status.lastBackups: the list is only appended to and        *)
(* filtered, so list order is the order of these numbers, and the random   *)
(* job names are one to one with them.  Time is the number of scheduled    *)
(* (cron) instants that have passed.  Whether a finished job's retention   *)
(* time is over is a free choice while the resource is live, because the   *)
(* schedule may be arbitrarily slow or fast compared with it; when the     *)
(* resource is being deleted the retention time is zero.                   *)
(***************************************************************************)
EXTENDS Integers, FiniteSets

CONSTANTS
  SpecKeep,     \* spec.keep
  KeepIsSet,    \* spec.keep is not nil
  OneShot,      \* spec.schedule is empty
  HasDelete,    \* the controller runs with a delete container
  HasCleanup,   \* the controller runs with a cleanup container
  ClusterStays, \* bound: the Cluster itself is not deleted in a behaviour
  MaxBackups,   \* bound: backups scheduled in a behaviour
  MaxTicks,     \* bound: scheduled instants in a behaviour
  MaxFaults     \* bound: failures, conflicts, lost jobs, pauses in a behaviour

ASSUME BackupConstants ==
  /\ SpecKeep \in Int
  /\ {KeepIsSet, OneShot, HasDelete, HasCleanup, ClusterStays} \subseteq BOOLEAN
  /\ {MaxBackups, MaxTicks, MaxFaults} \subseteq Nat

VARIABLES
  config,          \* the EtcdBackupConfig in the API server
  sched,           \* the (immutable) scheduled time of each backup
  nextId,          \* position of the next backup to be scheduled
  pc,              \* where the reconciliation stands
  mem,             \* its copy of the resource
  fresh,           \* the resource was not written since mem was read
  jobs,            \* the backup job of each backup
  deleteJobs,      \* the backup delete job of each backup
  cleanupJob,      \* the cleanup job
  store,           \* names of the backups in the backend
  tick,            \* the latest scheduled instant that has passed
  clusterDeleting, \* the cluster has a deletion timestamp
  paused,          \* spec.pause of the cluster
  faults           \* failures so far

controllerVars == <<pc, mem, fresh>>
apiVars == <<config, sched, nextId>>
jobVars == <<jobs, deleteJobs, cleanupJob, store>>
envVars == <<tick, clusterDeleting, paused, faults>>
vars == <<controllerVars, apiVars, jobVars, envVars>>

Ids == 1 .. MaxBackups
Ticks == 0 .. MaxTicks

DefaultKeptBackupsCount == 20
MaxKeptBackupsCount == 50

GetKeptBackupsCount ==
  IF ~KeepIsSet THEN DefaultKeptBackupsCount
  ELSE IF SpecKeep <= 0 THEN 1
  ELSE IF SpecKeep > MaxKeptBackupsCount THEN MaxKeptBackupsCount
  ELSE SpecKeep

-----------------------------------------------------------------------------
(* BackupStatus.  "untracked" marks a position that is not (or no longer)  *)
(* in status.lastBackups, "" is the unset phase of the source.             *)
BackupStatus ==
  [phase : {"untracked", "", "Running", "Completed", "Failed"},
   deletePhase : {"", "Running", "Completed"}]

Untracked == [phase |-> "untracked", deletePhase |-> ""]

EtcdBackupConfig ==
  [state : {"live", "deleting", "gone"},
   finalizer : BOOLEAN,
   schedulingActive : {"", "True", "False"},
   cleanupRunning : BOOLEAN,
   backups : [Ids -> BackupStatus]]

NewConfig ==
  [state |-> "live", finalizer |-> FALSE, schedulingActive |-> "",
   cleanupRunning |-> FALSE, backups |-> [i \in Ids |-> Untracked]]

(* A Job: created but not yet in the informer cache ("new"), known to the  *)
(* controller and running, its container done with its work ("stored"),    *)
(* and its two final conditions.                                           *)
JobState == {"none", "new", "active", "stored", "complete", "failed"}

(* client.Get of a job answers from the cache. *)
Found(job) == job \notin {"none", "new"}

(* client.Create, with AlreadyExists tolerated by every caller. *)
Created(js, S) ==
  [i \in Ids |-> IF i \in S /\ js[i] = "none" THEN "new" ELSE js[i]]

(* client.Delete, with NotFound tolerated by every caller. *)
Deleted(js, S) == [i \in Ids |-> IF i \in S THEN "none" ELSE js[i]]

(* The jobs whose creation succeeds when a loop over due stops early. *)
Prefixes(due) ==
  {done \in SUBSET due : \A i \in done, j \in due : j < i => j \in done}

Tracked(c) == {i \in Ids : c.backups[i].phase # "untracked"}

(* Job names carry a timestamp only if there is a schedule. *)
BackupName(i) == IF OneShot THEN 0 ELSE sched[i]

-----------------------------------------------------------------------------
Init ==
  /\ config = NewConfig
  /\ sched = [i \in Ids |-> 0]
  /\ nextId = 1
  /\ pc = "idle"
  /\ mem = NewConfig
  /\ fresh = FALSE
  /\ jobs = [i \in Ids |-> "none"]
  /\ deleteJobs = [i \in Ids |-> "none"]
  /\ cleanupJob = "none"
  /\ store = {}
  /\ tick = 0
  /\ clusterDeleting = FALSE
  /\ paused = FALSE
  /\ faults = 0

(* The reconciliation ends; its copy of the resource is dropped. *)
Return ==
  /\ pc' = "idle"
  /\ mem' = NewConfig
  /\ fresh' = FALSE

(* The API server removes an object that is being deleted as soon as it    *)
(* has no finalizer.                                                       *)
Persisted(c) ==
  IF c.state = "deleting" /\ ~c.finalizer THEN [c EXCEPT !.state = "gone"] ELSE c

(* A failure, of which there are at most MaxFaults in a behaviour. *)
Fault == faults < MaxFaults /\ faults' = faults + 1

(* client.Update of m: refused if the resource was written since, in which *)
(* case the reconciliation ends and is retried; otherwise goes on at next. *)
Update(m, next) ==
  \/ /\ fresh
     /\ config' = Persisted(m)
     /\ IF next = "idle" THEN Return ELSE pc' = next /\ mem' = m /\ fresh' = TRUE
  \/ /\ ~fresh
     /\ Return
     /\ UNCHANGED config

-----------------------------------------------------------------------------
(* Reconcile: fetch the resource, and do nothing if the cluster is paused. *)
Reconcile ==
  /\ pc = "idle"
  /\ config.state # "gone"
  /\ ~paused
  /\ pc' = "schedule"
  /\ mem' = config
  /\ fresh' = TRUE
  /\ UNCHANGED <<apiVars, jobVars, envVars>>

SchedulingAllowed == mem.state = "live" /\ ~clusterDeleting

(* mutant *)
TooManyBackupsLate == Cardinality(Tracked(mem)) > 2 * GetKeptBackupsCount + 1

TooManyBackups == Cardinality(Tracked(mem)) > 2 * GetKeptBackupsCount

WantedSchedulingActive == IF TooManyBackups THEN "False" ELSE "True"

(* mutant: the instant of the last backup itself counts as pending. *)
BackupPendingInclusive ==
  IF OneShot THEN Tracked(mem) = {}
  ELSE /\ tick > 0
       /\ \A i \in Tracked(mem) :
            (\A j \in Tracked(mem) : j <= i) => sched[i] <= tick

(* A scheduled instant lies between the last backup's scheduled time (or   *)
(* the creation of the resource, instant 0) and now.                       *)
BackupPending ==
  IF OneShot THEN Tracked(mem) = {}
  ELSE /\ tick > 0
       /\ \A i \in Tracked(mem) :
            (\A j \in Tracked(mem) : j <= i) => sched[i] < tick

(* ensurePendingBackupIsScheduled, the update of the condition. *)
SetSchedulingActive ==
  /\ pc = "schedule"
  /\ SchedulingAllowed
  /\ mem.schedulingActive # WantedSchedulingActive
  /\ Update([mem EXCEPT !.schedulingActive = WantedSchedulingActive],
            IF TooManyBackups THEN "start" ELSE "schedule")
  /\ UNCHANGED <<sched, nextId, jobVars, envVars>>

(* ensurePendingBackupIsScheduled, once the condition is as it should be:  *)
(* append a backup for the latest scheduled instant, if it has none.       *)
ScheduleNow ==
  /\ SchedulingAllowed
  /\ mem.schedulingActive = WantedSchedulingActive
  /\ ~TooManyBackups
  /\ BackupPending
  /\ nextId \in Ids

EnsurePendingBackupIsScheduled ==
  /\ pc = "schedule"
  /\ SchedulingAllowed => mem.schedulingActive = WantedSchedulingActive
  /\ IF ScheduleNow
     THEN /\ Update([mem EXCEPT !.backups[nextId].phase = ""], "start")
          /\ IF fresh
             THEN sched' = [sched EXCEPT ![nextId] = tick] /\ nextId' = nextId + 1
             ELSE UNCHANGED <<sched, nextId>>
     ELSE /\ pc' = "start"
          /\ UNCHANGED <<mem, fresh, apiVars>>
  /\ UNCHANGED <<jobVars, envVars>>

-----------------------------------------------------------------------------
(* mutant: the state of the job is recorded as the phase. *)
PhaseFromJobState(i) == IF Found(jobs[i]) THEN jobs[i] ELSE "Failed"

(* mutant: a job that is gone is taken to be running. *)
PhaseFromJobPatient(i) ==
  CASE jobs[i] = "complete"    -> "Completed"
    [] jobs[i] = "failed"      -> "Failed"
    [] OTHER                   -> "Running"

(* startPendingBackupJobs, a backup marked as running: what its job says.  *)
PhaseFromJob(i) ==
  CASE ~Found(jobs[i])         -> "Failed"
    [] jobs[i] = "complete"    -> "Completed"
    [] jobs[i] = "failed"      -> "Failed"
    [] OTHER                   -> "Running"

BackupsToStart ==
  {i \in Ids : mem.backups[i].phase = "" /\ mem.state = "live"}

(* startPendingBackupJobs: follow the running jobs and create the job of   *)
(* every backup that has none.  The loop may stop at a failing Create.     *)
StartPendingBackupJobs ==
  /\ pc = "start"
  /\ jobs' = Created(jobs, BackupsToStart)
  /\ mem' = [mem EXCEPT
               !.backups = [i \in Ids |->
                  IF i \in BackupsToStart THEN [mem.backups[i] EXCEPT !.phase = "Running"]
                  ELSE IF mem.backups[i].phase = "Running"
                       THEN [mem.backups[i] EXCEPT !.phase = PhaseFromJob(i)]
                       ELSE mem.backups[i]],
               !.finalizer = @ \/ BackupsToStart # {}]
  /\ pc' = "startSave"
  /\ UNCHANGED <<fresh, apiVars, deleteJobs, cleanupJob, store, envVars>>

StartPendingBackupJobsFails ==
  /\ pc = "start"
  /\ Fault
  /\ \E done \in Prefixes(BackupsToStart) \ {BackupsToStart} :
       jobs' = Created(jobs, done)
  /\ Return
  /\ UNCHANGED <<apiVars, deleteJobs, cleanupJob, store, tick, clusterDeleting, paused>>

SaveStartedBackups ==
  /\ pc = "startSave"
  /\ Update(mem, "delete")
  /\ UNCHANGED <<sched, nextId, jobVars, envVars>>

-----------------------------------------------------------------------------
KeepCount == IF mem.state = "deleting" THEN 0 ELSE GetKeptBackupsCount

(* The completed backups met before i by a loop from the newest backup on. *)
NewerCompleted(c, i) == {j \in Ids : j > i /\ c.backups[j].phase = "Completed"}

(* mutant: failed backups count as kept ones. *)
BackupsToDeleteFailedKept ==
  IF OneShot /\ mem.state = "live" THEN {}
  ELSE {i \in Ids :
          /\ mem.backups[i].deletePhase = ""
          /\ \/ mem.backups[i].phase = "Failed"
             \/ /\ mem.backups[i].phase = "Completed"
                /\ Cardinality({j \in Tracked(mem) : j > i}) + 1 > KeepCount}

BackupsToDelete ==
  IF OneShot /\ mem.state = "live" THEN {}
  ELSE {i \in Ids :
          /\ mem.backups[i].deletePhase = ""
          /\ \/ mem.backups[i].phase = "Failed"
             \/ /\ mem.backups[i].phase = "Completed"
                /\ Cardinality(NewerCompleted(mem, i)) + 1 > KeepCount}

(* createBackupDeleteJob for the backups in S. *)
DeleteStarted(c, S) ==
  [c EXCEPT !.backups = [i \in Ids |->
     IF i \in S
     THEN [c.backups[i] EXCEPT
             !.deletePhase = IF HasDelete THEN "Running" ELSE "Completed"]
     ELSE c.backups[i]]]

(* startPendingBackupDeleteJobs; nothing is written if nothing is due. *)
StartPendingBackupDeleteJobs ==
  /\ pc = "delete"
  /\ deleteJobs' = IF HasDelete THEN Created(deleteJobs, BackupsToDelete) ELSE deleteJobs
  /\ mem' = DeleteStarted(mem, BackupsToDelete)
  /\ pc' = IF BackupsToDelete = {} THEN "update" ELSE "deleteSave"
  /\ UNCHANGED <<fresh, apiVars, jobs, cleanupJob, store, envVars>>

(* The loop over the backups to delete goes from the newest to the oldest. *)
StartPendingBackupDeleteJobsFails ==
  /\ pc = "delete"
  /\ HasDelete
  /\ Fault
  /\ \E rest \in Prefixes(BackupsToDelete) \ {{}} :
       deleteJobs' = Created(deleteJobs, BackupsToDelete \ rest)
  /\ Return
  /\ UNCHANGED <<apiVars, jobs, cleanupJob, store, tick, clusterDeleting, paused>>

SaveStartedDeletes ==
  /\ pc = "deleteSave"
  /\ Update(mem, "update")
  /\ UNCHANGED <<sched, nextId, jobVars, envVars>>

RunningDeletes == {i \in Ids : mem.backups[i].deletePhase = "Running"}

(* mutant: a failed delete job is left alone. *)
FailedDeletesIgnored == {}

FailedDeletes == {i \in RunningDeletes : deleteJobs[i] = "failed"}
LostDeletes == {i \in RunningDeletes : ~Found(deleteJobs[i])}

(* mutant: a failed delete job ends the deletion, too. *)
DeletesDoneEitherWay == {i \in RunningDeletes : deleteJobs[i] \in {"complete", "failed"}}

DeletesDone == {i \in RunningDeletes : deleteJobs[i] = "complete"}

(* updateRunningBackupDeleteJobs: a lost or failed delete job is started   *)
(* again, under the same name, until one completes.                        *)
UpdateRunningBackupDeleteJobs ==
  /\ pc = "update"
  /\ deleteJobs' = Created(Deleted(deleteJobs, FailedDeletes), FailedDeletes \cup LostDeletes)
  /\ mem' = [mem EXCEPT !.backups = [i \in Ids |->
               IF i \in DeletesDone
               THEN [mem.backups[i] EXCEPT !.deletePhase = "Completed"]
               ELSE mem.backups[i]]]
  /\ pc' = "updateSave"
  /\ UNCHANGED <<fresh, apiVars, jobs, cleanupJob, store, envVars>>

(* The loop stops at the Delete or at the Create of one of the jobs. *)
UpdateRunningBackupDeleteJobsFails ==
  /\ pc = "update"
  /\ Fault
  /\ \E removed, done \in Prefixes(FailedDeletes \cup LostDeletes) :
       /\ done \subseteq removed
       /\ \A i, j \in removed \ done : i = j
       /\ done # FailedDeletes \cup LostDeletes
       /\ deleteJobs' = Created(Deleted(deleteJobs, removed \cap FailedDeletes), done)
  /\ Return
  /\ UNCHANGED <<apiVars, jobs, cleanupJob, store, tick, clusterDeleting, paused>>

SaveUpdatedDeletes ==
  /\ pc = "updateSave"
  /\ Update(mem, "clean")
  /\ UNCHANGED <<sched, nextId, jobVars, envVars>>

-----------------------------------------------------------------------------
(* deleteFinishedBackupJobs.  expiredJobs and expiredDeletes are the       *)
(* finished jobs older than their retention time, which is zero when the   *)
(* resource is being deleted and otherwise longer than the informer lag.   *)
FinishedBackups == {i \in Ids : mem.backups[i].phase \in {"Completed", "Failed"}}
FinishedDeletes == {i \in Ids : mem.backups[i].deletePhase = "Completed"}

Expired(finished, js) ==
  IF mem.state = "deleting" THEN {finished}
  ELSE SUBSET {i \in finished : js[i] # "new"}

NeverStarted ==
  {i \in Ids : mem.state = "deleting" /\ mem.backups[i].phase = ""}

(* mutant: a backup is dropped when one of its jobs is. *)
DroppedEarly(expiredJobs, expiredDeletes) ==
  NeverStarted \cup expiredJobs \cup expiredDeletes

(* The entries that leave the status: both their jobs are deleted. *)
Dropped(expiredJobs, expiredDeletes) ==
  NeverStarted \cup (expiredJobs \cap expiredDeletes)

DeleteFinishedBackupJobs ==
  /\ pc = "clean"
  /\ \E expiredJobs \in Expired(FinishedBackups, jobs),
        expiredDeletes \in Expired(FinishedDeletes, deleteJobs) :
       LET dropped == Dropped(expiredJobs, expiredDeletes)
       IN /\ jobs' = Deleted(jobs, {i \in expiredJobs : Found(jobs[i])})
          /\ deleteJobs' = Deleted(deleteJobs, {i \in expiredDeletes : Found(deleteJobs[i])})
          /\ mem' = [mem EXCEPT !.backups = [i \in Ids |->
                       IF i \in dropped THEN Untracked ELSE mem.backups[i]]]
          /\ pc' = IF dropped = {} THEN "finalize" ELSE "cleanSave"
  /\ UNCHANGED <<fresh, apiVars, cleanupJob, store, envVars>>

(* The loop stops at backup n, possibly after its backup job was deleted. *)
DeleteFinishedBackupJobsFails ==
  /\ pc = "clean"
  /\ Fault
  /\ \E expiredJobs \in Expired(FinishedBackups, jobs),
        expiredDeletes \in Expired(FinishedDeletes, deleteJobs),
        n \in Ids :
       \E m \in {n - 1, n} :
         /\ jobs' = Deleted(jobs, {i \in expiredJobs : i <= m /\ Found(jobs[i])})
         /\ deleteJobs' = Deleted(deleteJobs,
                                  {i \in expiredDeletes : i < n /\ Found(deleteJobs[i])})
  /\ Return
  /\ UNCHANGED <<apiVars, cleanupJob, store, tick, clusterDeleting, paused>>

SaveDroppedBackups ==
  /\ pc = "cleanSave"
  /\ Update(mem, "finalize")
  /\ UNCHANGED <<sched, nextId, jobVars, envVars>>

-----------------------------------------------------------------------------
NeedsCleanup == HasCleanup /\ ~HasDelete

(* mutant: the early return is missing. *)
FinalizationDueAlways == TRUE

(* mutant: the remaining backups are not checked. *)
FinalizationDueEarly == mem.state = "deleting"

(* handleFinalization does nothing before the last backup is dropped. *)
FinalizationDue == mem.state = "deleting" /\ Tracked(mem) = {}

(* mutant: a failed cleanup job is not started again. *)
CleanupJobAfterNoRestart ==
  CASE ~NeedsCleanup                                      -> cleanupJob
    [] NeedsCleanup /\ ~mem.cleanupRunning                ->
         IF cleanupJob = "none" THEN "new" ELSE cleanupJob
    [] NeedsCleanup /\ mem.cleanupRunning                 ->
         IF cleanupJob = "complete" THEN "none" ELSE cleanupJob

(* handleFinalization: the job that cleans up after the last backup, and   *)
(* whether the finalizer may be removed.                                   *)
CleanupJobAfter ==
  CASE ~NeedsCleanup                                      -> cleanupJob
    [] NeedsCleanup /\ ~mem.cleanupRunning                ->
         IF cleanupJob = "none" THEN "new" ELSE cleanupJob
    [] NeedsCleanup /\ mem.cleanupRunning                 ->
         CASE cleanupJob = "complete" -> "none"
           [] cleanupJob = "failed"   -> "new"
           [] OTHER                   -> cleanupJob

CanRemoveFinalizer ==
  \/ ~NeedsCleanup
  \/ mem.cleanupRunning /\ (~Found(cleanupJob) \/ cleanupJob = "complete")

HandleFinalization ==
  /\ pc = "finalize"
  /\ IF ~FinalizationDue
     THEN Return /\ UNCHANGED cleanupJob
     ELSE /\ cleanupJob' = CleanupJobAfter
          /\ mem' = [mem EXCEPT !.cleanupRunning = @ \/ NeedsCleanup,
                                !.finalizer = @ /\ ~CanRemoveFinalizer]
          /\ pc' = "finalizeSave"
          /\ UNCHANGED fresh
  /\ UNCHANGED <<apiVars, jobs, deleteJobs, store, envVars>>

(* A failed cleanup job is deleted, and creating it again fails. *)
HandleFinalizationFails ==
  /\ pc = "finalize"
  /\ FinalizationDue
  /\ NeedsCleanup /\ mem.cleanupRunning /\ cleanupJob = "failed"
  /\ Fault
  /\ cleanupJob' = "none"
  /\ Return
  /\ UNCHANGED <<apiVars, jobs, deleteJobs, store, tick, clusterDeleting, paused>>

SaveFinalization ==
  /\ pc = "finalizeSave"
  /\ Update(mem, "idle")
  /\ UNCHANGED <<sched, nextId, jobVars, envVars>>

-----------------------------------------------------------------------------
(* The environment: everything below happens outside the controller.       *)

(* An API call fails or the controller restarts: the copy is lost. *)
ReconcileAborts ==
  /\ pc # "idle"
  /\ Fault
  /\ Return
  /\ UNCHANGED <<apiVars, jobVars, tick, clusterDeleting, paused>>

(* Somebody else writes the resource (a label, an annotation). *)
ConfigTouched ==
  /\ fresh
  /\ config.state # "gone"
  /\ Fault
  /\ fresh' = FALSE
  /\ UNCHANGED <<pc, mem, apiVars, jobVars, tick, clusterDeleting, paused>>

(* A user, or the deletion of the cluster, deletes the resource. *)
DeleteConfig ==
  /\ config.state = "live"
  /\ config' = Persisted([config EXCEPT !.state = "deleting"])
  /\ fresh' = FALSE
  /\ UNCHANGED <<pc, mem, sched, nextId, jobVars, envVars>>

DeleteCluster ==
  /\ ~ClusterStays
  /\ ~clusterDeleting
  /\ clusterDeleting' = TRUE
  /\ UNCHANGED <<controllerVars, apiVars, jobVars, tick, paused, faults>>

PauseCluster ==
  /\ ~paused
  /\ Fault
  /\ paused' = TRUE
  /\ UNCHANGED <<controllerVars, apiVars, jobVars, tick, clusterDeleting>>

UnpauseCluster ==
  /\ paused
  /\ paused' = FALSE
  /\ UNCHANGED <<controllerVars, apiVars, jobVars, tick, clusterDeleting, faults>>

Tick ==
  /\ tick < MaxTicks
  /\ tick' = tick + 1
  /\ UNCHANGED <<controllerVars, apiVars, jobVars, clusterDeleting, paused, faults>>

(* The informer delivers the jobs created so far. *)
Seen(job) == IF job = "new" THEN "active" ELSE job

JobCacheSync ==
  /\ "new" \in {jobs[i] : i \in Ids} \cup {deleteJobs[i] : i \in Ids} \cup {cleanupJob}
  /\ jobs' = [i \in Ids |-> Seen(jobs[i])]
  /\ deleteJobs' = [i \in Ids |-> Seen(deleteJobs[i])]
  /\ cleanupJob' = Seen(cleanupJob)
  /\ UNCHANGED <<controllerVars, apiVars, store, envVars>>

(* The store container uploads the snapshot, then its job completes. *)
StoreBackup(i) ==
  /\ jobs[i] = "active"
  /\ jobs' = [jobs EXCEPT ![i] = "stored"]
  /\ store' = store \cup {BackupName(i)}
  /\ UNCHANGED <<controllerVars, apiVars, deleteJobs, cleanupJob, envVars>>

CompleteBackupJob(i) ==
  /\ jobs[i] = "stored"
  /\ jobs' = [jobs EXCEPT ![i] = "complete"]
  /\ UNCHANGED <<controllerVars, apiVars, deleteJobs, cleanupJob, store, envVars>>

FailBackupJob(i) ==
  /\ jobs[i] \in {"active", "stored"}
  /\ Fault
  /\ jobs' = [jobs EXCEPT ![i] = "failed"]
  /\ UNCHANGED <<controllerVars, apiVars, deleteJobs, cleanupJob, store,
                 tick, clusterDeleting, paused>>

(* The delete container removes the backup from the backend. *)
CompleteDeleteJob(i) ==
  /\ deleteJobs[i] = "active"
  /\ deleteJobs' = [deleteJobs EXCEPT ![i] = "complete"]
  /\ store' = store \ {BackupName(i)}
  /\ UNCHANGED <<controllerVars, apiVars, jobs, cleanupJob, envVars>>

FailDeleteJob(i) ==
  /\ deleteJobs[i] = "active"
  /\ Fault
  /\ deleteJobs' = [deleteJobs EXCEPT ![i] = "failed"]
  /\ store' \in {store, store \ {BackupName(i)}}
  /\ UNCHANGED <<controllerVars, apiVars, jobs, cleanupJob, tick, clusterDeleting, paused>>

(* The cleanup container removes everything. *)
CompleteCleanupJob ==
  /\ cleanupJob = "active"
  /\ cleanupJob' = "complete"
  /\ store' = {}
  /\ UNCHANGED <<controllerVars, apiVars, jobs, deleteJobs, envVars>>

FailCleanupJob ==
  /\ cleanupJob = "active"
  /\ Fault
  /\ cleanupJob' = "failed"
  /\ UNCHANGED <<controllerVars, apiVars, jobs, deleteJobs, store,
                 tick, clusterDeleting, paused>>

(* Somebody else deletes a job. *)
LoseJob ==
  /\ Fault
  /\ \/ \E i \in Ids : /\ Found(jobs[i])
                       /\ jobs' = Deleted(jobs, {i})
                       /\ UNCHANGED deleteJobs
     \/ \E i \in Ids : /\ Found(deleteJobs[i])
                       /\ deleteJobs' = Deleted(deleteJobs, {i})
                       /\ UNCHANGED jobs
  /\ UNCHANGED <<controllerVars, apiVars, cleanupJob, store, tick, clusterDeleting, paused>>

-----------------------------------------------------------------------------
ControllerStep ==
  \/ Reconcile
  \/ SetSchedulingActive
  \/ EnsurePendingBackupIsScheduled
  \/ StartPendingBackupJobs
  \/ SaveStartedBackups
  \/ StartPendingBackupDeleteJobs
  \/ SaveStartedDeletes
  \/ UpdateRunningBackupDeleteJobs
  \/ SaveUpdatedDeletes
  \/ DeleteFinishedBackupJobs
  \/ SaveDroppedBackups
  \/ HandleFinalization
  \/ SaveFinalization

JobStep ==
  \/ JobCacheSync
  \/ \E i \in Ids : StoreBackup(i) \/ CompleteBackupJob(i) \/ CompleteDeleteJob(i)
  \/ CompleteCleanupJob

Disturbance ==
  \/ StartPendingBackupJobsFails
  \/ StartPendingBackupDeleteJobsFails
  \/ UpdateRunningBackupDeleteJobsFails
  \/ DeleteFinishedBackupJobsFails
  \/ HandleFinalizationFails
  \/ ReconcileAborts
  \/ ConfigTouched
  \/ PauseCluster
  \/ LoseJob
  \/ \E i \in Ids : FailBackupJob(i) \/ FailDeleteJob(i)
  \/ FailCleanupJob

Next ==
  \/ ControllerStep
  \/ JobStep
  \/ Disturbance
  \/ DeleteConfig
  \/ DeleteCluster
  \/ UnpauseCluster
  \/ Tick

Spec == Init /\ [][Next]_vars

(* The work queue retries a reconciliation that failed and resyncs every   *)
(* object periodically, so the controller keeps taking steps; the cluster  *)
(* runs the jobs.  Nothing forces a user, a clock or a failure to act.     *)
Fairness ==
  /\ WF_vars(ControllerStep)
  /\ WF_vars(JobCacheSync)
  /\ WF_vars(CompleteCleanupJob)
  /\ \A i \in Ids : /\ WF_vars(StoreBackup(i))
                    /\ WF_vars(CompleteBackupJob(i))
                    /\ WF_vars(CompleteDeleteJob(i))

FairSpec == Spec /\ Fairness

-----------------------------------------------------------------------------
(* Properties. *)

PCs == {"idle", "schedule", "start", "startSave", "delete", "deleteSave", "update",
        "updateSave", "clean", "cleanSave", "finalize", "finalizeSave"}

(* Every variable holds a value of its type. *)
TypeOK ==
  /\ config \in EtcdBackupConfig
  /\ sched \in [Ids -> Ticks]
  /\ nextId \in 1 .. MaxBackups + 1
  /\ pc \in PCs
  /\ mem \in EtcdBackupConfig
  /\ fresh \in BOOLEAN
  /\ jobs \in [Ids -> JobState]
  /\ deleteJobs \in [Ids -> JobState]
  /\ cleanupJob \in JobState
  /\ store \subseteq Ticks
  /\ tick \in Ticks
  /\ clusterDeleting \in BOOLEAN
  /\ paused \in BOOLEAN
  /\ faults \in 0 .. MaxFaults

(* The list of tracked backups is sorted by scheduled time without         *)
(* duplicates, so no two tracked backups share a name in the backend; the  *)
(* scheduler relies on its last element being the latest backup.           *)
ScheduledInOrder ==
  \A i, j \in Tracked(config) : i < j /\ ~OneShot => sched[i] < sched[j]

(* Scheduling stops when too many backups are tracked: the status never    *)
(* holds more than one backup above twice the number to keep.              *)
TrackedBackupsBounded ==
  Cardinality(Tracked(config)) <= 2 * GetKeptBackupsCount + 1

(* While the resource is not being deleted, the newest completed backups,  *)
(* as many as are to be kept, are in the backend: neither a crash between  *)
(* starting a delete job and recording it, nor a name used again for a     *)
(* backup that failed, removes one of them.                                *)
KeptBackupsStored ==
  config.state = "live" =>
    \A i \in Ids :
      /\ config.backups[i].phase = "Completed"
      /\ Cardinality(NewerCompleted(config, i)) < GetKeptBackupsCount
      => BackupName(i) \in store

(* While the resource is not being deleted, a backup leaves the status     *)
(* only after both its jobs are gone: no job is left without a backup.     *)
NoForgottenJobs ==
  config.state = "live" =>
    \A i \in Ids : jobs[i] # "none" \/ deleteJobs[i] # "none" => i \in Tracked(config)

(* A completed backup leaves the status only when it is no longer in the   *)
(* backend, also while the resource is being deleted: its delete job is    *)
(* restarted until one completes.                                          *)
RemovedBeforeForgotten ==
  [][\A i \in Ids :
       /\ HasDelete
       /\ config.backups[i].phase = "Completed"
       /\ config'.backups[i].phase = "untracked"
       => BackupName(i) \notin store']_vars

(* The cleanup job is started only after the status has been saved without *)
(* any backup, so no backup that is still tracked can be stored after it.  *)
CleanupComesLast ==
  cleanupJob # "none" => config.state # "live" /\ Tracked(config) = {}

(* Unless the cluster stays paused, a resource that is being deleted       *)
(* eventually disappears: nothing waits for a job that nobody restarts.    *)
DeletionCompletes ==
  []<>(~paused) => (config.state = "deleting" ~> config.state = "gone")

(* Unless the cluster stays paused, every scheduled backup is eventually   *)
(* recorded as completed or failed, or the resource is deleted.            *)
BackupsFinish ==
  []<>(~paused) =>
    \A i \in Ids :
      (config.state = "live" /\ config.backups[i].phase \in {"", "Running"})
        ~> ~(config.state = "live" /\ config.backups[i].phase \in {"", "Running"})

=============================================================================
