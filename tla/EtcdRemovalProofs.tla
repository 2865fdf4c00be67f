------------------------- MODULE EtcdRemovalProofs -------------------------
(***************************************************************************)
(* Proofs about the end of a backup in EtcdBackup: a completed backup is   *)
(* removed from the backend before the status forgets it, and the cleanup  *)
(* job comes after the last of them.  Both hold for a resource that is     *)
(* being deleted, too, where jobs may be left without a backup.            *)
(***************************************************************************)
EXTENDS EtcdBackupProofs

-----------------------------------------------------------------------------
(* The kinds of steps, by what they do to the lists of backups. *)

Saving ==
  \/ SetSchedulingActive
  \/ SaveStartedBackups
  \/ SaveStartedDeletes
  \/ SaveUpdatedDeletes
  \/ SaveDroppedBackups
  \/ SaveFinalization

Aborting ==
  \/ StartPendingBackupJobsFails
  \/ StartPendingBackupDeleteJobsFails
  \/ UpdateRunningBackupDeleteJobsFails
  \/ DeleteFinishedBackupJobsFails
  \/ HandleFinalizationFails
  \/ ReconcileAborts

Running ==
  \/ JobCacheSync
  \/ CompleteCleanupJob
  \/ FailCleanupJob
  \/ LoseJob
  \/ \E i \in Ids : \/ StoreBackup(i) \/ CompleteBackupJob(i) \/ CompleteDeleteJob(i)
                    \/ FailBackupJob(i) \/ FailDeleteJob(i)

Elsewhere ==
  \/ ConfigTouched
  \/ PauseCluster
  \/ DeleteConfig
  \/ DeleteCluster
  \/ UnpauseCluster
  \/ Tick
  \/ UNCHANGED vars

LEMMA StepKinds ==
  ASSUME [Next]_vars
  PROVE  \/ Reconcile \/ EnsurePendingBackupIsScheduled \/ StartPendingBackupJobs
         \/ StartPendingBackupDeleteJobs \/ UpdateRunningBackupDeleteJobs
         \/ DeleteFinishedBackupJobs \/ HandleFinalization
         \/ Saving \/ Aborting \/ Running \/ Elsewhere
BY DEF Next, ControllerStep, JobStep, Disturbance, Saving, Aborting, Running, Elsewhere

(* A save is refused, or the resource gets the list of the copy. *)
LEMMA SavingEffect ==
  ASSUME TypeOK, Saving
  PROVE  /\ Busy /\ UNCHANGED <<sched, jobs, deleteJobs, cleanupJob, store>>
         /\ \/ UNCHANGED config /\ pc' = "idle"
            \/ /\ fresh /\ config'.backups = mem.backups
               /\ config'.state = "live" => mem.state = "live"
               /\ \/ pc' = "idle"
                  \/ mem'.backups = mem.backups /\ pc' \notin {"startSave", "cleanSave"}
<1>1. Busy /\ UNCHANGED <<sched, jobs, deleteJobs, cleanupJob, store>>
  BY DEF Saving, SetSchedulingActive, SaveStartedBackups, SaveStartedDeletes, SaveUpdatedDeletes,
         SaveDroppedBackups, SaveFinalization, Busy, jobVars
<1>2. PICK m \in EtcdBackupConfig, next \in PCs \ {"startSave", "cleanSave"} :
        Update(m, next) /\ m.backups = mem.backups /\ m.state = mem.state
  <2>1. CASE SetSchedulingActive
    <3> DEFINE m == [mem EXCEPT !.schedulingActive = WantedSchedulingActive]
    <3>1. m \in EtcdBackupConfig /\ m.backups = mem.backups /\ m.state = mem.state
      BY DEF TypeOK, EtcdBackupConfig, WantedSchedulingActive
    <3>2. \E next \in PCs \ {"startSave", "cleanSave"} : Update(m, next)
      BY <2>1 DEF SetSchedulingActive, PCs
    <3> HIDE DEF m
    <3> QED
      BY <3>1, <3>2
  <2>2. CASE SaveStartedBackups \/ SaveStartedDeletes \/ SaveUpdatedDeletes
               \/ SaveDroppedBackups \/ SaveFinalization
    <3>1. \E next \in PCs \ {"startSave", "cleanSave"} : Update(mem, next)
      BY <2>2 DEF SaveStartedBackups, SaveStartedDeletes, SaveUpdatedDeletes,
                  SaveDroppedBackups, SaveFinalization, PCs
    <3> QED
      BY <3>1 DEF TypeOK
  <2> QED
    BY <2>1, <2>2 DEF Saving
<1> QED
  BY <1>1, <1>2, ConfigWritten

(* Nothing is due, the save is refused, or a backup is appended to the     *)
(* list of the copy and of the resource.                                   *)
Appending ==
  /\ fresh /\ nextId \in Ids /\ mem.state = "live" /\ BackupPending
  /\ config'.backups = mem'.backups /\ pc' = "start"
  /\ \A i \in Ids :
       /\ config'.backups[i].phase = IF i = nextId THEN "" ELSE mem.backups[i].phase
       /\ config'.backups[i].deletePhase = mem.backups[i].deletePhase
  /\ sched' = [sched EXCEPT ![nextId] = tick]

LEMMA SchedulingEffect ==
  ASSUME TypeOK, EnsurePendingBackupIsScheduled
  PROVE  /\ pc = "schedule" /\ UNCHANGED <<jobs, deleteJobs, cleanupJob, store>>
         /\ \/ UNCHANGED <<config, mem, sched>> /\ pc' = "start"
            \/ UNCHANGED <<config, sched>> /\ pc' = "idle"
            \/ Appending
<1>1. pc = "schedule" /\ UNCHANGED <<jobs, deleteJobs, cleanupJob, store>>
  BY DEF EnsurePendingBackupIsScheduled, jobVars
<1>2. CASE ~ScheduleNow
  BY <1>1, <1>2 DEF EnsurePendingBackupIsScheduled, apiVars
<1>3. CASE ScheduleNow /\ ~fresh
  BY <1>1, <1>3 DEF EnsurePendingBackupIsScheduled, Update, Return
<1>4. CASE ScheduleNow /\ fresh
  <2> DEFINE m == [mem EXCEPT !.backups[nextId].phase = ""]
  <2>1. Update(m, "start") /\ sched' = [sched EXCEPT ![nextId] = tick] /\ nextId \in Ids
        /\ mem.state = "live" /\ BackupPending
    BY <1>4 DEF EnsurePendingBackupIsScheduled, ScheduleNow, SchedulingAllowed
  <2>2. /\ m \in EtcdBackupConfig
        /\ \A i \in Ids : /\ m.backups[i].phase = IF i = nextId THEN "" ELSE mem.backups[i].phase
                          /\ m.backups[i].deletePhase = mem.backups[i].deletePhase
    BY <2>1, AppendEffect
  <2> HIDE DEF m
  <2>3. config' = Persisted(m) /\ mem' = m /\ pc' = "start"
    BY <1>4, <2>1 DEF Update
  <2>4. config'.backups = m.backups
    BY <2>2, <2>3 DEF Persisted, EtcdBackupConfig
  <2> QED
    BY <1>1, <1>4, <2>1, <2>2, <2>3, <2>4 DEF Appending
<1> QED
  BY <1>2, <1>3, <1>4

LEMMA AbortingEffect ==
  ASSUME Aborting
  PROVE  Busy /\ UNCHANGED <<config, sched, store>> /\ pc' = "idle"
BY DEF Aborting, StartPendingBackupJobsFails, StartPendingBackupDeleteJobsFails,
       UpdateRunningBackupDeleteJobsFails, DeleteFinishedBackupJobsFails,
       HandleFinalizationFails, ReconcileAborts, Return, Busy, apiVars, jobVars

LEMMA RunningEffect ==
  ASSUME Running
  PROVE  UNCHANGED <<config, mem, pc, sched>>
BY DEF Running, JobCacheSync, CompleteCleanupJob, FailCleanupJob, LoseJob, StoreBackup,
       CompleteBackupJob, CompleteDeleteJob, FailBackupJob, FailDeleteJob, controllerVars, apiVars

LEMMA ElsewhereEffect ==
  ASSUME TypeOK, Elsewhere
  PROVE  /\ config'.backups = config.backups
         /\ UNCHANGED <<mem, pc, sched, jobs, deleteJobs, cleanupJob, store>>
<1> USE DEF controllerVars, apiVars, jobVars
<1>1. CASE DeleteConfig
  BY <1>1 DEF DeleteConfig, Persisted, TypeOK, EtcdBackupConfig
<1>2. CASE ConfigTouched \/ PauseCluster \/ DeleteCluster \/ UnpauseCluster \/ Tick
  BY <1>2 DEF ConfigTouched, PauseCluster, DeleteCluster, UnpauseCluster, Tick
<1>3. CASE UNCHANGED vars
  BY <1>3 DEF vars
<1> QED
  BY <1>1, <1>2, <1>3 DEF Elsewhere

-----------------------------------------------------------------------------
(* The copy and the resource. *)

(* Entries are missing in the copy only between dropping and saving. *)
DropsAreSaved == pc # "cleanSave" => DroppedInCopy = {}

(* Also while the resource is being deleted, the copy differs from it only *)
(* by what was just read from the jobs and what was just dropped.          *)
CopyInv ==
  /\ JobInv
  /\ DropsAreSaved
  /\ \A i \in Ids : CopyAgrees(i)

LEMMA CopyInit == Init => CopyInv
<1> SUFFICES ASSUME Init PROVE CopyInv
  OBVIOUS
<1>1. ~Busy /\ DroppedInCopy = {}
  BY DEF Init, Busy, DroppedInCopy
<1> QED
  BY <1>1, JobInit DEF CopyInv, DropsAreSaved, CopyAgrees

(* Between two saves the copy has the phases of the resource. *)
LEMMA CopyExact ==
  ASSUME CopyInv, Busy, pc \notin {"startSave", "cleanSave"}
  PROVE  /\ \A i \in Ids : mem.backups[i].phase = config.backups[i].phase
         /\ Tracked(mem) = Tracked(config)
<1>1. \A i \in Ids : mem.backups[i].phase = config.backups[i].phase
  BY DEF CopyInv, DropsAreSaved, CopyAgrees
<1> QED
  BY <1>1 DEF Tracked

(* The reconciliation ends, or continues with the phases of the resource. *)
LEMMA CopyEqual ==
  ASSUME JobInv',
         pc' = "idle" \/ \A i \in Ids : mem'.backups[i].phase = config'.backups[i].phase
  PROVE  CopyInv'
<1>1. DroppedInCopy' = {}
  BY DEF DroppedInCopy, Busy, Tracked
<1>2. \A i \in Ids : CopyAgrees(i)'
  BY DEF CopyAgrees, Busy
<1> QED
  BY <1>1, <1>2 DEF CopyInv, DropsAreSaved

LEMMA CopyNext == CopyInv /\ [Next]_vars => CopyInv'
<1> SUFFICES ASSUME CopyInv, [Next]_vars PROVE CopyInv'
  OBVIOUS
<1>0. JobInv /\ JobInv' /\ TypeOK
  BY JobNext DEF CopyInv, JobInv, ListInv
<1>1. CASE Reconcile
  <2>1. mem' = config /\ config' = config
    BY <1>1 DEF Reconcile, apiVars
  <2> QED
    BY <1>0, <2>1, CopyEqual
<1>2. CASE EnsurePendingBackupIsScheduled
  <2>1. \/ UNCHANGED <<config, mem>>
        \/ pc' = "idle"
        \/ config'.backups = mem'.backups
    BY <1>0, <1>2, SchedulingEffect DEF Appending
  <2>2. pc = "schedule"
    BY <1>0, <1>2, SchedulingEffect
  <2>3. \A i \in Ids : mem.backups[i].phase = config.backups[i].phase
    BY <2>2, CopyExact DEF Busy
  <2> QED
    BY <1>0, <2>1, <2>3, CopyEqual
<1>3. CASE StartPendingBackupJobs
  <2>1. pc = "start" /\ pc' = "startSave" /\ UNCHANGED config
    BY <1>3 DEF StartPendingBackupJobs, apiVars
  <2>2. \A i \in Ids : mem.backups[i].phase = config.backups[i].phase
    BY <2>1, CopyExact DEF Busy
  <2>3. \A i \in Ids : /\ \/ mem'.backups[i].phase = mem.backups[i].phase
                          \/ mem.backups[i].phase \in {"", "Running"}
                       /\ mem'.backups[i].phase = "untracked" => mem.backups[i].phase = "untracked"
    BY <1>0, <1>3, StartEffect DEF BackupsToStart, PhaseFromJob
  <2>4. \A i \in Ids : CopyAgrees(i)'
    BY <2>1, <2>2, <2>3 DEF CopyAgrees, Unfinished, Tracked
  <2>5. DroppedInCopy' = {}
    BY <2>1, <2>2, <2>3 DEF DroppedInCopy, Tracked
  <2> QED
    BY <1>0, <2>4, <2>5 DEF CopyInv, DropsAreSaved
<1>4. CASE StartPendingBackupDeleteJobs \/ UpdateRunningBackupDeleteJobs
  <2>1. pc \in {"delete", "update"} /\ UNCHANGED config
    BY <1>4 DEF StartPendingBackupDeleteJobs, UpdateRunningBackupDeleteJobs, apiVars
  <2>2. \A i \in Ids : mem'.backups[i].phase = mem.backups[i].phase
    BY <1>0, <1>4, DeleteEffect, UpdateDeletesEffect
  <2>3. \A i \in Ids : mem.backups[i].phase = config.backups[i].phase
    BY <2>1, CopyExact DEF Busy
  <2> QED
    BY <1>0, <2>1, <2>2, <2>3, CopyEqual
<1>5. CASE DeleteFinishedBackupJobs
  <2>1. pc = "clean" /\ UNCHANGED config
    BY <1>5 DEF DeleteFinishedBackupJobs, apiVars
  <2>2. \A i \in Ids : mem.backups[i].phase = config.backups[i].phase
    BY <2>1, CopyExact DEF Busy
  <2>3. \A i \in Ids : mem'.backups[i].phase \in {mem.backups[i].phase, "untracked"}
    <3>1. PICK D : \A i \in Ids :
            mem'.backups[i] = IF i \in D THEN Untracked ELSE mem.backups[i]
      BY <1>0, <1>5, CleanEffect
    <3>2. Untracked.phase = "untracked"
      BY DEF Untracked
    <3> QED
      BY <3>1, <3>2
  <2>4. pc' = "cleanSave" \/ \A i \in Ids : mem'.backups[i].phase = mem.backups[i].phase
    <3>1. CASE pc' # "cleanSave"
      <4>1. mem' = [mem EXCEPT !.backups = [i \in Ids |-> mem.backups[i]]]
        BY <1>5, <3>1 DEF DeleteFinishedBackupJobs
      <4>2. mem'.backups = [i \in Ids |-> mem.backups[i]]
        BY <1>0, <4>1, ListReplaced DEF TypeOK
      <4> QED
        BY <4>2
    <3> QED
      BY <3>1
  <2>5. CASE pc' = "cleanSave"
    <3>1. \A i \in Ids : \/ mem'.backups[i].phase = config'.backups[i].phase
                         \/ i \in DroppedInCopy'
      BY <2>1, <2>2, <2>3, <2>5 DEF DroppedInCopy, Busy, Tracked
    <3> QED
      BY <1>0, <2>5, <3>1 DEF CopyInv, DropsAreSaved, CopyAgrees
  <2>6. CASE \A i \in Ids : mem'.backups[i].phase = mem.backups[i].phase
    BY <1>0, <2>1, <2>2, <2>6, CopyEqual
  <2> QED
    BY <2>4, <2>5, <2>6
<1>6. CASE HandleFinalization
  <2>1. pc = "finalize" /\ UNCHANGED config
    BY <1>6 DEF HandleFinalization, apiVars
  <2>2. pc' = "idle" \/ mem'.backups = mem.backups
    BY <1>0, <1>6, FinalizeEffect
  <2>3. \A i \in Ids : mem.backups[i].phase = config.backups[i].phase
    BY <2>1, CopyExact DEF Busy
  <2> QED
    BY <1>0, <2>1, <2>2, <2>3, CopyEqual
<1>7. CASE Saving
  <2>1. pc' = "idle" \/ mem'.backups = config'.backups
    BY <1>0, <1>7, SavingEffect
  <2> QED
    BY <1>0, <2>1, CopyEqual
<1>8. CASE Aborting
  BY <1>0, <1>8, AbortingEffect, CopyEqual
<1>9. CASE Running \/ Elsewhere
  <2>1. config'.backups = config.backups /\ UNCHANGED <<mem, pc>>
    BY <1>0, <1>9, RunningEffect, ElsewhereEffect
  <2>2. DroppedInCopy' = DroppedInCopy
    BY <2>1 DEF DroppedInCopy, Busy, Tracked
  <2>3. \A i \in Ids : CopyAgrees(i)'
    BY <2>1, <2>2 DEF CopyInv, CopyAgrees, Busy, Unfinished, Tracked
  <2> QED
    BY <1>0, <2>1, <2>2, <2>3 DEF CopyInv, DropsAreSaved
<1> QED
  BY <1>1, <1>2, <1>3, <1>4, <1>5, <1>6, <1>7, <1>8, <1>9, StepKinds

-----------------------------------------------------------------------------
(* The cleanup job. *)

LEMMA CleanupNext == CopyInv /\ CleanupComesLast /\ [Next]_vars => CleanupComesLast'
<1> SUFFICES ASSUME CopyInv, CleanupComesLast, [Next]_vars, cleanupJob' # "none"
             PROVE  config'.state # "live" /\ Tracked(config') = {}
  BY DEF CleanupComesLast
<1>0. JobInv /\ TypeOK
  BY DEF CopyInv, JobInv, ListInv
<1>1. CASE HandleFinalization /\ FinalizationDue
  <2>1. pc = "finalize" /\ UNCHANGED config
    BY <1>1 DEF HandleFinalization, apiVars
  <2>2. mem.state = "deleting" /\ Tracked(mem) = {}
    BY <1>1 DEF FinalizationDue
  <2>3. config.state # "live"
    BY <1>0, <2>1, <2>2 DEF JobInv, Busy
  <2>4. Tracked(config) = {}
    BY <2>1, <2>2, CopyExact DEF Busy
  <2> QED
    BY <2>1, <2>3, <2>4
<1>2. CASE cleanupJob # "none"
  <2>0. config.state # "live" /\ Tracked(config) = {}
    BY <1>2 DEF CleanupComesLast
  <2>1. config'.state # "live"
    BY <1>0, <2>0, LiveBefore
  <2>2. CASE config'.backups = config.backups
    BY <2>0, <2>1, <2>2 DEF Tracked
  <2>3. CASE Busy /\ config'.backups = mem.backups
    <3>1. Tracked(config') = Tracked(mem)
      BY <2>3 DEF Tracked
    <3> QED
      BY <1>0, <2>0, <2>1, <2>3, <3>1 DEF JobInv
  <2>4. ~Appending
    BY <1>0, <2>0 DEF Appending, JobInv
  <2>5. config'.backups = config.backups \/ (Busy /\ config'.backups = mem.backups)
    <3> USE DEF apiVars
    <3>1. CASE Saving
      BY <1>0, <3>1, SavingEffect
    <3>2. CASE Aborting \/ Running \/ Elsewhere
      BY <1>0, <3>2, AbortingEffect, RunningEffect, ElsewhereEffect
    <3>3. CASE EnsurePendingBackupIsScheduled
      BY <1>0, <2>4, <3>3, SchedulingEffect
    <3>4. CASE Reconcile \/ StartPendingBackupJobs \/ StartPendingBackupDeleteJobs
                 \/ UpdateRunningBackupDeleteJobs \/ DeleteFinishedBackupJobs \/ HandleFinalization
      BY <3>4 DEF Reconcile, StartPendingBackupJobs, StartPendingBackupDeleteJobs,
                  UpdateRunningBackupDeleteJobs, DeleteFinishedBackupJobs, HandleFinalization
    <3> QED
      BY <3>1, <3>2, <3>3, <3>4, StepKinds
  <2> QED
    BY <2>2, <2>3, <2>5
<1>3. cleanupJob # "none" \/ (HandleFinalization /\ FinalizationDue)
  <2> USE DEF jobVars
  <2>1. CASE HandleFinalization
    BY <2>1 DEF HandleFinalization
  <2>2. CASE Saving \/ EnsurePendingBackupIsScheduled \/ Elsewhere
    BY <1>0, <2>2, SavingEffect, SchedulingEffect, ElsewhereEffect
  <2>3. CASE Aborting
    BY <2>3 DEF Aborting, StartPendingBackupJobsFails, StartPendingBackupDeleteJobsFails,
                UpdateRunningBackupDeleteJobsFails, DeleteFinishedBackupJobsFails,
                HandleFinalizationFails, ReconcileAborts
  <2>4. CASE Running
    BY <2>4 DEF Running, JobCacheSync, Seen, CompleteCleanupJob, FailCleanupJob, LoseJob,
                StoreBackup, CompleteBackupJob, CompleteDeleteJob, FailBackupJob, FailDeleteJob
  <2>5. CASE Reconcile \/ StartPendingBackupJobs \/ StartPendingBackupDeleteJobs
               \/ UpdateRunningBackupDeleteJobs \/ DeleteFinishedBackupJobs
    BY <2>5 DEF Reconcile, StartPendingBackupJobs, StartPendingBackupDeleteJobs,
                UpdateRunningBackupDeleteJobs, DeleteFinishedBackupJobs
  <2> QED
    BY <2>1, <2>2, <2>3, <2>4, <2>5, StepKinds
<1> QED
  BY <1>1, <1>2, <1>3

(* handleFinalization starts the cleanup job only when the resource is     *)
(* being deleted and its status was saved without any backup, although it  *)
(* decides on a copy: nothing is tracked again afterwards.                 *)
THEOREM CleanupIsLast == Spec => []CleanupComesLast
<1>1. Init => CopyInv /\ CleanupComesLast
  BY CopyInit DEF Init, CleanupComesLast
<1>2. CopyInv /\ CleanupComesLast /\ [Next]_vars => (CopyInv /\ CleanupComesLast)'
  BY CopyNext, CleanupNext
<1> QED
  BY <1>1, <1>2, PTL DEF Spec

-----------------------------------------------------------------------------
(* Names in the backend. *)

(* The backups whose name may be written: tracked ones, and those whose    *)
(* job is still there.                                                     *)
Present == Tracked(config) \cup {i \in Ids : jobs[i] # "none"}

DistinctNames == \A i, j \in Present : i # j => BackupName(i) # BackupName(j)

NamesInv == CopyInv /\ DistinctNames

LEMMA NamesInit == Init => NamesInv
<1> SUFFICES ASSUME Init PROVE NamesInv
  OBVIOUS
<1>1. Present = {}
  BY NothingTracked DEF Init, Present
<1> QED
  BY <1>1, CopyInit DEF NamesInv, DistinctNames

LEMMA NamesShrink ==
  ASSUME NamesInv, CopyInv', sched' = sched, Present' \subseteq Present
  PROVE  NamesInv'
<1>1. \A i \in Ids : BackupName(i)' = BackupName(i)
  BY DEF BackupName
<1>2. Present' \subseteq Ids
  BY DEF Present, Tracked
<1> QED
  BY <1>1, <1>2 DEF NamesInv, DistinctNames

(* A step that tracks nothing new and starts jobs only for tracked backups. *)
LEMMA NamesKept ==
  ASSUME NamesInv, CopyInv', sched' = sched,
         Tracked(config') \subseteq Tracked(config),
         \A i \in Ids : jobs'[i] # "none" => jobs[i] # "none" \/ i \in Tracked(config)
  PROVE  NamesInv'
<1>1. Present' \subseteq Present
  BY DEF Present
<1> QED
  BY <1>1, NamesShrink

(* An appended backup has a name of its own: the resource is not being     *)
(* deleted, so there are no jobs of forgotten backups.                     *)
LEMMA NamesAppend ==
  ASSUME NamesInv, CopyInv', pc = "schedule", Appending, UNCHANGED jobs
  PROVE  NamesInv'
<1>0. /\ JobInv /\ JobInv' /\ TypeOK /\ NoForgottenJobs /\ config.state = "live" /\ nextId \in Ids
      /\ ScheduledInOrder'
  <2>1. JobInv /\ JobInv'
    BY DEF NamesInv, CopyInv
  <2>2. TypeOK /\ NoForgottenJobs /\ config.state = "live" /\ nextId \in Ids
    BY <2>1 DEF JobInv, ListInv, Appending
  <2>3. ScheduledInOrder'
    BY <2>1 DEF JobInv, ListInv, Sound, ScheduledInOrder
  <2> QED
    BY <2>1, <2>2, <2>3
<1>1. Tracked(mem) = Tracked(config)
  BY CopyExact DEF NamesInv, Busy
<1>2. Tracked(config') = Tracked(config) \cup {nextId}
  <2>1. \A i \in Ids : config'.backups[i].phase = IF i = nextId THEN "" ELSE mem.backups[i].phase
    BY DEF Appending
  <2>2. Tracked(config') = Tracked(mem) \cup {nextId}
    BY <1>0, <2>1 DEF Tracked
  <2> QED
    BY <1>1, <2>2
<1>3. Present' = Tracked(config')
  <2>1. \A i \in Ids : jobs[i] # "none" => i \in Tracked(config)
    BY <1>0 DEF NoForgottenJobs
  <2> QED
    BY <1>2, <2>1 DEF Present
<1>4. DistinctNames'
  <2> SUFFICES ASSUME NEW i \in Tracked(config'), NEW j \in Tracked(config'), i # j
               PROVE  BackupName(i)' # BackupName(j)'
    BY <1>3 DEF DistinctNames
  <2>1. CASE OneShot
    <3>1. Tracked(mem) = {}
      BY <2>1 DEF Appending, BackupPending
    <3> QED
      BY <1>1, <1>2, <3>1
  <2>2. CASE ~OneShot
    <3>1. i \in Nat /\ j \in Nat /\ i \in Ids /\ j \in Ids
      BY IdsFinite DEF Tracked
    <3>2. sched'[i] \in Nat /\ sched'[j] \in Nat
      <4>1. TypeOK'
        BY <1>0 DEF JobInv, ListInv
      <4> QED
        BY <3>1, <4>1, TicksNat DEF TypeOK
    <3>3. i < j => sched'[i] < sched'[j]
      BY <1>0, <2>2 DEF ScheduledInOrder
    <3>4. j < i => sched'[j] < sched'[i]
      BY <1>0, <2>2 DEF ScheduledInOrder
    <3>5. sched'[i] # sched'[j]
      BY <3>1, <3>2, <3>3, <3>4
    <3> QED
      BY <2>2, <3>5 DEF BackupName
  <2> QED
    BY <2>1, <2>2
<1> QED
  BY <1>4 DEF NamesInv

LEMMA NamesNext == NamesInv /\ [Next]_vars => NamesInv'
<1> SUFFICES ASSUME NamesInv, [Next]_vars PROVE NamesInv'
  OBVIOUS
<1>0. /\ JobInv /\ TypeOK /\ CopyInv /\ CopyInv' /\ jobs \in [Ids -> JobState]
      /\ Busy => Tracked(mem) \subseteq Tracked(config)
  BY CopyNext DEF NamesInv, CopyInv, JobInv, ListInv, TypeOK
<1> USE DEF apiVars, jobVars
<1>1. CASE Reconcile \/ StartPendingBackupDeleteJobs \/ UpdateRunningBackupDeleteJobs
             \/ HandleFinalization
  <2>1. UNCHANGED <<config, sched, jobs>>
    BY <1>1 DEF Reconcile, StartPendingBackupDeleteJobs, UpdateRunningBackupDeleteJobs,
                HandleFinalization
  <2> QED
    BY <1>0, <2>1, NamesKept
<1>2. CASE EnsurePendingBackupIsScheduled
  <2>1. CASE UNCHANGED <<config, sched, jobs>>
    BY <1>0, <2>1, NamesKept
  <2>2. CASE Appending
    BY <1>0, <1>2, <2>2, SchedulingEffect, NamesAppend
  <2> QED
    BY <1>0, <1>2, <2>1, <2>2, SchedulingEffect
<1>3. CASE StartPendingBackupJobs
  <2>1. UNCHANGED <<config, sched>> /\ jobs' = Created(jobs, BackupsToStart) /\ Busy
    BY <1>3 DEF StartPendingBackupJobs, Busy
  <2>2. BackupsToStart \subseteq Tracked(config)
    BY <1>0, <2>1 DEF BackupsToStart, Tracked
  <2> QED
    BY <1>0, <2>1, <2>2, JobsCreated, NamesKept
<1>4. CASE DeleteFinishedBackupJobs
  <2>1. PICK S : jobs' = Deleted(jobs, S)
    BY <1>4 DEF DeleteFinishedBackupJobs
  <2>2. UNCHANGED <<config, sched>>
    BY <1>4 DEF DeleteFinishedBackupJobs
  <2> QED
    BY <1>0, <2>1, <2>2, JobsDeleted, NamesKept
<1>5. CASE Saving
  <2>1. Tracked(config') \subseteq Tracked(config) /\ UNCHANGED <<sched, jobs>>
    BY <1>0, <1>5, SavingEffect DEF Tracked
  <2> QED
    BY <1>0, <2>1, NamesKept
<1>6. CASE Aborting
  <2>1. UNCHANGED <<config, sched>> /\ Busy
    BY <1>6, AbortingEffect
  <2>2. \A i \in Ids : jobs'[i] # "none" => jobs[i] # "none" \/ i \in Tracked(config)
    <3>1. CASE StartPendingBackupJobsFails
      <4>1. PICK S : S \subseteq BackupsToStart /\ jobs' = Created(jobs, S)
        BY <3>1 DEF StartPendingBackupJobsFails, Prefixes
      <4>2. BackupsToStart \subseteq Tracked(config)
        BY <1>0, <2>1 DEF BackupsToStart, Tracked
      <4> QED
        BY <4>1, <4>2, JobsCreated
    <3>2. CASE DeleteFinishedBackupJobsFails
      <4>1. PICK S : jobs' = Deleted(jobs, S)
        BY <3>2 DEF DeleteFinishedBackupJobsFails
      <4> QED
        BY <4>1, JobsDeleted
    <3>3. CASE StartPendingBackupDeleteJobsFails \/ UpdateRunningBackupDeleteJobsFails
                 \/ HandleFinalizationFails \/ ReconcileAborts
      BY <3>3 DEF StartPendingBackupDeleteJobsFails, UpdateRunningBackupDeleteJobsFails,
                  HandleFinalizationFails, ReconcileAborts
    <3> QED
      BY <1>6, <3>1, <3>2, <3>3 DEF Aborting
  <2> QED
    BY <1>0, <2>1, <2>2, NamesKept
<1>7. CASE Running
  <2>1. UNCHANGED <<config, sched>>
    BY <1>7, RunningEffect
  <2>2. \A i \in Ids : jobs'[i] # "none" => jobs[i] # "none"
    BY <1>0, <1>7 DEF Running, JobCacheSync, Seen, CompleteCleanupJob, FailCleanupJob, LoseJob,
                      Deleted, StoreBackup, CompleteBackupJob, CompleteDeleteJob, FailBackupJob,
                      FailDeleteJob
  <2> QED
    BY <1>0, <2>1, <2>2, NamesKept
<1>8. CASE Elsewhere
  <2>1. Tracked(config') = Tracked(config) /\ UNCHANGED <<sched, jobs>>
    BY <1>0, <1>8, ElsewhereEffect DEF Tracked
  <2> QED
    BY <1>0, <2>1, NamesKept
<1> QED
  BY <1>1, <1>2, <1>3, <1>4, <1>5, <1>6, <1>7, <1>8, StepKinds

-----------------------------------------------------------------------------
(* Removal. *)

Completed(i) == config.backups[i].phase = "Completed"

(* Nothing uploads a backup again that is recorded as completed, or is     *)
(* about to be.                                                            *)
UploadOver(i) ==
  Completed(i) \/ (pc = "startSave" /\ mem.backups[i].phase = "Completed")
    => jobs[i] \in {"none", "complete"}

(* The deletion of backup i was started, recorded or not. *)
DeletionStarted(i) ==
  \/ deleteJobs[i] # "none"
  \/ config.backups[i].deletePhase # ""
  \/ Busy /\ mem.backups[i].deletePhase # ""

OnlyFinishedDeleted(i) ==
  i \in Tracked(config) /\ DeletionStarted(i) => config.backups[i].phase \in {"Completed", "Failed"}

(* The deletion of backup i is over, recorded or not. *)
DeletionOver(i) ==
  \/ deleteJobs[i] = "complete"
  \/ config.backups[i].deletePhase = "Completed"
  \/ Busy /\ mem.backups[i].deletePhase = "Completed"
  \/ i \in DroppedInCopy

Removed(i) == HasDelete /\ Completed(i) /\ DeletionOver(i) => BackupName(i) \notin store

RemovalInv ==
  /\ NamesInv
  /\ \A i \in Ids : UploadOver(i) /\ OnlyFinishedDeleted(i) /\ Removed(i)

LEMMA RemovalInit == Init => RemovalInv
<1> SUFFICES ASSUME Init PROVE RemovalInv
  OBVIOUS
<1>1. \A i \in Ids : config.backups[i].phase = "untracked" /\ jobs[i] = "none"
  BY DEF Init, NewConfig, Untracked
<1>2. Tracked(config) = {}
  BY NothingTracked DEF Init
<1> QED
  BY <1>1, <1>2, NamesInit
  DEF RemovalInv, UploadOver, OnlyFinishedDeleted, Removed, Completed

(* A step that leaves the list in the resource alone. *)
LEMMA RemovalKept ==
  ASSUME RemovalInv, NamesInv', config'.backups = config.backups, sched' = sched,
         \A i \in Ids : UploadOver(i)',
         \A i \in Tracked(config) :
           DeletionStarted(i)' => \/ DeletionStarted(i)
                                  \/ config.backups[i].phase \in {"Completed", "Failed"},
         \A i \in Ids :
           HasDelete /\ Completed(i) /\ DeletionOver(i)' => \/ DeletionOver(i)
                                                            \/ BackupName(i) \notin store',
         \A i \in Ids : Completed(i) /\ BackupName(i) \in store' => BackupName(i) \in store
  PROVE  RemovalInv'
<1>1. \A i \in Ids : Completed(i)' = Completed(i) /\ BackupName(i)' = BackupName(i)
  BY DEF Completed, BackupName
<1>2. Tracked(config') = Tracked(config) /\ Tracked(config) \subseteq Ids
  BY DEF Tracked
<1>3. \A i \in Ids : OnlyFinishedDeleted(i)'
  BY <1>2 DEF RemovalInv, OnlyFinishedDeleted
<1>4. \A i \in Ids : Removed(i)'
  BY <1>1 DEF RemovalInv, Removed
<1> QED
  BY <1>3, <1>4 DEF RemovalInv

(* The reconciliation stops: it leaves jobs behind that are not recorded. *)
LEMMA RemovalAborted ==
  ASSUME RemovalInv, NamesInv', UNCHANGED <<config, sched, store>>, pc' = "idle",
         \A i \in Ids : Completed(i) => jobs'[i] \in {jobs[i], "none"},
         \A i \in Tracked(config) :
           deleteJobs'[i] # "none" => \/ DeletionStarted(i)
                                      \/ config.backups[i].phase \in {"Completed", "Failed"},
         \A i \in Ids : deleteJobs'[i] = "complete" => deleteJobs[i] = "complete"
  PROVE  RemovalInv'
<1>1. ~Busy' /\ DroppedInCopy' = {}
  BY DEF Busy, DroppedInCopy
<1>2. \A i \in Ids : UploadOver(i)'
  BY DEF RemovalInv, UploadOver, Completed
<1>3. \A i \in Ids : DeletionStarted(i)' => deleteJobs'[i] # "none" \/ DeletionStarted(i)
  BY <1>1 DEF DeletionStarted
<1>4. \A i \in Ids : DeletionOver(i)' => DeletionOver(i)
  BY <1>1 DEF DeletionOver
<1>5. Tracked(config) \subseteq Ids
  BY DEF Tracked
<1> QED
  BY <1>2, <1>3, <1>4, <1>5, RemovalKept

(* The jobs run, end and disappear. *)
LEMMA RemovalOutside ==
  ASSUME RemovalInv, NamesInv', config'.backups = config.backups, UNCHANGED <<mem, pc, sched>>,
         \A i \in Ids : jobs[i] \in {"none", "complete"} => jobs'[i] \in {"none", "complete"},
         \A i \in Ids : deleteJobs'[i] # "none" => deleteJobs[i] # "none",
         \A i \in Ids : deleteJobs'[i] = "complete" => \/ deleteJobs[i] = "complete"
                                                       \/ BackupName(i) \notin store',
         \A i \in Ids : Completed(i) /\ BackupName(i) \in store' => BackupName(i) \in store
  PROVE  RemovalInv'
<1>1. Busy' = Busy /\ DroppedInCopy' = DroppedInCopy
  BY DEF Busy, DroppedInCopy, Tracked
<1>2. \A i \in Ids : UploadOver(i)'
  BY DEF RemovalInv, UploadOver, Completed
<1>3. \A i \in Ids : DeletionStarted(i)' => DeletionStarted(i)
  BY <1>1 DEF DeletionStarted
<1>4. \A i \in Ids : DeletionOver(i)' => DeletionOver(i) \/ BackupName(i) \notin store'
  BY <1>1 DEF DeletionOver
<1>5. Tracked(config) \subseteq Ids
  BY DEF Tracked
<1> QED
  BY <1>2, <1>3, <1>4, <1>5, RemovalKept

(* The resource gets the list of the copy, possibly with a new backup. *)
LEMMA RemovalSave ==
  ASSUME RemovalInv, NamesInv', Busy, UNCHANGED <<jobs, deleteJobs, store>>,
         \A i \in Ids : config'.backups[i].deletePhase = mem.backups[i].deletePhase,
         \A i \in Ids : \/ config'.backups[i].phase = mem.backups[i].phase
                        \/ config'.backups[i].phase = "" /\ ~DeletionStarted(i),
         \A i \in Tracked(config) : sched'[i] = sched[i],
         pc' = "idle" \/ (mem'.backups = config'.backups /\ pc' # "startSave")
  PROVE  RemovalInv'
<1>0. JobInv /\ CopyInv /\ Tracked(mem) \subseteq Tracked(config)
  BY DEF RemovalInv, NamesInv, CopyInv, JobInv
<1>1. DroppedInCopy' = {}
  BY DEF DroppedInCopy, Busy, Tracked
<1>2. \A i \in Ids : DeletionStarted(i)' => DeletionStarted(i)
  BY DEF DeletionStarted, Busy
<1>3. \A i \in Ids : DeletionOver(i)' => DeletionOver(i) /\ DeletionStarted(i)
  BY <1>1 DEF DeletionOver, DeletionStarted, Busy
<1>4. ASSUME NEW i \in Ids, config'.backups[i].phase = "Completed"
      PROVE  /\ mem.backups[i].phase = "Completed" /\ i \in Tracked(config)
             /\ Completed(i) \/ (pc = "startSave" /\ Unfinished(i))
  <2>1. mem.backups[i].phase = "Completed"
    BY <1>4
  <2>2. i \in Tracked(mem)
    BY <2>1 DEF Tracked
  <2>3. i \notin DroppedInCopy
    BY <2>2 DEF DroppedInCopy
  <2> QED
    BY <1>0, <2>1, <2>2, <2>3 DEF CopyInv, CopyAgrees, Completed
<1>5. \A i \in Ids : UploadOver(i)'
  BY <1>4 DEF RemovalInv, UploadOver, Completed
<1>6. ASSUME NEW i \in Ids PROVE OnlyFinishedDeleted(i)'
  <2> SUFFICES ASSUME i \in Tracked(config'), DeletionStarted(i)
               PROVE  config'.backups[i].phase \in {"Completed", "Failed"}
    BY <1>2 DEF OnlyFinishedDeleted
  <2>1. config'.backups[i].phase = mem.backups[i].phase
    OBVIOUS
  <2>2. i \in Tracked(mem)
    BY <2>1 DEF Tracked
  <2>3. config.backups[i].phase \in {"Completed", "Failed"}
    BY <1>0, <2>2 DEF RemovalInv, OnlyFinishedDeleted
  <2>4. i \notin DroppedInCopy /\ ~Unfinished(i)
    BY <2>2, <2>3 DEF DroppedInCopy, Unfinished
  <2> QED
    BY <1>0, <2>1, <2>3, <2>4 DEF CopyInv, CopyAgrees
<1>7. ASSUME NEW i \in Ids PROVE Removed(i)'
  <2> SUFFICES ASSUME HasDelete, config'.backups[i].phase = "Completed", DeletionOver(i)'
               PROVE  BackupName(i)' \notin store
    BY DEF Removed, Completed
  <2>1. DeletionOver(i) /\ DeletionStarted(i) /\ i \in Tracked(config)
    BY <1>3, <1>4
  <2>2. config.backups[i].phase \in {"Completed", "Failed"}
    BY <2>1 DEF RemovalInv, OnlyFinishedDeleted
  <2>3. Completed(i)
    BY <1>4, <2>2 DEF Unfinished
  <2>4. BackupName(i)' = BackupName(i)
    BY <2>1 DEF BackupName
  <2> QED
    BY <2>1, <2>3, <2>4 DEF RemovalInv, Removed
<1> QED
  BY <1>5, <1>6, <1>7 DEF RemovalInv

(* What the reconciliation may leave behind when it stops. *)
LEMMA RemovalAborts ==
  ASSUME RemovalInv, NamesInv', Aborting
  PROVE  RemovalInv'
<1>0. /\ CopyInv /\ JobInv /\ TypeOK /\ Tracked(config) \subseteq Ids
      /\ jobs \in [Ids -> JobState] /\ deleteJobs \in [Ids -> JobState]
  BY DEF RemovalInv, NamesInv, CopyInv, JobInv, ListInv, TypeOK, Tracked
<1>1. Busy /\ UNCHANGED <<config, sched, store>> /\ pc' = "idle"
  BY AbortingEffect
<1> USE DEF jobVars
<1>2. CASE StartPendingBackupJobsFails
  <2>1. PICK S : S \subseteq BackupsToStart /\ jobs' = Created(jobs, S)
    BY <1>2 DEF StartPendingBackupJobsFails, Prefixes
  <2>2. pc = "start" /\ UNCHANGED deleteJobs
    BY <1>2 DEF StartPendingBackupJobsFails
  <2>3. \A i \in Ids : mem.backups[i].phase = config.backups[i].phase
    BY <1>0, <2>2, CopyExact DEF Busy
  <2>4. \A i \in Ids : Completed(i) => i \notin S
    BY <2>1, <2>3 DEF Completed, BackupsToStart
  <2>5. \A i \in Ids : Completed(i) => jobs'[i] = jobs[i]
    BY <2>1, <2>4 DEF Created
  <2> QED
    BY <1>0, <1>1, <2>2, <2>5, RemovalAborted DEF DeletionStarted
<1>3. CASE StartPendingBackupDeleteJobsFails
  <2>1. PICK S : S \subseteq BackupsToDelete /\ deleteJobs' = Created(deleteJobs, S)
    BY <1>3 DEF StartPendingBackupDeleteJobsFails
  <2>2. pc = "delete" /\ UNCHANGED jobs
    BY <1>3 DEF StartPendingBackupDeleteJobsFails
  <2>3. \A i \in Ids : mem.backups[i].phase = config.backups[i].phase
    BY <1>0, <2>2, CopyExact DEF Busy
  <2>4. \A i \in S : config.backups[i].phase \in {"Completed", "Failed"}
    BY <2>1, <2>3 DEF BackupsToDelete
  <2>5. \A i \in Ids : /\ deleteJobs'[i] # "none" => deleteJobs[i] # "none" \/ i \in S
                       /\ deleteJobs'[i] = "complete" => deleteJobs[i] = "complete"
    BY <2>1 DEF Created
  <2> QED
    BY <1>0, <1>1, <2>2, <2>4, <2>5, RemovalAborted DEF DeletionStarted
<1>4. CASE UpdateRunningBackupDeleteJobsFails
  <2>1. PICK S, R : S \subseteq RunningDeletes /\ deleteJobs' = Created(Deleted(deleteJobs, R), S)
    BY <1>4 DEF UpdateRunningBackupDeleteJobsFails, Prefixes, FailedDeletes, LostDeletes
  <2>2. UNCHANGED jobs
    BY <1>4 DEF UpdateRunningBackupDeleteJobsFails
  <2>3. \A i \in S : DeletionStarted(i)
    BY <1>1, <2>1 DEF RunningDeletes, DeletionStarted
  <2>4. \A i \in Ids : /\ deleteJobs'[i] # "none" => deleteJobs[i] # "none" \/ i \in S
                       /\ deleteJobs'[i] = "complete" => deleteJobs[i] = "complete"
    BY <2>1 DEF Created, Deleted
  <2> QED
    BY <1>0, <1>1, <2>2, <2>3, <2>4, RemovalAborted DEF DeletionStarted
<1>5. CASE DeleteFinishedBackupJobsFails
  <2>1. PICK S, R : jobs' = Deleted(jobs, S) /\ deleteJobs' = Deleted(deleteJobs, R)
    BY <1>5 DEF DeleteFinishedBackupJobsFails
  <2>2. \A i \in Ids : /\ jobs'[i] \in {jobs[i], "none"}
                       /\ deleteJobs'[i] # "none" => deleteJobs[i] # "none"
                       /\ deleteJobs'[i] = "complete" => deleteJobs[i] = "complete"
    BY <2>1 DEF Deleted
  <2> QED
    BY <1>0, <1>1, <2>2, RemovalAborted DEF DeletionStarted
<1>6. CASE HandleFinalizationFails \/ ReconcileAborts
  <2>1. UNCHANGED <<jobs, deleteJobs>>
    BY <1>6 DEF HandleFinalizationFails, ReconcileAborts
  <2> QED
    BY <1>0, <1>1, <2>1, RemovalAborted DEF DeletionStarted
<1> QED
  BY <1>2, <1>3, <1>4, <1>5, <1>6 DEF Aborting

(* What becomes of the jobs: an upload that begins late is not one of a    *)
(* completed backup, nor of a name that a completed backup has.            *)
LEMMA RemovalRuns ==
  ASSUME RemovalInv, NamesInv', Running
  PROVE  RemovalInv'
<1>0. /\ jobs \in [Ids -> JobState] /\ deleteJobs \in [Ids -> JobState]
      /\ config'.backups = config.backups /\ UNCHANGED <<mem, pc, sched>>
  BY RunningEffect DEF RemovalInv, NamesInv, CopyInv, JobInv, ListInv, TypeOK
<1>1. CASE JobCacheSync
  <2>1. \A i \in Ids : jobs'[i] = Seen(jobs[i]) /\ deleteJobs'[i] = Seen(deleteJobs[i])
    BY <1>1 DEF JobCacheSync
  <2>2. UNCHANGED store
    BY <1>1 DEF JobCacheSync
  <2> QED
    BY <1>0, <2>1, <2>2, RemovalOutside DEF Seen
<1>2. CASE CompleteCleanupJob \/ FailCleanupJob
  <2>1. UNCHANGED <<jobs, deleteJobs>> /\ store' \subseteq store
    BY <1>2 DEF CompleteCleanupJob, FailCleanupJob
  <2> QED
    BY <1>0, <2>1, RemovalOutside
<1>3. CASE LoseJob
  <2>1. PICK S, R : /\ jobs' = jobs \/ jobs' = Deleted(jobs, S)
                    /\ deleteJobs' = deleteJobs \/ deleteJobs' = Deleted(deleteJobs, R)
    BY <1>3 DEF LoseJob
  <2>2. \A i \in Ids : jobs'[i] \in {jobs[i], "none"} /\ deleteJobs'[i] \in {deleteJobs[i], "none"}
    BY <2>1 DEF Deleted
  <2>3. UNCHANGED store
    BY <1>3 DEF LoseJob
  <2> QED
    BY <1>0, <2>2, <2>3, RemovalOutside
<1>4. ASSUME NEW k \in Ids, StoreBackup(k) PROVE RemovalInv'
  <2>1. /\ jobs[k] = "active" /\ jobs' = [jobs EXCEPT ![k] = "stored"] /\ UNCHANGED deleteJobs
        /\ store' = store \cup {BackupName(k)}
    BY <1>4 DEF StoreBackup
  <2>2. ASSUME NEW i \in Ids, Completed(i), BackupName(i) \in store'
        PROVE  BackupName(i) \in store
    <3>1. i # k
      BY <2>1, <2>2 DEF RemovalInv, UploadOver
    <3>2. i \in Present /\ k \in Present
      BY <2>1, <2>2 DEF Present, Tracked, Completed
    <3>3. BackupName(i) # BackupName(k)
      BY <3>1, <3>2 DEF RemovalInv, NamesInv, DistinctNames
    <3> QED
      BY <2>1, <2>2, <3>3
  <2>3. \A i \in Ids : jobs[i] \in {"none", "complete"} => jobs'[i] = jobs[i]
    BY <1>0, <2>1
  <2> QED
    BY <1>0, <2>1, <2>2, <2>3, RemovalOutside
<1>5. ASSUME NEW k \in Ids, CompleteBackupJob(k) \/ FailBackupJob(k) PROVE RemovalInv'
  <2>1. /\ jobs[k] \in {"active", "stored"} /\ UNCHANGED <<deleteJobs, store>>
        /\ \E s \in JobState : jobs' = [jobs EXCEPT ![k] = s]
    BY <1>5 DEF CompleteBackupJob, FailBackupJob, JobState
  <2>2. \A i \in Ids : jobs[i] \in {"none", "complete"} => jobs'[i] = jobs[i]
    BY <1>0, <2>1
  <2> QED
    BY <1>0, <2>1, <2>2, RemovalOutside
<1>6. ASSUME NEW k \in Ids, CompleteDeleteJob(k) \/ FailDeleteJob(k) PROVE RemovalInv'
  <2>1. /\ deleteJobs[k] = "active" /\ UNCHANGED jobs /\ store' \subseteq store
        /\ \/ deleteJobs' = [deleteJobs EXCEPT ![k] = "failed"]
           \/ deleteJobs' = [deleteJobs EXCEPT ![k] = "complete"] /\ BackupName(k) \notin store'
    BY <1>6 DEF CompleteDeleteJob, FailDeleteJob
  <2>2. \A i \in Ids : deleteJobs'[i] # "none" => deleteJobs[i] # "none"
    BY <1>0, <2>1
  <2>3. \A i \in Ids : deleteJobs'[i] = "complete" => \/ deleteJobs[i] = "complete"
                                                      \/ BackupName(i) \notin store'
    BY <1>0, <2>1
  <2> QED
    BY <1>0, <2>1, <2>2, <2>3, RemovalOutside
<1> QED
  BY <1>1, <1>2, <1>3, <1>4, <1>5, <1>6 DEF Running

LEMMA RemovalNext == RemovalInv /\ [Next]_vars => RemovalInv'
<1> SUFFICES ASSUME RemovalInv, [Next]_vars PROVE RemovalInv'
  OBVIOUS
<1>0. /\ NamesInv /\ NamesInv' /\ CopyInv /\ CopyInv' /\ JobInv /\ TypeOK
      /\ jobs \in [Ids -> JobState] /\ deleteJobs \in [Ids -> JobState]
      /\ Tracked(config) \subseteq Ids
  BY NamesNext DEF RemovalInv, NamesInv, CopyInv, JobInv, ListInv, TypeOK, Tracked
<1> USE DEF apiVars, jobVars
<1>1. CASE Reconcile
  <2>1. UNCHANGED <<config, sched, jobs, deleteJobs, store>> /\ mem' = config /\ pc' = "schedule"
    BY <1>1 DEF Reconcile
  <2>2. \A i \in Ids : UploadOver(i)'
    BY <2>1 DEF RemovalInv, UploadOver, Completed
  <2>3. \A i \in Ids : DeletionStarted(i)' => DeletionStarted(i)
    BY <2>1 DEF DeletionStarted
  <2>4. \A i \in Ids : DeletionOver(i)' => DeletionOver(i)
    BY <2>1 DEF DeletionOver, DroppedInCopy
  <2> QED
    BY <1>0, <2>1, <2>2, <2>3, <2>4, RemovalKept
<1>2. CASE EnsurePendingBackupIsScheduled
  <2>1. pc = "schedule" /\ Busy /\ UNCHANGED <<jobs, deleteJobs, store>>
    BY <1>0, <1>2, SchedulingEffect DEF Busy
  <2>2. CASE UNCHANGED <<config, mem, sched>> /\ pc' = "start"
    <3>1. \A i \in Ids : UploadOver(i)'
      BY <2>1, <2>2 DEF RemovalInv, UploadOver, Completed
    <3>2. \A i \in Ids : DeletionStarted(i)' => DeletionStarted(i)
      BY <2>1, <2>2 DEF DeletionStarted
    <3>3. \A i \in Ids : DeletionOver(i)' => DeletionOver(i)
      BY <2>1, <2>2 DEF DeletionOver, DroppedInCopy, Busy
    <3> QED
      BY <1>0, <2>1, <2>2, <3>1, <3>2, <3>3, RemovalKept
  <2>3. CASE UNCHANGED <<config, sched>> /\ pc' = "idle"
    BY <1>0, <2>1, <2>3, RemovalAborted DEF DeletionStarted
  <2>4. CASE Appending
    <3>1. /\ fresh /\ nextId \in Ids /\ mem.state = "live" /\ sched' = [sched EXCEPT ![nextId] = tick]
          /\ config'.backups = mem'.backups /\ pc' = "start"
          /\ \A i \in Ids :
               /\ config'.backups[i].phase = IF i = nextId THEN "" ELSE mem.backups[i].phase
               /\ config'.backups[i].deletePhase = mem.backups[i].deletePhase
      BY <2>4 DEF Appending
    <3>2. config.state = "live" /\ Tracked(mem) = Tracked(config)
      BY <1>0, <2>1, <3>1, CopyExact DEF JobInv, Busy
    <3>3. nextId \notin Tracked(config)
      <4>1. \A i \in Tracked(config) : i < nextId /\ i \in Nat
        BY <1>0, IdsFinite DEF JobInv, ListInv, Sound
      <4> QED
        BY <4>1
    <3>4. ~DeletionStarted(nextId)
      <4>1. deleteJobs[nextId] = "none"
        BY <1>0, <3>1, <3>2, <3>3 DEF JobInv, NoForgottenJobs
      <4>2. mem.backups[nextId].deletePhase = "" /\ config.backups[nextId].deletePhase = ""
        BY <1>0, <3>1, <3>2, <3>3 DEF JobInv, Blank
      <4> QED
        BY <4>1, <4>2 DEF DeletionStarted
    <3>5. \A i \in Tracked(config) : sched'[i] = sched[i]
      BY <1>0, <3>1, <3>3 DEF TypeOK
    <3> QED
      BY <1>0, <2>1, <3>1, <3>4, <3>5, RemovalSave
  <2> QED
    BY <1>0, <1>2, <2>2, <2>3, <2>4, SchedulingEffect
<1>3. CASE StartPendingBackupJobs
  <2>1. /\ pc = "start" /\ pc' = "startSave" /\ UNCHANGED <<config, sched, deleteJobs, store>>
        /\ jobs' = Created(jobs, BackupsToStart)
    BY <1>3 DEF StartPendingBackupJobs
  <2>2. \A i \in Ids : mem.backups[i].phase = config.backups[i].phase
    BY <1>0, <2>1, CopyExact DEF Busy
  <2>3. \A i \in Ids \ BackupsToStart : jobs'[i] = jobs[i]
    BY <2>1 DEF Created
  <2>4. ASSUME NEW i \in Ids, mem'.backups[i].phase = "Completed"
        PROVE  i \notin BackupsToStart /\ (jobs[i] = "complete" \/ Completed(i))
    BY <1>0, <1>3, <2>2, <2>4, StartEffect DEF PhaseFromJob, Completed
  <2>5. \A i \in Ids : Completed(i) => i \notin BackupsToStart
    BY <2>2 DEF Completed, BackupsToStart
  <2>6. \A i \in Ids : UploadOver(i)'
    BY <2>1, <2>3, <2>4, <2>5 DEF RemovalInv, UploadOver, Completed
  <2>7. \A i \in Ids : mem'.backups[i].deletePhase = mem.backups[i].deletePhase
    BY <1>0, <1>3, StartEffect
  <2>8. \A i \in Ids : DeletionStarted(i)' => DeletionStarted(i)
    BY <2>1, <2>7 DEF DeletionStarted, Busy
  <2>9. DroppedInCopy' = {}
    BY <1>0, <2>1 DEF CopyInv, DropsAreSaved
  <2>10. \A i \in Ids : DeletionOver(i)' => DeletionOver(i)
    BY <2>1, <2>7, <2>9 DEF DeletionOver, Busy
  <2> QED
    BY <1>0, <2>1, <2>6, <2>8, <2>10, RemovalKept
<1>4. CASE StartPendingBackupDeleteJobs
  <2>1. /\ pc = "delete" /\ pc' \in {"update", "deleteSave"} /\ UNCHANGED <<config, sched, jobs, store>>
        /\ deleteJobs' = deleteJobs \/ deleteJobs' = Created(deleteJobs, BackupsToDelete)
    BY <1>4 DEF StartPendingBackupDeleteJobs
  <2>2. \A i \in Ids : mem.backups[i].phase = config.backups[i].phase
    BY <1>0, <2>1, CopyExact DEF Busy
  <2>3. \A i \in BackupsToDelete : config.backups[i].phase \in {"Completed", "Failed"}
    BY <2>2 DEF BackupsToDelete
  <2>4. \A i \in Ids : /\ deleteJobs'[i] # "none" => deleteJobs[i] # "none" \/ i \in BackupsToDelete
                       /\ deleteJobs'[i] = "complete" => deleteJobs[i] = "complete"
    BY <2>1 DEF Created
  <2>5. \A i \in Ids : /\ mem'.backups[i].deletePhase # mem.backups[i].deletePhase =>
                            /\ i \in BackupsToDelete
                            /\ HasDelete => mem'.backups[i].deletePhase = "Running"
    BY <1>0, <1>4, DeleteEffect
  <2>6. \A i \in Ids : UploadOver(i)'
    BY <2>1 DEF RemovalInv, UploadOver, Completed
  <2>7. \A i \in Ids : DeletionStarted(i)' => DeletionStarted(i) \/ i \in BackupsToDelete
    BY <2>1, <2>4, <2>5 DEF DeletionStarted, Busy
  <2>8. DroppedInCopy' = {}
    BY <1>0, <2>1 DEF CopyInv, DropsAreSaved
  <2>9. \A i \in Ids : HasDelete /\ DeletionOver(i)' => DeletionOver(i)
    BY <2>1, <2>4, <2>5, <2>8 DEF DeletionOver, Busy
  <2> QED
    BY <1>0, <2>1, <2>3, <2>6, <2>7, <2>9, RemovalKept
<1>5. CASE UpdateRunningBackupDeleteJobs
  <2>1. /\ pc = "update" /\ pc' = "updateSave" /\ UNCHANGED <<config, sched, jobs, store>>
        /\ deleteJobs' = Created(Deleted(deleteJobs, FailedDeletes), FailedDeletes \cup LostDeletes)
    BY <1>5 DEF UpdateRunningBackupDeleteJobs
  <2>2. FailedDeletes \cup LostDeletes \subseteq RunningDeletes /\ DeletesDone \subseteq RunningDeletes
    BY DEF FailedDeletes, LostDeletes, DeletesDone
  <2>3. \A i \in RunningDeletes : DeletionStarted(i)
    BY <2>1 DEF RunningDeletes, DeletionStarted, Busy
  <2>4. \A i \in Ids : /\ deleteJobs'[i] # "none" => deleteJobs[i] # "none" \/ i \in RunningDeletes
                       /\ deleteJobs'[i] = "complete" => deleteJobs[i] = "complete"
    BY <2>1, <2>2 DEF Created, Deleted
  <2>5. \A i \in Ids : mem'.backups[i].deletePhase # mem.backups[i].deletePhase =>
                         i \in RunningDeletes /\ deleteJobs[i] = "complete"
    BY <1>0, <1>5, <2>2, UpdateDeletesEffect DEF DeletesDone
  <2>6. \A i \in Ids : UploadOver(i)'
    BY <2>1 DEF RemovalInv, UploadOver, Completed
  <2>7. \A i \in Ids : DeletionStarted(i)' => DeletionStarted(i)
    BY <2>1, <2>3, <2>4, <2>5 DEF DeletionStarted, Busy
  <2>8. DroppedInCopy' = {}
    BY <1>0, <2>1 DEF CopyInv, DropsAreSaved
  <2>9. \A i \in Ids : DeletionOver(i)' => DeletionOver(i)
    BY <2>1, <2>4, <2>5, <2>8 DEF DeletionOver, Busy
  <2> QED
    BY <1>0, <2>1, <2>6, <2>7, <2>9, RemovalKept
<1>6. CASE DeleteFinishedBackupJobs
  <2>1. PICK eJ \in Expired(FinishedBackups, jobs), eD \in Expired(FinishedDeletes, deleteJobs) :
          /\ jobs' = Deleted(jobs, {i \in eJ : Found(jobs[i])})
          /\ deleteJobs' = Deleted(deleteJobs, {i \in eD : Found(deleteJobs[i])})
          /\ \A i \in Ids :
               mem'.backups[i] = IF i \in Dropped(eJ, eD) THEN Untracked ELSE mem.backups[i]
    BY <1>0, <1>6, CleanEffect
  <2>2. /\ pc = "clean" /\ pc' \in {"cleanSave", "finalize"} /\ UNCHANGED <<config, sched, store>>
    BY <1>6 DEF DeleteFinishedBackupJobs
  <2>3. \A i \in Ids : mem.backups[i].phase = config.backups[i].phase
    BY <1>0, <2>2, CopyExact DEF Busy
  <2>4. \A i \in Ids : /\ jobs'[i] \in {jobs[i], "none"} /\ deleteJobs'[i] \in {deleteJobs[i], "none"}
    BY <2>1 DEF Deleted
  <2>5. \A i \in Ids : \/ mem'.backups[i].deletePhase = mem.backups[i].deletePhase
                       \/ mem'.backups[i].deletePhase = ""
    <3>1. Untracked.deletePhase = ""
      BY DEF Untracked
    <3> QED
      BY <2>1, <3>1
  <2>6. \A i \in Ids : UploadOver(i)'
    BY <2>2, <2>4 DEF RemovalInv, UploadOver, Completed
  <2>7. \A i \in Ids : DeletionStarted(i)' => DeletionStarted(i)
    BY <2>2, <2>4, <2>5 DEF DeletionStarted, Busy
  <2>8. eD \subseteq FinishedDeletes
    BY <2>1 DEF Expired
  <2>9. ASSUME NEW i \in Ids, Completed(i), i \in DroppedInCopy' PROVE DeletionOver(i)
    <3>1. mem.backups[i].phase = "Completed" /\ mem'.backups[i].phase = "untracked"
      BY <2>3, <2>9 DEF Completed, DroppedInCopy, Tracked
    <3>2. i \in Dropped(eJ, eD) /\ i \notin NeverStarted
      BY <2>1, <3>1 DEF NeverStarted
    <3>3. mem.backups[i].deletePhase = "Completed"
      BY <2>8, <3>2 DEF Dropped, FinishedDeletes
    <3> QED
      BY <2>2, <3>3 DEF DeletionOver, Busy
  <2>10. \A i \in Ids : Completed(i) /\ DeletionOver(i)' => DeletionOver(i)
    BY <2>2, <2>4, <2>5, <2>9 DEF DeletionOver, Busy
  <2> QED
    BY <1>0, <2>2, <2>6, <2>7, <2>10, RemovalKept
<1>7. CASE HandleFinalization
  <2>1. pc = "finalize" /\ UNCHANGED <<config, sched, jobs, deleteJobs, store>>
    BY <1>7 DEF HandleFinalization
  <2>2. CASE pc' = "idle"
    BY <1>0, <2>1, <2>2, RemovalAborted DEF DeletionStarted
  <2>3. CASE mem'.backups = mem.backups /\ pc' = "finalizeSave"
    <3>1. \A i \in Ids : UploadOver(i)'
      BY <2>1, <2>3 DEF RemovalInv, UploadOver, Completed
    <3>2. \A i \in Ids : DeletionStarted(i)' => DeletionStarted(i)
      BY <2>1, <2>3 DEF DeletionStarted, Busy
    <3>3. DroppedInCopy' = {}
      BY <1>0, <2>3 DEF CopyInv, DropsAreSaved
    <3>4. \A i \in Ids : DeletionOver(i)' => DeletionOver(i)
      BY <2>1, <2>3, <3>3 DEF DeletionOver, Busy
    <3> QED
      BY <1>0, <2>1, <3>1, <3>2, <3>4, RemovalKept
  <2>4. pc' = "idle" \/ pc' = "finalizeSave"
    BY <1>7 DEF HandleFinalization, Return
  <2> QED
    BY <1>0, <1>7, <2>2, <2>3, <2>4, FinalizeEffect
<1>8. CASE Saving
  <2>1. Busy /\ UNCHANGED <<sched, jobs, deleteJobs, store>>
    BY <1>0, <1>8, SavingEffect
  <2>2. CASE UNCHANGED config /\ pc' = "idle"
    BY <1>0, <2>1, <2>2, RemovalAborted DEF DeletionStarted
  <2>3. CASE /\ config'.backups = mem.backups
             /\ pc' = "idle" \/ (mem'.backups = mem.backups /\ pc' # "startSave")
    BY <1>0, <2>1, <2>3, RemovalSave
  <2> QED
    BY <1>0, <1>8, <2>2, <2>3, SavingEffect
<1>9. CASE Aborting
  BY <1>0, <1>9, RemovalAborts
<1>10. CASE Running
  BY <1>0, <1>10, RemovalRuns
<1>11. CASE Elsewhere
  BY <1>0, <1>11, ElsewhereEffect, RemovalOutside
<1> QED
  BY <1>1, <1>2, <1>3, <1>4, <1>5, <1>6, <1>7, <1>8, <1>9, <1>10, <1>11, StepKinds

(* A completed backup leaves the status only when it is no longer in the   *)
(* backend, however often its delete job failed or was lost, and also      *)
(* while the resource is being deleted and jobs are left behind.           *)
THEOREM RemovedFirst == Spec => RemovedBeforeForgotten
<1> DEFINE Forgets ==
      \A i \in Ids :
        /\ HasDelete
        /\ config.backups[i].phase = "Completed"
        /\ config'.backups[i].phase = "untracked"
        => BackupName(i) \notin store'
<1>1. RemovalInv /\ [Next]_vars => [Forgets]_vars
  <2> SUFFICES ASSUME RemovalInv, [Next]_vars,
                      NEW i \in Ids, HasDelete, config.backups[i].phase = "Completed",
                      config'.backups[i].phase = "untracked"
               PROVE  BackupName(i) \notin store'
    OBVIOUS
  <2>0. CopyInv /\ TypeOK
    BY DEF RemovalInv, NamesInv, CopyInv, JobInv, ListInv
  <2>1. Busy /\ UNCHANGED store /\ mem.backups[i].phase = "untracked"
    <3> USE DEF apiVars
    <3>1. CASE Saving
      BY <2>0, <3>1, SavingEffect
    <3>2. CASE EnsurePendingBackupIsScheduled
      <4>1. pc = "schedule" /\ Appending /\ UNCHANGED store
        BY <2>0, <3>2, SchedulingEffect
      <4> QED
        BY <4>1 DEF Appending, Busy
    <3>3. CASE Aborting \/ Running \/ Elsewhere
      BY <2>0, <3>3, AbortingEffect, RunningEffect, ElsewhereEffect
    <3>4. CASE Reconcile \/ StartPendingBackupJobs \/ StartPendingBackupDeleteJobs
                 \/ UpdateRunningBackupDeleteJobs \/ DeleteFinishedBackupJobs \/ HandleFinalization
      BY <3>4 DEF Reconcile, StartPendingBackupJobs, StartPendingBackupDeleteJobs,
                  UpdateRunningBackupDeleteJobs, DeleteFinishedBackupJobs, HandleFinalization
    <3> QED
      BY <3>1, <3>2, <3>3, <3>4, StepKinds
  <2>2. i \in DroppedInCopy
    BY <2>1 DEF DroppedInCopy, Tracked
  <2> QED
    BY <2>1, <2>2 DEF RemovalInv, Removed, Completed, DeletionOver
<1>2. Spec => []RemovalInv
  BY RemovalInit, RemovalNext, PTL DEF Spec
<1> QED
  BY <1>1, <1>2, PTL DEF Spec, RemovedBeforeForgotten

=============================================================================
