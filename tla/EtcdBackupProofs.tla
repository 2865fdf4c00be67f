-------------------------- MODULE EtcdBackupProofs --------------------------
(***************************************************************************)
(* Proofs about EtcdBackup, for every number of backups to keep, every     *)
(* configuration of the controller and every bound.                        *)
(***************************************************************************)
EXTENDS EtcdBackup, FiniteSetTheorems, WellFoundedInduction, NaturalsInduction, TLAPS

-----------------------------------------------------------------------------
(* Type correctness. *)

LEMMA JobsTyped ==
  ASSUME NEW js \in [Ids -> JobState], NEW S
  PROVE  Created(js, S) \in [Ids -> JobState] /\ Deleted(js, S) \in [Ids -> JobState]
BY DEF Created, Deleted, JobState

LEMMA NewConfigTyped == NewConfig \in EtcdBackupConfig
BY DEF NewConfig, EtcdBackupConfig, BackupStatus, Untracked

LEMMA PersistedTyped ==
  ASSUME NEW c \in EtcdBackupConfig
  PROVE  Persisted(c) \in EtcdBackupConfig
BY DEF Persisted, EtcdBackupConfig

LEMMA UpdateTyped ==
  ASSUME TypeOK, NEW m \in EtcdBackupConfig, NEW next \in PCs, Update(m, next)
  PROVE  /\ config' \in EtcdBackupConfig /\ mem' \in EtcdBackupConfig
         /\ pc' \in PCs /\ fresh' \in BOOLEAN
BY NewConfigTyped, PersistedTyped DEF Update, Return, TypeOK, PCs

LEMMA ReturnTyped ==
  ASSUME Return
  PROVE  mem' \in EtcdBackupConfig /\ pc' \in PCs /\ fresh' \in BOOLEAN
BY NewConfigTyped DEF Return, PCs

LEMMA FaultTyped ==
  ASSUME TypeOK, Fault
  PROVE  faults' \in 0 .. MaxFaults
BY BackupConstants DEF Fault, TypeOK

(* Changes of single entries of status.lastBackups, and of whole lists. *)
LEMMA EntriesTyped ==
  ASSUME NEW c \in EtcdBackupConfig, NEW i \in Ids
  PROVE  /\ c.backups \in [Ids -> BackupStatus]
         /\ c.backups[i] \in BackupStatus
         /\ \A p \in {"untracked", "", "Running", "Completed", "Failed"} :
              [c.backups[i] EXCEPT !.phase = p] \in BackupStatus
         /\ \A p \in {"", "Running", "Completed"} :
              [c.backups[i] EXCEPT !.deletePhase = p] \in BackupStatus
<1>1. c.backups \in [Ids -> BackupStatus]
  BY DEF EtcdBackupConfig
<1>2. c.backups[i] \in BackupStatus
  BY <1>1
<1>3. \A p \in {"untracked", "", "Running", "Completed", "Failed"} :
        [c.backups[i] EXCEPT !.phase = p] \in BackupStatus
  BY <1>2 DEF BackupStatus
<1>4. \A p \in {"", "Running", "Completed"} :
        [c.backups[i] EXCEPT !.deletePhase = p] \in BackupStatus
  BY <1>2 DEF BackupStatus
<1> QED
  BY <1>1, <1>2, <1>3, <1>4

LEMMA BackupsTyped ==
  ASSUME NEW c \in EtcdBackupConfig, NEW b \in [Ids -> BackupStatus], NEW f \in BOOLEAN
  PROVE  /\ [c EXCEPT !.backups = b] \in EtcdBackupConfig
         /\ [c EXCEPT !.backups = b, !.finalizer = f] \in EtcdBackupConfig
BY DEF EtcdBackupConfig

LEMMA TypeInit == Init => TypeOK
<1> SUFFICES ASSUME Init PROVE TypeOK
  OBVIOUS
<1>1. 1 \in 1 .. MaxBackups + 1 /\ 0 \in Ticks /\ 0 \in 0 .. MaxFaults
  BY BackupConstants DEF Ticks
<1>2. sched \in [Ids -> Ticks] /\ jobs \in [Ids -> JobState] /\ deleteJobs \in [Ids -> JobState]
  BY <1>1 DEF Init, JobState
<1> QED
  BY <1>1, <1>2, NewConfigTyped DEF Init, TypeOK, PCs, JobState

(* Every step of the controller or of its environment keeps the types. *)
LEMMA TypeNext == TypeOK /\ [Next]_vars => TypeOK'
<1> SUFFICES ASSUME TypeOK, [Next]_vars PROVE TypeOK'
  OBVIOUS
<1> USE DEF apiVars, jobVars, envVars, controllerVars
<1>1. CASE Reconcile
  BY <1>1 DEF Reconcile, TypeOK, PCs
<1>2. CASE SetSchedulingActive
  <2>1. [mem EXCEPT !.schedulingActive = WantedSchedulingActive] \in EtcdBackupConfig
    BY DEF TypeOK, EtcdBackupConfig, WantedSchedulingActive
  <2> QED
    BY <1>2, <2>1, UpdateTyped DEF SetSchedulingActive, TypeOK, PCs
<1>3. CASE EnsurePendingBackupIsScheduled
  <2>1. CASE ScheduleNow
    <3>1. nextId \in Ids /\ tick \in Ticks /\ nextId + 1 \in 1 .. MaxBackups + 1
      BY <2>1, BackupConstants DEF ScheduleNow, TypeOK, Ids
    <3>2. [mem EXCEPT !.backups[nextId].phase = ""] \in EtcdBackupConfig
      <4>1. [mem.backups EXCEPT ![nextId].phase = ""] \in [Ids -> BackupStatus]
        BY <3>1, EntriesTyped DEF TypeOK
      <4> QED
        BY <4>1, BackupsTyped DEF TypeOK
    <3>3. Update([mem EXCEPT !.backups[nextId].phase = ""], "start")
      BY <1>3, <2>1 DEF EnsurePendingBackupIsScheduled
    <3>4. /\ config' \in EtcdBackupConfig /\ mem' \in EtcdBackupConfig
          /\ pc' \in PCs /\ fresh' \in BOOLEAN
      BY <3>2, <3>3, UpdateTyped DEF PCs
    <3> QED
      BY <1>3, <2>1, <3>1, <3>4 DEF EnsurePendingBackupIsScheduled, TypeOK
  <2>2. CASE ~ScheduleNow
    BY <1>3, <2>2 DEF EnsurePendingBackupIsScheduled, TypeOK, PCs
  <2> QED
    BY <2>1, <2>2
<1>4. CASE StartPendingBackupJobs
  <2>1. \A i \in Ids : PhaseFromJob(i) \in {"Running", "Completed", "Failed"}
    BY DEF PhaseFromJob
  <2> DEFINE b == [i \in Ids |->
                 IF i \in BackupsToStart THEN [mem.backups[i] EXCEPT !.phase = "Running"]
                 ELSE IF mem.backups[i].phase = "Running"
                      THEN [mem.backups[i] EXCEPT !.phase = PhaseFromJob(i)]
                      ELSE mem.backups[i]]
             f == mem.finalizer \/ BackupsToStart # {}
  <2>a. b \in [Ids -> BackupStatus]
    BY <2>1, EntriesTyped DEF TypeOK
  <2>b. mem' = [mem EXCEPT !.backups = b, !.finalizer = f]
    BY <1>4 DEF StartPendingBackupJobs
  <2> HIDE DEF b
  <2>2. mem' \in EtcdBackupConfig
    BY <2>a, <2>b, BackupsTyped DEF TypeOK
  <2> QED
    BY <1>4, <2>2, JobsTyped DEF StartPendingBackupJobs, TypeOK, PCs
<1>5. CASE StartPendingBackupJobsFails
  BY <1>5, JobsTyped, ReturnTyped, FaultTyped DEF StartPendingBackupJobsFails, TypeOK
<1>6. CASE SaveStartedBackups \/ SaveStartedDeletes \/ SaveUpdatedDeletes
             \/ SaveDroppedBackups \/ SaveFinalization
  BY <1>6, UpdateTyped DEF SaveStartedBackups, SaveStartedDeletes, SaveUpdatedDeletes,
                          SaveDroppedBackups, SaveFinalization, TypeOK, PCs
<1>7. CASE StartPendingBackupDeleteJobs
  <2> DEFINE b == [i \in Ids |->
                 IF i \in BackupsToDelete
                 THEN [mem.backups[i] EXCEPT
                         !.deletePhase = IF HasDelete THEN "Running" ELSE "Completed"]
                 ELSE mem.backups[i]]
  <2>a. b \in [Ids -> BackupStatus]
    BY EntriesTyped DEF TypeOK
  <2>b. mem' = [mem EXCEPT !.backups = b]
    BY <1>7 DEF StartPendingBackupDeleteJobs, DeleteStarted
  <2> HIDE DEF b
  <2>1. mem' \in EtcdBackupConfig
    BY <2>a, <2>b, BackupsTyped DEF TypeOK
  <2> QED
    BY <1>7, <2>1, JobsTyped DEF StartPendingBackupDeleteJobs, TypeOK, PCs
<1>8. CASE StartPendingBackupDeleteJobsFails
  BY <1>8, JobsTyped, ReturnTyped, FaultTyped DEF StartPendingBackupDeleteJobsFails, TypeOK
<1>9. CASE UpdateRunningBackupDeleteJobs
  <2> DEFINE b == [i \in Ids |->
                 IF i \in DeletesDone
                 THEN [mem.backups[i] EXCEPT !.deletePhase = "Completed"]
                 ELSE mem.backups[i]]
  <2>a. b \in [Ids -> BackupStatus]
    BY EntriesTyped DEF TypeOK
  <2>b. mem' = [mem EXCEPT !.backups = b]
    BY <1>9 DEF UpdateRunningBackupDeleteJobs
  <2> HIDE DEF b
  <2>1. mem' \in EtcdBackupConfig
    BY <2>a, <2>b, BackupsTyped DEF TypeOK
  <2> QED
    BY <1>9, <2>1, JobsTyped DEF UpdateRunningBackupDeleteJobs, TypeOK, PCs
<1>10. CASE UpdateRunningBackupDeleteJobsFails
  BY <1>10, JobsTyped, ReturnTyped, FaultTyped DEF UpdateRunningBackupDeleteJobsFails, TypeOK
<1>11. CASE DeleteFinishedBackupJobs
  <2>1. PICK eJ, eD :
          /\ jobs' = Deleted(jobs, {i \in eJ : Found(jobs[i])})
          /\ deleteJobs' = Deleted(deleteJobs, {i \in eD : Found(deleteJobs[i])})
          /\ mem' = [mem EXCEPT !.backups = [i \in Ids |->
                       IF i \in Dropped(eJ, eD) THEN Untracked ELSE mem.backups[i]]]
          /\ pc' = IF Dropped(eJ, eD) = {} THEN "finalize" ELSE "cleanSave"
    BY <1>11 DEF DeleteFinishedBackupJobs
  <2>2. mem' \in EtcdBackupConfig
    BY <2>1 DEF TypeOK, EtcdBackupConfig, BackupStatus, Untracked
  <2> QED
    BY <1>11, <2>1, <2>2, JobsTyped DEF DeleteFinishedBackupJobs, TypeOK, PCs
<1>12. CASE DeleteFinishedBackupJobsFails
  <2>1. jobs' \in [Ids -> JobState] /\ deleteJobs' \in [Ids -> JobState]
    BY <1>12, JobsTyped DEF DeleteFinishedBackupJobsFails, TypeOK
  <2> QED
    BY <1>12, <2>1, ReturnTyped, FaultTyped DEF DeleteFinishedBackupJobsFails, TypeOK
<1>13. CASE HandleFinalization
  <2>1. CASE ~FinalizationDue
    BY <1>13, <2>1, ReturnTyped, FaultTyped DEF HandleFinalization, TypeOK
  <2>2. CASE FinalizationDue
    <3>1. cleanupJob' \in JobState
      BY <1>13, <2>2 DEF HandleFinalization, CleanupJobAfter, TypeOK, JobState
    <3>2. mem' = [mem EXCEPT !.cleanupRunning = mem.cleanupRunning \/ NeedsCleanup,
                             !.finalizer = mem.finalizer /\ ~CanRemoveFinalizer]
      BY <1>13, <2>2 DEF HandleFinalization
    <3>3. mem' \in EtcdBackupConfig
      <4> DEFINE running == mem.cleanupRunning \/ NeedsCleanup
                 finalizer == mem.finalizer /\ ~CanRemoveFinalizer
      <4>1. running \in BOOLEAN /\ finalizer \in BOOLEAN
        OBVIOUS
      <4>2. mem' = [mem EXCEPT !.cleanupRunning = running, !.finalizer = finalizer]
        BY <3>2
      <4>3. mem \in EtcdBackupConfig
        BY DEF TypeOK
      <4> HIDE DEF running, finalizer
      <4> QED
        BY <4>1, <4>2, <4>3 DEF EtcdBackupConfig
    <3> QED
      BY <1>13, <2>2, <3>1, <3>3 DEF HandleFinalization, TypeOK, PCs
  <2> QED
    BY <2>1, <2>2
<1>14. CASE HandleFinalizationFails
  BY <1>14, ReturnTyped, FaultTyped DEF HandleFinalizationFails, TypeOK, JobState
<1>15. CASE ReconcileAborts
  BY <1>15, ReturnTyped, FaultTyped DEF ReconcileAborts, TypeOK
<1>16. CASE ConfigTouched
  BY <1>16, FaultTyped DEF ConfigTouched, TypeOK
<1>17. CASE DeleteConfig
  <2>1. [config EXCEPT !.state = "deleting"] \in EtcdBackupConfig
    BY DEF TypeOK, EtcdBackupConfig
  <2> QED
    BY <1>17, <2>1, PersistedTyped DEF DeleteConfig, TypeOK
<1>18. CASE DeleteCluster \/ UnpauseCluster \/ PauseCluster
  BY <1>18, FaultTyped DEF DeleteCluster, UnpauseCluster, PauseCluster, TypeOK
<1>19. CASE Tick
  BY <1>19, BackupConstants DEF Tick, TypeOK, Ticks
<1>20. CASE JobCacheSync
  BY <1>20 DEF JobCacheSync, Seen, TypeOK, JobState
<1>21. ASSUME NEW i \in Ids,
              StoreBackup(i) \/ CompleteBackupJob(i) \/ CompleteDeleteJob(i)
                \/ FailBackupJob(i) \/ FailDeleteJob(i)
       PROVE  TypeOK'
  <2>1. BackupName(i) \in Ticks
    BY BackupConstants DEF BackupName, TypeOK, Ticks
  <2> QED
    BY <1>21, <2>1, FaultTyped DEF StoreBackup, CompleteBackupJob, CompleteDeleteJob, FailBackupJob,
                       FailDeleteJob, TypeOK, JobState
<1>22. CASE CompleteCleanupJob \/ FailCleanupJob
  BY <1>22, FaultTyped DEF CompleteCleanupJob, FailCleanupJob, TypeOK, JobState
<1>23. CASE LoseJob
  <2>1. jobs' \in [Ids -> JobState] /\ deleteJobs' \in [Ids -> JobState]
    <3>1. CASE \E i \in Ids : jobs' = Deleted(jobs, {i}) /\ UNCHANGED deleteJobs
      BY <3>1, JobsTyped DEF TypeOK
    <3>2. CASE \E i \in Ids : deleteJobs' = Deleted(deleteJobs, {i}) /\ UNCHANGED jobs
      BY <3>2, JobsTyped DEF TypeOK
    <3> QED
      BY <1>23, <3>1, <3>2 DEF LoseJob
  <2> QED
    BY <1>23, <2>1, FaultTyped DEF LoseJob, TypeOK
<1>24. CASE UNCHANGED vars
  BY <1>24 DEF vars, TypeOK
<1> QED
  BY <1>1, <1>2, <1>3, <1>4, <1>5, <1>6, <1>7, <1>8, <1>9, <1>10, <1>11, <1>12, <1>13,
     <1>14, <1>15, <1>16, <1>17, <1>18, <1>19, <1>20, <1>21, <1>22, <1>23, <1>24
  DEF Next, ControllerStep, JobStep, Disturbance

(* TypeOK holds in every behaviour of the controller and its environment.  *)
THEOREM TypeCorrect == Spec => []TypeOK
BY TypeInit, TypeNext, PTL DEF Spec

-----------------------------------------------------------------------------
(* What each step does to the copy of the resource, entry by entry. *)

LEMMA ListReplaced ==
  ASSUME NEW c \in EtcdBackupConfig, NEW b, NEW f
  PROVE  LET d == [c EXCEPT !.backups = b]
             e == [c EXCEPT !.backups = b, !.finalizer = f]
         IN d.backups = b /\ d.state = c.state /\ e.backups = b /\ e.state = c.state
BY DEF EtcdBackupConfig

LEMMA EntryChanged ==
  ASSUME NEW e \in BackupStatus, NEW p
  PROVE  /\ [e EXCEPT !.phase = p].phase = p
         /\ [e EXCEPT !.phase = p].deletePhase = e.deletePhase
         /\ [e EXCEPT !.deletePhase = p].phase = e.phase
         /\ [e EXCEPT !.deletePhase = p].deletePhase = p
BY DEF BackupStatus

LEMMA StartEffect ==
  ASSUME TypeOK, StartPendingBackupJobs
  PROVE  /\ mem'.state = mem.state
         /\ \A i \in Ids :
              /\ mem'.backups[i].phase =
                   IF i \in BackupsToStart THEN "Running"
                   ELSE IF mem.backups[i].phase = "Running" THEN PhaseFromJob(i)
                   ELSE mem.backups[i].phase
              /\ mem'.backups[i].deletePhase = mem.backups[i].deletePhase
<1> DEFINE b == [i \in Ids |->
              IF i \in BackupsToStart THEN [mem.backups[i] EXCEPT !.phase = "Running"]
              ELSE IF mem.backups[i].phase = "Running"
                   THEN [mem.backups[i] EXCEPT !.phase = PhaseFromJob(i)]
                   ELSE mem.backups[i]]
           f == mem.finalizer \/ BackupsToStart # {}
<1>1. mem' = [mem EXCEPT !.backups = b, !.finalizer = f]
  BY DEF StartPendingBackupJobs
<1>2. mem'.backups = b /\ mem'.state = mem.state
  <2> HIDE DEF b, f
  <2> QED
    BY <1>1, ListReplaced DEF TypeOK
<1>3. \A i \in Ids : mem.backups[i] \in BackupStatus
  BY EntriesTyped DEF TypeOK
<1> QED
  BY <1>2, <1>3, EntryChanged

LEMMA DeleteEffect ==
  ASSUME TypeOK, StartPendingBackupDeleteJobs
  PROVE  /\ mem'.state = mem.state
         /\ \A i \in Ids :
              /\ mem'.backups[i].phase = mem.backups[i].phase
              /\ mem'.backups[i].deletePhase =
                   IF i \in BackupsToDelete THEN IF HasDelete THEN "Running" ELSE "Completed"
                   ELSE mem.backups[i].deletePhase
<1> DEFINE p == IF HasDelete THEN "Running" ELSE "Completed"
           b == [i \in Ids |->
              IF i \in BackupsToDelete THEN [mem.backups[i] EXCEPT !.deletePhase = p]
              ELSE mem.backups[i]]
<1>1. mem' = [mem EXCEPT !.backups = b]
  BY DEF StartPendingBackupDeleteJobs, DeleteStarted
<1>2. mem'.backups = b /\ mem'.state = mem.state
  <2> HIDE DEF b
  <2> QED
    BY <1>1, ListReplaced DEF TypeOK
<1>3. \A i \in Ids : mem.backups[i] \in BackupStatus
  BY EntriesTyped DEF TypeOK
<1> QED
  BY <1>2, <1>3, EntryChanged

LEMMA UpdateDeletesEffect ==
  ASSUME TypeOK, UpdateRunningBackupDeleteJobs
  PROVE  /\ mem'.state = mem.state
         /\ \A i \in Ids :
              /\ mem'.backups[i].phase = mem.backups[i].phase
              /\ mem'.backups[i].deletePhase =
                   IF i \in DeletesDone THEN "Completed" ELSE mem.backups[i].deletePhase
<1> DEFINE b == [i \in Ids |->
              IF i \in DeletesDone THEN [mem.backups[i] EXCEPT !.deletePhase = "Completed"]
              ELSE mem.backups[i]]
<1>1. mem' = [mem EXCEPT !.backups = b]
  BY DEF UpdateRunningBackupDeleteJobs
<1>2. mem'.backups = b /\ mem'.state = mem.state
  <2> HIDE DEF b
  <2> QED
    BY <1>1, ListReplaced DEF TypeOK
<1>3. \A i \in Ids : mem.backups[i] \in BackupStatus
  BY EntriesTyped DEF TypeOK
<1> QED
  BY <1>2, <1>3, EntryChanged

LEMMA AppendEffect ==
  ASSUME TypeOK, nextId \in Ids
  PROVE  LET m == [mem EXCEPT !.backups[nextId].phase = ""]
         IN /\ m \in EtcdBackupConfig
            /\ m.state = mem.state
            /\ \A i \in Ids :
                 /\ m.backups[i].phase = IF i = nextId THEN "" ELSE mem.backups[i].phase
                 /\ m.backups[i].deletePhase = mem.backups[i].deletePhase
<1> DEFINE m == [mem EXCEPT !.backups[nextId].phase = ""]
<1>1. mem \in EtcdBackupConfig /\ \A i \in Ids : mem.backups[i] \in BackupStatus
  BY EntriesTyped DEF TypeOK
<1>2. [mem.backups EXCEPT ![nextId].phase = ""] \in [Ids -> BackupStatus]
  BY EntriesTyped DEF TypeOK
<1>3. m \in EtcdBackupConfig /\ m.state = mem.state
      /\ m.backups = [mem.backups EXCEPT ![nextId].phase = ""]
  BY <1>1, <1>2, BackupsTyped, ListReplaced
<1> HIDE DEF m
<1>4. \A i \in Ids : m.backups[i] =
        IF i = nextId THEN [mem.backups[i] EXCEPT !.phase = ""] ELSE mem.backups[i]
  BY <1>1, <1>3, EntriesTyped
<1>5. ASSUME NEW i \in Ids
      PROVE  /\ m.backups[i].phase = IF i = nextId THEN "" ELSE mem.backups[i].phase
             /\ m.backups[i].deletePhase = mem.backups[i].deletePhase
  <2>1. CASE i = nextId
    <3>1. m.backups[i] = [mem.backups[i] EXCEPT !.phase = ""]
      BY <1>4, <2>1
    <3>2. mem.backups[i] \in BackupStatus
      BY <1>1
    <3> QED
      BY <2>1, <3>1, <3>2 DEF BackupStatus
  <2>2. CASE i # nextId
    <3>1. m.backups[i] = mem.backups[i]
      BY <1>4, <2>2
    <3> QED
      BY <2>2, <3>1
  <2> QED
    BY <2>1, <2>2
<1> QED
  BY <1>3, <1>5 DEF m

LEMMA CleanEffect ==
  ASSUME TypeOK, DeleteFinishedBackupJobs
  PROVE  \E eJ \in Expired(FinishedBackups, jobs), eD \in Expired(FinishedDeletes, deleteJobs) :
           /\ jobs' = Deleted(jobs, {i \in eJ : Found(jobs[i])})
           /\ deleteJobs' = Deleted(deleteJobs, {i \in eD : Found(deleteJobs[i])})
           /\ mem'.state = mem.state
           /\ \A i \in Ids :
                mem'.backups[i] = IF i \in Dropped(eJ, eD) THEN Untracked ELSE mem.backups[i]
<1>1. PICK eJ \in Expired(FinishedBackups, jobs), eD \in Expired(FinishedDeletes, deleteJobs) :
        /\ jobs' = Deleted(jobs, {i \in eJ : Found(jobs[i])})
        /\ deleteJobs' = Deleted(deleteJobs, {i \in eD : Found(deleteJobs[i])})
        /\ mem' = [mem EXCEPT !.backups = [i \in Ids |->
                     IF i \in Dropped(eJ, eD) THEN Untracked ELSE mem.backups[i]]]
  BY DEF DeleteFinishedBackupJobs
<1> DEFINE b == [i \in Ids |-> IF i \in Dropped(eJ, eD) THEN Untracked ELSE mem.backups[i]]
<1>2. mem'.backups = b /\ mem'.state = mem.state
  <2>1. mem' = [mem EXCEPT !.backups = b]
    BY <1>1
  <2> HIDE DEF b
  <2> QED
    BY <2>1, ListReplaced DEF TypeOK
<1>3. \A i \in Ids :
        mem'.backups[i] = IF i \in Dropped(eJ, eD) THEN Untracked ELSE mem.backups[i]
  BY <1>2
<1> HIDE DEF b
<1> QED
  BY <1>1, <1>2, <1>3

LEMMA FinalizeEffect ==
  ASSUME TypeOK, HandleFinalization
  PROVE  \/ mem' = NewConfig /\ pc' = "idle" /\ UNCHANGED cleanupJob
         \/ mem'.backups = mem.backups /\ mem'.state = mem.state /\ FinalizationDue
BY DEF HandleFinalization, Return, TypeOK, EtcdBackupConfig

LEMMA ConfigWritten ==
  ASSUME TypeOK, NEW m \in EtcdBackupConfig, NEW next, Update(m, next)
  PROVE  \/ ~fresh /\ config' = config /\ mem' = NewConfig /\ pc' = "idle"
         \/ /\ fresh
            /\ config'.backups = m.backups
            /\ config'.state = "live" => m.state = "live"
            /\ \/ mem' = NewConfig /\ pc' = "idle"
               \/ mem' = m /\ pc' = next
BY DEF Update, Return, Persisted, EtcdBackupConfig

-----------------------------------------------------------------------------
(* The list of tracked backups: its order and its length. *)

LEMMA KeepIsNat == GetKeptBackupsCount \in Nat /\ GetKeptBackupsCount > 0
BY BackupConstants DEF GetKeptBackupsCount, DefaultKeptBackupsCount, MaxKeptBackupsCount

LEMMA TicksNat == Ticks \subseteq Nat
BY BackupConstants DEF Ticks

LEMMA IdsFinite == IsFiniteSet(Ids) /\ Ids \subseteq Nat
BY BackupConstants, FS_Interval DEF Ids

(* A nonempty set of positions has a largest one. *)
LEMMA LargestId ==
  ASSUME NEW S \in SUBSET Ids, S # {}
  PROVE  \E i \in S : \A j \in S : j <= i
<1> DEFINE Dual == {MaxBackups - i : i \in S}
<1>1. Dual \subseteq Nat /\ Dual # {}
  <2>1. \A i \in S : MaxBackups - i \in Nat
    BY BackupConstants DEF Ids
  <2> QED
    BY <2>1
<1>2. PICK m \in Dual : \A n \in Dual : ~(<<n, m>> \in OpToRel(<, Nat))
  BY <1>1, NatLessThanWellFounded, WFMin
<1>3. PICK i \in S : m = MaxBackups - i
  BY DEF Dual
<1>4. \A j \in S : j <= i
  <2> TAKE j \in S
  <2>1. ~(MaxBackups - j < MaxBackups - i)
    BY <1>1, <1>2, <1>3 DEF OpToRel
  <2> QED
    BY <2>1, BackupConstants DEF Ids
<1> QED
  BY <1>4

(* What the scheduler keeps true of the list in the resource and of the    *)
(* list in its copy: its length, and that it is sorted up to now.          *)
Sound(c, sc, n, t) ==
  /\ Cardinality(Tracked(c)) <= 2 * GetKeptBackupsCount + 1
  /\ \A i \in Tracked(c) : i < n /\ sc[i] <= t
  /\ \A i, j \in Tracked(c) : i < j /\ ~OneShot => sc[i] < sc[j]

ListInv ==
  /\ TypeOK
  /\ Sound(config, sched, nextId, tick)
  /\ Sound(mem, sched, nextId, tick)

LEMMA SoundSubset ==
  ASSUME NEW c, NEW d, Tracked(d) \subseteq Tracked(c),
         NEW sc \in [Ids -> Ticks], NEW n \in Nat, NEW t \in Nat, NEW u \in Nat, t <= u,
         Sound(c, sc, n, t)
  PROVE  Sound(d, sc, n, u)
<1>1. IsFiniteSet(Tracked(c)) /\ Tracked(c) \subseteq Ids
  BY IdsFinite, FS_Subset DEF Tracked
<1>2. /\ Cardinality(Tracked(d)) \in Nat /\ Cardinality(Tracked(c)) \in Nat
      /\ Cardinality(Tracked(d)) <= Cardinality(Tracked(c))
  BY <1>1, FS_Subset, FS_CardinalityType
<1>3. \A i \in Tracked(d) : i < n /\ sc[i] <= u
  BY <1>1 DEF Sound, Ticks
<1> QED
  BY <1>2, <1>3, KeepIsNat DEF Sound

LEMMA TrackedPersisted ==
  ASSUME NEW c \in EtcdBackupConfig
  PROVE  Tracked(Persisted(c)) = Tracked(c)
BY DEF Persisted, EtcdBackupConfig, Tracked

LEMMA NothingTracked == Tracked(NewConfig) = {}
BY DEF Tracked, NewConfig, Untracked

(* Update, also of an appended backup, leaves lists that are sound in the  *)
(* new state if the list it writes is.                                     *)
LEMMA UpdateSound ==
  ASSUME ListInv, NEW m \in EtcdBackupConfig, NEW next, Update(m, next),
         sched' \in [Ids -> Ticks], nextId' \in Nat, tick' \in Nat,
         Sound(m, sched', nextId', tick'),
         fresh \/ UNCHANGED <<sched, nextId, tick>>
  PROVE  Sound(config, sched, nextId, tick)' /\ Sound(mem, sched, nextId, tick)'
<1>1. Sound(NewConfig, sched', nextId', tick')
  BY NothingTracked, SoundSubset
<1>2. Sound(Persisted(m), sched', nextId', tick')
  BY TrackedPersisted, SoundSubset
<1> QED
  BY <1>1, <1>2 DEF Update, Return, ListInv

LEMMA ListInit == Init => ListInv
<1> SUFFICES ASSUME Init PROVE ListInv
  OBVIOUS
<1>1. Cardinality(Tracked(NewConfig)) = 0
  BY NothingTracked, FS_EmptySet
<1> QED
  BY <1>1, NothingTracked, TypeInit, KeepIsNat DEF Init, ListInv, Sound

(* A step that appends nothing. *)
LEMMA ListKept ==
  ASSUME ListInv, TypeOK', UNCHANGED <<sched, nextId>>, tick <= tick',
         Tracked(config') \subseteq Tracked(config) \/ Tracked(config') \subseteq Tracked(mem),
         Tracked(mem') \subseteq Tracked(mem) \/ Tracked(mem') \subseteq Tracked(config)
  PROVE  ListInv'
<1>1. /\ sched \in [Ids -> Ticks] /\ nextId \in Nat /\ tick \in Nat /\ tick' \in Nat
  BY BackupConstants DEF ListInv, TypeOK, Ticks
<1>2. Sound(config', sched, nextId, tick') /\ Sound(mem', sched, nextId, tick')
  BY <1>1, SoundSubset DEF ListInv
<1> QED
  BY <1>2 DEF ListInv

(* EnsurePendingBackupIsScheduled appends behind the last backup, which is *)
(* older than now, and only if there are not too many.                     *)
LEMMA AppendSound ==
  ASSUME ListInv, ScheduleNow
  PROVE  Sound([mem EXCEPT !.backups[nextId].phase = ""],
               [sched EXCEPT ![nextId] = tick], nextId + 1, tick)
<1> DEFINE m == [mem EXCEPT !.backups[nextId].phase = ""]
           sc == [sched EXCEPT ![nextId] = tick]
<1>1. /\ nextId \in Ids /\ nextId \in Nat /\ tick \in Nat /\ tick \in Ticks
      /\ sched \in [Ids -> Ticks] /\ Ticks \subseteq Nat
  BY BackupConstants DEF ListInv, TypeOK, Ticks, Ids, ScheduleNow
<1>2. Tracked(m) = Tracked(mem) \cup {nextId}
  <2>1. \A i \in Ids : m.backups[i].phase = IF i = nextId THEN "" ELSE mem.backups[i].phase
    BY <1>1, AppendEffect DEF ListInv
  <2> HIDE DEF m
  <2> QED
    BY <1>1, <2>1 DEF Tracked
<1>a. \A i \in Ids : sc[i] = IF i = nextId THEN tick ELSE sched[i]
  BY <1>1
<1> HIDE DEF m, sc
<1>3. Tracked(mem) \subseteq Ids /\ IsFiniteSet(Tracked(mem))
  BY IdsFinite, FS_Subset DEF Tracked
<1>4. Cardinality(Tracked(m)) <= 2 * GetKeptBackupsCount + 1
  <2>1. Cardinality(Tracked(m)) \in {Cardinality(Tracked(mem)), Cardinality(Tracked(mem)) + 1}
    BY <1>2, <1>3, FS_AddElement
  <2>2. Cardinality(Tracked(mem)) <= 2 * GetKeptBackupsCount
    BY <1>3, KeepIsNat, FS_CardinalityType DEF ScheduleNow, TooManyBackups
  <2>3. Cardinality(Tracked(mem)) \in Nat
    BY <1>3, FS_CardinalityType
  <2> QED
    BY <2>1, <2>2, <2>3, KeepIsNat
<1>5. \A i \in Tracked(mem) : i \in Nat /\ i < nextId /\ sc[i] = sched[i] /\ sched[i] <= tick
  <2>1. \A i \in Tracked(mem) : i < nextId /\ sched[i] <= tick
    BY DEF ListInv, Sound
  <2>2. \A i \in Tracked(mem) : i \in Ids /\ i \in Nat
    BY <1>3, IdsFinite
  <2> QED
    BY <1>1, <1>a, <2>1, <2>2
<1>6. sc[nextId] = tick
  BY <1>1, <1>a
<1>7. ASSUME ~OneShot, NEW i \in Tracked(mem)
      PROVE  sched[i] < tick
  <2>1. PICK l \in Tracked(mem) : \A j \in Tracked(mem) : j <= l
    BY <1>3, LargestId
  <2>2. sched[l] < tick
    BY <1>7, <2>1 DEF ScheduleNow, BackupPending
  <2>3. i = l \/ sched[i] < sched[l]
    BY <1>5, <1>7, <2>1 DEF ListInv, Sound
  <2> QED
    <3>1. sched[i] \in Nat /\ sched[l] \in Nat
      BY <1>1, <1>3
    <3> QED
      BY <1>1, <2>2, <2>3, <3>1
<1>8. \A i \in Tracked(m) : i < nextId + 1 /\ sc[i] <= tick
  BY <1>1, <1>2, <1>5, <1>6
<1>9. ASSUME NEW i \in Tracked(m), NEW j \in Tracked(m), i < j, ~OneShot
      PROVE  sc[i] < sc[j]
  <2>1. i \in Tracked(mem)
    BY <1>1, <1>2, <1>5, <1>9
  <2>2. CASE j = nextId
    BY <1>5, <1>6, <1>7, <1>9, <2>1, <2>2
  <2>3. CASE j \in Tracked(mem)
    BY <1>5, <1>9, <2>1, <2>3 DEF ListInv, Sound
  <2> QED
    BY <1>2, <2>2, <2>3
<1> QED
  BY <1>4, <1>8, <1>9 DEF Sound, m, sc

LEMMA ListNext == ListInv /\ [Next]_vars => ListInv'
<1> SUFFICES ASSUME ListInv, [Next]_vars PROVE ListInv'
  OBVIOUS
<1>0. TypeOK /\ TypeOK' /\ Tracked(NewConfig) = {} /\ tick <= tick
  BY TypeNext, NothingTracked, BackupConstants DEF ListInv, TypeOK, Ticks
<1> USE DEF apiVars, envVars, controllerVars
<1>a. ASSUME NEW m \in EtcdBackupConfig, NEW next, Update(m, next),
             UNCHANGED <<sched, nextId, tick>>, Tracked(m) \subseteq Tracked(mem)
      PROVE  ListInv'
  <2>1. Tracked(config') \subseteq Tracked(config) \/ Tracked(config') \subseteq Tracked(mem)
    BY <1>0, <1>a, ConfigWritten DEF Tracked
  <2>2. Tracked(mem') \subseteq Tracked(mem)
    BY <1>0, <1>a, ConfigWritten
  <2> QED
    BY <1>0, <1>a, <2>1, <2>2, ListKept
<1>1. CASE SetSchedulingActive
  <2> DEFINE m == [mem EXCEPT !.schedulingActive = WantedSchedulingActive]
  <2>1. m \in EtcdBackupConfig /\ Tracked(m) = Tracked(mem)
    BY <1>0 DEF TypeOK, EtcdBackupConfig, WantedSchedulingActive, Tracked
  <2>2. \E next : Update(m, next)
    BY <1>1 DEF SetSchedulingActive
  <2> QED
    BY <1>1, <1>a, <2>1, <2>2 DEF SetSchedulingActive
<1>2. CASE EnsurePendingBackupIsScheduled
  <2>1. CASE ScheduleNow /\ fresh
    <3> DEFINE m == [mem EXCEPT !.backups[nextId].phase = ""]
    <3>1. Update(m, "start") /\ sched' = [sched EXCEPT ![nextId] = tick] /\ nextId' = nextId + 1
          /\ tick' = tick
      BY <1>2, <2>1 DEF EnsurePendingBackupIsScheduled
    <3>2. Sound(m, sched', nextId', tick')
      BY <2>1, <3>1, AppendSound
    <3>3. m \in EtcdBackupConfig
      BY <1>0, <2>1, AppendEffect DEF ScheduleNow
    <3>4. sched' \in [Ids -> Ticks] /\ nextId' \in Nat /\ tick' \in Nat
      BY <1>0, BackupConstants DEF TypeOK, Ticks
    <3> HIDE DEF m
    <3>5. Sound(config, sched, nextId, tick)' /\ Sound(mem, sched, nextId, tick)'
      BY <2>1, <3>1, <3>2, <3>3, <3>4, UpdateSound
    <3> QED
      BY <1>0, <3>5 DEF ListInv
  <2>2. CASE ScheduleNow /\ ~fresh
    <3>1. config' = config /\ mem' = NewConfig /\ UNCHANGED <<sched, nextId, tick>>
      BY <1>2, <2>2 DEF EnsurePendingBackupIsScheduled, Update, Return
    <3> QED
      BY <1>0, <3>1, ListKept
  <2>3. CASE ~ScheduleNow
    BY <1>0, <1>2, <2>3, ListKept DEF EnsurePendingBackupIsScheduled
  <2> QED
    BY <1>2, <2>1, <2>2, <2>3
<1>3. CASE StartPendingBackupJobs \/ StartPendingBackupDeleteJobs \/ UpdateRunningBackupDeleteJobs
  <2>1. Tracked(mem') \subseteq Tracked(mem)
    BY <1>0, <1>3, StartEffect, DeleteEffect, UpdateDeletesEffect
    DEF Tracked, BackupsToStart
  <2>2. UNCHANGED <<config, sched, nextId, tick>>
    BY <1>3 DEF StartPendingBackupJobs, StartPendingBackupDeleteJobs, UpdateRunningBackupDeleteJobs
  <2> QED
    BY <1>0, <2>1, <2>2, ListKept
<1>4. CASE DeleteFinishedBackupJobs
  <2>1. Tracked(mem') \subseteq Tracked(mem)
    <3>1. PICK D : \A i \in Ids :
            mem'.backups[i] = IF i \in D THEN Untracked ELSE mem.backups[i]
      BY <1>0, <1>4, CleanEffect
    <3>2. Untracked.phase = "untracked"
      BY DEF Untracked
    <3> QED
      BY <3>1, <3>2 DEF Tracked
  <2>2. UNCHANGED <<config, sched, nextId, tick>>
    BY <1>4 DEF DeleteFinishedBackupJobs
  <2> QED
    BY <1>0, <2>1, <2>2, ListKept
<1>5. CASE HandleFinalization
  <2>1. Tracked(mem') \subseteq Tracked(mem)
    BY <1>0, <1>5, FinalizeEffect DEF Tracked
  <2>2. UNCHANGED <<config, sched, nextId, tick>>
    BY <1>5 DEF HandleFinalization
  <2> QED
    BY <1>0, <2>1, <2>2, ListKept
<1>6. CASE SaveStartedBackups \/ SaveStartedDeletes \/ SaveUpdatedDeletes
             \/ SaveDroppedBackups \/ SaveFinalization
  <2>1. (\E next : Update(mem, next)) /\ UNCHANGED <<sched, nextId, tick>>
    BY <1>6 DEF SaveStartedBackups, SaveStartedDeletes, SaveUpdatedDeletes,
                SaveDroppedBackups, SaveFinalization
  <2> QED
    BY <1>0, <1>a, <2>1 DEF TypeOK
<1>7. CASE StartPendingBackupJobsFails \/ StartPendingBackupDeleteJobsFails
             \/ UpdateRunningBackupDeleteJobsFails \/ DeleteFinishedBackupJobsFails
             \/ HandleFinalizationFails \/ ReconcileAborts
  <2>1. mem' = NewConfig /\ UNCHANGED <<config, sched, nextId, tick>>
    BY <1>7 DEF StartPendingBackupJobsFails, StartPendingBackupDeleteJobsFails,
                UpdateRunningBackupDeleteJobsFails, DeleteFinishedBackupJobsFails,
                HandleFinalizationFails, ReconcileAborts, Return
  <2> QED
    BY <1>0, <2>1, ListKept
<1>8. CASE Reconcile
  BY <1>0, <1>8, ListKept DEF Reconcile
<1>9. CASE DeleteConfig
  <2>1. [config EXCEPT !.state = "deleting"] \in EtcdBackupConfig
        /\ Tracked([config EXCEPT !.state = "deleting"]) = Tracked(config)
    BY <1>0 DEF TypeOK, EtcdBackupConfig, Tracked
  <2>2. Tracked(config') = Tracked(config)
    BY <1>9, <2>1, TrackedPersisted DEF DeleteConfig
  <2> QED
    BY <1>0, <1>9, <2>2, ListKept DEF DeleteConfig
<1>10. CASE Tick
  <2>1. tick <= tick'
    BY <1>0, <1>10, BackupConstants DEF Tick, TypeOK, Ticks
  <2> QED
    BY <1>0, <1>10, <2>1, ListKept DEF Tick
<1>11. CASE ConfigTouched \/ DeleteCluster \/ UnpauseCluster \/ PauseCluster \/ LoseJob
              \/ JobStep \/ FailCleanupJob \/ \E i \in Ids : FailBackupJob(i) \/ FailDeleteJob(i)
  <2>1. UNCHANGED <<config, mem, sched, nextId, tick>>
    BY <1>11 DEF ConfigTouched, DeleteCluster, UnpauseCluster, PauseCluster, LoseJob, JobStep,
                 FailCleanupJob, FailBackupJob, FailDeleteJob, JobCacheSync, StoreBackup,
                 CompleteBackupJob, CompleteDeleteJob, CompleteCleanupJob
  <2> QED
    BY <1>0, <2>1, ListKept
<1>12. CASE UNCHANGED vars
  BY <1>0, <1>12, ListKept DEF vars
<1> QED
  BY <1>1, <1>2, <1>3, <1>4, <1>5, <1>6, <1>7, <1>8, <1>9, <1>10, <1>11, <1>12
  DEF Next, ControllerStep, Disturbance

LEMMA ListAlways == Spec => []ListInv
BY ListInit, ListNext, PTL DEF Spec

(* The scheduler relies on the last entry being the latest backup: the     *)
(* tracked backups are sorted, without duplicates, in every behaviour.     *)
THEOREM SchedulingOrder == Spec => []ScheduledInOrder
<1>1. ListInv => ScheduledInOrder
  BY DEF ListInv, Sound, ScheduledInOrder
<1> QED
  BY <1>1, ListAlways, PTL

(* However long scheduling goes on and whatever fails, the status holds    *)
(* at most one backup above twice the number to keep.                      *)
THEOREM BacklogBounded == Spec => []TrackedBackupsBounded
<1>1. ListInv => TrackedBackupsBounded
  BY DEF ListInv, Sound, TrackedBackupsBounded
<1> QED
  BY <1>1, ListAlways, PTL

-----------------------------------------------------------------------------
(* Jobs and the entries they belong to. *)

Busy == pc # "idle"

(* The entries the running reconciliation has dropped from its copy. *)
DroppedInCopy == {i \in Tracked(config) : Busy /\ i \notin Tracked(mem)}

NoJobs(i) == jobs[i] = "none" /\ deleteJobs[i] = "none"

(* Positions outside the list carry no deletion state. *)
Blank(c) == \A i \in Ids \ Tracked(c) : c.backups[i].deletePhase = ""

(* The copy tracks nothing the resource does not track, it knows whether   *)
(* the resource is being deleted if it was when read, and an entry dropped *)
(* from the copy of a live resource has no jobs left.                      *)
JobInv ==
  /\ ListInv
  /\ Blank(config) /\ Blank(mem)
  /\ fresh /\ mem.state = "live" => config.state = "live"
  /\ Busy => Tracked(mem) \subseteq Tracked(config)
  /\ Busy /\ config.state = "live" => mem.state = "live"
  /\ mem.state = "live" => \A i \in DroppedInCopy : NoJobs(i)
  /\ NoForgottenJobs

LEMMA JobsCreated ==
  ASSUME NEW S, jobs' = Created(jobs, S)
  PROVE  \A i \in Ids :
           /\ jobs'[i] # "none" => jobs[i] # "none" \/ i \in S
           /\ jobs'[i] \in {"stored", "complete"} => jobs[i] \in {"stored", "complete"}
BY DEF Created

LEMMA JobsDeleted ==
  ASSUME NEW S, jobs' = Deleted(jobs, S)
  PROVE  \A i \in Ids :
           /\ i \in S => jobs'[i] = "none"
           /\ jobs'[i] # "none" => jobs[i] # "none"
           /\ jobs'[i] \in {"stored", "complete"} => jobs[i] \in {"stored", "complete"}
BY DEF Deleted

LEMMA DeleteJobsCreated ==
  ASSUME NEW S, deleteJobs' = Created(deleteJobs, S)
  PROVE  \A i \in Ids : deleteJobs'[i] # "none" => deleteJobs[i] # "none" \/ i \in S
BY DEF Created

LEMMA DeleteJobsDeleted ==
  ASSUME NEW S, deleteJobs' = Deleted(deleteJobs, S)
  PROVE  \A i \in Ids :
           /\ i \in S => deleteJobs'[i] = "none"
           /\ deleteJobs'[i] # "none" => deleteJobs[i] # "none"
BY DEF Deleted

LEMMA DeleteJobsRecreated ==
  ASSUME NEW R, NEW S, deleteJobs' = Created(Deleted(deleteJobs, R), S)
  PROVE  \A i \in Ids : deleteJobs'[i] # "none" => deleteJobs[i] # "none" \/ i \in S
BY DEF Created, Deleted

LEMMA NewConfigBlank == Blank(NewConfig) /\ NewConfig.state = "live"
BY DEF Blank, NewConfig, Untracked, Tracked

LEMMA JobInit == Init => JobInv
<1> SUFFICES ASSUME Init PROVE JobInv
  OBVIOUS
<1>1. \A i \in Ids : jobs[i] = "none" /\ deleteJobs[i] = "none"
  BY DEF Init
<1> QED
  BY <1>1, ListInit, NewConfigBlank, NothingTracked
  DEF Init, JobInv, Busy, DroppedInCopy, NoForgottenJobs, NoJobs

(* A save of a list with the same entries as the copy. *)
LEMMA JobUpdate ==
  ASSUME JobInv, ListInv', NEW m \in EtcdBackupConfig, NEW next \in PCs, Update(m, next),
         Tracked(m) = Tracked(mem), m.state = mem.state, Blank(m), Busy,
         UNCHANGED <<jobs, deleteJobs>>
  PROVE  JobInv'
<1>1. CASE ~fresh /\ config' = config /\ mem' = NewConfig /\ pc' = "idle"
  BY <1>1, NewConfigBlank DEF JobInv, Busy, DroppedInCopy, NoForgottenJobs, Update, Return
<1>2. CASE /\ fresh
           /\ config'.backups = m.backups
           /\ config'.state = "live" => m.state = "live"
           /\ \/ mem' = NewConfig /\ pc' = "idle"
              \/ mem' = m /\ pc' = next
  <2>1. Tracked(config') = Tracked(mem) /\ Blank(config')
    BY <1>2 DEF Tracked, Blank
  <2>2. NoForgottenJobs'
    <3> SUFFICES ASSUME config'.state = "live", NEW i \in Ids, ~NoJobs(i)
                 PROVE  i \in Tracked(mem)
      BY <2>1 DEF NoForgottenJobs, NoJobs
    <3>1. mem.state = "live" /\ config.state = "live"
      BY <1>2 DEF JobInv
    <3> QED
      BY <3>1 DEF JobInv, NoForgottenJobs, NoJobs, DroppedInCopy
  <2>3. Blank(mem') /\ (Busy' => mem' = m)
    BY <1>2, NewConfigBlank DEF Busy
  <2>4. fresh' /\ mem'.state = "live" => config'.state = "live"
    BY <1>2 DEF Update, Return, Persisted
  <2>5. Busy' /\ config'.state = "live" => mem'.state = "live"
    BY <1>2, <2>3
  <2>6. Busy' => Tracked(mem') = Tracked(config')
    BY <2>1, <2>3
  <2>7. DroppedInCopy' = {}
    BY <2>6 DEF DroppedInCopy
  <2> QED
    BY <2>1, <2>2, <2>3, <2>4, <2>5, <2>6, <2>7 DEF JobInv
<1>3. TypeOK
  BY DEF JobInv, ListInv
<1>4. \/ ~fresh /\ config' = config /\ mem' = NewConfig /\ pc' = "idle"
      \/ /\ fresh
         /\ config'.backups = m.backups
         /\ config'.state = "live" => m.state = "live"
         /\ \/ mem' = NewConfig /\ pc' = "idle"
            \/ mem' = m /\ pc' = next
  BY <1>3, ConfigWritten
<1> QED
  BY <1>1, <1>2, <1>4

(* A step that leaves the resource alone and ends the reconciliation, or   *)
(* leaves its copy alone.                                                  *)
LEMMA JobKept ==
  ASSUME JobInv, ListInv', UNCHANGED config,
         \/ mem' = mem /\ pc' = pc /\ (fresh' => fresh)
         \/ Return,
         \A i \in Ids : ~NoJobs(i)' => ~NoJobs(i) \/ i \in Tracked(config) \ DroppedInCopy
  PROVE  JobInv'
<1>1. NoForgottenJobs'
  BY DEF JobInv, NoForgottenJobs, NoJobs, DroppedInCopy
<1>2. CASE Return
  BY <1>1, <1>2, NewConfigBlank DEF JobInv, Return, Busy, DroppedInCopy
<1>3. CASE mem' = mem /\ pc' = pc /\ (fresh' => fresh)
  <2>1. DroppedInCopy' = DroppedInCopy /\ Busy' = Busy
    BY <1>3 DEF DroppedInCopy, Busy
  <2>2. mem.state = "live" => \A i \in DroppedInCopy : NoJobs(i)'
    BY DEF JobInv, DroppedInCopy, Tracked
  <2> QED
    <3>1. mem'.state = "live" => \A i \in DroppedInCopy' : NoJobs(i)'
      BY <1>3, <2>1, <2>2
    <3>2. /\ Blank(config') /\ Blank(mem')
          /\ fresh' /\ mem'.state = "live" => config'.state = "live"
          /\ Busy' => Tracked(mem') \subseteq Tracked(config')
          /\ Busy' /\ config'.state = "live" => mem'.state = "live"
      BY <1>3, <2>1 DEF JobInv
    <3> QED
      BY <1>1, <3>1, <3>2 DEF JobInv
<1> QED
  BY <1>2, <1>3

(* A step within the reconciliation, up to the next save. *)
LEMMA JobWithin ==
  ASSUME JobInv, ListInv', UNCHANGED <<config, fresh>>, Busy, mem'.state = mem.state,
         Tracked(mem') \subseteq Tracked(mem), Blank(mem'),
         \A i \in Ids : ~NoJobs(i)' => ~NoJobs(i) \/ i \in Tracked(mem),
         \A i \in Tracked(mem) \ Tracked(mem') : mem.state = "live" => NoJobs(i)'
  PROVE  JobInv'
<1>1. NoForgottenJobs'
  BY DEF JobInv, NoForgottenJobs, NoJobs, Busy
<1>2. mem.state = "live" => \A i \in DroppedInCopy' : NoJobs(i)'
  <2> SUFFICES ASSUME mem.state = "live", NEW i \in DroppedInCopy' PROVE NoJobs(i)'
    OBVIOUS
  <2>1. i \in Ids /\ i \in Tracked(config) /\ i \notin Tracked(mem')
    BY DEF DroppedInCopy, Tracked
  <2>2. CASE i \in Tracked(mem)
    BY <2>1, <2>2
  <2>3. CASE i \notin Tracked(mem)
    BY <2>1, <2>3 DEF JobInv, DroppedInCopy
  <2> QED
    BY <2>2, <2>3
<1>3. /\ Blank(config')
      /\ fresh' /\ mem'.state = "live" => config'.state = "live"
      /\ Tracked(mem') \subseteq Tracked(config')
      /\ config'.state = "live" => mem'.state = "live"
  BY DEF JobInv, Busy
<1> QED
  BY <1>1, <1>2, <1>3 DEF JobInv

LEMMA JobNext == JobInv /\ [Next]_vars => JobInv'
<1> SUFFICES ASSUME JobInv, [Next]_vars PROVE JobInv'
  OBVIOUS
<1>0. /\ ListInv /\ ListInv' /\ TypeOK /\ TypeOK'
      /\ jobs \in [Ids -> JobState] /\ deleteJobs \in [Ids -> JobState]
      /\ mem \in EtcdBackupConfig /\ config \in EtcdBackupConfig
  BY ListNext, TypeNext DEF JobInv, ListInv, TypeOK
<1> USE DEF apiVars, envVars, controllerVars, jobVars
<1>1. CASE Reconcile
  <2>1. Tracked(mem') = Tracked(config') /\ UNCHANGED <<config, jobs, deleteJobs>> /\ mem' = config
    BY <1>1 DEF Reconcile
  <2>2. DroppedInCopy' = {} /\ NoForgottenJobs'
    BY <2>1 DEF DroppedInCopy, NoForgottenJobs, JobInv
  <2> QED
    BY <1>0, <2>1, <2>2 DEF JobInv
<1>2. CASE SetSchedulingActive
  <2> DEFINE m == [mem EXCEPT !.schedulingActive = WantedSchedulingActive]
  <2>1. m \in EtcdBackupConfig /\ m.backups = mem.backups /\ m.state = mem.state
    BY <1>0 DEF EtcdBackupConfig, WantedSchedulingActive
  <2>2. PICK next \in PCs : Update(m, next)
    BY <1>2 DEF SetSchedulingActive, PCs
  <2>3. Busy /\ UNCHANGED <<jobs, deleteJobs>>
    BY <1>2 DEF SetSchedulingActive, Busy
  <2> HIDE DEF m
  <2>4. Tracked(m) = Tracked(mem) /\ Blank(m)
    BY <2>1 DEF Tracked, Blank, JobInv
  <2> QED
    BY <1>0, <2>1, <2>2, <2>3, <2>4, JobUpdate
<1>3. CASE SaveStartedBackups \/ SaveStartedDeletes \/ SaveUpdatedDeletes \/ SaveFinalization
             \/ SaveDroppedBackups
  <2>1. (\E next \in PCs : Update(mem, next)) /\ Busy /\ UNCHANGED <<jobs, deleteJobs>>
    BY <1>3 DEF SaveStartedBackups, SaveStartedDeletes, SaveUpdatedDeletes, SaveFinalization,
                SaveDroppedBackups, PCs, Busy
  <2>2. Blank(mem)
    BY DEF JobInv
  <2> QED
    BY <1>0, <2>1, <2>2, JobUpdate
<1>4. CASE EnsurePendingBackupIsScheduled
  <2>1. Busy /\ UNCHANGED <<jobs, deleteJobs>>
    BY <1>4 DEF EnsurePendingBackupIsScheduled, Busy
  <2>2. CASE ScheduleNow
    <3> DEFINE m == [mem EXCEPT !.backups[nextId].phase = ""]
    <3>1. Update(m, "start")
      BY <1>4, <2>2 DEF EnsurePendingBackupIsScheduled
    <3>2. nextId \in Ids /\ nextId \notin Tracked(mem)
      <4>1. \A i \in Tracked(mem) : i < nextId /\ i \in Nat
        BY <1>0, IdsFinite DEF ListInv, Sound, Tracked
      <4> QED
        BY <2>2, <4>1 DEF ScheduleNow
    <3>3. /\ m \in EtcdBackupConfig /\ m.state = mem.state
          /\ \A i \in Ids : /\ m.backups[i].phase =
                                IF i = nextId THEN "" ELSE mem.backups[i].phase
                            /\ m.backups[i].deletePhase = mem.backups[i].deletePhase
      BY <1>0, <3>2, AppendEffect
    <3> HIDE DEF m
    <3>5. Tracked(m) = Tracked(mem) \cup {nextId} /\ Blank(m)
      <4>1. Tracked(m) = Tracked(mem) \cup {nextId}
        BY <3>2, <3>3 DEF Tracked
      <4>2. \A i \in Ids \ Tracked(m) : mem.backups[i].deletePhase = ""
        BY <4>1 DEF Blank, JobInv
      <4> QED
        BY <3>3, <4>1, <4>2 DEF Blank
    <3>6. CASE ~fresh
      BY <1>0, <2>1, <3>1, <3>6, JobKept DEF Update, NoJobs
    <3>7. CASE fresh
      <4>1. /\ mem' = m /\ pc' = "start" /\ fresh'
            /\ config' = Persisted(m)
        BY <3>1, <3>7 DEF Update
      <4>2. /\ config'.backups = m.backups
            /\ config'.state = "live" <=> m.state = "live"
        BY <3>3, <4>1 DEF Persisted, EtcdBackupConfig
      <4>3. Tracked(config') = Tracked(m) /\ Blank(config')
        BY <3>5, <4>2 DEF Tracked, Blank
      <4>4. NoForgottenJobs'
        <5> SUFFICES ASSUME config'.state = "live", NEW i \in Ids, ~NoJobs(i)
                     PROVE  i \in Tracked(m)
          BY <2>1, <4>3 DEF NoForgottenJobs, NoJobs
        <5>1. mem.state = "live" /\ config.state = "live"
          BY <3>3, <3>7, <4>2 DEF JobInv
        <5> QED
          BY <2>1, <3>5, <5>1 DEF JobInv, NoForgottenJobs, NoJobs, DroppedInCopy
      <4>5. DroppedInCopy' = {}
        BY <4>1, <4>3 DEF DroppedInCopy
      <4> QED
        BY <1>0, <3>5, <4>1, <4>2, <4>3, <4>4, <4>5 DEF JobInv
    <3> QED
      BY <3>6, <3>7
  <2>3. CASE ~ScheduleNow
    <3>1. UNCHANGED <<config, mem, fresh>>
      BY <1>4, <2>3 DEF EnsurePendingBackupIsScheduled
    <3> QED
      BY <1>0, <2>1, <3>1, JobWithin DEF NoJobs, JobInv
  <2> QED
    BY <2>2, <2>3
<1>5. CASE StartPendingBackupJobs
  <2>1. BackupsToStart \subseteq Tracked(mem) /\ Tracked(mem') = Tracked(mem) /\ Blank(mem')
    BY <1>0, <1>5, StartEffect DEF Tracked, Blank, BackupsToStart, PhaseFromJob, JobInv
  <2>2. Busy /\ UNCHANGED <<config, fresh, deleteJobs>> /\ jobs' = Created(jobs, BackupsToStart)
    BY <1>5 DEF StartPendingBackupJobs, Busy
  <2>3. \A i \in Ids : ~NoJobs(i)' => ~NoJobs(i) \/ i \in Tracked(mem)
    BY <2>1, <2>2, JobsCreated DEF NoJobs
  <2> QED
    BY <1>0, <1>5, <2>1, <2>2, <2>3, StartEffect, JobWithin
<1>6. CASE StartPendingBackupDeleteJobs
  <2>1. BackupsToDelete \subseteq Tracked(mem)
    BY DEF BackupsToDelete, Tracked
  <2>2. Tracked(mem') = Tracked(mem) /\ Blank(mem')
    BY <1>0, <1>6, <2>1, DeleteEffect DEF Tracked, Blank, JobInv
  <2>3. Busy /\ UNCHANGED <<config, fresh, jobs>>
        /\ deleteJobs' \in {deleteJobs, Created(deleteJobs, BackupsToDelete)}
    BY <1>6 DEF StartPendingBackupDeleteJobs, Busy
  <2>4. \A i \in Ids : ~NoJobs(i)' => ~NoJobs(i) \/ i \in Tracked(mem)
    BY <2>1, <2>3, DeleteJobsCreated DEF NoJobs
  <2> QED
    BY <1>0, <1>6, <2>2, <2>3, <2>4, DeleteEffect, JobWithin
<1>7. CASE UpdateRunningBackupDeleteJobs
  <2>1. RunningDeletes \subseteq Tracked(mem)
    BY DEF RunningDeletes, JobInv, Blank
  <2>2. Tracked(mem') = Tracked(mem) /\ Blank(mem')
    BY <1>0, <1>7, <2>1, UpdateDeletesEffect DEF Tracked, Blank, JobInv, DeletesDone
  <2>3. Busy /\ UNCHANGED <<config, fresh, jobs>>
        /\ deleteJobs' = Created(Deleted(deleteJobs, FailedDeletes), FailedDeletes \cup LostDeletes)
    BY <1>7 DEF UpdateRunningBackupDeleteJobs, Busy
  <2>4. \A i \in Ids : ~NoJobs(i)' => ~NoJobs(i) \/ i \in Tracked(mem)
    <3>1. FailedDeletes \cup LostDeletes \subseteq Tracked(mem)
      BY <2>1 DEF FailedDeletes, LostDeletes
    <3> QED
      BY <2>3, <3>1, DeleteJobsRecreated DEF NoJobs
  <2> QED
    BY <1>0, <1>7, <2>2, <2>3, <2>4, UpdateDeletesEffect, JobWithin
<1>8. CASE DeleteFinishedBackupJobs
  <2>1. PICK eJ \in Expired(FinishedBackups, jobs), eD \in Expired(FinishedDeletes, deleteJobs) :
          /\ jobs' = Deleted(jobs, {i \in eJ : Found(jobs[i])})
          /\ deleteJobs' = Deleted(deleteJobs, {i \in eD : Found(deleteJobs[i])})
          /\ mem'.state = mem.state
          /\ \A i \in Ids :
               mem'.backups[i] = IF i \in Dropped(eJ, eD) THEN Untracked ELSE mem.backups[i]
    BY <1>0, <1>8, CleanEffect
  <2>2. Tracked(mem') = Tracked(mem) \ Dropped(eJ, eD) /\ Blank(mem')
    <3>1. Untracked.phase = "untracked" /\ Untracked.deletePhase = ""
      BY DEF Untracked
    <3> QED
      BY <2>1, <3>1 DEF Tracked, Blank, JobInv
  <2>3. Busy /\ UNCHANGED <<config, fresh>>
    BY <1>8 DEF DeleteFinishedBackupJobs, Busy
  <2>4. \A i \in Ids : ~NoJobs(i)' => ~NoJobs(i)
    BY <2>1, JobsDeleted, DeleteJobsDeleted DEF NoJobs
  <2>5. ASSUME mem.state = "live", NEW i \in Tracked(mem) \ Tracked(mem')
        PROVE  NoJobs(i)'
    <3>1. i \in Ids /\ i \in eJ /\ i \in eD
      BY <2>2, <2>5 DEF Dropped, NeverStarted, Tracked
    <3>2. jobs[i] # "new" /\ deleteJobs[i] # "new"
      BY <2>1, <2>5, <3>1 DEF Expired
    <3>3. jobs'[i] = "none"
      BY <2>1, <3>1, <3>2, JobsDeleted DEF Found
    <3>4. deleteJobs'[i] = "none"
      BY <2>1, <3>1, <3>2, DeleteJobsDeleted DEF Found
    <3> QED
      BY <3>3, <3>4 DEF NoJobs
  <2> QED
    BY <1>0, <2>1, <2>2, <2>3, <2>4, <2>5, JobWithin
<1>9. CASE HandleFinalization
  <2>1. UNCHANGED <<config, jobs, deleteJobs>> /\ Busy
    BY <1>9 DEF HandleFinalization, Busy
  <2>2. CASE ~FinalizationDue
    BY <1>0, <1>9, <2>1, <2>2, JobKept DEF HandleFinalization, NoJobs
  <2>3. CASE FinalizationDue
    <3>1. mem'.backups = mem.backups /\ mem'.state = mem.state /\ fresh' = fresh
      BY <1>0, <1>9, <2>3 DEF HandleFinalization, EtcdBackupConfig
    <3>2. Tracked(mem') = Tracked(mem) /\ Blank(mem')
      BY <3>1 DEF Tracked, Blank, JobInv
    <3> QED
      BY <1>0, <2>1, <3>1, <3>2, JobWithin DEF NoJobs
  <2> QED
    BY <2>2, <2>3
<1>10. CASE StartPendingBackupJobsFails
  <2>1. PICK S : S \subseteq BackupsToStart /\ jobs' = Created(jobs, S)
    BY <1>10 DEF StartPendingBackupJobsFails, Prefixes
  <2>2. UNCHANGED <<config, deleteJobs>> /\ Return /\ Busy
    BY <1>10 DEF StartPendingBackupJobsFails, Busy
  <2>3. \A i \in S : i \in Tracked(config) \ DroppedInCopy
    BY <2>1, <2>2 DEF BackupsToStart, Tracked, DroppedInCopy, JobInv
  <2>4. \A i \in Ids : ~NoJobs(i)' => ~NoJobs(i) \/ i \in S
    BY <2>1, <2>2, JobsCreated DEF NoJobs
  <2> QED
    BY <1>0, <2>2, <2>3, <2>4, JobKept
<1>11. CASE StartPendingBackupDeleteJobsFails
  <2>1. PICK S : S \subseteq BackupsToDelete /\ deleteJobs' = Created(deleteJobs, S)
    BY <1>11 DEF StartPendingBackupDeleteJobsFails
  <2>2. UNCHANGED <<config, jobs>> /\ Return /\ Busy
    BY <1>11 DEF StartPendingBackupDeleteJobsFails, Busy
  <2>3. \A i \in S : i \in Tracked(config) \ DroppedInCopy
    BY <2>1, <2>2 DEF BackupsToDelete, Tracked, DroppedInCopy, JobInv
  <2>4. \A i \in Ids : ~NoJobs(i)' => ~NoJobs(i) \/ i \in S
    BY <2>1, <2>2, DeleteJobsCreated DEF NoJobs
  <2> QED
    BY <1>0, <2>2, <2>3, <2>4, JobKept
<1>12. CASE UpdateRunningBackupDeleteJobsFails
  <2>1. PICK S, R : S \subseteq RunningDeletes /\ deleteJobs' = Created(Deleted(deleteJobs, R), S)
    BY <1>12 DEF UpdateRunningBackupDeleteJobsFails, Prefixes, FailedDeletes, LostDeletes
  <2>2. UNCHANGED <<config, jobs>> /\ Return /\ Busy
    BY <1>12 DEF UpdateRunningBackupDeleteJobsFails, Busy
  <2>3. \A i \in S : i \in Tracked(config) \ DroppedInCopy
    BY <2>1, <2>2 DEF RunningDeletes, Blank, DroppedInCopy, JobInv
  <2>4. \A i \in Ids : deleteJobs'[i] # "none" => deleteJobs[i] # "none" \/ i \in S
    BY <2>1, DeleteJobsRecreated
  <2> QED
    BY <1>0, <2>2, <2>3, <2>4, JobKept DEF NoJobs
<1>13. CASE DeleteFinishedBackupJobsFails
  <2>1. PICK S, R : jobs' = Deleted(jobs, S) /\ deleteJobs' = Deleted(deleteJobs, R)
    BY <1>13 DEF DeleteFinishedBackupJobsFails
  <2>2. UNCHANGED config /\ Return
    BY <1>13 DEF DeleteFinishedBackupJobsFails
  <2>3. \A i \in Ids : ~NoJobs(i)' => ~NoJobs(i)
    BY <2>1, JobsDeleted, DeleteJobsDeleted DEF NoJobs
  <2> QED
    BY <1>0, <2>2, <2>3, JobKept
<1>14. CASE HandleFinalizationFails \/ ReconcileAborts
  BY <1>0, <1>14, JobKept DEF HandleFinalizationFails, ReconcileAborts, NoJobs
<1>15. CASE ConfigTouched \/ DeleteCluster \/ UnpauseCluster \/ PauseCluster \/ Tick
              \/ CompleteCleanupJob \/ FailCleanupJob \/ UNCHANGED vars
  <2>1. UNCHANGED <<config, mem, pc, jobs, deleteJobs>> /\ (fresh' => fresh)
    <3>1. CASE ConfigTouched
      BY <3>1 DEF ConfigTouched
    <3>2. CASE DeleteCluster \/ UnpauseCluster \/ PauseCluster \/ Tick
      BY <3>2 DEF DeleteCluster, UnpauseCluster, PauseCluster, Tick
    <3>3. CASE CompleteCleanupJob \/ FailCleanupJob
      BY <3>3 DEF CompleteCleanupJob, FailCleanupJob
    <3>4. CASE UNCHANGED vars
      BY <3>4 DEF vars
    <3> QED
      BY <1>15, <3>1, <3>2, <3>3, <3>4
  <2>2. \A i \in Ids : ~NoJobs(i)' => ~NoJobs(i)
    BY <2>1 DEF NoJobs
  <2> QED
    BY <1>0, <2>1, <2>2, JobKept
<1>16. CASE DeleteConfig
  <2>1. /\ config'.backups = config.backups /\ config'.state # "live"
        /\ UNCHANGED <<mem, jobs, deleteJobs, pc>> /\ ~fresh'
    BY <1>0, <1>16 DEF DeleteConfig, Persisted, EtcdBackupConfig
  <2>2. Tracked(config') = Tracked(config) /\ Blank(config')
    BY <2>1 DEF Tracked, Blank, JobInv
  <2>3. Busy' = Busy /\ DroppedInCopy' = DroppedInCopy
    BY <2>1, <2>2 DEF DroppedInCopy, Busy
  <2>4. mem'.state = "live" => \A i \in DroppedInCopy' : NoJobs(i)'
    BY <2>1, <2>3 DEF JobInv, NoJobs
  <2> QED
    BY <1>0, <2>1, <2>2, <2>3, <2>4 DEF JobInv, NoForgottenJobs
<1>17. CASE JobCacheSync
  <2>1. \A i \in Ids : ~NoJobs(i)' => ~NoJobs(i)
    BY <1>0, <1>17 DEF JobCacheSync, Seen, NoJobs
  <2> QED
    BY <1>0, <1>17, <2>1, JobKept DEF JobCacheSync
<1>18. ASSUME NEW k \in Ids,
              StoreBackup(k) \/ CompleteBackupJob(k) \/ CompleteDeleteJob(k)
                \/ FailBackupJob(k) \/ FailDeleteJob(k)
       PROVE  JobInv'
  <2>1. UNCHANGED <<config, mem, pc, fresh>>
    BY <1>18 DEF StoreBackup, CompleteBackupJob, CompleteDeleteJob, FailBackupJob, FailDeleteJob
  <2>2. \A i \in Ids : ~NoJobs(i)' => ~NoJobs(i)
    BY <1>0, <1>18 DEF StoreBackup, CompleteBackupJob, CompleteDeleteJob, FailBackupJob,
                       FailDeleteJob, NoJobs
  <2> QED
    BY <1>0, <2>1, <2>2, JobKept
<1>19. CASE LoseJob
  <2>1. PICK S, R : /\ jobs' = jobs \/ jobs' = Deleted(jobs, S)
                    /\ deleteJobs' = deleteJobs \/ deleteJobs' = Deleted(deleteJobs, R)
    BY <1>19 DEF LoseJob
  <2>2. UNCHANGED <<config, mem, pc, fresh>>
    BY <1>19 DEF LoseJob
  <2>3. \A i \in Ids : ~NoJobs(i)' => ~NoJobs(i)
    BY <2>1, JobsDeleted, DeleteJobsDeleted DEF NoJobs
  <2> QED
    BY <1>0, <2>2, <2>3, JobKept
<1> QED
  BY <1>1, <1>2, <1>3, <1>4, <1>5, <1>6, <1>7, <1>8, <1>9, <1>10, <1>11, <1>12, <1>13,
     <1>14, <1>15, <1>16, <1>17, <1>18, <1>19
  DEF Next, ControllerStep, JobStep, Disturbance

(* While the resource lives, no job is left without a backup, whichever    *)
(* call of the reconciliation failed and however jobs and caches behaved.  *)
THEOREM JobsTracked == Spec => []NoForgottenJobs
<1>1. Spec => []JobInv
  BY JobInit, JobNext, PTL DEF Spec
<1>2. JobInv => NoForgottenJobs
  BY DEF JobInv
<1> QED
  BY <1>1, <1>2, PTL

-----------------------------------------------------------------------------
(* What is kept. *)

(* The deletion of backup i was started, recorded or not. *)
Doomed(i) ==
  \/ deleteJobs[i] # "none"
  \/ config.backups[i].deletePhase # ""
  \/ Busy /\ mem.backups[i].deletePhase # ""
  \/ i \in DroppedInCopy

(* The resource does not say yet that backup i is finished. *)
Unfinished(i) == config.backups[i].phase \in {"", "Running"}

(* Whatever the reconciliation has done but not saved, the phases in its   *)
(* copy are the saved ones, except those it has just read from the jobs.   *)
CopyAgrees(i) ==
  Busy => \/ mem.backups[i].phase = config.backups[i].phase
          \/ i \in DroppedInCopy
          \/ pc = "startSave" /\ Unfinished(i) /\ i \in Tracked(mem)

(* Only finished backups are deleted, completed ones only when as many     *)
(* newer ones as are to be kept are completed, and a one-shot backup not   *)
(* at all while its resource lives.                                        *)
MayDelete(c, i) ==
  /\ ~OneShot
  /\ c.backups[i].phase \in {"Completed", "Failed"}
  /\ c.backups[i].phase = "Completed" =>
       Cardinality(NewerCompleted(c, i)) >= GetKeptBackupsCount

DeletionJustified(i) == Doomed(i) => MayDelete(config, i)

(* An upload that the resource may still record as completed is there. *)
UploadPresent(i) ==
  /\ Unfinished(i)
  /\ \/ jobs[i] \in {"stored", "complete"}
     \/ pc = "startSave" /\ mem.backups[i].phase = "Completed"
  => BackupName(i) \in store

RetentionInv ==
  /\ JobInv
  /\ config.state = "live" =>
       /\ cleanupJob = "none"
       /\ \A i \in Ids : CopyAgrees(i) /\ DeletionJustified(i) /\ UploadPresent(i)
  /\ KeptBackupsStored

LEMMA NewerFinite ==
  ASSUME NEW c, NEW i
  PROVE  /\ NewerCompleted(c, i) \in SUBSET Ids
         /\ IsFiniteSet(NewerCompleted(c, i))
         /\ Cardinality(NewerCompleted(c, i)) \in Nat
BY IdsFinite, FS_Subset, FS_CardinalityType DEF NewerCompleted

LEMMA LessOrNot == \A x, y \in Nat : x < y <=> ~(x >= y)
OBVIOUS

(* Dropping backups that may be deleted leaves enough newer completed      *)
(* backups: above the newest dropped one, there are as many as are kept.   *)
LEMMA EnoughLeft ==
  ASSUME NEW c, NEW d, NEW D \in SUBSET Ids, NEW i \in Ids,
         \A j \in D : MayDelete(c, j),
         NewerCompleted(c, i) \ D \subseteq NewerCompleted(d, i),
         Cardinality(NewerCompleted(c, i)) >= GetKeptBackupsCount
  PROVE  Cardinality(NewerCompleted(d, i)) >= GetKeptBackupsCount
<1> DEFINE C == D \cap NewerCompleted(c, i)
<1>1. CASE C = {}
  <2>1. NewerCompleted(c, i) \subseteq NewerCompleted(d, i)
    BY <1>1
  <2>2. Cardinality(NewerCompleted(c, i)) <= Cardinality(NewerCompleted(d, i))
    BY <2>1, NewerFinite, FS_Subset
  <2> QED
    BY <2>2, NewerFinite, KeepIsNat
<1>2. CASE C # {}
  <2>1. PICK l \in C : \A j \in C : j <= l
    BY <1>2, LargestId
  <2>2. l \in Ids /\ l > i /\ c.backups[l].phase = "Completed" /\ MayDelete(c, l)
    BY <2>1 DEF NewerCompleted
  <2>3. NewerCompleted(c, l) \subseteq NewerCompleted(d, i)
    <3> SUFFICES ASSUME NEW j \in NewerCompleted(c, l) PROVE j \in NewerCompleted(d, i)
      OBVIOUS
    <3>1. j \in Ids /\ j > l /\ c.backups[j].phase = "Completed"
      BY DEF NewerCompleted
    <3>2. j \in NewerCompleted(c, i) /\ ~(j <= l)
      BY <2>2, <3>1, IdsFinite DEF NewerCompleted
    <3>3. j \notin D
      BY <2>1, <3>2
    <3> QED
      BY <3>2, <3>3
  <2>4. Cardinality(NewerCompleted(c, l)) <= Cardinality(NewerCompleted(d, i))
    BY <2>3, NewerFinite, FS_Subset
  <2> QED
    BY <2>2, <2>4, NewerFinite, KeepIsNat DEF MayDelete
<1> QED
  BY <1>1, <1>2

LEMMA RetentionInit == Init => RetentionInv
<1> SUFFICES ASSUME Init PROVE RetentionInv
  OBVIOUS
<1>1. \A i \in Ids : /\ config.backups[i].phase = "untracked" /\ config.backups[i].deletePhase = ""
                     /\ deleteJobs[i] = "none"
  BY DEF Init, NewConfig, Untracked
<1>2. ~Busy /\ DroppedInCopy = {} /\ cleanupJob = "none"
  BY DEF Busy, DroppedInCopy, Init
<1> QED
  BY <1>1, <1>2, JobInit
  DEF RetentionInv, CopyAgrees, DeletionJustified, Doomed, UploadPresent, Unfinished,
      KeptBackupsStored

(* A step that leaves the list in the resource alone. *)
LEMMA RetentionKept ==
  ASSUME RetentionInv, JobInv', config.state = "live",
         config'.backups = config.backups, sched' = sched, cleanupJob' = "none",
         \A i \in Ids : CopyAgrees(i)',
         \A i \in Ids : Doomed(i)' => MayDelete(config, i),
         \A i \in Ids :
           /\ Unfinished(i)
           /\ \/ jobs'[i] \in {"stored", "complete"}
              \/ pc' = "startSave" /\ mem'.backups[i].phase = "Completed"
           => \/ jobs[i] \in {"stored", "complete"}
              \/ pc = "startSave" /\ mem.backups[i].phase = "Completed"
              \/ BackupName(i) \in store',
         \A i \in Tracked(config) : BackupName(i) \in store /\ BackupName(i) \notin store' => Doomed(i)
  PROVE  RetentionInv'
<1>1. \A i \in Ids : BackupName(i)' = BackupName(i) /\ Unfinished(i)' = Unfinished(i)
  BY DEF BackupName, Unfinished
<1>2. \A i \in Ids : NewerCompleted(config', i) = NewerCompleted(config, i)
  BY DEF NewerCompleted
<1>3. \A i \in Ids : DeletionJustified(i)'
  <2> SUFFICES ASSUME NEW i \in Ids, Doomed(i)' PROVE MayDelete(config', i)
    BY DEF DeletionJustified
  <2>1. MayDelete(config, i)
    OBVIOUS
  <2> QED
    BY <1>2, <2>1 DEF MayDelete
<1>4. \A i \in Ids : Unfinished(i) => i \in Tracked(config) /\ ~Doomed(i)
  BY DEF Unfinished, Tracked, RetentionInv, DeletionJustified, MayDelete
<1>5. \A i \in Ids : UploadPresent(i)'
  <2> SUFFICES ASSUME NEW i \in Ids, Unfinished(i),
                      \/ jobs'[i] \in {"stored", "complete"}
                      \/ pc' = "startSave" /\ mem'.backups[i].phase = "Completed"
               PROVE  BackupName(i) \in store'
    BY <1>1 DEF UploadPresent
  <2> QED
    BY <1>4 DEF RetentionInv, UploadPresent
<1>6. KeptBackupsStored'
  <2> SUFFICES ASSUME NEW i \in Ids, config.backups[i].phase = "Completed",
                      Cardinality(NewerCompleted(config, i)) < GetKeptBackupsCount
               PROVE  BackupName(i) \in store'
    BY <1>1, <1>2 DEF KeptBackupsStored
  <2>1. BackupName(i) \in store /\ i \in Tracked(config)
    BY DEF RetentionInv, KeptBackupsStored, Tracked
  <2>2. ~MayDelete(config, i)
    <3>1. Cardinality(NewerCompleted(config, i)) \in Nat
      BY NewerFinite
    <3>2. ~(Cardinality(NewerCompleted(config, i)) >= GetKeptBackupsCount)
      BY <3>1, KeepIsNat, LessOrNot
    <3> QED
      BY <3>2 DEF MayDelete
  <2>3. ~Doomed(i)
    BY <2>2 DEF RetentionInv, DeletionJustified
  <2> QED
    BY <2>1, <2>3
<1> QED
  BY <1>3, <1>5, <1>6 DEF RetentionInv

(* A save: of the copy as it is, or with a backup appended.                *)
LEMMA RetentionSave ==
  ASSUME RetentionInv, JobInv', Busy, fresh,
         config.state = "live", config'.state = "live", NEW m,
         config'.backups = m.backups,
         \/ mem' = m /\ pc' # "startSave"
         \/ pc' = "idle",
         \A i \in Ids :
           \/ m.backups[i].phase = mem.backups[i].phase
           \/ i \notin Tracked(config) /\ m.backups[i].phase = "",
         \A i \in Ids : m.backups[i].deletePhase = mem.backups[i].deletePhase,
         \A i \in Tracked(config) : sched'[i] = sched[i],
         UNCHANGED <<jobs, deleteJobs, cleanupJob, store>>
  PROVE  RetentionInv'
<1> DEFINE D == DroppedInCopy
<1>1. /\ D \in SUBSET Ids
      /\ \A i \in D : MayDelete(config, i) /\ NoJobs(i) /\ i \notin Tracked(mem) /\ i \in Tracked(config)
  <2>1. mem.state = "live"
    BY DEF RetentionInv, JobInv
  <2> QED
    BY <2>1 DEF DroppedInCopy, Tracked, RetentionInv, JobInv, DeletionJustified, Doomed
<1>2. \A i \in Ids : BackupName(i)' = BackupName(i) \/ i \notin Tracked(config)
  BY DEF BackupName
<1>3. ASSUME NEW i \in Tracked(config), i \notin D
      PROVE  /\ config'.backups[i].phase = mem.backups[i].phase
             /\ \/ config'.backups[i].phase = config.backups[i].phase
                \/ pc = "startSave" /\ Unfinished(i)
  <2>1. i \in Ids /\ CopyAgrees(i)
    BY DEF RetentionInv, Tracked
  <2> QED
    BY <1>3, <2>1 DEF CopyAgrees
<1>4. ASSUME NEW i \in Ids
      PROVE  NewerCompleted(config, i) \ D \subseteq NewerCompleted(config', i)
  <2> SUFFICES ASSUME NEW j \in NewerCompleted(config, i), j \notin D
               PROVE  j \in NewerCompleted(config', i)
    OBVIOUS
  <2>1. j \in Ids /\ j > i /\ config.backups[j].phase = "Completed" /\ j \in Tracked(config)
    BY DEF NewerCompleted, Tracked
  <2> QED
    BY <1>3, <2>1 DEF NewerCompleted, Unfinished
<1>5. ASSUME NEW i \in Ids, Doomed(i)'
      PROVE  i \notin D /\ Doomed(i)
  <2>1. deleteJobs[i] # "none" \/ mem.backups[i].deletePhase # ""
    <3>1. DroppedInCopy' = {}
      <4>1. Busy' => mem' = m
        BY DEF Busy
      <4>2. Tracked(m) = Tracked(config')
        BY DEF Tracked
      <4> QED
        BY <4>1, <4>2 DEF DroppedInCopy
    <3> QED
      BY <1>5, <3>1 DEF Doomed, Busy
  <2>2. i \in D => mem.backups[i].deletePhase = "" /\ deleteJobs[i] = "none"
    BY <1>1 DEF NoJobs, RetentionInv, JobInv, Blank
  <2> QED
    BY <2>1, <2>2 DEF Doomed
<1> HIDE DEF D
<1>6. \A i \in Ids : DeletionJustified(i)'
  <2> SUFFICES ASSUME NEW i \in Ids, Doomed(i)' PROVE MayDelete(config', i)
    BY DEF DeletionJustified
  <2>1. MayDelete(config, i) /\ i \notin D
    BY <1>5 DEF RetentionInv, DeletionJustified
  <2>2. i \in Tracked(config) /\ ~Unfinished(i)
    BY <2>1 DEF MayDelete, Tracked, Unfinished
  <2>3. config'.backups[i].phase = config.backups[i].phase
    BY <1>3, <2>1, <2>2
  <2>4. config.backups[i].phase = "Completed" =>
          Cardinality(NewerCompleted(config', i)) >= GetKeptBackupsCount
    BY <1>1, <1>4, <2>1, EnoughLeft DEF MayDelete
  <2> QED
    BY <2>1, <2>3, <2>4 DEF MayDelete
<1>7. \A i \in Ids : CopyAgrees(i)'
  BY DEF CopyAgrees, Busy
<1>8. \A i \in Ids : UploadPresent(i)'
  <2> SUFFICES ASSUME NEW i \in Ids, Unfinished(i)', jobs[i] \in {"stored", "complete"}
               PROVE  BackupName(i)' \in store
    BY DEF UploadPresent
  <2>1. ~NoJobs(i)
    BY DEF NoJobs
  <2>2. i \in Tracked(config) /\ i \notin D
    BY <1>1, <2>1 DEF RetentionInv, JobInv, NoForgottenJobs, NoJobs
  <2>3. Unfinished(i)
    BY <1>3, <2>2 DEF Unfinished
  <2> QED
    BY <1>2, <2>2, <2>3 DEF RetentionInv, UploadPresent
<1>9. KeptBackupsStored'
  <2> SUFFICES ASSUME NEW i \in Ids, config'.backups[i].phase = "Completed",
                      Cardinality(NewerCompleted(config', i)) < GetKeptBackupsCount
               PROVE  BackupName(i)' \in store
    BY DEF KeptBackupsStored
  <2>1. i \in Tracked(mem) /\ mem.backups[i].phase = "Completed"
    BY DEF Tracked
  <2>2. i \in Tracked(config) /\ i \notin D
    BY <1>1, <2>1 DEF RetentionInv, JobInv
  <2>3. CASE config.backups[i].phase = "Completed"
    <3>a. /\ Cardinality(NewerCompleted(config', i)) \in Nat
          /\ Cardinality(NewerCompleted(config, i)) \in Nat
      BY NewerFinite
    <3>1. ~(Cardinality(NewerCompleted(config', i)) >= GetKeptBackupsCount)
      BY <3>a, KeepIsNat, LessOrNot
    <3>2. ~(Cardinality(NewerCompleted(config, i)) >= GetKeptBackupsCount)
      BY <1>1, <1>4, <3>1, EnoughLeft
    <3>3. Cardinality(NewerCompleted(config, i)) < GetKeptBackupsCount
      BY <3>2, <3>a, KeepIsNat, LessOrNot
    <3> QED
      BY <1>2, <2>2, <2>3, <3>3 DEF RetentionInv, KeptBackupsStored
  <2>4. CASE pc = "startSave" /\ Unfinished(i)
    BY <1>2, <2>1, <2>2, <2>4 DEF RetentionInv, UploadPresent
  <2> QED
    BY <1>3, <2>2, <2>3, <2>4
<1>10. cleanupJob' = "none"
  BY DEF RetentionInv
<1> QED
  BY <1>6, <1>7, <1>8, <1>9, <1>10 DEF RetentionInv

(* The backups chosen for deletion by the copy may be deleted. *)
LEMMA ChosenMayBeDeleted ==
  ASSUME RetentionInv, config.state = "live", pc = "delete", NEW i \in BackupsToDelete
  PROVE  MayDelete(config, i)
<1>1. Busy /\ mem.state = "live" /\ i \in Ids
  BY DEF Busy, RetentionInv, JobInv, BackupsToDelete
<1>2. \A j \in Tracked(mem) : mem.backups[j].phase = config.backups[j].phase
  BY <1>1 DEF RetentionInv, CopyAgrees, DroppedInCopy, Tracked
<1>3. i \in Tracked(mem) /\ ~OneShot
  BY <1>1 DEF BackupsToDelete, Tracked
<1>4. ASSUME config.backups[i].phase = "Completed"
      PROVE  Cardinality(NewerCompleted(config, i)) >= GetKeptBackupsCount
  <2>1. NewerCompleted(mem, i) \subseteq NewerCompleted(config, i)
    BY <1>2 DEF NewerCompleted, Tracked
  <2>2. Cardinality(NewerCompleted(mem, i)) <= Cardinality(NewerCompleted(config, i))
    BY <2>1, NewerFinite, FS_Subset
  <2>3. Cardinality(NewerCompleted(mem, i)) + 1 > GetKeptBackupsCount
    BY <1>1, <1>2, <1>3, <1>4 DEF BackupsToDelete, KeepCount
  <2>4. /\ Cardinality(NewerCompleted(mem, i)) \in Nat
        /\ Cardinality(NewerCompleted(config, i)) \in Nat
    BY NewerFinite
  <2> QED
    BY <2>2, <2>3, <2>4, KeepIsNat
<1> QED
  BY <1>1, <1>2, <1>3, <1>4 DEF MayDelete, BackupsToDelete

(* A delete job only removes the backup it is for. *)
LEMMA RemovesOnlyDoomed ==
  ASSUME RetentionInv, config.state = "live", NEW k \in Ids, deleteJobs[k] # "none",
         NEW i \in Tracked(config), BackupName(i) = BackupName(k)
  PROVE  Doomed(i)
<1>1. k \in Tracked(config) /\ Doomed(k) /\ ~OneShot
  BY DEF RetentionInv, JobInv, NoForgottenJobs, Doomed, DeletionJustified, MayDelete
<1>2. sched[i] = sched[k] /\ i \in Nat /\ k \in Nat /\ sched[i] \in Nat
  <2>1. TypeOK
    BY DEF RetentionInv, JobInv, ListInv
  <2>2. i \in Ids /\ sched \in [Ids -> Ticks]
    BY <2>1 DEF Tracked, TypeOK
  <2> QED
    BY <1>1, <2>2, TicksNat, IdsFinite DEF BackupName
<1>3. ~(i < k) /\ ~(k < i)
  <2>1. Sound(config, sched, nextId, tick)
    BY DEF RetentionInv, JobInv, ListInv
  <2>2. (i < k => sched[i] < sched[k]) /\ (k < i => sched[k] < sched[i])
    BY <1>1, <2>1 DEF Sound
  <2> QED
    BY <1>2, <2>2
<1> QED
  BY <1>1, <1>2, <1>3

(* A resource that is not being deleted was not being deleted before. *)
LEMMA LiveBefore ==
  ASSUME JobInv, [Next]_vars, config'.state = "live"
  PROVE  config.state = "live"
<1> USE DEF apiVars, envVars, controllerVars, jobVars
<1>0. TypeOK
  BY DEF JobInv, ListInv
<1>a. ASSUME NEW m \in EtcdBackupConfig, NEW next, Update(m, next), m.state = mem.state
      PROVE  config.state = "live"
  <2>1. \/ config' = config
        \/ fresh /\ (config'.state = "live" => m.state = "live")
    BY <1>0, <1>a, ConfigWritten
  <2> QED
    BY <1>a, <2>1 DEF JobInv
<1>1. CASE SetSchedulingActive
  <2> DEFINE m == [mem EXCEPT !.schedulingActive = WantedSchedulingActive]
  <2>1. m \in EtcdBackupConfig /\ m.state = mem.state
    BY <1>0 DEF EtcdBackupConfig, WantedSchedulingActive, TypeOK
  <2>2. \E next : Update(m, next)
    BY <1>1 DEF SetSchedulingActive
  <2> QED
    BY <1>a, <2>1, <2>2
<1>2. CASE EnsurePendingBackupIsScheduled
  <2>1. CASE ScheduleNow
    <3>1. Update([mem EXCEPT !.backups[nextId].phase = ""], "start") /\ nextId \in Ids
      BY <1>2, <2>1 DEF EnsurePendingBackupIsScheduled, ScheduleNow
    <3> QED
      BY <1>0, <1>a, <3>1, AppendEffect
  <2>2. CASE ~ScheduleNow
    BY <1>2, <2>2 DEF EnsurePendingBackupIsScheduled
  <2> QED
    BY <2>1, <2>2
<1>3. CASE SaveStartedBackups \/ SaveStartedDeletes \/ SaveUpdatedDeletes
             \/ SaveDroppedBackups \/ SaveFinalization
  <2>1. \E next : Update(mem, next)
    BY <1>3 DEF SaveStartedBackups, SaveStartedDeletes, SaveUpdatedDeletes,
                SaveDroppedBackups, SaveFinalization
  <2> QED
    BY <1>0, <1>a, <2>1 DEF TypeOK
<1>4. CASE DeleteConfig
  BY <1>4 DEF DeleteConfig
<1>5. CASE UNCHANGED config
  BY <1>5
<1> QED
  BY <1>1, <1>2, <1>3, <1>4, <1>5
  DEF Next, ControllerStep, JobStep, Disturbance, Reconcile, StartPendingBackupJobs,
      StartPendingBackupDeleteJobs, UpdateRunningBackupDeleteJobs, DeleteFinishedBackupJobs,
      HandleFinalization, JobCacheSync, StoreBackup, CompleteBackupJob, CompleteDeleteJob,
      CompleteCleanupJob, StartPendingBackupJobsFails, StartPendingBackupDeleteJobsFails,
      UpdateRunningBackupDeleteJobsFails, DeleteFinishedBackupJobsFails,
      HandleFinalizationFails, ReconcileAborts, ConfigTouched, PauseCluster, LoseJob,
      FailBackupJob, FailDeleteJob, FailCleanupJob, DeleteCluster, UnpauseCluster, Tick, vars

(* The reconciliation ends without a save: what it leaves behind are the   *)
(* delete jobs in S, which may exist.                                      *)
LEMMA RetentionReturn ==
  ASSUME RetentionInv, JobInv', config.state = "live", UNCHANGED <<config, sched, cleanupJob, store>>,
         pc' = "idle", NEW S, \A i \in S : MayDelete(config, i),
         \A i \in Ids : deleteJobs'[i] # "none" => deleteJobs[i] # "none" \/ i \in S,
         \A i \in Ids : jobs'[i] \in {"stored", "complete"} => jobs[i] \in {"stored", "complete"}
  PROVE  RetentionInv'
<1>1. ~Busy' /\ DroppedInCopy' = {}
  BY DEF Busy, DroppedInCopy
<1>2. \A i \in Ids : CopyAgrees(i)'
  BY <1>1 DEF CopyAgrees
<1>3. \A i \in Ids : Doomed(i)' => Doomed(i) \/ i \in S
  BY <1>1 DEF Doomed
<1>4. \A i \in Ids : Doomed(i)' => MayDelete(config, i)
  BY <1>3 DEF RetentionInv, DeletionJustified
<1>5. cleanupJob' = "none" /\ pc' # "startSave"
  BY DEF RetentionInv
<1> QED
  BY <1>2, <1>4, <1>5, RetentionKept

LEMMA RetentionAborted ==
  ASSUME RetentionInv, JobInv', config.state = "live", UNCHANGED <<config, sched, cleanupJob, store>>,
         pc' = "idle",
         \A i \in Ids : deleteJobs'[i] # "none" => deleteJobs[i] # "none",
         \A i \in Ids : jobs'[i] \in {"stored", "complete"} => jobs[i] \in {"stored", "complete"}
  PROVE  RetentionInv'
<1> DEFINE S == {}
<1>1. \A i \in S : MayDelete(config, i)
  OBVIOUS
<1> HIDE DEF S
<1> QED
  BY <1>1, RetentionReturn

(* A step outside the reconciliation. *)
LEMMA RetentionOutside ==
  ASSUME RetentionInv, JobInv', config.state = "live", UNCHANGED <<config, sched, cleanupJob, mem, pc>>,
         \A i \in Ids : deleteJobs'[i] # "none" => deleteJobs[i] # "none",
         \A i \in Ids : jobs'[i] \in {"stored", "complete"} =>
                          jobs[i] \in {"stored", "complete"} \/ BackupName(i) \in store',
         \A i \in Tracked(config) : BackupName(i) \in store /\ BackupName(i) \notin store' => Doomed(i)
  PROVE  RetentionInv'
<1>1. Busy' = Busy /\ DroppedInCopy' = DroppedInCopy
  BY DEF Busy, DroppedInCopy
<1>2. \A i \in Ids : CopyAgrees(i)'
  BY <1>1 DEF CopyAgrees, RetentionInv, Unfinished
<1>3. \A i \in Ids : Doomed(i)' => Doomed(i)
  BY <1>1 DEF Doomed
<1>4. \A i \in Ids : Doomed(i)' => MayDelete(config, i)
  BY <1>3 DEF RetentionInv, DeletionJustified
<1>5. cleanupJob' = "none"
  BY DEF RetentionInv
<1> QED
  BY <1>2, <1>4, <1>5, RetentionKept

LEMMA RetentionUpdate ==
  ASSUME RetentionInv, JobInv', Busy, config.state = "live", config'.state = "live",
         NEW m \in EtcdBackupConfig, NEW next \in PCs \ {"startSave"}, Update(m, next),
         \A i \in Ids :
           \/ m.backups[i].phase = mem.backups[i].phase
           \/ i \notin Tracked(config) /\ m.backups[i].phase = "",
         \A i \in Ids : m.backups[i].deletePhase = mem.backups[i].deletePhase,
         fresh => \A i \in Tracked(config) : sched'[i] = sched[i],
         ~fresh => sched' = sched,
         UNCHANGED <<jobs, deleteJobs, cleanupJob, store>>
  PROVE  RetentionInv'
<1>0. TypeOK
  BY DEF RetentionInv, JobInv, ListInv
<1>1. CASE ~fresh
  <2>1. config' = config /\ pc' = "idle"
    BY <1>1 DEF Update, Return
  <2> QED
    BY <1>1, <2>1, RetentionAborted
<1>2. CASE fresh
  <2>1. /\ config'.backups = m.backups
        /\ (mem' = m /\ pc' # "startSave") \/ pc' = "idle"
    BY <1>0, <1>2, ConfigWritten
  <2> QED
    BY <1>2, <2>1, RetentionSave
<1> QED
  BY <1>1, <1>2

LEMMA RetentionNext == RetentionInv /\ [Next]_vars => RetentionInv'
<1> SUFFICES ASSUME RetentionInv, [Next]_vars PROVE RetentionInv'
  OBVIOUS
<1>a. JobInv /\ JobInv' /\ TypeOK
  BY JobNext DEF RetentionInv, JobInv, ListInv
<1>b. CASE config'.state # "live"
  BY <1>a, <1>b DEF RetentionInv, KeptBackupsStored
<1> SUFFICES ASSUME config'.state = "live" PROVE RetentionInv'
  BY <1>b
<1>c. config.state = "live"
  BY <1>a, LiveBefore
<1>d. Busy => mem.state = "live" /\ Tracked(mem) \subseteq Tracked(config)
  BY <1>a, <1>c DEF JobInv
<1>e. /\ jobs \in [Ids -> JobState] /\ deleteJobs \in [Ids -> JobState]
      /\ mem \in EtcdBackupConfig /\ cleanupJob = "none"
      /\ \A i \in Ids : CopyAgrees(i) /\ DeletionJustified(i)
  BY <1>a, <1>c DEF TypeOK, RetentionInv
<1>f. \A i \in Ids : Doomed(i) => MayDelete(config, i)
  BY <1>e DEF DeletionJustified
<1> USE DEF apiVars, envVars, controllerVars, jobVars
<1>1. CASE Reconcile
  <2>1. UNCHANGED <<config, sched, jobs, deleteJobs, cleanupJob, store>> /\ mem' = config
        /\ pc' = "schedule"
    BY <1>1 DEF Reconcile
  <2>2. DroppedInCopy' = {} /\ \A i \in Ids : CopyAgrees(i)'
    BY <2>1 DEF DroppedInCopy, CopyAgrees
  <2>3. \A i \in Ids : Doomed(i)' => Doomed(i)
    BY <2>1, <2>2 DEF Doomed
  <2> QED
    BY <1>a, <1>c, <1>e, <1>f, <2>1, <2>2, <2>3, RetentionKept
<1>2. CASE SetSchedulingActive
  <2> DEFINE m == [mem EXCEPT !.schedulingActive = WantedSchedulingActive]
  <2>1. m \in EtcdBackupConfig /\ m.backups = mem.backups
    BY <1>e DEF EtcdBackupConfig, WantedSchedulingActive
  <2>2. PICK next \in PCs \ {"startSave"} : Update(m, next)
    BY <1>2 DEF SetSchedulingActive, PCs
  <2>3. Busy /\ UNCHANGED <<sched, jobs, deleteJobs, cleanupJob, store>>
    BY <1>2 DEF SetSchedulingActive, Busy
  <2> HIDE DEF m
  <2> QED
    BY <1>a, <1>c, <2>1, <2>2, <2>3, RetentionUpdate
<1>3. CASE SaveStartedBackups \/ SaveStartedDeletes \/ SaveUpdatedDeletes
             \/ SaveDroppedBackups \/ SaveFinalization
  <2>1. PICK next \in PCs \ {"startSave"} : Update(mem, next)
    BY <1>3 DEF SaveStartedBackups, SaveStartedDeletes, SaveUpdatedDeletes,
                SaveDroppedBackups, SaveFinalization, PCs
  <2>2. Busy /\ UNCHANGED <<sched, jobs, deleteJobs, cleanupJob, store>>
    BY <1>3 DEF SaveStartedBackups, SaveStartedDeletes, SaveUpdatedDeletes,
                SaveDroppedBackups, SaveFinalization, Busy
  <2> QED
    BY <1>a, <1>c, <1>e, <2>1, <2>2, RetentionUpdate
<1>4. CASE EnsurePendingBackupIsScheduled
  <2>1. Busy /\ UNCHANGED <<jobs, deleteJobs, cleanupJob, store>>
    BY <1>4 DEF EnsurePendingBackupIsScheduled, Busy
  <2>2. CASE ScheduleNow
    <3> DEFINE m == [mem EXCEPT !.backups[nextId].phase = ""]
    <3>1. /\ nextId \in Ids /\ Update(m, "start")
          /\ fresh => sched' = [sched EXCEPT ![nextId] = tick]
          /\ ~fresh => sched' = sched
      BY <1>4, <2>2 DEF EnsurePendingBackupIsScheduled, ScheduleNow
    <3>2. /\ m \in EtcdBackupConfig
          /\ \A i \in Ids : /\ m.backups[i].phase =
                                IF i = nextId THEN "" ELSE mem.backups[i].phase
                            /\ m.backups[i].deletePhase = mem.backups[i].deletePhase
      BY <1>a, <3>1, AppendEffect
    <3> HIDE DEF m
    <3>3. \A i \in Tracked(config) : i \in Ids /\ i # nextId
      <4>1. \A i \in Tracked(config) : i < nextId /\ i \in Ids /\ i \in Nat
        BY <1>a, IdsFinite DEF JobInv, ListInv, Sound, Tracked
      <4> QED
        BY <4>1
    <3>4. fresh => \A i \in Tracked(config) : sched'[i] = sched[i]
      BY <1>a, <3>1, <3>3 DEF TypeOK
    <3>5. "start" \in PCs \ {"startSave"}
      BY DEF PCs
    <3>6. \A i \in Ids : \/ m.backups[i].phase = mem.backups[i].phase
                         \/ i \notin Tracked(config) /\ m.backups[i].phase = ""
      BY <3>2, <3>3
    <3> QED
      BY <1>a, <1>c, <2>1, <3>1, <3>2, <3>4, <3>5, <3>6, RetentionUpdate
  <2>3. CASE ~ScheduleNow
    <3>1. UNCHANGED <<config, mem, sched>> /\ pc = "schedule" /\ pc' = "start"
      BY <1>4, <2>3 DEF EnsurePendingBackupIsScheduled
    <3>2. Busy' = Busy /\ DroppedInCopy' = DroppedInCopy
      BY <3>1 DEF Busy, DroppedInCopy
    <3>3. \A i \in Ids : CopyAgrees(i)' /\ (Doomed(i)' => Doomed(i))
      BY <1>e, <2>1, <3>1, <3>2 DEF CopyAgrees, Doomed
    <3> QED
      BY <1>a, <1>c, <1>e, <1>f, <2>1, <3>1, <3>3, RetentionKept
  <2> QED
    BY <2>2, <2>3
<1>5. CASE StartPendingBackupJobs
  <2>1. /\ UNCHANGED <<config, sched, deleteJobs, cleanupJob, store>>
        /\ jobs' = Created(jobs, BackupsToStart) /\ Busy /\ Busy' /\ pc = "start"
        /\ pc' = "startSave"
    BY <1>5 DEF StartPendingBackupJobs, Busy
  <2>2. Tracked(mem') = Tracked(mem) /\ DroppedInCopy' = DroppedInCopy
    <3>1. Tracked(mem') = Tracked(mem)
      BY <1>a, <1>5, StartEffect DEF Tracked, BackupsToStart, PhaseFromJob
    <3> QED
      BY <2>1, <3>1 DEF DroppedInCopy
  <2>3. ASSUME NEW i \in Ids PROVE CopyAgrees(i)'
    <3>1. CASE mem.backups[i].phase \in {"", "Running"}
      <4>1. i \in Tracked(mem) /\ Unfinished(i)
        BY <1>e, <2>1, <3>1 DEF CopyAgrees, Unfinished, Tracked, DroppedInCopy
      <4> QED
        BY <2>1, <2>2, <4>1 DEF CopyAgrees, Unfinished
    <3>2. CASE mem.backups[i].phase \notin {"", "Running"}
      <4>1. mem'.backups[i].phase = mem.backups[i].phase
        BY <1>a, <1>5, <3>2, StartEffect DEF BackupsToStart
      <4> QED
        BY <1>e, <2>1, <2>2, <4>1 DEF CopyAgrees
    <3> QED
      BY <3>1, <3>2
  <2>4. \A i \in Ids : Doomed(i)' => Doomed(i)
    BY <1>a, <1>5, <2>1, <2>2, StartEffect DEF Doomed
  <2>5. ASSUME NEW i \in Ids, Unfinished(i),
               jobs'[i] \in {"stored", "complete"} \/ mem'.backups[i].phase = "Completed"
        PROVE  jobs[i] \in {"stored", "complete"}
    <3>1. jobs'[i] \in {"stored", "complete"} => jobs[i] \in {"stored", "complete"}
      BY <2>1, JobsCreated
    <3>2. mem.backups[i].phase # "Completed"
      BY <1>e, <2>1, <2>5 DEF CopyAgrees, Unfinished, DroppedInCopy, Tracked
    <3>3. mem'.backups[i].phase = "Completed" => jobs[i] \in {"stored", "complete"}
      BY <1>a, <1>5, <3>2, StartEffect DEF PhaseFromJob
    <3> QED
      BY <2>5, <3>1, <3>3
  <2> QED
    BY <1>a, <1>c, <1>e, <1>f, <2>1, <2>3, <2>4, <2>5, RetentionKept
<1>6. CASE StartPendingBackupDeleteJobs
  <2>1. /\ UNCHANGED <<config, sched, jobs, cleanupJob, store>>
        /\ deleteJobs' \in {deleteJobs, Created(deleteJobs, BackupsToDelete)}
        /\ Busy /\ Busy' /\ pc = "delete" /\ pc' # "startSave"
    BY <1>6 DEF StartPendingBackupDeleteJobs, Busy
  <2>2. Tracked(mem') = Tracked(mem) /\ DroppedInCopy' = DroppedInCopy
    <3>1. Tracked(mem') = Tracked(mem)
      BY <1>a, <1>6, DeleteEffect DEF Tracked
    <3> QED
      BY <2>1, <3>1 DEF DroppedInCopy
  <2>3. \A i \in Ids : CopyAgrees(i)'
    BY <1>a, <1>e, <1>6, <2>1, <2>2, DeleteEffect DEF CopyAgrees
  <2>4. \A i \in Ids : Doomed(i)' => Doomed(i) \/ i \in BackupsToDelete
    <3>1. \A i \in Ids : deleteJobs'[i] # "none" => deleteJobs[i] # "none" \/ i \in BackupsToDelete
      BY <2>1, DeleteJobsCreated
    <3>2. \A i \in Ids : mem'.backups[i].deletePhase # "" =>
                          mem.backups[i].deletePhase # "" \/ i \in BackupsToDelete
      BY <1>a, <1>6, DeleteEffect
    <3> QED
      BY <2>1, <2>2, <3>1, <3>2 DEF Doomed
  <2>5. \A i \in Ids : Doomed(i)' => MayDelete(config, i)
    BY <1>c, <1>f, <2>1, <2>4, ChosenMayBeDeleted
  <2> QED
    BY <1>a, <1>c, <1>e, <2>1, <2>3, <2>5, RetentionKept
<1>7. CASE UpdateRunningBackupDeleteJobs
  <2>1. /\ UNCHANGED <<config, sched, jobs, cleanupJob, store>>
        /\ deleteJobs' = Created(Deleted(deleteJobs, FailedDeletes), FailedDeletes \cup LostDeletes)
        /\ Busy /\ Busy' /\ pc = "update" /\ pc' # "startSave"
    BY <1>7 DEF UpdateRunningBackupDeleteJobs, Busy
  <2>2. Tracked(mem') = Tracked(mem) /\ DroppedInCopy' = DroppedInCopy
    <3>1. Tracked(mem') = Tracked(mem)
      BY <1>a, <1>7, UpdateDeletesEffect DEF Tracked
    <3> QED
      BY <2>1, <3>1 DEF DroppedInCopy
  <2>3. \A i \in Ids : CopyAgrees(i)'
    BY <1>a, <1>e, <1>7, <2>1, <2>2, UpdateDeletesEffect DEF CopyAgrees
  <2>4. \A i \in Ids : deleteJobs'[i] # "none" => deleteJobs[i] # "none" \/ i \in RunningDeletes
    <3>1. FailedDeletes \cup LostDeletes \subseteq RunningDeletes
      BY DEF FailedDeletes, LostDeletes
    <3> QED
      BY <2>1, <3>1, DeleteJobsRecreated
  <2>5. \A i \in RunningDeletes : i \in Ids /\ Doomed(i)
    BY <2>1 DEF RunningDeletes, Doomed
  <2>6. \A i \in Ids : mem'.backups[i].deletePhase # "" => mem.backups[i].deletePhase # ""
    BY <1>a, <1>7, UpdateDeletesEffect DEF DeletesDone, RunningDeletes
  <2>7. \A i \in Ids : Doomed(i)' => Doomed(i)
    BY <2>1, <2>2, <2>4, <2>5, <2>6 DEF Doomed
  <2> QED
    BY <1>a, <1>c, <1>e, <1>f, <2>1, <2>3, <2>7, RetentionKept
<1>8. CASE DeleteFinishedBackupJobs
  <2>1. PICK eJ \in Expired(FinishedBackups, jobs), eD \in Expired(FinishedDeletes, deleteJobs) :
          /\ jobs' = Deleted(jobs, {i \in eJ : Found(jobs[i])})
          /\ deleteJobs' = Deleted(deleteJobs, {i \in eD : Found(deleteJobs[i])})
          /\ mem'.state = mem.state
          /\ \A i \in Ids :
               mem'.backups[i] = IF i \in Dropped(eJ, eD) THEN Untracked ELSE mem.backups[i]
    BY <1>a, <1>8, CleanEffect
  <2>2. /\ UNCHANGED <<config, sched, cleanupJob, store>>
        /\ Busy /\ Busy' /\ pc = "clean" /\ pc' # "startSave"
    BY <1>8 DEF DeleteFinishedBackupJobs, Busy
  <2>3. \A i \in Dropped(eJ, eD) : i \in Ids /\ mem.backups[i].deletePhase = "Completed"
    <3>1. eD \subseteq FinishedDeletes /\ NeverStarted = {}
      BY <1>d, <2>1, <2>2 DEF Expired, NeverStarted
    <3> QED
      BY <3>1 DEF Dropped, FinishedDeletes
  <2>4. Untracked.phase = "untracked" /\ Untracked.deletePhase = ""
    BY DEF Untracked
  <2>5. Tracked(mem') = Tracked(mem) \ Dropped(eJ, eD)
    BY <2>1, <2>4 DEF Tracked
  <2>6. DroppedInCopy' \subseteq DroppedInCopy \cup Dropped(eJ, eD)
        /\ DroppedInCopy \subseteq DroppedInCopy'
    BY <2>2, <2>5 DEF DroppedInCopy
  <2>7. ASSUME NEW i \in Ids PROVE CopyAgrees(i)'
    <3>1. CASE i \in Dropped(eJ, eD)
      <4>1. mem'.backups[i].phase = "untracked"
        BY <2>1, <2>4, <3>1
      <4> QED
        BY <2>2, <3>1, <4>1 DEF CopyAgrees, DroppedInCopy, Tracked
    <3>2. CASE i \notin Dropped(eJ, eD)
      <4>1. mem'.backups[i] = mem.backups[i]
        BY <2>1, <3>2
      <4> QED
        BY <1>e, <2>2, <2>6, <4>1 DEF CopyAgrees
    <3> QED
      BY <3>1, <3>2
  <2>8. ASSUME NEW i \in Ids, Doomed(i)' PROVE Doomed(i)
    <3>1. deleteJobs'[i] # "none" => deleteJobs[i] # "none"
      BY <2>1, DeleteJobsDeleted
    <3>2. mem'.backups[i].deletePhase # "" => mem.backups[i].deletePhase # ""
      BY <2>1, <2>4
    <3>3. i \in DroppedInCopy' => i \in DroppedInCopy \/ mem.backups[i].deletePhase # ""
      BY <2>3, <2>6
    <3> QED
      BY <2>2, <2>8, <3>1, <3>2, <3>3 DEF Doomed
  <2>9. \A i \in Ids : jobs'[i] \in {"stored", "complete"} => jobs[i] \in {"stored", "complete"}
    BY <2>1, JobsDeleted
  <2> QED
    BY <1>a, <1>c, <1>e, <1>f, <2>2, <2>7, <2>8, <2>9, RetentionKept
<1>9. CASE HandleFinalization
  <2>1. Busy /\ pc # "idle"
    BY <1>9 DEF HandleFinalization, Busy
  <2>2. /\ pc' = "idle" /\ UNCHANGED <<config, sched, cleanupJob, store, jobs, deleteJobs>>
    BY <1>d, <1>9, <2>1 DEF HandleFinalization, FinalizationDue, Return
  <2> QED
    BY <1>a, <1>c, <2>2, RetentionAborted
<1>10. CASE StartPendingBackupJobsFails
  <2>1. PICK S : jobs' = Created(jobs, S)
    BY <1>10 DEF StartPendingBackupJobsFails
  <2>2. pc' = "idle" /\ UNCHANGED <<config, sched, cleanupJob, store, deleteJobs>>
    BY <1>10 DEF StartPendingBackupJobsFails, Return
  <2>3. \A i \in Ids : jobs'[i] \in {"stored", "complete"} => jobs[i] \in {"stored", "complete"}
    BY <2>1, JobsCreated
  <2> QED
    BY <1>a, <1>c, <2>2, <2>3, RetentionAborted
<1>11. CASE StartPendingBackupDeleteJobsFails
  <2>1. PICK S : S \subseteq BackupsToDelete /\ deleteJobs' = Created(deleteJobs, S)
    BY <1>11 DEF StartPendingBackupDeleteJobsFails
  <2>2. pc = "delete" /\ pc' = "idle" /\ UNCHANGED <<config, sched, cleanupJob, store, jobs>>
    BY <1>11 DEF StartPendingBackupDeleteJobsFails, Return
  <2>3. \A i \in S : MayDelete(config, i)
    BY <1>c, <2>1, <2>2, ChosenMayBeDeleted
  <2>4. \A i \in Ids : deleteJobs'[i] # "none" => deleteJobs[i] # "none" \/ i \in S
    BY <2>1, DeleteJobsCreated
  <2> QED
    BY <1>a, <1>c, <2>2, <2>3, <2>4, RetentionReturn
<1>12. CASE UpdateRunningBackupDeleteJobsFails
  <2>1. PICK S, R : S \subseteq RunningDeletes /\ deleteJobs' = Created(Deleted(deleteJobs, R), S)
    BY <1>12 DEF UpdateRunningBackupDeleteJobsFails, Prefixes, FailedDeletes, LostDeletes
  <2>2. Busy /\ pc' = "idle" /\ UNCHANGED <<config, sched, cleanupJob, store, jobs>>
    BY <1>12 DEF UpdateRunningBackupDeleteJobsFails, Return, Busy
  <2>3. \A i \in S : MayDelete(config, i)
    BY <1>f, <2>1, <2>2 DEF RunningDeletes, Doomed
  <2>4. \A i \in Ids : deleteJobs'[i] # "none" => deleteJobs[i] # "none" \/ i \in S
    BY <2>1, DeleteJobsRecreated
  <2> QED
    BY <1>a, <1>c, <2>2, <2>3, <2>4, RetentionReturn
<1>13. CASE DeleteFinishedBackupJobsFails
  <2>1. PICK S, R : jobs' = Deleted(jobs, S) /\ deleteJobs' = Deleted(deleteJobs, R)
    BY <1>13 DEF DeleteFinishedBackupJobsFails
  <2>2. pc' = "idle" /\ UNCHANGED <<config, sched, cleanupJob, store>>
    BY <1>13 DEF DeleteFinishedBackupJobsFails, Return
  <2>3. \A i \in Ids : /\ deleteJobs'[i] # "none" => deleteJobs[i] # "none"
                       /\ jobs'[i] \in {"stored", "complete"} => jobs[i] \in {"stored", "complete"}
    BY <2>1, JobsDeleted, DeleteJobsDeleted
  <2> QED
    BY <1>a, <1>c, <2>2, <2>3, RetentionAborted
<1>14. CASE ReconcileAborts
  <2>1. pc' = "idle" /\ UNCHANGED <<config, sched, cleanupJob, store, jobs, deleteJobs>>
    BY <1>14 DEF ReconcileAborts, Return
  <2> QED
    BY <1>a, <1>c, <2>1, RetentionAborted
<1>15. CASE ConfigTouched \/ DeleteCluster \/ UnpauseCluster \/ PauseCluster \/ Tick \/ UNCHANGED vars
  <2>1. UNCHANGED <<config, sched, cleanupJob, store, jobs, deleteJobs, mem, pc>>
    BY <1>15 DEF ConfigTouched, DeleteCluster, UnpauseCluster, PauseCluster, Tick, vars
  <2> QED
    BY <1>a, <1>c, <2>1, RetentionOutside
<1>16. CASE DeleteConfig
  <2>1. config'.state # "live"
    BY <1>a, <1>16 DEF DeleteConfig, Persisted, TypeOK, EtcdBackupConfig
  <2> QED
    BY <2>1
<1>17. CASE JobCacheSync
  <2>1. UNCHANGED <<config, sched, cleanupJob, store, mem, pc>>
    BY <1>e, <1>17 DEF JobCacheSync, Seen
  <2>2. \A i \in Ids : /\ deleteJobs'[i] # "none" => deleteJobs[i] # "none"
                       /\ jobs'[i] \in {"stored", "complete"} => jobs[i] \in {"stored", "complete"}
    BY <1>17 DEF JobCacheSync, Seen
  <2> QED
    BY <1>a, <1>c, <2>1, <2>2, RetentionOutside
<1>18. ASSUME NEW k \in Ids, StoreBackup(k) \/ CompleteBackupJob(k) \/ FailBackupJob(k)
       PROVE  RetentionInv'
  <2>1. UNCHANGED <<config, sched, cleanupJob, deleteJobs, mem, pc>> /\ store \subseteq store'
    BY <1>18 DEF StoreBackup, CompleteBackupJob, FailBackupJob
  <2>2. \A i \in Ids : jobs'[i] \in {"stored", "complete"} =>
                         jobs[i] \in {"stored", "complete"} \/ BackupName(i) \in store'
    BY <1>e, <1>18 DEF StoreBackup, CompleteBackupJob, FailBackupJob
  <2> QED
    BY <1>a, <1>c, <2>1, <2>2, RetentionOutside
<1>19. ASSUME NEW k \in Ids, CompleteDeleteJob(k) \/ FailDeleteJob(k)
       PROVE  RetentionInv'
  <2>1. /\ UNCHANGED <<config, sched, cleanupJob, jobs, mem, pc>> /\ deleteJobs[k] = "active"
        /\ store' \in {store, store \ {BackupName(k)}}
    BY <1>19 DEF CompleteDeleteJob, FailDeleteJob
  <2>2. \A i \in Ids : deleteJobs'[i] # "none" => deleteJobs[i] # "none"
    BY <1>e, <1>19 DEF CompleteDeleteJob, FailDeleteJob
  <2>3. \A i \in Tracked(config) : BackupName(i) \in store /\ BackupName(i) \notin store' => Doomed(i)
    BY <1>c, <2>1, RemovesOnlyDoomed
  <2> QED
    BY <1>a, <1>c, <2>1, <2>2, <2>3, RetentionOutside
<1>20. CASE CompleteCleanupJob \/ FailCleanupJob \/ HandleFinalizationFails
  BY <1>e, <1>20 DEF CompleteCleanupJob, FailCleanupJob, HandleFinalizationFails
<1>21. CASE LoseJob
  <2>1. PICK S, R : /\ jobs' = jobs \/ jobs' = Deleted(jobs, S)
                    /\ deleteJobs' = deleteJobs \/ deleteJobs' = Deleted(deleteJobs, R)
    BY <1>21 DEF LoseJob
  <2>2. UNCHANGED <<config, sched, cleanupJob, store, mem, pc>>
    BY <1>21 DEF LoseJob
  <2>3. \A i \in Ids : /\ deleteJobs'[i] # "none" => deleteJobs[i] # "none"
                       /\ jobs'[i] \in {"stored", "complete"} => jobs[i] \in {"stored", "complete"}
    BY <2>1, JobsDeleted, DeleteJobsDeleted
  <2> QED
    BY <1>a, <1>c, <2>2, <2>3, RetentionOutside
<1> QED
  BY <1>1, <1>2, <1>3, <1>4, <1>5, <1>6, <1>7, <1>8, <1>9, <1>10, <1>11, <1>12, <1>13,
     <1>14, <1>15, <1>16, <1>17, <1>18, <1>19, <1>20, <1>21
  DEF Next, ControllerStep, JobStep, Disturbance

(* The backups to keep are in the backend: no interleaving of the          *)
(* reconciliation with its jobs, no failure and no lost save makes the     *)
(* controller delete one of the newest completed backups of a live         *)
(* resource.                                                               *)
THEOREM BackupsKept == Spec => []KeptBackupsStored
<1>1. Spec => []RetentionInv
  BY RetentionInit, RetentionNext, PTL DEF Spec
<1>2. RetentionInv => KeptBackupsStored
  BY DEF RetentionInv
<1> QED
  BY <1>1, <1>2, PTL

=============================================================================
