-------------------------- MODULE UpdateApplyProofs --------------------------
(***************************************************************************)
(* TransactionInv is inductive for every bound on faults, crashes and data *)
(* writes, on Windows and elsewhere; the safety properties of the update   *)
(* transaction follow from it.                                             *)
(*                                                                         *)
(* The step from one state to the next is split three ways: the Boolean    *)
(* variables, the other types, and the agreement of disk, journal,         *)
(* processes and program point.  Each has one case per action.             *)
(***************************************************************************)
EXTENDS UpdateApply, TLAPS

\* The initial disk, journal and processes agree.
LEMMA InitInv == Init => TransactionInv
<1> SUFFICES ASSUME Init PROVE TransactionInv
  OBVIOUS
<1>1. FlagsOK
  BY Zenon DEF Init, FlagsOK
<1>2. ValuesOK
  BY ConstantsAssumption DEF Init, ValuesOK, Slots, Contents, Statuses,
     HelperPoints, Processes
<1>3. DiskInv /\ JournalInv /\ ProcessInv /\ PointInv /\ PortableDataCarried
  BY DEF Init, Slots, DiskInv, JournalInv, ProcessInv, PointInv, BeforeSwap,
     PayloadReady, DataReady, Started, PortableDataCarried
<1>. QED BY <1>1, <1>2, <1>3 DEF TransactionInv, TypeOK

\* Boolean variables stay Boolean.
LEMMA FlagsStep ==
    ASSUME FlagsOK, [Next]_vars PROVE FlagsOK'
<1>0. windows' = windows
  BY DEF Next, vars
<1> USE <1>0 DEF FlagsOK, fileVars, journal, procVars
<1>1. CASE PrepareUpdate
  BY <1>1, Zenon
     DEF PrepareUpdate
<1>2. CASE LaunchHelper
  BY <1>2, Zenon
     DEF LaunchHelper
<1>3. CASE LaunchFailed
  BY <1>3, Zenon
     DEF LaunchFailed, WriteOutcome, Fault, NoFault
<1>4. CASE LauncherReady
  BY <1>4, Zenon
     DEF LauncherReady
<1>5. CASE LauncherGivesUp
  BY <1>5, Zenon
     DEF LauncherGivesUp, WriteOutcome, Torn, Fault, NoFault
<1>6. CASE Rerun
  BY <1>6, Zenon
     DEF Rerun
<1>7. CASE ReadOutcome
  BY <1>7, Zenon
     DEF ReadOutcome, RollbackUnsafe, Interrupted, OwnedTreeIsRunning, Fault,
         NoFault
<1>8. CASE PreparePayload
  BY <1>8, Zenon
     DEF PreparePayload, Torn
<1>9. CASE AnnounceWaiting
  BY <1>9, Zenon
     DEF AnnounceWaiting, WriteOutcome, Fault, NoFault
<1>10. CASE WaitForExit
  BY <1>10, Zenon
     DEF WaitForExit
<1>11. CASE RefreshPortableData
  BY <1>11, Zenon
     DEF RefreshPortableData, Torn
<1>12. CASE MarkBackingUp
  BY <1>12, Zenon
     DEF MarkBackingUp, WriteOutcome, Fault, NoFault
<1>13. CASE MoveOldAside
  BY <1>13, Zenon
     DEF MoveOldAside, RenameSynced, CanMove, Moved, Busy, Fault, NoFault
<1>14. CASE MarkInstalling
  BY <1>14, Zenon
     DEF MarkInstalling, WriteOutcome, Fault, NoFault
<1>15. CASE MoveNewIn
  BY <1>15, Zenon
     DEF MoveNewIn, RenameSynced, CanMove, Moved, Busy, Fault, NoFault
<1>16. CASE BundleRejected
  BY <1>16, Zenon
     DEF BundleRejected
<1>17. CASE MarkAwaitingStartup
  BY <1>17, Zenon
     DEF MarkAwaitingStartup, WriteOutcome, Fault, NoFault
<1>18. CASE StartUpdated
  BY <1>18, Zenon
     DEF StartUpdated, Fault, NoFault
<1>19. CASE RecordIdentity
  BY <1>19, Zenon
     DEF RecordIdentity, WriteOutcome, Fault, NoFault
<1>20. CASE Monitor
  BY <1>20, Zenon
     DEF Monitor, AckValid
<1>21. CASE StopUpdated
  BY <1>21, Zenon
     DEF StopUpdated, Fault, NoFault
<1>22. CASE RecordFailed
  BY <1>22, Zenon
     DEF RecordFailed, WriteOutcome, Fault, NoFault
<1>23. CASE MarkCompleted
  BY <1>23, Zenon
     DEF MarkCompleted, WriteOutcome, Fault, NoFault
<1>24. CASE RemovePrevious
  BY <1>24, Zenon
     DEF RemovePrevious, Fault, NoFault
<1>25. CASE RemoveRest
  BY <1>25, Zenon
     DEF RemoveRest, Fault, NoFault
<1>26. CASE DeferCleanup
  BY <1>26, Zenon
     DEF DeferCleanup, WriteOutcome, Fault, NoFault
<1>27. CASE Rollback
  BY <1>27, Zenon
     DEF Rollback, RenameSynced, OnRollbackError, CanMove, Moved, Busy, Fault,
         NoFault
<1>28. CASE RestorePrevious
  BY <1>28, Zenon
     DEF RestorePrevious, RenameSynced, OnRollbackError, CanMove, Moved, Busy,
         Fault, NoFault
<1>29. CASE RestartPrevious
  BY <1>29, Zenon
     DEF RestartPrevious
<1>30. CASE MarkRolledBack
  BY <1>30, Zenon
     DEF MarkRolledBack, WriteOutcome, Fault, NoFault
<1>31. CASE MarkRollbackFailed
  BY <1>31, Zenon
     DEF MarkRollbackFailed, WriteOutcome, Fault, NoFault
<1>32. CASE HelperFails
  BY <1>32, Zenon
     DEF HelperFails, WriteOutcome, Fault, NoFault
<1>33. CASE OriginalExits
  BY <1>33, Zenon
     DEF OriginalExits
<1>34. CASE OriginalWritesData
  BY <1>34, Zenon
     DEF OriginalWritesData
<1>35. CASE UpdatedForks
  BY <1>35, Zenon
     DEF UpdatedForks
<1>36. CASE UpdatedAcknowledges
  BY <1>36, Zenon
     DEF UpdatedAcknowledges
<1>37. CASE UpdatedExits
  BY <1>37, Zenon
     DEF UpdatedExits
<1>38. CASE HelperCrash
  BY <1>38, Zenon
     DEF HelperCrash, Torn
<1>39. CASE PowerLoss
  BY <1>39, Zenon
     DEF PowerLoss, Torn
<1>40. CASE UNCHANGED vars
  BY <1>40, Zenon DEF vars
<1>. QED BY <1>1, <1>2, <1>3, <1>4, <1>5, <1>6, <1>7, <1>8, <1>9, <1>10,
          <1>11, <1>12, <1>13, <1>14, <1>15, <1>16, <1>17, <1>18, <1>19,
          <1>20, <1>21, <1>22, <1>23, <1>24, <1>25, <1>26, <1>27, <1>28,
          <1>29, <1>30, <1>31, <1>32, <1>33, <1>34, <1>35, <1>36, <1>37,
          <1>38, <1>39, <1>40
     DEF Next, Step, Core, HelperStep, Environment

\* The other variables keep their types.
LEMMA ValuesStep ==
    ASSUME ValuesOK, [Next]_vars PROVE ValuesOK'
<1> USE ConstantsAssumption DEF ValuesOK, fileVars, journal, procVars
<1>1. CASE PrepareUpdate
  BY <1>1
     DEF PrepareUpdate, Slots, Contents, Statuses, Processes, HelperPoints
<1>2. CASE LaunchHelper
  BY <1>2
     DEF LaunchHelper, Slots, Contents, Statuses, Processes, HelperPoints
<1>3. CASE LaunchFailed
  BY <1>3
     DEF LaunchFailed, WriteOutcome, Fault, NoFault, Slots, Contents,
         Statuses, Processes, HelperPoints
<1>4. CASE LauncherReady
  BY <1>4
     DEF LauncherReady, Slots, Contents, Statuses, Processes, HelperPoints
<1>5. CASE LauncherGivesUp
  BY <1>5
     DEF LauncherGivesUp, WriteOutcome, Torn, Fault, NoFault, Slots, Contents,
         Statuses, Processes, HelperPoints
<1>6. CASE Rerun
  BY <1>6
     DEF Rerun, Slots, Contents, Statuses, Processes, HelperPoints
<1>7. CASE ReadOutcome
  BY <1>7
     DEF ReadOutcome, RollbackUnsafe, Interrupted, OwnedTreeIsRunning, Fault,
         NoFault, Slots, Contents, Statuses, Processes, HelperPoints
<1>8. CASE PreparePayload
  BY <1>8
     DEF PreparePayload, Torn, Slots, Contents, Statuses, Processes,
         HelperPoints
<1>9. CASE AnnounceWaiting
  BY <1>9
     DEF AnnounceWaiting, WriteOutcome, Fault, NoFault, Slots, Contents,
         Statuses, Processes, HelperPoints
<1>10. CASE WaitForExit
  BY <1>10
     DEF WaitForExit, Slots, Contents, Statuses, Processes, HelperPoints
<1>11. CASE RefreshPortableData
  BY <1>11
     DEF RefreshPortableData, Torn, Slots, Contents, Statuses, Processes,
         HelperPoints
<1>12. CASE MarkBackingUp
  BY <1>12
     DEF MarkBackingUp, WriteOutcome, Fault, NoFault, Slots, Contents,
         Statuses, Processes, HelperPoints
<1>13. CASE MoveOldAside
  BY <1>13
     DEF MoveOldAside, RenameSynced, CanMove, Moved, Busy, Fault, NoFault,
         Slots, Contents, Statuses, Processes, HelperPoints
<1>14. CASE MarkInstalling
  BY <1>14
     DEF MarkInstalling, WriteOutcome, Fault, NoFault, Slots, Contents,
         Statuses, Processes, HelperPoints
<1>15. CASE MoveNewIn
  BY <1>15
     DEF MoveNewIn, RenameSynced, CanMove, Moved, Busy, Fault, NoFault, Slots,
         Contents, Statuses, Processes, HelperPoints
<1>16. CASE BundleRejected
  BY <1>16
     DEF BundleRejected, Slots, Contents, Statuses, Processes, HelperPoints
<1>17. CASE MarkAwaitingStartup
  BY <1>17
     DEF MarkAwaitingStartup, WriteOutcome, Fault, NoFault, Slots, Contents,
         Statuses, Processes, HelperPoints
<1>18. CASE StartUpdated
  <2>1. upd' \in SUBSET Processes
    BY <1>18 DEF StartUpdated, Processes
  <2>2. faults' \in 0..MaxFaults
    BY <1>18 DEF StartUpdated, Fault, NoFault
  <2>3. helper' \in HelperPoints
    BY <1>18 DEF StartUpdated, HelperPoints
  <2>. QED BY <1>18, <2>1, <2>2, <2>3 DEF StartUpdated
<1>19. CASE RecordIdentity
  BY <1>19
     DEF RecordIdentity, WriteOutcome, Fault, NoFault, Slots, Contents,
         Statuses, Processes, HelperPoints
<1>20. CASE Monitor
  BY <1>20
     DEF Monitor, AckValid, Slots, Contents, Statuses, Processes, HelperPoints
<1>21. CASE StopUpdated
  <2>1. upd' \in SUBSET Processes
    BY <1>21 DEF StopUpdated
  <2>2. faults' \in 0..MaxFaults
    BY <1>21 DEF StopUpdated, Fault, NoFault
  <2>3. helper' \in HelperPoints
    BY <1>21 DEF StopUpdated, HelperPoints
  <2>. QED BY <1>21, <2>1, <2>2, <2>3 DEF StopUpdated
<1>22. CASE RecordFailed
  BY <1>22
     DEF RecordFailed, WriteOutcome, Fault, NoFault, Slots, Contents,
         Statuses, Processes, HelperPoints
<1>23. CASE MarkCompleted
  BY <1>23
     DEF MarkCompleted, WriteOutcome, Fault, NoFault, Slots, Contents,
         Statuses, Processes, HelperPoints
<1>24. CASE RemovePrevious
  BY <1>24
     DEF RemovePrevious, Fault, NoFault, Slots, Contents, Statuses, Processes,
         HelperPoints
<1>25. CASE RemoveRest
  BY <1>25
     DEF RemoveRest, Fault, NoFault, Slots, Contents, Statuses, Processes,
         HelperPoints
<1>26. CASE DeferCleanup
  BY <1>26
     DEF DeferCleanup, WriteOutcome, Fault, NoFault, Slots, Contents,
         Statuses, Processes, HelperPoints
<1>27. CASE Rollback
  BY <1>27
     DEF Rollback, RenameSynced, OnRollbackError, CanMove, Moved, Busy, Fault,
         NoFault, Slots, Contents, Statuses, Processes, HelperPoints
<1>28. CASE RestorePrevious
  BY <1>28
     DEF RestorePrevious, RenameSynced, OnRollbackError, CanMove, Moved, Busy,
         Fault, NoFault, Slots, Contents, Statuses, Processes, HelperPoints
<1>29. CASE RestartPrevious
  BY <1>29
     DEF RestartPrevious, Slots, Contents, Statuses, Processes, HelperPoints
<1>30. CASE MarkRolledBack
  BY <1>30
     DEF MarkRolledBack, WriteOutcome, Fault, NoFault, Slots, Contents,
         Statuses, Processes, HelperPoints
<1>31. CASE MarkRollbackFailed
  BY <1>31
     DEF MarkRollbackFailed, WriteOutcome, Fault, NoFault, Slots, Contents,
         Statuses, Processes, HelperPoints
<1>32. CASE HelperFails
  BY <1>32
     DEF HelperFails, WriteOutcome, Fault, NoFault, Slots, Contents, Statuses,
         Processes, HelperPoints
<1>33. CASE OriginalExits
  BY <1>33
     DEF OriginalExits, Slots, Contents, Statuses, Processes, HelperPoints
<1>34. CASE OriginalWritesData
  BY <1>34
     DEF OriginalWritesData, Slots, Contents, Statuses, Processes,
         HelperPoints
<1>35. CASE UpdatedForks
  BY <1>35
     DEF UpdatedForks, Slots, Contents, Statuses, Processes, HelperPoints
<1>36. CASE UpdatedAcknowledges
  BY <1>36
     DEF UpdatedAcknowledges, Slots, Contents, Statuses, Processes,
         HelperPoints
<1>37. CASE UpdatedExits
  BY <1>37
     DEF UpdatedExits, Slots, Contents, Statuses, Processes, HelperPoints
<1>38. CASE HelperCrash
  BY <1>38
     DEF HelperCrash, Torn, Slots, Contents, Statuses, Processes, HelperPoints
<1>39. CASE PowerLoss
  BY <1>39
     DEF PowerLoss, Torn, Slots, Contents, Statuses, Processes, HelperPoints
<1>40. CASE UNCHANGED vars
  BY <1>40 DEF vars
<1>. QED BY <1>1, <1>2, <1>3, <1>4, <1>5, <1>6, <1>7, <1>8, <1>9, <1>10,
          <1>11, <1>12, <1>13, <1>14, <1>15, <1>16, <1>17, <1>18, <1>19,
          <1>20, <1>21, <1>22, <1>23, <1>24, <1>25, <1>26, <1>27, <1>28,
          <1>29, <1>30, <1>31, <1>32, <1>33, <1>34, <1>35, <1>36, <1>37,
          <1>38, <1>39, <1>40
     DEF Next, Step, Core, HelperStep, Environment

\* Disk, journal, processes and program point stay in agreement.
LEMMA AgreementStep ==
    ASSUME TransactionInv, [Next]_vars
    PROVE  DiskInv' /\ JournalInv' /\ ProcessInv' /\ PointInv'
           /\ PortableDataCarried'
<1>0. windows' = windows
  BY DEF Next, vars
<1> USE <1>0 DEF TransactionInv, TypeOK, ValuesOK, Slots, DiskInv, JournalInv,
        ProcessInv, PointInv, BeforeSwap, PayloadReady, DataReady, Started,
        PortableDataCarried, fileVars, journal, procVars
<1>1. CASE PrepareUpdate
  BY <1>1
     DEF PrepareUpdate
<1>2. CASE LaunchHelper
  BY <1>2
     DEF LaunchHelper
<1>3. CASE LaunchFailed
  BY <1>3
     DEF LaunchFailed, WriteOutcome, Fault, NoFault
<1>4. CASE LauncherReady
  BY <1>4
     DEF LauncherReady
<1>5. CASE LauncherGivesUp
  BY <1>5
     DEF LauncherGivesUp, WriteOutcome, Torn, Fault, NoFault
<1>6. CASE Rerun
  BY <1>6
     DEF Rerun
<1>7. CASE ReadOutcome
  BY <1>7
     DEF ReadOutcome, RollbackUnsafe, Interrupted, OwnedTreeIsRunning, Fault,
         NoFault
<1>8. CASE PreparePayload
  BY <1>8
     DEF PreparePayload, Torn
<1>9. CASE AnnounceWaiting
  BY <1>9
     DEF AnnounceWaiting, WriteOutcome, Fault, NoFault
<1>10. CASE WaitForExit
  BY <1>10
     DEF WaitForExit
<1>11. CASE RefreshPortableData
  <2>1. CASE carried' = data /\ helper' = "backup" /\ fs' = fs
    BY <1>11, <2>1 DEF RefreshPortableData
  <2>2. CASE helper' = "error" /\ fs' \in Torn
    <3>1. /\ fs'["target"] = fs["target"]
          /\ fs'["previous"] = fs["previous"]
      BY <1>11, <2>2 DEF RefreshPortableData, Torn
    <3>. QED BY <1>11, <2>2, <3>1 DEF RefreshPortableData
  <2>. QED BY <1>11, <2>1, <2>2 DEF RefreshPortableData
<1>12. CASE MarkBackingUp
  BY <1>12
     DEF MarkBackingUp, WriteOutcome, Fault, NoFault
<1>13. CASE MoveOldAside
  BY <1>13
     DEF MoveOldAside, RenameSynced, CanMove, Moved, Busy, Fault, NoFault
<1>14. CASE MarkInstalling
  BY <1>14
     DEF MarkInstalling, WriteOutcome, Fault, NoFault
<1>15. CASE MoveNewIn
  BY <1>15
     DEF MoveNewIn, RenameSynced, CanMove, Moved, Busy, Fault, NoFault
<1>16. CASE BundleRejected
  BY <1>16
     DEF BundleRejected
<1>17. CASE MarkAwaitingStartup
  BY <1>17
     DEF MarkAwaitingStartup, WriteOutcome, Fault, NoFault
<1>18. CASE StartUpdated
  BY <1>18
     DEF StartUpdated, Fault, NoFault
<1>19. CASE RecordIdentity
  BY <1>19
     DEF RecordIdentity, WriteOutcome, Fault, NoFault
<1>20. CASE Monitor
  BY <1>20
     DEF Monitor, AckValid
<1>21. CASE StopUpdated
  BY <1>21
     DEF StopUpdated, Fault, NoFault
<1>22. CASE RecordFailed
  BY <1>22
     DEF RecordFailed, WriteOutcome, Fault, NoFault
<1>23. CASE MarkCompleted
  BY <1>23
     DEF MarkCompleted, WriteOutcome, Fault, NoFault
<1>24. CASE RemovePrevious
  BY <1>24
     DEF RemovePrevious, Fault, NoFault
<1>25. CASE RemoveRest
  BY <1>25
     DEF RemoveRest, Fault, NoFault
<1>26. CASE DeferCleanup
  BY <1>26
     DEF DeferCleanup, WriteOutcome, Fault, NoFault
<1>27. CASE Rollback
  BY <1>27
     DEF Rollback, RenameSynced, OnRollbackError, CanMove, Moved, Busy, Fault,
         NoFault
<1>28. CASE RestorePrevious
  BY <1>28
     DEF RestorePrevious, RenameSynced, OnRollbackError, CanMove, Moved, Busy,
         Fault, NoFault
<1>29. CASE RestartPrevious
  BY <1>29
     DEF RestartPrevious
<1>30. CASE MarkRolledBack
  BY <1>30
     DEF MarkRolledBack, WriteOutcome, Fault, NoFault
<1>31. CASE MarkRollbackFailed
  BY <1>31
     DEF MarkRollbackFailed, WriteOutcome, Fault, NoFault
<1>32. CASE HelperFails
  BY <1>32
     DEF HelperFails, WriteOutcome, Fault, NoFault
<1>33. CASE OriginalExits
  BY <1>33
     DEF OriginalExits
<1>34. CASE OriginalWritesData
  BY <1>34
     DEF OriginalWritesData
<1>35. CASE UpdatedForks
  BY <1>35
     DEF UpdatedForks
<1>36. CASE UpdatedAcknowledges
  BY <1>36
     DEF UpdatedAcknowledges
<1>37. CASE UpdatedExits
  BY <1>37
     DEF UpdatedExits
<1>38. CASE HelperCrash
  BY <1>38
     DEF HelperCrash, Torn
<1>39. CASE PowerLoss
  BY <1>39
     DEF PowerLoss, Torn
<1>40. CASE UNCHANGED vars
  BY <1>40 DEF vars
<1>. QED BY <1>1, <1>2, <1>3, <1>4, <1>5, <1>6, <1>7, <1>8, <1>9, <1>10,
          <1>11, <1>12, <1>13, <1>14, <1>15, <1>16, <1>17, <1>18, <1>19,
          <1>20, <1>21, <1>22, <1>23, <1>24, <1>25, <1>26, <1>27, <1>28,
          <1>29, <1>30, <1>31, <1>32, <1>33, <1>34, <1>35, <1>36, <1>37,
          <1>38, <1>39, <1>40
     DEF Next, Step, Core, HelperStep, Environment

\* Whatever crashes, fails or is run again, disk, journal, processes and the
\* helper's program point agree; replace_and_restart, rollback,
\* cleanup_completed and the recovery branch of apply all rely on it.
THEOREM TransactionSafety == Spec => []TransactionInv
<1>1. TransactionInv /\ [Next]_vars => TransactionInv'
  BY FlagsStep, ValuesStep, AgreementStep DEF TransactionInv, TypeOK
<1>. QED BY <1>1, InitInv, PTL DEF Spec

\* No behaviour loses the previous installation before the updated
\* application acknowledged its startup.
THEOREM PreviousIsKept == Spec => []PreviousKeptUntilAccepted
<1>1. TransactionInv => PreviousKeptUntilAccepted
  BY DEF TransactionInv, DiskInv, PreviousKeptUntilAccepted
<1>. QED BY <1>1, TransactionSafety, PTL

\* No torn tree is ever installed, and a whole installation always exists.
THEOREM InstallationIsWhole == Spec => []NeverATornInstallation
<1>1. TransactionInv => NeverATornInstallation
  BY DEF TransactionInv, DiskInv, NeverATornInstallation, Whole
<1>. QED BY <1>1, TransactionSafety, PTL

\* A transaction journalled as Completed is acknowledged and in place.
THEOREM CompletedMeansAcknowledged == Spec => []CompletedIsAcknowledged
<1>1. TransactionInv => CompletedIsAcknowledged
  BY DEF TransactionInv, JournalInv, CompletedIsAcknowledged
<1>. QED BY <1>1, TransactionSafety, PTL

\* The new installation holds the portable data as last written.
THEOREM DataIsCarried == Spec => []PortableDataCarried
<1>1. TransactionInv => PortableDataCarried
  BY DEF TransactionInv
<1>. QED BY <1>1, TransactionSafety, PTL

\* Only the four renames of replace_and_restart and rollback touch target/.
LEMMA TargetMovedByRenames ==
    ASSUME ValuesOK, [Next]_vars, fs'["target"] # fs["target"]
    PROVE  MoveOldAside \/ MoveNewIn \/ Rollback \/ RestorePrevious
<1> USE DEF ValuesOK, Slots, fileVars
<1>1. ASSUME LauncherGivesUp PROVE FALSE
  BY <1>1 DEF LauncherGivesUp, Torn
<1>2. ASSUME HelperCrash PROVE FALSE
  BY <1>2 DEF HelperCrash, Torn
<1>3. ASSUME PowerLoss PROVE FALSE
  BY <1>3 DEF PowerLoss, Torn
<1>4. ASSUME PreparePayload PROVE FALSE
  BY <1>4 DEF PreparePayload, Torn
<1>5. ASSUME RefreshPortableData PROVE FALSE
  BY <1>5 DEF RefreshPortableData, Torn
<1>6. ASSUME RemovePrevious PROVE FALSE
  BY <1>6 DEF RemovePrevious
<1>7. ASSUME RemoveRest PROVE FALSE
  BY <1>7 DEF RemoveRest
<1>8. ASSUME PrepareUpdate \/ LaunchHelper \/ LaunchFailed \/
               LauncherReady \/ Rerun \/ ReadOutcome \/ AnnounceWaiting \/
               WaitForExit \/ MarkBackingUp \/ MarkInstalling \/
               BundleRejected \/ MarkAwaitingStartup \/ StartUpdated \/
               RecordIdentity \/ Monitor \/ StopUpdated \/ RecordFailed \/
               MarkCompleted \/ DeferCleanup \/ RestartPrevious \/
               MarkRolledBack \/ MarkRollbackFailed \/ HelperFails \/
               OriginalExits \/ OriginalWritesData \/ UpdatedForks \/
               UpdatedAcknowledges \/ UpdatedExits
      PROVE FALSE
  BY <1>8 DEF PrepareUpdate, LaunchHelper, LaunchFailed, LauncherReady, Rerun,
     ReadOutcome, AnnounceWaiting, WaitForExit, MarkBackingUp,
     MarkInstalling, BundleRejected, MarkAwaitingStartup, StartUpdated,
     RecordIdentity, Monitor, StopUpdated, RecordFailed, MarkCompleted,
     DeferCleanup, RestartPrevious, MarkRolledBack, MarkRollbackFailed,
     HelperFails, OriginalExits, OriginalWritesData, UpdatedForks,
     UpdatedAcknowledges, UpdatedExits
<1>9. ASSUME UNCHANGED vars PROVE FALSE
  BY <1>9 DEF vars
<1>. QED BY <1>1, <1>2, <1>3, <1>4, <1>5, <1>6, <1>7, <1>8, <1>9
     DEF Next, Step, Core, HelperStep, Environment

\* The installation path is only renamed when nothing of the application
\* runs: each of the four renames is reached only behind wait_for_exit, stop,
\* or the recovery checks of apply.
THEOREM SwapsAreQuiescent == Spec => NoSwapUnderRunningApplication
<1>1. ASSUME TransactionInv, [Next]_vars, fs'["target"] # fs["target"]
      PROVE  ~orig /\ ~oldApp /\ upd = {}
  <2> USE <1>1 DEF TransactionInv, TypeOK, ValuesOK, Slots, DiskInv,
        JournalInv, ProcessInv, PointInv, BeforeSwap, DataReady, Started
  <2>1. CASE MoveOldAside
    BY <2>1 DEF MoveOldAside
  <2>2. CASE MoveNewIn
    BY <2>2 DEF MoveNewIn
  <2>3. CASE Rollback
    <3>1. /\ helper = "rollback"
          /\ fs["previous"] = "old"
          /\ CanMove("target", "failed")
      BY <2>3 DEF Rollback, RenameSynced
    <3>. QED BY <3>1 DEF CanMove, Busy
  <2>4. CASE RestorePrevious
    BY <2>4 DEF RestorePrevious
  <2>. QED BY <2>1, <2>2, <2>3, <2>4, TargetMovedByRenames
<1>. QED BY <1>1, TransactionSafety, PTL DEF Spec, NoSwapUnderRunningApplication

=============================================================================
