---------------------------- MODULE UpdaterProofs ----------------------------
(***************************************************************************)
(* The safety of Updater for any number of transactions, faults and        *)
(* crashes: UpdaterInv is inductive, and implies that neither a session    *)
(* that install could see nor a second update meets a helper on its way.   *)
(***************************************************************************)
EXTENDS Updater, TLAPS

\* Every step keeps the types.
LEMMA TypingStep ==
    ASSUME UpdaterInv, UpdaterAssumption, [Next]_vars
    PROVE  TypeOK'
<1> USE UpdaterAssumption DEF UpdaterInv, TypeOK, Statuses, Pending,
    InFlight, Terminal, OperationInv, Installing, coreVars, helperVars,
    sessionVars, updateVars, SessionBusy
<1>1. CASE GetState
  BY <1>1 DEF GetState, ClearTransaction, Fault, StaysPending, Reconciled,
      NeedsHelper, HelperIsRunning, InstallerUnresolved, Unseen,
      RecoveryVerdicts
<1>2. CASE BeginCheck
  BY <1>2 DEF BeginCheck, MayBegin, InstallationPending, ClearTransaction
<1>3. CASE FinishCheck
  BY <1>3 DEF FinishCheck
<1>4. CASE BeginDownload
  BY <1>4 DEF BeginDownload, MayBegin, InstallationPending,
      ClearTransaction
<1>5. CASE FinishDownload
  BY <1>5 DEF FinishDownload
<1>6. CASE BeginInstall
  BY <1>6 DEF BeginInstall, SessionIdle, GateFree, MayBegin, InstallationPending,
      ClearTransaction
<1>7. ASSUME NEW t \in Txns, PrepareTransaction(t) PROVE TypeOK'
  BY <1>7 DEF PrepareTransaction
<1>8. CASE SpawnHelper
  BY <1>8 DEF SpawnHelper
<1>9. CASE InstallLaunched
  BY <1>9 DEF InstallLaunched, HelperIsRunning
<1>10. CASE InstallFails
  BY <1>10 DEF InstallFails, ClearTransaction, Fault, NoFault
<1>11. CASE BeginTransition
  BY <1>11 DEF BeginTransition, GateFree, InstallationPending
<1>12. CASE FinishTransition
  BY <1>12 DEF FinishTransition
<1>13. CASE EndSeat
  BY <1>13 DEF EndSeat
<1>28. CASE ChangeAccount
  BY <1>28 DEF ChangeAccount
<1>29. CASE ReportStatus
  BY <1>29 DEF ReportStatus
<1>30. CASE EndStreamer
  BY <1>30 DEF EndStreamer
<1>14. ASSUME NEW t \in Txns, HelperLocks(t) PROVE TypeOK'
  BY <1>14 DEF HelperLocks
<1>15. ASSUME NEW t \in Txns, HelperRefused(t) PROVE TypeOK'
  BY <1>15 DEF HelperRefused
<1>16. ASSUME NEW t \in Txns, HelperAnnounces(t) PROVE TypeOK'
  BY <1>16 DEF HelperAnnounces, Journals
<1>17. ASSUME NEW t \in Txns, HelperInstalls(t) PROVE TypeOK'
  BY <1>17 DEF HelperInstalls, Journals
<1>18. ASSUME NEW t \in Txns, InstallerEnds(t) PROVE TypeOK'
  BY <1>18 DEF InstallerEnds
<1>19. ASSUME NEW t \in Txns, HelperStartsUpdated(t) PROVE TypeOK'
  BY <1>19 DEF HelperStartsUpdated, Journals
<1>20. ASSUME NEW t \in Txns, HelperLeavesInstaller(t) PROVE TypeOK'
  BY <1>20 DEF HelperLeavesInstaller, Journals
<1>21. ASSUME NEW t \in Txns, HelperEnds(t) PROVE TypeOK'
  BY <1>21 DEF HelperEnds, Fault, NoFault
<1>22. ASSUME NEW t \in Txns, HelperCrash(t) PROVE TypeOK'
  BY <1>22 DEF HelperCrash, Crash
<1>23. CASE RestartCore
  <2>1. (app \in BOOLEAN /\ status \in Statuses /\ available \in BOOLEAN
        /\ downloaded \in BOOLEAN /\ transition \in BOOLEAN
        /\ seat \in {"none", "shown", "hidden"}
        /\ streamer \in {"stopped", "live", "quiet"}
        /\ overlooked \subseteq {"seat", "streamer"})'
    BY <1>23 DEF RestartCore, Crash, Forgotten, ReadPrepared,
        ClearTransaction, Fault
  <2>2. (op \in {"none", "check", "download", "prepare", "spawn", "launch"})'
    BY <1>23 DEF RestartCore, Crash, Forgotten, ReadPrepared,
        ClearTransaction, Fault
  <2>3. ({transaction, saved, current} \subseteq Txns \cup {NoTxn})'
    BY <1>23 DEF RestartCore, Crash, Forgotten, ReadPrepared,
        ClearTransaction, Fault
  <2>4. (outcome \in [Txns -> {"none"} \cup InFlight \cup Terminal]
        /\ helper \in [Txns -> {"none", "spawned", "locked"}])'
    BY <1>23 DEF RestartCore, Crash, Forgotten, ReadPrepared,
        ClearTransaction, Fault
  <2>5. ({ident, installer, waitsFor, rebooted, lost} \subseteq SUBSET Txns)'
    BY <1>23 DEF RestartCore, Crash, Forgotten, ReadPrepared,
        ClearTransaction, Fault
  <2>6. (faults \in 0..MaxFaults /\ crashes \in 0..MaxCrashes)'
    BY <1>23 DEF RestartCore, Crash, Forgotten, ReadPrepared,
        ClearTransaction, Fault
  <2> QED
    BY <2>1, <2>2, <2>3, <2>4, <2>5, <2>6
<1>24. CASE ExitApp
  BY <1>24 DEF ExitApp, Forgotten
<1>25. CASE StartApp
  <2>1. (app \in BOOLEAN /\ status \in Statuses /\ available \in BOOLEAN
        /\ downloaded \in BOOLEAN /\ transition \in BOOLEAN
        /\ seat \in {"none", "shown", "hidden"}
        /\ streamer \in {"stopped", "live", "quiet"}
        /\ overlooked \subseteq {"seat", "streamer"})'
    BY <1>25 DEF StartApp, Forgotten, ReadPrepared, ClearTransaction,
        Fault
  <2>2. (op \in {"none", "check", "download", "prepare", "spawn", "launch"})'
    BY <1>25 DEF StartApp, Forgotten, ReadPrepared, ClearTransaction,
        Fault
  <2>3. ({transaction, saved, current} \subseteq Txns \cup {NoTxn})'
    BY <1>25 DEF StartApp, Forgotten, ReadPrepared, ClearTransaction,
        Fault
  <2>4. (outcome \in [Txns -> {"none"} \cup InFlight \cup Terminal]
        /\ helper \in [Txns -> {"none", "spawned", "locked"}])'
    BY <1>25 DEF StartApp, Forgotten, ReadPrepared, ClearTransaction,
        Fault
  <2>5. ({ident, installer, waitsFor, rebooted, lost} \subseteq SUBSET Txns)'
    BY <1>25 DEF StartApp, Forgotten, ReadPrepared, ClearTransaction,
        Fault
  <2>6. (faults \in 0..MaxFaults /\ crashes \in 0..MaxCrashes)'
    BY <1>25 DEF StartApp, Forgotten, ReadPrepared, ClearTransaction,
        Fault
  <2> QED
    BY <2>1, <2>2, <2>3, <2>4, <2>5, <2>6
<1>26. CASE Reboot
  <2>1. (app \in BOOLEAN /\ status \in Statuses /\ available \in BOOLEAN
        /\ downloaded \in BOOLEAN /\ transition \in BOOLEAN
        /\ seat \in {"none", "shown", "hidden"}
        /\ streamer \in {"stopped", "live", "quiet"}
        /\ overlooked \subseteq {"seat", "streamer"})'
    BY <1>26 DEF Reboot, Crash, Forgotten
  <2>2. (op \in {"none", "check", "download", "prepare", "spawn", "launch"})'
    BY <1>26 DEF Reboot, Crash, Forgotten
  <2>3. ({transaction, saved, current} \subseteq Txns \cup {NoTxn})'
    BY <1>26 DEF Reboot, Crash, Forgotten
  <2>4. (outcome \in [Txns -> {"none"} \cup InFlight \cup Terminal]
        /\ helper \in [Txns -> {"none", "spawned", "locked"}])'
    BY <1>26 DEF Reboot, Crash, Forgotten
  <2>5. ({ident, installer, waitsFor, rebooted, lost} \subseteq SUBSET Txns)'
    BY <1>26 DEF Reboot, Crash, Forgotten
  <2>6. (faults \in 0..MaxFaults /\ crashes \in 0..MaxCrashes)'
    BY <1>26 DEF Reboot, Crash, Forgotten
  <2> QED
    BY <2>1, <2>2, <2>3, <2>4, <2>5, <2>6
<1>27. CASE UNCHANGED vars
  BY <1>27 DEF vars
<1> QED
  BY <1>1, <1>2, <1>3, <1>4, <1>5, <1>6, <1>7, <1>8, <1>9, <1>10, <1>11,
      <1>12, <1>13, <1>14, <1>15, <1>16, <1>17, <1>18, <1>19, <1>20,
      <1>21, <1>22, <1>23, <1>24, <1>25, <1>26, <1>27, <1>28, <1>29,
      <1>30 DEF Next, CoreStep,
      LaunchStep, SessionStep, HelperStep

\* Every step keeps what `operation` and the gate exclude: a transaction is
\* only replaced when it is over, and memory and record agree.
LEMMA OperationStep ==
    ASSUME UpdaterInv, UpdaterAssumption, [Next]_vars
    PROVE  OperationInv'
<1> USE UpdaterAssumption DEF UpdaterInv, TypeOK, OperationInv, Installing,
    coreVars, helperVars,
    sessionVars, updateVars, SessionBusy
<1>1. CASE GetState
  BY <1>1 DEF GetState, ClearTransaction, Fault, StaysPending, Reconciled,
      NeedsHelper, HelperIsRunning, InstallerUnresolved, Unseen,
      RecoveryVerdicts
<1>2. CASE BeginCheck
  BY <1>2 DEF BeginCheck, MayBegin, InstallationPending, ClearTransaction
<1>3. CASE FinishCheck
  BY <1>3 DEF FinishCheck
<1>4. CASE BeginDownload
  BY <1>4 DEF BeginDownload, MayBegin, InstallationPending,
      ClearTransaction
<1>5. CASE FinishDownload
  BY <1>5 DEF FinishDownload
<1>6. CASE BeginInstall
  BY <1>6 DEF BeginInstall, SessionIdle, GateFree, MayBegin, InstallationPending,
      ClearTransaction
<1>7. ASSUME NEW t \in Txns, PrepareTransaction(t) PROVE OperationInv'
  BY <1>7 DEF PrepareTransaction
<1>8. CASE SpawnHelper
  BY <1>8 DEF SpawnHelper
<1>9. CASE InstallLaunched
  BY <1>9 DEF InstallLaunched, HelperIsRunning
<1>10. CASE InstallFails
  BY <1>10 DEF InstallFails, ClearTransaction, Fault, NoFault
<1>11. CASE BeginTransition
  BY <1>11 DEF BeginTransition, GateFree, InstallationPending
<1>12. CASE FinishTransition
  BY <1>12 DEF FinishTransition
<1>13. CASE EndSeat
  BY <1>13 DEF EndSeat
<1>28. CASE ChangeAccount
  BY <1>28 DEF ChangeAccount
<1>29. CASE ReportStatus
  BY <1>29 DEF ReportStatus
<1>30. CASE EndStreamer
  BY <1>30 DEF EndStreamer
<1>14. ASSUME NEW t \in Txns, HelperLocks(t) PROVE OperationInv'
  BY <1>14 DEF HelperLocks
<1>15. ASSUME NEW t \in Txns, HelperRefused(t) PROVE OperationInv'
  BY <1>15 DEF HelperRefused
<1>16. ASSUME NEW t \in Txns, HelperAnnounces(t) PROVE OperationInv'
  BY <1>16 DEF HelperAnnounces, Journals
<1>17. ASSUME NEW t \in Txns, HelperInstalls(t) PROVE OperationInv'
  BY <1>17 DEF HelperInstalls, Journals
<1>18. ASSUME NEW t \in Txns, InstallerEnds(t) PROVE OperationInv'
  BY <1>18 DEF InstallerEnds
<1>19. ASSUME NEW t \in Txns, HelperStartsUpdated(t) PROVE OperationInv'
  BY <1>19 DEF HelperStartsUpdated, Journals
<1>20. ASSUME NEW t \in Txns, HelperLeavesInstaller(t) PROVE OperationInv'
  BY <1>20 DEF HelperLeavesInstaller, Journals
<1>21. ASSUME NEW t \in Txns, HelperEnds(t) PROVE OperationInv'
  BY <1>21 DEF HelperEnds, Fault, NoFault
<1>22. ASSUME NEW t \in Txns, HelperCrash(t) PROVE OperationInv'
  BY <1>22 DEF HelperCrash, Crash
<1>23. CASE RestartCore
  BY <1>23 DEF RestartCore, Crash, Forgotten, ReadPrepared,
      ClearTransaction, Fault
<1>24. CASE ExitApp
  BY <1>24 DEF ExitApp, Forgotten
<1>25. CASE StartApp
  BY <1>25 DEF StartApp, Forgotten, ReadPrepared, ClearTransaction, Fault
<1>26. CASE Reboot
  BY <1>26 DEF Reboot, Crash, Forgotten
<1>27. CASE UNCHANGED vars
  BY <1>27 DEF vars
<1> QED
  BY <1>1, <1>2, <1>3, <1>4, <1>5, <1>6, <1>7, <1>8, <1>9, <1>10, <1>11,
      <1>12, <1>13, <1>14, <1>15, <1>16, <1>17, <1>18, <1>19, <1>20,
      <1>21, <1>22, <1>23, <1>24, <1>25, <1>26, <1>27, <1>28, <1>29,
      <1>30 DEF Next, CoreStep,
      LaunchStep, SessionStep, HelperStep

\* Every step keeps what install has prepared until it has returned.
LEMMA LaunchStepInv ==
    ASSUME UpdaterInv, UpdaterAssumption, [Next]_vars
    PROVE  LaunchInv'
<1> USE UpdaterAssumption DEF UpdaterInv, TypeOK, OperationInv, LaunchInv,
    HelperInv, Installing, coreVars, helperVars,
    sessionVars, updateVars, SessionBusy
<1>1. CASE GetState
  BY <1>1 DEF GetState, ClearTransaction, Fault, StaysPending, Reconciled,
      NeedsHelper, HelperIsRunning, InstallerUnresolved, Unseen,
      RecoveryVerdicts, Pending
<1>2. CASE BeginCheck
  BY <1>2 DEF BeginCheck, MayBegin, InstallationPending, ClearTransaction
<1>3. CASE FinishCheck
  BY <1>3 DEF FinishCheck
<1>4. CASE BeginDownload
  BY <1>4 DEF BeginDownload, MayBegin, InstallationPending,
      ClearTransaction
<1>5. CASE FinishDownload
  BY <1>5 DEF FinishDownload
<1>6. CASE BeginInstall
  BY <1>6 DEF BeginInstall, SessionIdle, GateFree, MayBegin, InstallationPending,
      ClearTransaction
<1>7. ASSUME NEW t \in Txns, PrepareTransaction(t) PROVE LaunchInv'
  BY <1>7 DEF PrepareTransaction
<1>8. CASE SpawnHelper
  BY <1>8 DEF SpawnHelper
<1>9. CASE InstallLaunched
  BY <1>9 DEF InstallLaunched, HelperIsRunning
<1>10. CASE InstallFails
  BY <1>10 DEF InstallFails, ClearTransaction, Fault, NoFault
<1>11. CASE BeginTransition
  BY <1>11 DEF BeginTransition, GateFree, InstallationPending
<1>12. CASE FinishTransition
  BY <1>12 DEF FinishTransition
<1>13. CASE EndSeat
  BY <1>13 DEF EndSeat
<1>28. CASE ChangeAccount
  BY <1>28 DEF ChangeAccount
<1>29. CASE ReportStatus
  BY <1>29 DEF ReportStatus
<1>30. CASE EndStreamer
  BY <1>30 DEF EndStreamer
<1>14. ASSUME NEW t \in Txns, HelperLocks(t) PROVE LaunchInv'
  BY <1>14 DEF HelperLocks
<1>15. ASSUME NEW t \in Txns, HelperRefused(t) PROVE LaunchInv'
  BY <1>15 DEF HelperRefused
<1>16. ASSUME NEW t \in Txns, HelperAnnounces(t) PROVE LaunchInv'
  BY <1>16 DEF HelperAnnounces, Journals
<1>17. ASSUME NEW t \in Txns, HelperInstalls(t) PROVE LaunchInv'
  BY <1>17 DEF HelperInstalls, Journals
<1>18. ASSUME NEW t \in Txns, InstallerEnds(t) PROVE LaunchInv'
  BY <1>18 DEF InstallerEnds
<1>19. ASSUME NEW t \in Txns, HelperStartsUpdated(t) PROVE LaunchInv'
  BY <1>19 DEF HelperStartsUpdated, Journals
<1>20. ASSUME NEW t \in Txns, HelperLeavesInstaller(t) PROVE LaunchInv'
  BY <1>20 DEF HelperLeavesInstaller, Journals
<1>21. ASSUME NEW t \in Txns, HelperEnds(t) PROVE LaunchInv'
  BY <1>21 DEF HelperEnds, Fault, NoFault
<1>22. ASSUME NEW t \in Txns, HelperCrash(t) PROVE LaunchInv'
  BY <1>22 DEF HelperCrash, Crash
<1>23. CASE RestartCore
  BY <1>23 DEF RestartCore, Crash, Forgotten, ReadPrepared,
      ClearTransaction, Fault
<1>24. CASE ExitApp
  BY <1>24 DEF ExitApp, Forgotten
<1>25. CASE StartApp
  BY <1>25 DEF StartApp, Forgotten, ReadPrepared, ClearTransaction, Fault
<1>26. CASE Reboot
  BY <1>26 DEF Reboot, Crash, Forgotten
<1>27. CASE UNCHANGED vars
  BY <1>27 DEF vars
<1> QED
  BY <1>1, <1>2, <1>3, <1>4, <1>5, <1>6, <1>7, <1>8, <1>9, <1>10, <1>11,
      <1>12, <1>13, <1>14, <1>15, <1>16, <1>17, <1>18, <1>19, <1>20,
      <1>21, <1>22, <1>23, <1>24, <1>25, <1>26, <1>27, <1>28, <1>29,
      <1>30 DEF Next, CoreStep,
      LaunchStep, SessionStep, HelperStep

\* Every step keeps the record of a helper that is on its way: a status read
\* that clears it has found the outcome terminal or no helper at all.
LEMMA HelperInvStep ==
    ASSUME UpdaterInv, UpdaterAssumption, [Next]_vars
    PROVE  HelperInv'
<1> USE UpdaterAssumption DEF UpdaterInv, TypeOK, OperationInv, LaunchInv,
    HelperInv, Updating, InFlight, Terminal, Installing, coreVars, helperVars,
    sessionVars, updateVars, SessionBusy
<1>1. CASE GetState
  BY <1>1 DEF GetState, ClearTransaction, Fault, StaysPending, Reconciled,
      NeedsHelper, HelperIsRunning, InstallerUnresolved, Unseen,
      RecoveryVerdicts, Pending
<1>2. CASE BeginCheck
  BY <1>2 DEF BeginCheck, MayBegin, InstallationPending, ClearTransaction,
      Pending
<1>3. CASE FinishCheck
  BY <1>3 DEF FinishCheck
<1>4. CASE BeginDownload
  BY <1>4 DEF BeginDownload, MayBegin, InstallationPending,
      ClearTransaction, Pending
<1>5. CASE FinishDownload
  BY <1>5 DEF FinishDownload
<1>6. CASE BeginInstall
  BY <1>6 DEF BeginInstall, SessionIdle, GateFree, MayBegin, InstallationPending,
      ClearTransaction, Pending
<1>7. ASSUME NEW t \in Txns, PrepareTransaction(t) PROVE HelperInv'
  BY <1>7 DEF PrepareTransaction
<1>8. CASE SpawnHelper
  BY <1>8 DEF SpawnHelper
<1>9. CASE InstallLaunched
  BY <1>9 DEF InstallLaunched, HelperIsRunning
<1>10. CASE InstallFails
  BY <1>10 DEF InstallFails, ClearTransaction, Fault, NoFault
<1>11. CASE BeginTransition
  BY <1>11 DEF BeginTransition, GateFree, InstallationPending
<1>12. CASE FinishTransition
  BY <1>12 DEF FinishTransition
<1>13. CASE EndSeat
  BY <1>13 DEF EndSeat
<1>28. CASE ChangeAccount
  BY <1>28 DEF ChangeAccount
<1>29. CASE ReportStatus
  BY <1>29 DEF ReportStatus
<1>30. CASE EndStreamer
  BY <1>30 DEF EndStreamer
<1>14. ASSUME NEW t \in Txns, HelperLocks(t) PROVE HelperInv'
  BY <1>14 DEF HelperLocks
<1>15. ASSUME NEW t \in Txns, HelperRefused(t) PROVE HelperInv'
  BY <1>15 DEF HelperRefused
<1>16. ASSUME NEW t \in Txns, HelperAnnounces(t) PROVE HelperInv'
  BY <1>16 DEF HelperAnnounces, Journals
<1>17. ASSUME NEW t \in Txns, HelperInstalls(t) PROVE HelperInv'
  BY <1>17 DEF HelperInstalls, Journals
<1>18. ASSUME NEW t \in Txns, InstallerEnds(t) PROVE HelperInv'
  BY <1>18 DEF InstallerEnds
<1>19. ASSUME NEW t \in Txns, HelperStartsUpdated(t) PROVE HelperInv'
  BY <1>19 DEF HelperStartsUpdated, Journals
<1>20. ASSUME NEW t \in Txns, HelperLeavesInstaller(t) PROVE HelperInv'
  BY <1>20 DEF HelperLeavesInstaller, Journals
<1>21. ASSUME NEW t \in Txns, HelperEnds(t) PROVE HelperInv'
  BY <1>21 DEF HelperEnds, Fault, NoFault
<1>22. ASSUME NEW t \in Txns, HelperCrash(t) PROVE HelperInv'
  BY <1>22 DEF HelperCrash, Crash
<1>23. CASE RestartCore
  BY <1>23 DEF RestartCore, Crash, Forgotten, ReadPrepared,
      ClearTransaction, Fault
<1>24. CASE ExitApp
  BY <1>24 DEF ExitApp, Forgotten
<1>25. CASE StartApp
  BY <1>25 DEF StartApp, Forgotten, ReadPrepared, ClearTransaction, Fault
<1>26. CASE Reboot
  BY <1>26 DEF Reboot, Crash, Forgotten
<1>27. CASE UNCHANGED vars
  BY <1>27 DEF vars
<1> QED
  BY <1>1, <1>2, <1>3, <1>4, <1>5, <1>6, <1>7, <1>8, <1>9, <1>10, <1>11,
      <1>12, <1>13, <1>14, <1>15, <1>16, <1>17, <1>18, <1>19, <1>20,
      <1>21, <1>22, <1>23, <1>24, <1>25, <1>26, <1>27, <1>28, <1>29,
      <1>30 DEF Next, CoreStep,
      LaunchStep, SessionStep, HelperStep

\* The updater's memory, its record, its helpers and the gate agree in every
\* reachable state.
THEOREM UpdaterSafety == Spec => []UpdaterInv
<1>1. Init => UpdaterInv
  <2> SUFFICES ASSUME Init PROVE UpdaterInv
    OBVIOUS
  <2>1. TypeOK
    <3>1. faults \in 0..MaxFaults /\ crashes \in 0..MaxCrashes
      BY UpdaterAssumption DEF Init
    <3>2. {transaction, saved, current} \subseteq Txns \cup {NoTxn}
      BY DEF Init
    <3>3. {ident, installer, waitsFor, rebooted, lost} \subseteq SUBSET Txns
      BY DEF Init
    <3> QED
      BY <3>1, <3>2, <3>3 DEF Init, TypeOK, Statuses, Pending
  <2>2. OperationInv /\ LaunchInv
    BY DEF Init, OperationInv, LaunchInv, Installing, SessionBusy
  <2>3. HelperInv
    BY DEF Init, HelperInv, Updating, InFlight
  <2> QED
    BY <2>1, <2>2, <2>3 DEF UpdaterInv
<1>2. UpdaterInv /\ [Next]_vars => UpdaterInv'
  BY TypingStep, OperationStep, LaunchStepInv, HelperInvStep,
      UpdaterAssumption
      DEF UpdaterInv
<1> QED
  BY <1>1, <1>2, PTL DEF Spec

\* dispatch and installation_pending keep sessions and updates apart, but for
\* a seat or a streamer that update_session_idle does not see when install
\* asks (`overlooked`), and helpers that the core does not see (`lost`).
THEOREM SessionsExcludeUpdates == Spec => []SessionExcludesUpdate
<1>1. UpdaterInv => SessionExcludesUpdate
  BY UpdaterAssumption
      DEF UpdaterInv, OperationInv, HelperInv, SessionExcludesUpdate
<1> QED
  BY <1>1, UpdaterSafety, PTL

\* begin_operation never lets a second helper start beside one that is on its
\* way to replace the installation.
THEOREM UpdatesAreExclusive == Spec => []OneUpdateAtATime
<1>1. UpdaterInv => OneUpdateAtATime
  BY DEF UpdaterInv, HelperInv, OneUpdateAtATime
<1> QED
  BY <1>1, UpdaterSafety, PTL

=============================================================================
