----------------------------- MODULE UpdateApply -----------------------------
(***************************************************************************)
(* The in-place update transaction of native/opennow-core/src/update_apply *)
(* for the replaced-by-rename kinds (AppImage, WindowsPortable,            *)
(* MacBundle).  The core prepares a transaction directory and starts the   *)
(* helper; the helper waits for the application to exit, swaps the         *)
(* installation by renames, starts the updated application, waits for its  *)
(* acknowledgement and rolls back when it does not come.  The helper may   *)
(* be killed, the machine may lose power and a file operation may fail     *)
(* between any two steps; `opennow-update-helper --apply` may be run again *)
(* on the same plan and then recovers from what outcome.json says.         *)
(*                                                                         *)
(* One action is one journal write, one rename, one process operation or   *)
(* one observation: the points between which a crash leaves a different    *)
(* disk.                                                                   *)
(***************************************************************************)
EXTENDS Naturals, FiniteSets

CONSTANTS
    MaxFaults,   \* how many file or process operations may fail
    MaxCrashes,  \* how often the helper may die or the machine lose power
    MaxWrites    \* how often the running application writes portable data

ASSUME ConstantsAssumption ==
    /\ MaxFaults \in Nat
    /\ MaxCrashes \in Nat
    /\ MaxWrites \in Nat

VARIABLES
    windows,    \* sharing violations instead of directory syncs (cfg(windows))
    fs,         \* contents of target/, previous/, failed/ and payload/
    package,    \* the signed package and its manifest are in the directory
    data,       \* version of the portable user data of the old installation
    carried,    \* version of that data copied into the payload
    status,     \* outcome.json: status
    ident,      \* outcome.json: restarted_process is recorded
    helper,     \* program point of the helper that owns apply.lock, or idle
    recovering, \* that helper is rolling back an earlier, interrupted run
    launcher,   \* the core's launch_prepared_update
    orig,       \* the original application and core still run
    upd,        \* running processes of the updated application
    oldApp,     \* the helper restarted the application with restart_previous
    ack,        \* ack.json exists
    accepted,   \* the helper accepted an acknowledgement
    faults, crashes

fileVars == <<fs, package, data, carried>>
journal == <<status, ident>>
procVars == <<orig, upd, oldApp, ack, accepted>>
vars == <<windows, fs, package, data, carried, status, ident, helper, recovering,
          launcher, orig, upd, oldApp, ack, accepted, faults, crashes>>

-----------------------------------------------------------------------------
Slots == {"target", "previous", "failed", "payload"}

\* "partial" is a tree left by an interrupted extraction or removal.
Contents == {"none", "old", "new", "partial"}

\* OutcomeStatus without the two states of native package managers; "none"
\* until prepare_update has written outcome.json.
Statuses == {"none", "Prepared", "WaitingForExit", "BackingUp", "Installing",
             "AwaitingStartup", "Completed", "RolledBack", "Failed"}

\* "main" is the spawned child, "child" stands for its descendants.
Processes == {"main", "child"}

HelperPoints ==
    {"idle", "locked", "payload", "announce", "waiting", "refresh", "backup",
     "moveOld", "markInstalling", "moveNew", "markStartup", "spawn",
     "record", "monitor", "complete", "stop", "recordFailed", "rollback",
     "restore", "restartOld", "markRolledBack", "rollbackFailed",
     "removePrevious", "removeRest", "deferCleanup", "error"}

FlagsOK ==
    /\ windows \in BOOLEAN
    /\ package \in BOOLEAN
    /\ ident \in BOOLEAN
    /\ recovering \in BOOLEAN
    /\ orig \in BOOLEAN
    /\ oldApp \in BOOLEAN
    /\ ack \in BOOLEAN
    /\ accepted \in BOOLEAN

ValuesOK ==
    /\ fs \in [Slots -> Contents]
    /\ data \in 0..MaxWrites
    /\ carried \in 0..MaxWrites
    /\ status \in Statuses
    /\ helper \in HelperPoints
    /\ launcher \in {"start", "prepared", "watching", "done"}
    /\ upd \in SUBSET Processes
    /\ faults \in 0..MaxFaults
    /\ crashes \in 0..MaxCrashes

TypeOK == FlagsOK /\ ValuesOK

Init ==
    /\ windows \in BOOLEAN
    /\ fs = [s \in Slots |-> IF s = "target" THEN "old" ELSE "none"]
    /\ package = FALSE
    /\ data = 0
    /\ carried = 0
    /\ status = "none"
    /\ ident = FALSE
    /\ helper = "idle"
    /\ recovering = FALSE
    /\ launcher = "start"
    /\ orig = TRUE
    /\ upd = {}
    /\ oldApp = FALSE
    /\ ack = FALSE
    /\ accepted = FALSE
    /\ faults = 0
    /\ crashes = 0

-----------------------------------------------------------------------------
(* File operations.  A fault is an I/O error the code has to handle.        *)

Fault == faults < MaxFaults /\ faults' = faults + 1

NoFault == UNCHANGED faults

\* write_outcome through atomic_json: a temporary file, an atomic rename over
\* outcome.json, then a directory sync.  An error leaves the old journal, or,
\* where directories are synced, the new one.
WriteOutcome(st, id, onOk, onError) ==
    \/ /\ NoFault
       /\ status' = st
       /\ ident' = id
       /\ helper' = onOk
    \/ /\ Fault
       /\ UNCHANGED journal
       /\ helper' = onError
    \/ /\ Fault
       /\ ~windows
       /\ status' = st
       /\ ident' = id
       /\ helper' = onError

\* Windows refuses to rename a directory whose executables run.
Busy(source) ==
    windows /\ source = "target" /\ (orig \/ oldApp \/ upd # {})

CanMove(source, destination) ==
    fs[source] # "none" /\ fs[destination] = "none" /\ ~Busy(source)

Moved(source, destination) ==
    [fs EXCEPT ![destination] = fs[source], ![source] = "none"]

\* rename_synced: refuses an existing destination, renames, syncs both
\* directories; a failed sync reports an error after the rename took place.
RenameSynced(source, destination, onOk, onError) ==
    \/ /\ CanMove(source, destination)
       /\ fs' = Moved(source, destination)
       /\ helper' = onOk
       /\ NoFault
    \/ /\ ~CanMove(source, destination)
       /\ helper' = onError
       /\ UNCHANGED <<fs, faults>>
    \/ /\ Fault
       /\ helper' = onError
       /\ UNCHANGED fs
    \/ /\ Fault
       /\ ~windows
       /\ CanMove(source, destination)
       /\ fs' = Moved(source, destination)
       /\ helper' = onError

-----------------------------------------------------------------------------
(* The core: prepare_update and launch_prepared_update.                     *)

\* The directory, package copy, plan and outcome are written; any error
\* removes the directory again.
PrepareUpdate ==
    /\ launcher = "start"
    /\ orig
    /\ launcher' = "prepared"
    /\ package' = TRUE
    /\ status' = "Prepared"
    /\ UNCHANGED <<fs, data, carried, ident, helper, recovering, procVars,
                   faults, crashes>>

LaunchHelper ==
    /\ launcher = "prepared"
    /\ orig
    /\ launcher' = "watching"
    /\ helper' = "locked"
    /\ recovering' = FALSE
    /\ UNCHANGED <<fileVars, journal, procVars, faults, crashes>>

\* spawn failed: the transaction is recorded as failed at once.
LaunchFailed ==
    /\ launcher = "prepared"
    /\ orig
    /\ launcher' = "done"
    /\ WriteOutcome("Failed", FALSE, "idle", "idle")
    /\ UNCHANGED <<fileVars, recovering, procVars, crashes>>

\* The helper announced itself and owns apply.lock.
LauncherReady ==
    /\ launcher = "watching"
    /\ status = "WaitingForExit"
    /\ helper # "idle"
    /\ launcher' = "done"
    /\ UNCHANGED <<fileVars, journal, helper, recovering, procVars, faults,
                   crashes>>

\* The disk a helper killed at its current point leaves behind.
Torn ==
    CASE helper = "payload" ->
           {fs, [fs EXCEPT !["payload"] = "partial"]}
      [] helper = "refresh" ->
           {fs, [fs EXCEPT !["payload"] = "partial"]}
      [] helper = "removePrevious" ->
           {fs, [fs EXCEPT !["previous"] = "partial"],
            [fs EXCEPT !["previous"] = "none"]}
      [] OTHER -> {fs}

\* The helper exited early, a read failed or 300 seconds passed: the child is
\* killed and reaped and the outcome is overwritten.
LauncherGivesUp ==
    /\ launcher = "watching"
    /\ launcher' = "done"
    /\ fs' \in Torn
    /\ WriteOutcome("Failed", FALSE, "idle", "idle")
    /\ UNCHANGED <<package, data, carried, recovering, procVars, crashes>>

-----------------------------------------------------------------------------
(* The helper: run_helper and apply.                                        *)

\* The helper executable is started again by hand on the same plan.
Rerun ==
    /\ launcher = "done"
    /\ status # "none"
    /\ helper = "idle"
    /\ helper' = "locked"
    /\ recovering' = FALSE
    /\ UNCHANGED <<fileVars, journal, launcher, procVars, faults, crashes>>

\* Mutant: the process group is not looked at, only the recorded process.
OwnedTreeIsRunningMainOnly == "main" \in upd

\* process::owned_tree_is_running: the process group on Unix, only the
\* recorded process on Windows.
OwnedTreeIsRunning == IF windows THEN "main" \in upd ELSE upd # {}

Interrupted ==
    status \in {"BackingUp", "Installing", "AwaitingStartup", "Failed"}

\* No identity was recorded although an updated application may run.
RollbackUnsafe ==
    /\ ~ident
    /\ \/ status = "AwaitingStartup"
       \/ status = "Failed" /\ fs["previous"] # "none"

\* run_helper up to the dispatch of apply on the journal.
ReadOutcome ==
    /\ helper = "locked"
    /\ \/ /\ status \in {"Completed", "RolledBack"}
          /\ helper' = "idle"
          /\ UNCHANGED <<recovering, faults>>
       \/ /\ status \notin {"Completed", "RolledBack"}
          /\ ~package \* validate_plan
          /\ helper' = "error"
          /\ UNCHANGED <<recovering, faults>>
       \/ /\ status \notin {"Completed", "RolledBack"}
          /\ Fault
          /\ helper' = "error"
          /\ UNCHANGED recovering
       \/ /\ status = "Prepared"
          /\ package
          /\ helper' = "payload"
          /\ UNCHANGED <<recovering, faults>>
       \/ /\ Interrupted
          /\ package
          /\ ~RollbackUnsafe
          /\ ~(ident /\ OwnedTreeIsRunning)
          /\ helper' = "rollback"
          /\ recovering' = TRUE
          /\ UNCHANGED faults
       \/ /\ Interrupted
          /\ package
          /\ RollbackUnsafe \/ (ident /\ OwnedTreeIsRunning)
          /\ helper' = "error"
          /\ UNCHANGED <<recovering, faults>>
       \/ /\ status = "WaitingForExit"
          /\ package
          /\ helper' = "error"
          /\ UNCHANGED <<recovering, faults>>
    /\ UNCHANGED <<fileVars, journal, launcher, procVars, crashes>>

\* Mutant: a payload left by an earlier run is used again.
PreparePayloadReused ==
    /\ helper = "payload"
    /\ fs' = IF fs["payload"] = "none"
             THEN [fs EXCEPT !["payload"] = "new"] ELSE fs
    /\ carried' = data
    /\ helper' = "announce"
    /\ UNCHANGED <<package, data, journal, recovering, launcher, procVars,
                   faults, crashes>>

\* prepare_payload and the first preserve_portable_data; a destination that
\* exists, a bad archive or overlapping user data is an error.
PreparePayload ==
    /\ helper = "payload"
    /\ \/ /\ fs["payload"] = "none"
          /\ fs' = [fs EXCEPT !["payload"] = "new"]
          /\ carried' = data
          /\ helper' = "announce"
       \/ /\ fs' \in Torn
          /\ helper' = "error"
          /\ UNCHANGED carried
    /\ UNCHANGED <<package, data, journal, recovering, launcher, procVars,
                   faults, crashes>>

AnnounceWaiting ==
    /\ helper = "announce"
    /\ WriteOutcome("WaitingForExit", FALSE, "waiting", "error")
    /\ UNCHANGED <<fileVars, recovering, launcher, procVars, crashes>>

\* Mutant: there is no deadline.
WaitForExitForever ==
    /\ helper = "waiting"
    /\ ~orig
    /\ helper' = "refresh"
    /\ UNCHANGED <<fileVars, journal, recovering, launcher, procVars, faults,
                   crashes>>

\* process::wait_for_exit on the two recorded identities, with a deadline.
WaitForExit ==
    /\ helper = "waiting"
    /\ \/ ~orig /\ helper' = "refresh"
       \/ orig /\ helper' = "error"
    /\ UNCHANGED <<fileVars, journal, recovering, launcher, procVars, faults,
                   crashes>>

\* The data copied while the application ran is removed and copied again; an
\* error restarts the untouched installation.
RefreshPortableData ==
    /\ helper = "refresh"
    /\ \/ /\ carried' = data
          /\ helper' = "backup"
          /\ UNCHANGED <<fs, oldApp>>
       \/ /\ fs' \in Torn
          /\ oldApp' \in {oldApp, TRUE}
          /\ helper' = "error"
          /\ UNCHANGED carried
    /\ UNCHANGED <<package, data, journal, recovering, launcher, orig, upd,
                   ack, accepted, faults, crashes>>

-----------------------------------------------------------------------------
(* replace_and_restart.                                                     *)

MarkBackingUp ==
    /\ helper = "backup"
    /\ WriteOutcome("BackingUp", FALSE, "moveOld", "error")
    /\ UNCHANGED <<fileVars, recovering, launcher, procVars, crashes>>

\* Mutant: the old installation is deleted instead of moved aside.
MoveOldAsideDeletes ==
    /\ helper = "moveOld"
    /\ fs' = [fs EXCEPT !["target"] = "none"]
    /\ helper' = "markInstalling"
    /\ UNCHANGED <<package, data, carried, journal, recovering, launcher,
                   procVars, faults, crashes>>

MoveOldAside ==
    /\ helper = "moveOld"
    /\ RenameSynced("target", "previous", "markInstalling", "rollback")
    /\ UNCHANGED <<package, data, carried, journal, recovering, launcher,
                   procVars, crashes>>

MarkInstalling ==
    /\ helper = "markInstalling"
    /\ WriteOutcome("Installing", FALSE, "moveNew", "rollback")
    /\ UNCHANGED <<fileVars, recovering, launcher, procVars, crashes>>

MoveNewIn ==
    /\ helper = "moveNew"
    /\ RenameSynced("payload", "target", "markStartup", "rollback")
    /\ UNCHANGED <<package, data, carried, journal, recovering, launcher,
                   procVars, crashes>>

\* On macOS the installed bundle is verified again before it is started.
BundleRejected ==
    /\ helper = "markStartup"
    /\ ~windows
    /\ helper' = "rollback"
    /\ UNCHANGED <<fileVars, journal, recovering, launcher, procVars, faults,
                   crashes>>

\* restart_and_acknowledge: AwaitingStartup is journalled without an identity
\* before the process exists.
MarkAwaitingStartup ==
    /\ helper = "markStartup"
    /\ WriteOutcome("AwaitingStartup", FALSE, "spawn", "rollback")
    /\ UNCHANGED <<fileVars, recovering, launcher, procVars, crashes>>

\* OwnedApplication::start: the spawn fails, or succeeds, or the identity of
\* the started process cannot be captured and failed_start kills its tree,
\* which may fail too.
StartUpdated ==
    /\ helper = "spawn"
    /\ \/ /\ helper' = "rollback"
          /\ UNCHANGED <<upd, faults>>
       \/ /\ upd' = {"main"}
          /\ helper' = "record"
          /\ NoFault
       \/ /\ Fault
          /\ upd' \in {{"main"}, {"child"}, Processes}
          /\ helper' = "error"
    /\ UNCHANGED <<fileVars, journal, recovering, launcher, orig, oldApp, ack,
                   accepted, crashes>>

\* Mutant: the started application is not stopped before the rollback.
RecordIdentityNoStop ==
    /\ helper = "record"
    /\ WriteOutcome("AwaitingStartup", TRUE, "monitor", "rollback")
    /\ UNCHANGED <<fileVars, recovering, launcher, procVars, crashes>>

RecordIdentity ==
    /\ helper = "record"
    /\ WriteOutcome("AwaitingStartup", TRUE, "monitor", "stop")
    /\ UNCHANGED <<fileVars, recovering, launcher, procVars, crashes>>

\* The polling loop: exit of the child, a valid acknowledgement, an invalid
\* or unreadable one, or the startup deadline.
AckValid == ack /\ "main" \in upd

Monitor ==
    /\ helper = "monitor"
    /\ \/ /\ AckValid
          /\ accepted' = TRUE
          /\ helper' = "complete"
       \/ /\ helper' = "stop"
          /\ UNCHANGED accepted
    /\ UNCHANGED <<fileVars, journal, recovering, launcher, orig, upd, oldApp,
                   ack, faults, crashes>>

\* OwnedApplication::stop kills the whole tree and waits until none is left;
\* failed_restart records the identity when some may survive.
StopUpdated ==
    /\ helper = "stop"
    /\ \/ /\ upd' = {}
          /\ helper' = "rollback"
          /\ NoFault
       \/ /\ Fault
          /\ upd' \in SUBSET upd
          /\ helper' = "recordFailed"
    /\ UNCHANGED <<fileVars, journal, recovering, launcher, orig, oldApp, ack,
                   accepted, crashes>>

RecordFailed ==
    /\ helper = "recordFailed"
    /\ WriteOutcome("Failed", TRUE, "error", "error")
    /\ UNCHANGED <<fileVars, recovering, launcher, procVars, crashes>>

MarkCompleted ==
    /\ helper = "complete"
    /\ WriteOutcome("Completed", FALSE, "removePrevious", "error")
    /\ UNCHANGED <<fileVars, recovering, launcher, procVars, crashes>>

-----------------------------------------------------------------------------
(* cleanup_completed.                                                       *)

RemovePrevious ==
    /\ helper = "removePrevious"
    /\ \/ /\ fs' = [fs EXCEPT !["previous"] = "none"]
          /\ helper' = "removeRest"
          /\ NoFault
       \/ /\ Fault
          /\ fs' \in {fs, [fs EXCEPT !["previous"] = "partial"]}
          /\ helper' = "deferCleanup"
    /\ UNCHANGED <<package, data, carried, journal, recovering, launcher,
                   procVars, crashes>>

RemoveRest ==
    /\ helper = "removeRest"
    /\ \/ /\ fs' = [fs EXCEPT !["payload"] = "none"]
          /\ package' = FALSE
          /\ helper' = "idle"
          /\ NoFault
       \/ /\ Fault
          /\ fs' \in {fs, [fs EXCEPT !["payload"] = "none"]}
          /\ package' \in BOOLEAN
          /\ helper' = "deferCleanup"
    /\ UNCHANGED <<data, carried, journal, recovering, launcher, procVars,
                   crashes>>

DeferCleanup ==
    /\ helper = "deferCleanup"
    /\ WriteOutcome("Completed", FALSE, "idle", "error")
    /\ UNCHANGED <<fileVars, recovering, launcher, procVars, crashes>>

-----------------------------------------------------------------------------
(* recover_replacement, the recovery branch of apply, and rollback.         *)

\* A failed rollback is journalled by recover_replacement; in the recovery
\* branch of apply the error goes straight to run_helper.
OnRollbackError == IF recovering THEN "error" ELSE "rollbackFailed"

\* Mutant: rollback moves the target away unconditionally.
RollbackNeedsTarget ==
    /\ helper = "rollback"
    /\ \/ /\ fs["previous"] = "none"
          /\ helper' = IF fs["target"] # "none"
                       THEN "restartOld" ELSE OnRollbackError
          /\ UNCHANGED <<fs, faults>>
       \/ /\ fs["previous"] # "none"
          /\ RenameSynced("target", "failed", "restore", OnRollbackError)
    /\ UNCHANGED <<package, data, carried, journal, recovering, launcher,
                   procVars, crashes>>

\* The first half of rollback: what stands in the way goes to failed/.
Rollback ==
    /\ helper = "rollback"
    /\ \/ /\ fs["previous"] = "none"
          /\ helper' = IF fs["target"] # "none"
                       THEN "restartOld" ELSE OnRollbackError
          /\ UNCHANGED <<fs, faults>>
       \/ /\ fs["previous"] # "none"
          /\ fs["target"] = "none"
          /\ helper' = "restore"
          /\ UNCHANGED <<fs, faults>>
       \/ /\ fs["previous"] # "none"
          /\ fs["target"] # "none"
          /\ RenameSynced("target", "failed", "restore", OnRollbackError)
    /\ UNCHANGED <<package, data, carried, journal, recovering, launcher,
                   procVars, crashes>>

RestorePrevious ==
    /\ helper = "restore"
    /\ RenameSynced("previous", "target", "restartOld", OnRollbackError)
    /\ UNCHANGED <<package, data, carried, journal, recovering, launcher,
                   procVars, crashes>>

RestartPrevious ==
    /\ helper = "restartOld"
    /\ oldApp' \in {oldApp, TRUE}
    /\ helper' = "markRolledBack"
    /\ UNCHANGED <<fileVars, journal, recovering, launcher, orig, upd, ack,
                   accepted, faults, crashes>>

MarkRolledBack ==
    /\ helper = "markRolledBack"
    /\ WriteOutcome("RolledBack", FALSE, "idle", "error")
    /\ UNCHANGED <<fileVars, recovering, launcher, procVars, crashes>>

MarkRollbackFailed ==
    /\ helper = "rollbackFailed"
    /\ WriteOutcome("Failed", FALSE, "error", "error")
    /\ UNCHANGED <<fileVars, recovering, launcher, procVars, crashes>>

\* The end of run_helper after an error: any status but RolledBack and Failed
\* becomes Failed, with the recorded identity kept.
HelperFails ==
    /\ helper = "error"
    /\ \/ /\ status \in {"RolledBack", "Failed"}
          /\ helper' = "idle"
          /\ UNCHANGED <<journal, faults>>
       \/ /\ status \notin {"RolledBack", "Failed"}
          /\ WriteOutcome("Failed", ident, "idle", "idle")
    /\ UNCHANGED <<fileVars, recovering, launcher, procVars, crashes>>

-----------------------------------------------------------------------------
(* The environment: applications, crashes and power loss.                   *)

\* The original application and core exit; a core that exits while it
\* launches the helper no longer watches it.
OriginalExits ==
    /\ orig
    /\ launcher # "start"
    /\ orig' = FALSE
    /\ launcher' = "done"
    /\ UNCHANGED <<fileVars, journal, helper, recovering, upd, oldApp, ack,
                   accepted, faults, crashes>>

OriginalWritesData ==
    /\ orig
    /\ data < MaxWrites
    /\ data' = data + 1
    /\ UNCHANGED <<fs, package, carried, journal, helper, recovering,
                   launcher, procVars, faults, crashes>>

UpdatedForks ==
    /\ "main" \in upd
    /\ upd' = Processes
    /\ UNCHANGED <<fileVars, journal, helper, recovering, launcher, orig,
                   oldApp, ack, accepted, faults, crashes>>

\* acknowledge_startup_from_env in the updated core.
UpdatedAcknowledges ==
    /\ "main" \in upd
    /\ ack' = TRUE
    /\ UNCHANGED <<fileVars, journal, helper, recovering, launcher, orig, upd,
                   oldApp, accepted, faults, crashes>>

UpdatedExits ==
    /\ \E p \in upd : upd' = upd \ {p}
    /\ UNCHANGED <<fileVars, journal, helper, recovering, launcher, orig,
                   oldApp, ack, accepted, faults, crashes>>

HelperCrash ==
    /\ helper # "idle"
    /\ crashes < MaxCrashes
    /\ crashes' = crashes + 1
    /\ fs' \in Torn
    /\ helper' = "idle"
    /\ UNCHANGED <<package, data, carried, journal, recovering, launcher,
                   procVars, faults>>

PowerLoss ==
    /\ launcher # "start"
    /\ crashes < MaxCrashes
    /\ crashes' = crashes + 1
    /\ fs' \in Torn
    /\ helper' = "idle"
    /\ launcher' = "done"
    /\ orig' = FALSE
    /\ upd' = {}
    /\ oldApp' = FALSE
    /\ UNCHANGED <<package, data, carried, journal, recovering, ack, accepted,
                   faults>>

-----------------------------------------------------------------------------
Core ==
    \/ PrepareUpdate \/ LaunchHelper \/ LaunchFailed
    \/ LauncherReady \/ LauncherGivesUp

HelperStep ==
    \/ ReadOutcome \/ PreparePayload \/ AnnounceWaiting \/ WaitForExit
    \/ RefreshPortableData \/ MarkBackingUp \/ MoveOldAside
    \/ MarkInstalling \/ MoveNewIn \/ BundleRejected
    \/ MarkAwaitingStartup \/ StartUpdated \/ RecordIdentity \/ Monitor
    \/ StopUpdated \/ RecordFailed \/ MarkCompleted \/ RemovePrevious
    \/ RemoveRest \/ DeferCleanup \/ Rollback \/ RestorePrevious
    \/ RestartPrevious \/ MarkRolledBack \/ MarkRollbackFailed
    \/ HelperFails

Environment ==
    \/ OriginalExits \/ OriginalWritesData
    \/ UpdatedForks \/ UpdatedAcknowledges \/ UpdatedExits
    \/ HelperCrash \/ PowerLoss

Step == Core \/ Rerun \/ HelperStep \/ Environment

Next == Step /\ UNCHANGED windows

Spec == Init /\ [][Next]_vars

\* A helper that runs keeps taking steps (its waits all have deadlines), and
\* somebody keeps running the helper again on an unfinished transaction.
FairSpec ==
    /\ Spec
    /\ WF_vars(HelperStep /\ UNCHANGED windows)
    /\ WF_vars(Rerun /\ UNCHANGED windows)
    /\ WF_vars(UpdatedExits /\ UNCHANGED windows)

-----------------------------------------------------------------------------
Whole(content) == content \in {"old", "new"}

\* Until the updated application has acknowledged its startup, the previous
\* installation is on disk, whole, in target/ or in previous/: no crash,
\* fault or repeated run of replace_and_restart, rollback and
\* cleanup_completed loses it.
PreviousKeptUntilAccepted ==
    accepted \/ fs["target"] = "old" \/ fs["previous"] = "old"

\* What stands at the installation path is never a torn tree: an interrupted
\* prepare_payload is not renamed in, an interrupted removal of previous/ is
\* not restored; and a whole installation is always left somewhere.
NeverATornInstallation ==
    /\ fs["target"] # "partial"
    /\ \E s \in {"target", "previous"} : Whole(fs[s])

\* Completed is only journalled for an installation that is the new version
\* and whose startup was acknowledged.
CompletedIsAcknowledged ==
    status = "Completed" => fs["target"] = "new" /\ accepted

\* User data that lives inside the old installation is in the new one as the
\* application last wrote it, although the first copy is made while the
\* application still runs.
PortableDataCarried == fs["target"] = "new" => carried = data

\* The installation path is never renamed under an application that runs from
\* it: not the original one, not a restarted one, and none of the updated
\* application's processes, also when the helper that started them is gone.
NoSwapUnderRunningApplication ==
    [][fs'["target"] # fs["target"] => ~orig /\ ~oldApp /\ upd = {}]_vars

\* The inductive strengthening of the properties above.  What is on disk:
\* untouched, in the middle of the swap with a backup, or committed.
DiskInv ==
    \/ fs["target"] = "old" /\ fs["previous"] = "none"
    \/ /\ fs["target"] \in {"none", "new"}
       /\ fs["previous"] = "old"
    \/ /\ fs["target"] = "new"
       /\ fs["previous"] \in {"none", "partial"}
       /\ accepted
       /\ ~ident
       /\ status \in {"Completed", "Failed", "RolledBack"}

\* What the journal says about the disk.
JournalInv ==
    /\ status \in {"none", "Prepared", "WaitingForExit"} => fs["target"] = "old"
    /\ status = "Completed" => fs["target"] = "new" /\ accepted
    /\ status = "RolledBack" => fs["previous"] = "none"
    /\ ident => status \in {"AwaitingStartup", "Failed"}
    /\ launcher \in {"start", "prepared"} =>
         helper = "idle" /\ status \in {"none", "Prepared"}
    /\ launcher = "watching" => orig

\* Which processes may run when.
ProcessInv ==
    /\ orig => fs["target"] = "old"
    /\ oldApp => /\ fs["previous"] # "old"
                 /\ fs["target"] # "none"
                 /\ status \notin {"none", "Prepared"}
    /\ upd # {} =>
         /\ fs["target"] = "new"
         /\ status \in {"AwaitingStartup", "Failed", "Completed", "RolledBack"}

\* What holds at each program point of the helper.
BeforeSwap == {"payload", "announce", "waiting", "refresh", "backup", "moveOld"}
PayloadReady == {"announce", "waiting", "refresh", "backup", "moveOld",
                 "markInstalling", "moveNew"}
DataReady == {"backup", "moveOld", "markInstalling", "moveNew"}
Started == {"spawn", "record", "monitor", "stop", "recordFailed", "complete"}

PointInv ==
    /\ helper \in {"payload", "announce"} => status = "Prepared"
    /\ helper \in {"waiting", "refresh", "backup"} => status = "WaitingForExit"
    /\ helper \in BeforeSwap => fs["target"] = "old" /\ ~oldApp
    /\ helper \in {"refresh"} \cup DataReady => ~orig
    /\ helper \in PayloadReady => fs["payload"] = "new"
    /\ helper \in DataReady => carried = data
    /\ helper \in {"moveOld", "markInstalling"} => status = "BackingUp"
    /\ helper \in {"moveNew", "markStartup"} => status = "Installing"
    /\ helper \in {"markInstalling", "moveNew"} => fs["target"] = "none"
    /\ helper \in Started \cup {"markStartup"} =>
         fs["target"] = "new" /\ fs["previous"] = "old"
    /\ helper \in Started => status = "AwaitingStartup"
    /\ helper = "spawn" => upd = {}
    /\ helper = "complete" => accepted
    /\ helper \in {"removePrevious", "removeRest", "deferCleanup"} =>
         status = "Completed"
    /\ helper \in {"rollback", "restore", "restartOld", "markRolledBack"} =>
         status \in {"BackingUp", "Installing", "AwaitingStartup", "Failed"}
    /\ helper = "rollback" =>
         /\ fs["previous"] # "partial"
         /\ fs["previous"] = "old" => windows \/ upd = {}
    /\ helper = "restore" => fs["previous"] = "old" /\ fs["target"] = "none"
    /\ helper \in {"restartOld", "markRolledBack"} =>
         fs["previous"] = "none"

\* The disk, the journal, the processes and the helper's program point agree
\* in every state, crashes and faults included; the safety properties above
\* follow from it.
TransactionInv ==
    /\ TypeOK
    /\ DiskInv
    /\ JournalInv
    /\ ProcessInv
    /\ PointInv
    /\ PortableDataCarried

\* Every helper run ends: its waits for the exit, for the acknowledgement and
\* for stopped processes have deadlines.
HelperEnds == (helper # "idle") ~> (helper = "idle")

\* A missing installation whose interrupted swap had not reached the start of
\* the updated application, or had its identity journalled, is put back by
\* running the helper again, as long as no file operation fails.
SwapRecovers ==
    [](faults = 0) =>
        ((fs["target"] = "none" /\ Interrupted /\ ~RollbackUnsafe)
            ~> (fs["target"] # "none"))

\* An interrupted replacement recovers without the target existing: running
\* the helper again puts an installation back whatever the crash interrupted.
InterruptedReplacementRecovers ==
    (fs["target"] = "none") ~> (fs["target"] # "none")

\* "Recovered an interrupted replacement; previous installation restored":
\* what RolledBack tells the user is what stands at the installation path.
RolledBackIsPrevious == status = "RolledBack" => fs["target"] = "old"

=============================================================================
