------------------------------- MODULE Updater -------------------------------
(***************************************************************************)
(* The updater service of the core (updater.rs) between the sessions it    *)
(* must not disturb and the helpers it starts.  `check`, `download` and    *)
(* `install` are worker threads that hold `operation`; `install` and the   *)
(* session transitions also hold session_update_gate (dispatch in          *)
(* main.rs).  Every status read reconciles the transaction with            *)
(* outcome.json, apply.lock and, for native packages, the installer        *)
(* process (recovery.rs).  The application may exit, be started, and the   *)
(* core be restarted at any point; active-apply.json is what survives.     *)
(*                                                                         *)
(* The helper is abstracted to the outcomes it journals: UpdateApply       *)
(* models what it does to the installation.  The helper of a native        *)
(* package runs an installer that may outlive it (managed.rs).             *)
(***************************************************************************)
EXTENDS Naturals, FiniteSets

CONSTANTS
    Txns,        \* update transactions, one for each confirmed install
    Managed,     \* the transactions of native packages
    NoTxn,       \* no transaction
    MaxFaults,   \* how many reads or writes may fail (removals: if any)
    MaxCrashes   \* how often a helper may die or the machine restart

ASSUME UpdaterAssumption ==
    /\ Managed \subseteq Txns
    /\ NoTxn \notin Txns
    /\ MaxFaults \in Nat
    /\ MaxCrashes \in Nat

VARIABLES
    app,         \* the application, with its core, runs
    status,      \* State.status
    available,   \* State.available is present
    downloaded,  \* State.downloaded is present
    transaction, \* State.transaction
    op,          \* what the holder of `operation` does
    current,     \* the transaction that install prepares
    saved,       \* active-apply.json
    transition,  \* a session transition holds session_update_gate
    seat,        \* CloudMatchService.active, by what active_session shows
    streamer,    \* its worker runs, and its status says so or not (quiet)
    overlooked,  \* history: what ran when install found no session
    outcome,     \* outcome.json of each transaction
    ident,       \* outcome.json: the installer's identity is recorded
    helper,      \* each transaction's helper process
    installer,   \* transactions whose native installer runs
    waitsFor,    \* transactions whose original application still runs
    rebooted,    \* transactions older than the last restart of the machine
    lost,        \* transactions given up although a helper had been started
    faults, crashes

coreVars == <<status, available, downloaded, transaction, op, current>>
helperVars == <<outcome, ident, helper, installer, waitsFor, rebooted>>
sessionVars == <<transition, seat, streamer, overlooked>>
vars == <<app, status, available, downloaded, transaction, op, current, saved,
          transition, seat, streamer, overlooked, outcome, ident, helper, installer, waitsFor, rebooted,
          lost, faults, crashes>>

-----------------------------------------------------------------------------
\* Mutant: the start of the updated application is not a pending state.
PendingWithoutRestarting ==
    {"preparing", "awaiting-exit", "applying", "managed-pending"}

\* The statuses of installation_pending.
Pending == {"preparing", "awaiting-exit", "applying", "restarting",
            "managed-pending"}

Statuses == Pending \cup
    {"idle", "checking", "error", "available", "not-available", "downloading",
     "downloaded", "succeeded", "rolled-back", "failed"}

Terminal == {"Completed", "RolledBack", "Failed"}

InFlight == {"Prepared", "WaitingForExit", "Installing", "AwaitingStartup",
             "ManagedPending"}

TypeOK ==
    /\ app \in BOOLEAN
    /\ status \in Statuses
    /\ available \in BOOLEAN
    /\ downloaded \in BOOLEAN
    /\ {transaction, saved, current} \subseteq Txns \cup {NoTxn}
    /\ op \in {"none", "check", "download", "prepare", "spawn", "launch"}
    /\ transition \in BOOLEAN
    /\ seat \in {"none", "shown", "hidden"}
    /\ streamer \in {"stopped", "live", "quiet"}
    /\ overlooked \subseteq {"seat", "streamer"}
    /\ outcome \in [Txns -> {"none"} \cup InFlight \cup Terminal]
    /\ helper \in [Txns -> {"none", "spawned", "locked"}]
    /\ {ident, installer, waitsFor, rebooted, lost} \subseteq SUBSET Txns
    /\ faults \in 0..MaxFaults
    /\ crashes \in 0..MaxCrashes

Init ==
    /\ app = TRUE
    /\ status = "idle"
    /\ available = FALSE
    /\ downloaded = FALSE
    /\ transaction = NoTxn
    /\ op = "none"
    /\ current = NoTxn
    /\ saved = NoTxn
    /\ transition = FALSE
    /\ seat = "none"
    /\ streamer = "stopped"
    /\ overlooked = {}
    /\ outcome = [t \in Txns |-> "none"]
    /\ ident = {}
    /\ helper = [t \in Txns |-> "none"]
    /\ installer = {}
    /\ waitsFor = {}
    /\ rebooted = {}
    /\ lost = {}
    /\ faults = 0
    /\ crashes = 0

Fault == faults < MaxFaults /\ faults' = faults + 1

NoFault == UNCHANGED faults

Crash == crashes < MaxCrashes /\ crashes' = crashes + 1

\* session_update_gate is held by install and by a session transition.
Installing == op \in {"prepare", "spawn", "launch"}

\* Mutant: a session transition does not hold the gate to its end.
GateFreeOfInstall == ~Installing

GateFree == ~Installing /\ ~transition

-----------------------------------------------------------------------------
(* reconcile_transaction, which every status read starts with.              *)

\* helper_is_running: apply.lock cannot be acquired.
HelperIsRunning(t) == helper[t] = "locked"

\* The outcomes that a helper must own, or the transaction has failed; what
\* install has just prepared is not looked at.
NeedsHelper(t) ==
    \/ outcome[t] \in {"WaitingForExit", "Installing", "AwaitingStartup"}
    \/ outcome[t] = "Prepared" /\ status # "preparing"

\* recover_managed_update up to its verdict: the installer may still run.
\* Without its identity only a restart of the machine proves its end.
InstallerUnresolved(t) ==
    \/ HelperIsRunning(t)
    \/ t \in ident /\ t \in installer
    \/ t \notin ident /\ t \notin rebooted

\* What a status read makes of the status; "failed" where a native package
\* has an end whose verdict is left open.
Reconciled ==
    IF transaction = NoTxn THEN status
    ELSE LET t == transaction IN
         CASE outcome[t] = "ManagedPending" ->
                IF InstallerUnresolved(t) THEN "managed-pending" ELSE "failed"
           [] NeedsHelper(t) /\ ~HelperIsRunning(t) -> "failed"
           [] outcome[t] = "none" -> "failed"
           [] outcome[t] = "Prepared" -> "preparing"
           [] outcome[t] = "WaitingForExit" -> "awaiting-exit"
           [] outcome[t] = "Installing" -> "applying"
           [] outcome[t] = "AwaitingStartup" -> "restarting"
           [] outcome[t] = "Completed" -> "succeeded"
           [] outcome[t] = "RolledBack" -> "rolled-back"
           [] OTHER -> "failed"

StaysPending == Reconciled \in Pending

\* classify_recovery: the installed package and the version that runs decide.
RecoveryVerdicts == {"Completed", "Failed"}

\* The transaction of a helper that has been started and not been seen yet.
Unseen == {t \in Txns : t = transaction /\ helper[t] = "spawned"}

\* clear_finished_transaction; where there are faults the removal of the
\* record may fail, any number of times, which is only reported.
ClearTransaction ==
    /\ transaction' = NoTxn
    /\ saved' = NoTxn \/ (MaxFaults > 0 /\ saved' = saved)

\* state: a pending transaction stays, any other end is reported once.
GetState ==
    /\ app
    /\ transaction # NoTxn
    /\ \/ /\ StaysPending
          /\ status' = Reconciled
          /\ UNCHANGED <<transaction, saved, outcome, lost, faults>>
       \/ /\ ~StaysPending
          /\ outcome[transaction] # "ManagedPending"
          /\ status' = Reconciled
          /\ ClearTransaction
          /\ lost' = lost \cup Unseen
          /\ UNCHANGED <<outcome, faults>>
       \/ /\ ~StaysPending
          /\ outcome[transaction] = "ManagedPending"
          /\ \E end \in RecoveryVerdicts :
               /\ outcome' = [outcome EXCEPT ![transaction] = end]
               /\ status' = IF end = "Completed" THEN "succeeded" ELSE "failed"
          /\ ClearTransaction
          /\ UNCHANGED <<lost, faults>>
       \/ /\ Fault \* outcome.json or apply.lock cannot be read
          /\ status' = "failed"
          /\ ClearTransaction
          /\ lost' = lost \cup {transaction}
          /\ UNCHANGED outcome
       \/ /\ Fault \* a native package whose helper or installer is unclear
          /\ outcome[transaction] = "ManagedPending"
          /\ status' = "managed-pending"
          /\ UNCHANGED <<transaction, saved, outcome, lost>>
    /\ UNCHANGED <<app, available, downloaded, op, current, sessionVars, ident,
                   helper, installer, waitsFor, rebooted, crashes>>

-----------------------------------------------------------------------------
(* The operations of the service.                                           *)

\* installation_pending: a status read first, GetState, which leaves a
\* transaction only when it is pending.
InstallationPending == transaction # NoTxn \/ status \in Pending

\* begin_operation.
MayBegin == app /\ op = "none" /\ ~InstallationPending

BeginCheck ==
    /\ MayBegin
    /\ op' = "check"
    /\ status' = "checking"
    /\ ClearTransaction
    /\ UNCHANGED <<app, available, downloaded, current, sessionVars, helperVars,
                   lost, faults, crashes>>

\* The releases could not be fetched, or there is an update or none; a
\* download that was verified before stays (restore_downloaded_status).
FinishCheck ==
    /\ op = "check"
    /\ op' = "none"
    /\ \/ /\ status' = "error"
          /\ UNCHANGED available
       \/ /\ available' \in BOOLEAN
          /\ \/ downloaded /\ status' = "downloaded"
             \/ /\ ~downloaded
                /\ \/ status' = "available"
                   \/ ~available' /\ status' \in {"not-available", "error"}
    /\ UNCHANGED <<app, downloaded, transaction, current, saved, sessionVars,
                   helperVars, lost, faults, crashes>>

BeginDownload ==
    /\ MayBegin
    /\ available
    /\ op' = "download"
    /\ status' = "downloading"
    /\ ClearTransaction
    /\ UNCHANGED <<app, available, downloaded, current, sessionVars, helperVars,
                   lost, faults, crashes>>

FinishDownload ==
    /\ op = "download"
    /\ op' = "none"
    /\ \/ status' = "downloaded" /\ downloaded' = TRUE
       \/ status' = "available" /\ UNCHANGED downloaded
    /\ UNCHANGED <<app, available, transaction, current, saved, sessionVars,
                   helperVars, lost, faults, crashes>>

\* update_session_idle: active_session shows no seat, and the streamer has
\* stopped or failed.  The seat of an account that is not signed in is not
\* shown, and the status may say less than the worker does.
SessionIdle == seat # "shown" /\ streamer # "live"

\* updater.install holds session_update_gate and has found no session.
BeginInstall ==
    /\ GateFree
    /\ SessionIdle
    /\ MayBegin
    /\ downloaded
    /\ op' = "prepare"
    /\ status' = "preparing"
    /\ ClearTransaction
    /\ overlooked' = (IF seat # "none" THEN {"seat"} ELSE {})
                        \cup (IF streamer # "stopped" THEN {"streamer"} ELSE {})
    /\ UNCHANGED <<app, available, downloaded, current, transition, seat,
                   streamer, helperVars, lost, faults, crashes>>

\* verify_downloaded_file and prepare_update, then save_prepared_update.
PrepareTransaction(t) ==
    /\ op = "prepare"
    /\ outcome[t] = "none"
    /\ op' = "spawn"
    /\ current' = t
    /\ saved' = t
    /\ transaction' = t
    /\ outcome' = [outcome EXCEPT ![t] = "Prepared"]
    /\ waitsFor' = waitsFor \cup {t}
    /\ UNCHANGED <<app, status, available, downloaded, sessionVars, ident, helper,
                   installer, rebooted, lost, faults, crashes>>

SpawnHelper ==
    /\ op = "spawn"
    /\ op' = "launch"
    /\ helper' = [helper EXCEPT ![current] = "spawned"]
    /\ UNCHANGED <<app, status, available, downloaded, transaction, current,
                   saved, sessionVars, outcome, ident, installer, waitsFor,
                   rebooted, lost, faults, crashes>>

\* The helper announced itself: install returns the state it reads next.
InstallLaunched ==
    /\ op = "launch"
    /\ outcome[current] = "WaitingForExit"
    /\ HelperIsRunning(current)
    /\ op' = "none"
    /\ current' = NoTxn
    /\ UNCHANGED <<app, status, available, downloaded, transaction, saved,
                   sessionVars, helperVars, lost, faults, crashes>>

\* Verification or preparation failed, the helper could not be spawned, or
\* launch_prepared_update gave up, killed it and journalled the failure.
InstallFails ==
    /\ Installing
    /\ op' = "none"
    /\ current' = NoTxn
    /\ status' = "failed"
    /\ ClearTransaction
    /\ IF op = "prepare" THEN UNCHANGED <<outcome, helper, faults>>
       ELSE /\ helper' = [helper EXCEPT ![current] = "none"]
            /\ \/ outcome' = [outcome EXCEPT ![current] = "Failed"] /\ NoFault
               \/ UNCHANGED outcome /\ Fault
    /\ UNCHANGED <<app, available, downloaded, sessionVars, ident, installer,
                   waitsFor, rebooted, lost, crashes>>

-----------------------------------------------------------------------------
(* Sessions: the gate is held by session.create, session.claim,             *)
(* session.poll, streamer.start and streamer.prepare, and by nothing else.   *)

\* Everything the service and its helpers have, but not the session.
updateVars == <<app, coreVars, saved, helperVars, lost, faults, crashes>>

BeginTransition ==
    /\ app
    /\ GateFree
    /\ ~InstallationPending
    /\ transition' = TRUE
    /\ UNCHANGED <<seat, streamer, overlooked, updateVars>>

\* create and claim leave a seat of the signed-in account, start a worker that
\* is alone in its slot; prepare, and whatever fails, leave neither.
FinishTransition ==
    /\ transition
    /\ transition' = FALSE
    /\ \/ UNCHANGED <<seat, streamer>>
       \/ /\ seat = "none"
          /\ seat' = "shown"
          /\ UNCHANGED streamer
       \/ /\ streamer = "stopped"
          /\ streamer' = "live"
          /\ UNCHANGED seat
    /\ UNCHANGED <<overlooked, updateVars>>

\* session.stop, a poll that finds the seat gone, or finish_session_create of
\* a seat that was not accepted: also for a seat that is not shown.
EndSeat ==
    /\ seat # "none"
    /\ seat' = "none"
    /\ overlooked' = overlooked \ {"seat"}
    /\ UNCHANGED <<transition, streamer, updateVars>>

\* Sign-out, switch, removal of an account, and sign-in: the seat's owner is
\* the signed-in account, or is not.
ChangeAccount ==
    /\ seat # "none"
    /\ seat' = IF seat = "shown" THEN "hidden" ELSE "shown"
    /\ UNCHANGED <<transition, streamer, overlooked, updateVars>>

\* The worker's progress and the status its child reports; and streamer.stop,
\* which joins the worker it took and then writes `stopped`, also over the
\* status of a worker that was started meanwhile.
ReportStatus ==
    /\ streamer # "stopped"
    /\ streamer' \in {"live", "quiet"}
    /\ UNCHANGED <<transition, seat, overlooked, updateVars>>

\* streamer.stop has joined the worker, or the worker failed (set_error).
EndStreamer ==
    /\ streamer # "stopped"
    /\ streamer' = "stopped"
    /\ overlooked' = overlooked \ {"streamer"}
    /\ UNCHANGED <<transition, seat, updateVars>>

-----------------------------------------------------------------------------
(* The helper of a transaction, by what it journals.                        *)

Journals(t, from, to) ==
    /\ helper[t] = "locked"
    /\ outcome[t] = from
    /\ outcome' = [outcome EXCEPT ![t] = to]

HelperLocks(t) ==
    /\ helper[t] = "spawned"
    /\ helper' = [helper EXCEPT ![t] = "locked"]
    /\ UNCHANGED <<app, coreVars, saved, sessionVars, outcome, ident, installer,
                   waitsFor, rebooted, lost, faults, crashes>>

\* A status read that probes apply.lock holds it when the helper wants it.
HelperRefused(t) ==
    /\ helper[t] = "spawned"
    /\ app /\ transaction = t /\ status # "preparing"
    /\ helper' = [helper EXCEPT ![t] = "none"]
    /\ UNCHANGED <<app, coreVars, saved, sessionVars, outcome, ident, installer,
                   waitsFor, rebooted, lost, faults, crashes>>

HelperAnnounces(t) ==
    /\ Journals(t, "Prepared", "WaitingForExit")
    /\ UNCHANGED <<app, coreVars, saved, sessionVars, ident, helper, installer,
                   waitsFor, rebooted, lost, faults, crashes>>

\* The original application has exited: the swap, or the native installer.
HelperInstalls(t) ==
    /\ t \notin waitsFor
    /\ Journals(t, "WaitingForExit", "Installing")
    /\ installer' = IF t \in Managed THEN installer \cup {t} ELSE installer
    /\ UNCHANGED <<app, coreVars, saved, sessionVars, ident, helper, waitsFor,
                   rebooted, lost, faults, crashes>>

InstallerEnds(t) ==
    /\ t \in installer
    /\ installer' = installer \ {t}
    /\ UNCHANGED <<app, coreVars, saved, sessionVars, outcome, ident, helper,
                   waitsFor, rebooted, lost, faults, crashes>>

HelperStartsUpdated(t) ==
    /\ t \notin installer
    /\ Journals(t, "Installing", "AwaitingStartup")
    /\ UNCHANGED <<app, coreVars, saved, sessionVars, ident, helper, installer,
                   waitsFor, rebooted, lost, faults, crashes>>

\* The monitoring deadline of the installer; its identity may be missing.
HelperLeavesInstaller(t) ==
    /\ t \in installer
    /\ Journals(t, "Installing", "ManagedPending")
    /\ ident' \in {ident, ident \cup {t}}
    /\ helper' = [helper EXCEPT ![t] = "none"]
    /\ UNCHANGED <<app, coreVars, saved, sessionVars, installer, waitsFor,
                   rebooted, lost, faults, crashes>>

\* The acknowledgement came; or a step failed: the installation is rolled
\* back, or left alone.  With a fault the outcome may not be written, or an
\* installer may be left running.
HelperEnds(t) ==
    /\ helper[t] = "locked"
    /\ helper' = [helper EXCEPT ![t] = "none"]
    /\ \/ /\ t \notin installer
          /\ outcome' = [outcome EXCEPT ![t] = "Failed"]
          /\ NoFault
       \/ /\ outcome[t] = "AwaitingStartup"
          /\ app
          /\ outcome' = [outcome EXCEPT ![t] = "Completed"]
          /\ NoFault
       \/ /\ outcome[t] \in {"Installing", "AwaitingStartup"}
          /\ t \notin Managed
          /\ outcome' = [outcome EXCEPT ![t] = "RolledBack"]
          /\ NoFault
       \/ /\ Fault
          /\ outcome' \in {outcome, [outcome EXCEPT ![t] = "Failed"]}
    /\ UNCHANGED <<app, coreVars, saved, sessionVars, ident, installer, waitsFor,
                   rebooted, lost, crashes>>

HelperCrash(t) ==
    /\ helper[t] # "none"
    /\ Crash
    /\ helper' = [helper EXCEPT ![t] = "none"]
    /\ UNCHANGED <<app, coreVars, saved, sessionVars, outcome, ident, installer,
                   waitsFor, rebooted, lost, faults>>

-----------------------------------------------------------------------------
(* The application, its core and the machine.                               *)

\* What a core that has just been started, or is not running, has in memory.
Forgotten ==
    /\ available' = FALSE
    /\ downloaded' = FALSE
    /\ op' = "none"
    /\ current' = NoTxn
    /\ transition' = FALSE
    /\ seat' = "none"
    /\ streamer' = "stopped"
    /\ overlooked' = {}

\* UpdaterService::new: read_prepared_update, or its record is dropped.
ReadPrepared ==
    \/ /\ status' = "idle"
       /\ transaction' = saved
       /\ UNCHANGED <<saved, lost, faults>>
    \/ /\ Fault
       /\ saved # NoTxn
       /\ status' = "failed"
       /\ ClearTransaction
       /\ lost' = lost \cup {saved}

\* The shell starts a new core; the application itself goes on.
RestartCore ==
    /\ app
    /\ Crash
    /\ Forgotten
    /\ ReadPrepared
    /\ UNCHANGED <<app, helperVars>>

ExitApp ==
    /\ app
    /\ app' = FALSE
    /\ Forgotten
    /\ status' = "idle"
    /\ transaction' = NoTxn
    /\ waitsFor' = {}
    /\ UNCHANGED <<saved, outcome, ident, helper, installer, rebooted, lost,
                   faults, crashes>>

\* By the user, or by a helper that starts the updated or restored one.
StartApp ==
    /\ ~app
    /\ app' = TRUE
    /\ Forgotten
    /\ ReadPrepared
    /\ UNCHANGED <<helperVars, crashes>>

Reboot ==
    /\ Crash
    /\ app' = FALSE
    /\ Forgotten
    /\ status' = "idle"
    /\ transaction' = NoTxn
    /\ waitsFor' = {}
    /\ helper' = [t \in Txns |-> "none"]
    /\ installer' = {}
    /\ rebooted' = {t \in Txns : outcome[t] # "none"}
    /\ UNCHANGED <<saved, outcome, ident, lost, faults>>

-----------------------------------------------------------------------------
CoreStep ==
    \/ BeginCheck \/ FinishCheck \/ BeginDownload \/ FinishDownload
    \/ BeginInstall

\* What install does once it has been confirmed.
LaunchStep ==
    \/ (\E t \in Txns : PrepareTransaction(t)) \/ SpawnHelper
    \/ InstallLaunched \/ InstallFails

SessionStep ==
    \/ BeginTransition \/ FinishTransition \/ EndSeat \/ ChangeAccount
    \/ ReportStatus \/ EndStreamer

HelperStep(t) ==
    \/ HelperLocks(t) \/ HelperRefused(t) \/ HelperAnnounces(t)
    \/ HelperInstalls(t) \/ HelperStartsUpdated(t) \/ HelperLeavesInstaller(t)
    \/ HelperEnds(t)

Next ==
    \/ GetState \/ CoreStep \/ LaunchStep \/ SessionStep
    \/ \E t \in Txns : HelperStep(t) \/ InstallerEnds(t) \/ HelperCrash(t)
    \/ RestartCore \/ ExitApp \/ StartApp \/ Reboot

Spec == Init /\ [][Next]_vars

\* Threads and helpers run, and installers end; the shell reads the status.
FairSpec ==
    /\ Spec
    /\ WF_vars(GetState)
    /\ WF_vars(LaunchStep)
    /\ \A t \in Txns : WF_vars(HelperStep(t)) /\ WF_vars(InstallerEnds(t))

-----------------------------------------------------------------------------
\* The helper of a transaction is on its way to replace the application.
Updating(t) == helper[t] # "none" /\ outcome[t] \in InFlight

\* A session is being started, or there is a seat or a streamer that install
\* could see.
SessionBusy ==
    \/ transition
    \/ seat # "none" /\ "seat" \notin overlooked
    \/ streamer # "stopped" /\ "streamer" \notin overlooked

\* No session is started, no seat is held and no streamer runs while a helper
\* waits to replace, or is replacing, the application: whatever the order of
\* install, session transitions, account changes, status reads, exits and
\* restarts.  Excepted are what install could not see, which is a seat whose
\* account was not signed in and a streamer whose status a late streamer.stop
\* or its child had set to stopped (`overlooked`), and helpers that the core
\* could not see (`lost`).
SessionExcludesUpdate ==
    SessionBusy => \A t \in Txns \ lost : ~Updating(t)

\* There is one update at a time: two helpers would swap the same
\* installation from two transaction directories.
OneUpdateAtATime ==
    \A t, u \in Txns \ lost : Updating(t) /\ Updating(u) => t = u

\* What operation and gate exclude, and what a core holds in memory.
OperationInv ==
    /\ ~app => op = "none" /\ ~SessionBusy /\ transaction = NoTxn
    /\ transaction \in {NoTxn, saved}
    /\ SessionBusy => ~Installing /\ transaction = NoTxn
    /\ op \in {"spawn", "launch"} => current \in Txns
    /\ op = "prepare" => transaction = NoTxn

\* Until install has returned, the record can only be of what it prepared;
\* before the helper is spawned, only a failed read can have dropped it.
LaunchInv ==
    /\ op = "prepare" => status = "preparing"
    /\ op \in {"spawn", "launch"} => saved \in {current, NoTxn}
    /\ op = "spawn" =>
         /\ outcome[current] = "Prepared"
         /\ helper[current] = "none"
         /\ \/ transaction = current /\ status = "preparing"
            \/ current \in lost

\* Every helper that is on its way has its transaction on record, and a
\* running core knows it.
HelperInv ==
    /\ \A t \in Txns \ lost :
         Updating(t) => saved = t /\ (app => transaction = t)
    /\ \A t \in Txns : helper[t] = "spawned" => outcome[t] = "Prepared"
    /\ \A t \in Txns : outcome[t] = "none" => helper[t] = "none"
    /\ \A t \in Txns :
         outcome[t] = "ManagedPending" => helper[t] = "none"

\* The inductive strengthening of the two properties above.
UpdaterInv ==
    /\ TypeOK
    /\ OperationInv
    /\ LaunchInv
    /\ HelperInv

\* The status does not stay pending: the shell is told how the update ended.
\* Only an installer without an identity needs a restart of the machine.
PendingEnds ==
    status \in Pending ~>
        \/ status \notin Pending
        \/ transaction # NoTxn /\ outcome[transaction] = "ManagedPending"
             /\ transaction \notin ident

\* "If an installer process cannot be identified, the core keeps the
\* transaction pending until a recorded boot change proves that the previous
\* installer has stopped": the record of a transaction, which blocks sessions
\* and other updates, is kept while its installer runs.
InstallerKeepsTransaction == \A t \in installer \ lost : saved = t

\* "It rejects installation while a CloudMatch session exists": there is no
\* seat while install prepares and starts a helper.
InstallMeetsNoSeat == Installing => seat = "none"

=============================================================================
