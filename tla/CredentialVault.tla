--------------------------- MODULE CredentialVault ---------------------------
(***************************************************************************)
(* The saved accounts of the core: CredentialVault (credential_vault.rs)   *)
(* and the operations of GfnService (gfn.rs) that sign in, renew, switch,  *)
(* sign out and restore.                                                   *)
(*                                                                         *)
(* Four places hold an account: the OS credential store (`store`), the     *)
(* index accounts.json (`index`), a plaintext file of an earlier native    *)
(* version (`file`) and the document of the Electron version (`document`). *)
(* None of them can be written together with another, each write may fail, *)
(* and the core may die between any two of them.                           *)
(*                                                                         *)
(* All operations run under GfnService.auth_operation, one at a time.      *)
(* `task` is the program point of the running one and `call` that of the   *)
(* save or remove it has called: each write is one step.  The accounts a   *)
(* loop has still to visit are a set, taken in any order; only the active  *)
(* account is always tried first.  A grant is a number, larger for a later *)
(* one; 0 is none.  Legacy sources that discovery cannot read or parse,    *)
(* PINs and the revocation request (without effect here) are left out.     *)
(***************************************************************************)
EXTENDS Integers, FiniteSets

CONSTANTS
    Users,      \* user IDs
    NoUser,     \* no user
    MaxGrant,   \* bound: grants the service issues
    MaxFaults,  \* bound: failed reads and writes
    MaxCrashes  \* bound: deaths of the core

ASSUME VaultAssumption ==
    /\ NoUser \notin Users /\ IsFiniteSet(Users)
    /\ MaxGrant \in Nat /\ MaxFaults \in Nat /\ MaxCrashes \in Nat

VARIABLES
    store,       \* user -> grant in the OS credential store
    index,       \* accounts.json: Metadata
    file,        \* user -> grant in sessions/<user>.json
    document,    \* user -> grant in auth-state.json
    suppressed,  \* CredentialVault.suppressed, in memory
    session,     \* ServiceState.session and whether it is to be persisted
    restored,    \* restore_attempted
    task,        \* where the running operation is
    call,        \* where the vault call it waits for is
    saved,       \* result of the last vault.save
    failures,    \* the running operation has recorded a failure
    granted,     \* the last grant the service issued
    faults,
    crashes,
    signedOut,   \* history: signed out with the suppression committed
    faulty       \* history: something failed since the core started

vault == <<store, index, file, document, suppressed>>
service == <<session, restored, granted>>
vars == <<vault, service, task, call, saved, failures, faults, crashes,
          signedOut, faulty>>

-----------------------------------------------------------------------------
NoSession == [user |-> NoUser, grant |-> 0, secure |-> FALSE, state |-> "none"]
NoIndex == [active |-> NoUser, accounts |-> {}, suppressed |-> {},
            discarded |-> {}]
LegacyGrant == 1

\* CredentialVault::save and ::remove, at their first write.
NoCall == [at |-> "none", user |-> NoUser, grant |-> 0]
SaveCall(u, g) == [at |-> "secret", user |-> u, grant |-> g]
RemoveCall(u) == [at |-> "suppress", user |-> u, grant |-> 0]

\* A program point of an operation: with the accounts a loop has to visit, or
\* with the account and the grant it deals with.  `active` is the active user
\* it read when it began.
Loop(at, us) == [at |-> at, user |-> NoUser, grant |-> 0, users |-> us,
                 active |-> NoUser]
With(at, u, g) == [Loop(at, {}) EXCEPT !.user = u, !.grant = g]
NoTask == Loop("idle", {})

At(point) == task.at = point /\ call.at = "none"
Idle == At("idle")
Goto(point) == task' = [task EXCEPT !.at = point]
Done == task' = NoTask
Left(u) == task.users \ {u}

\* One write or read fails; a write that fails may have been made (an index
\* that cannot be flushed, a secret that cannot be verified).
Fault ==
    /\ faults < MaxFaults
    /\ faults' = faults + 1 /\ faulty' = TRUE
NoFault == UNCHANGED <<faults, faulty>>

\* CredentialVault::load_legacy_session
Legacy(u) ==
    IF u \in index.discarded THEN 0
    ELSE IF file[u] # 0 THEN file[u] ELSE document[u]

Nothing == [grant |-> 0, save |-> FALSE, err |-> FALSE, fault |-> FALSE]

\* Mutant: a legacy source is read before the credential store.
LoadResultsLegacyFirst(u) ==
    IF u \in suppressed \cup index.suppressed THEN {Nothing}
    ELSE {[grant |-> IF Legacy(u) # 0 THEN Legacy(u) ELSE store[u],
           save |-> Legacy(u) # 0, err |-> FALSE, fault |-> FALSE]}

\* CredentialVault::load: the grant, whether it is saved again before it is
\* returned, whether the result is an error, and whether a read failed (of the
\* store, for which a legacy source stands in, or of anything else).
LoadResults(u) ==
    IF u \in suppressed \cup index.suppressed THEN {Nothing}
    ELSE {[grant |-> IF store[u] # 0 THEN store[u] ELSE Legacy(u),
           save |-> IF store[u] # 0 THEN file[u] # 0 ELSE Legacy(u) # 0,
           err |-> FALSE, fault |-> FALSE],
          [grant |-> Legacy(u), save |-> FALSE, err |-> Legacy(u) = 0,
           fault |-> TRUE],
          [Nothing EXCEPT !.err = TRUE, !.fault = TRUE]}

\* The call of load with that result.
Load(u, r) ==
    /\ IF r.fault THEN Fault ELSE NoFault
    /\ call' = IF r.save THEN SaveCall(u, r.grant) ELSE NoCall

\* CredentialVault::discovered_user_ids: the index, the document, the files.
Discovered ==
    {u \in Users : u = index.active \/ u \in index.accounts
                   \/ document[u] # 0 \/ file[u] # 0} \ index.suppressed

\* An earlier version has left files with their index, a document, or both.
Init ==
    /\ store = [u \in Users |-> 0]
    /\ \E inFile, inDocument \in SUBSET Users :
          /\ file = [u \in Users |-> IF u \in inFile THEN LegacyGrant ELSE 0]
          /\ document = [u \in Users |->
                            IF u \in inDocument THEN LegacyGrant ELSE 0]
          /\ \E active \in IF inFile = {} THEN {NoUser} ELSE inFile :
                index = [NoIndex EXCEPT !.accounts = inFile, !.active = active]
    /\ suppressed = {} /\ session = NoSession /\ restored = FALSE
    /\ task = Loop("migrate", {}) /\ call = NoCall
    /\ saved = FALSE /\ failures = FALSE /\ granted = LegacyGrant
    /\ faults = 0 /\ crashes = 0 /\ signedOut = {} /\ faulty = FALSE

-----------------------------------------------------------------------------
(* The writes of CredentialVault::save.                                     *)

\* store.set, then store.get to verify
SaveSecret ==
    LET written == [store EXCEPT ![call.user] = call.grant] IN
    /\ call.at = "secret"
    /\ \/ /\ NoFault
          /\ store' = written
          /\ call' = [call EXCEPT !.at = "index"]
          /\ UNCHANGED saved
       \/ /\ Fault
          /\ store' \in {store, written}
          /\ call' = NoCall
          /\ saved' = FALSE
    /\ UNCHANGED <<index, file, document, suppressed, service, task, failures,
                   crashes, signedOut>>

\* write_metadata; the suppression of the account ends
SaveIndex ==
    LET u == call.user
        written == [index EXCEPT !.suppressed = @ \ {u}, !.active = u,
                                 !.accounts = @ \cup {u}] IN
    /\ call.at = "index"
    /\ \/ /\ NoFault
          /\ index' = written
          /\ suppressed' = suppressed \ {u}
          /\ saved' = TRUE
          /\ call' = [call EXCEPT !.at = "clean"]
       \/ /\ Fault
          /\ index' \in {index, written}
          /\ saved' = FALSE
          /\ call' = NoCall
          /\ UNCHANGED suppressed
    /\ UNCHANGED <<store, file, document, service, task, failures, crashes,
                   signedOut>>

\* remove_session_file, by save ("clean") and by remove ("unfile")
RemoveSessionFile ==
    /\ call.at \in {"clean", "unfile"}
    /\ \/ /\ NoFault
          /\ file' = [file EXCEPT ![call.user] = 0]
          /\ UNCHANGED failures
       \/ /\ Fault /\ file[call.user] # 0
          /\ failures' = (failures \/ call.at = "unfile")
          /\ UNCHANGED file
    /\ call' = NoCall
    /\ UNCHANGED <<store, index, document, suppressed, service, task, saved,
                   crashes, signedOut>>

(* The writes of CredentialVault::remove.                                   *)

\* The active user of the index once the account is off the list.
Successors ==
    LET rest == index.accounts \ {call.user} IN
    IF index.active # call.user THEN {index.active}
    ELSE IF rest = {} THEN {NoUser} ELSE rest

\* Mutant: the account is taken off the list, its suppression is not written.
SuppressInMemory ==
    LET u == call.user IN
    /\ call.at = "suppress"
    /\ suppressed' = suppressed \cup {u}
    /\ \E active \in Successors :
          index' = [index EXCEPT !.active = active, !.accounts = @ \ {u}]
    /\ signedOut' = signedOut \cup {u}
    /\ NoFault
    /\ call' = [call EXCEPT !.at = "delete"]
    /\ UNCHANGED <<store, file, document, service, task, saved, failures, crashes>>

\* The suppression in memory, then in the index
Suppress ==
    LET u == call.user IN
    /\ call.at = "suppress"
    /\ suppressed' = suppressed \cup {u}
    /\ \/ /\ \E active \in Successors :
                index' = [active |-> active, accounts |-> index.accounts \ {u},
                          suppressed |-> index.suppressed \cup {u},
                          discarded |-> index.discarded \cup {u}]
          /\ signedOut' = signedOut \cup {u}
       \/ Fault /\ UNCHANGED <<index, signedOut>>
    /\ \/ NoFault /\ UNCHANGED failures
       \/ Fault /\ failures' = TRUE
    /\ call' = [call EXCEPT !.at = "delete"]
    /\ UNCHANGED <<store, file, document, service, task, saved, crashes>>

\* store.delete
DeleteSecret ==
    /\ call.at = "delete"
    /\ \/ /\ NoFault
          /\ store' = [store EXCEPT ![call.user] = 0]
          /\ UNCHANGED failures
       \/ /\ Fault
          /\ failures' = TRUE
          /\ UNCHANGED store
    /\ call' = [call EXCEPT !.at = "unfile"]
    /\ UNCHANGED <<index, file, document, suppressed, service, task, saved,
                   crashes, signedOut>>

-----------------------------------------------------------------------------
(* migrate_legacy_electron_sessions.                                        *)

\* Mutant: a removal that failed is not tried again.
MigrateWithoutRetry ==
    /\ At("migrate")
    /\ NoFault
    /\ task' = [Loop("retry", {}) EXCEPT !.active = index.active]
    /\ UNCHANGED <<vault, service, call, saved, failures, crashes, signedOut>>

\* The index is read; what is suppressed is to be removed again.
Migrate ==
    /\ At("migrate")
    /\ \/ /\ NoFault
          /\ task' = [Loop("retry", index.suppressed)
                         EXCEPT !.active = index.active]
       \/ Fault /\ Done
    /\ UNCHANGED <<vault, service, call, saved, failures, crashes, signedOut>>

\* One of these is removed; then the accounts are discovered.
Retry(u) ==
    /\ At("retry") /\ u \in task.users
    /\ call' = RemoveCall(u)
    /\ task' = [task EXCEPT !.users = Left(u)]
    /\ UNCHANGED <<vault, service, saved, failures, faults, faulty, crashes,
                   signedOut>>

Discover ==
    /\ At("retry") /\ task.users = {}
    /\ \/ NoFault /\ task' = [task EXCEPT !.at = "load", !.users = Discovered]
       \/ Fault /\ Done
    /\ UNCHANGED <<vault, service, call, saved, failures, crashes, signedOut>>

\* A discovered account is loaded, for its effect.
LoadOne(u, r) ==
    /\ At("load") /\ u \in task.users
    /\ Load(u, r)
    /\ failures' = (failures \/ r.err)
    /\ task' = IF r.grant = 0 THEN [task EXCEPT !.users = Left(u)]
               ELSE [task EXCEPT !.at = "durable", !.users = Left(u),
                                 !.user = u, !.grant = r.grant]
    /\ UNCHANGED <<vault, service, saved, crashes, signedOut>>

LoadsDone ==
    /\ At("load") /\ task.users = {}
    /\ Goto("select")
    /\ UNCHANGED <<vault, service, call, saved, failures, faults, faulty,
                   crashes, signedOut>>

\* CredentialVault::durable
Durable ==
    /\ At("durable")
    /\ \/ NoFault /\ failures' = (failures \/ store[task.user] # task.grant)
       \/ Fault /\ failures' = TRUE
    /\ Goto("load")
    /\ UNCHANGED <<vault, service, call, saved, crashes, signedOut>>

\* CredentialVault::set_active; on an error the caller returns.
SetActive(u, next) ==
    LET written == [index EXCEPT !.active = u] IN
    \/ u \in index.accounts /\ NoFault /\ index' = written /\ Goto(next)
    \/ u \in index.accounts /\ Fault /\ index' \in {index, written} /\ Done
    \/ u \notin index.accounts /\ NoFault /\ UNCHANGED index /\ Done

\* The active account is selected again, after the loads ("select") and before
\* the document is removed ("reselect").
Select ==
    /\ At("select") \/ At("reselect")
    /\ LET next == IF task.at = "select" THEN "import" ELSE "discard" IN
       IF task.active \in index.suppressed \cup {NoUser}
       THEN Goto(next) /\ NoFault /\ UNCHANGED index
       ELSE SetActive(task.active, next)
    /\ UNCHANGED <<store, file, document, suppressed, service, call, saved,
                   failures, crashes, signedOut>>

InDocument == {u \in Users : document[u] # 0}

\* The document is read; of its accounts those that were not removed are saved.
Import ==
    /\ At("import")
    /\ \/ /\ InDocument = {} /\ NoFault
          /\ Done
       \/ /\ Fault
          /\ Done
       \/ /\ InDocument # {} /\ NoFault
          /\ \E active \in IF task.active # NoUser THEN {task.active}
                           ELSE InDocument \cup {NoUser} :
                task' = [task EXCEPT !.at = "copy", !.active = active,
                             !.users = InDocument
                                       \ (index.suppressed \cup index.discarded)]
    /\ UNCHANGED <<vault, service, call, saved, failures, crashes, signedOut>>

\* One of them, from the store if the store has it.
Copy(u) ==
    /\ At("copy") /\ u \in task.users
    /\ \/ /\ NoFault
          /\ call' = SaveCall(u, IF store[u] # 0 THEN store[u] ELSE document[u])
          /\ task' = [task EXCEPT !.at = "copied", !.user = u, !.users = Left(u)]
          /\ UNCHANGED failures
       \/ /\ Fault /\ failures' = TRUE
          /\ task' = [task EXCEPT !.users = Left(u)]
          /\ UNCHANGED call
    /\ UNCHANGED <<vault, service, saved, crashes, signedOut>>

\* A failure leaves the document, and the selection of the last save.
CopiesDone ==
    /\ At("copy") /\ task.users = {}
    /\ IF failures THEN Done ELSE Goto("reselect")
    /\ UNCHANGED <<vault, service, call, saved, failures, faults, faulty,
                   crashes, signedOut>>

\* Mutant: a failed import is not recorded.
CopiedIgnored ==
    /\ At("copied")
    /\ Goto("copy")
    /\ UNCHANGED <<vault, service, call, saved, failures, faults, faulty,
                   crashes, signedOut>>

Copied ==
    /\ At("copied")
    /\ failures' = (failures \/ ~saved)
    /\ Goto("copy")
    /\ UNCHANGED <<vault, service, call, saved, faults, faulty, crashes,
                   signedOut>>

DiscardDocument ==
    /\ At("discard")
    /\ \/ NoFault /\ document' = [u \in Users |-> 0]
       \/ Fault /\ UNCHANGED document
    /\ Done
    /\ UNCHANGED <<store, index, file, suppressed, service, call, saved,
                   failures, crashes, signedOut>>

-----------------------------------------------------------------------------
(* CredentialVault::load_active and what its callers make of the result.    *)

\* The candidates of restore_next_account
RestoreNext ==
    /\ At("next")
    /\ \/ NoFault /\ task' = Loop("try", Discovered)
       \/ Fault /\ task' = Loop("try", {})
    /\ UNCHANGED <<vault, service, call, saved, failures, crashes, signedOut>>

\* A candidate is loaded, the active account first; if there is nothing, the
\* next one is tried.
Try(u, r) ==
    /\ At("try") /\ u \in task.users
    /\ index.active \in task.users => u = index.active
    /\ Load(u, r)
    /\ task' = IF r.grant = 0 THEN Loop("try", Left(u))
               ELSE With(IF index.active = u THEN "adopt" ELSE "prefer",
                         u, r.grant)
    /\ UNCHANGED <<vault, service, saved, failures, crashes, signedOut>>

\* Without a candidate there is no session.
NobodyLeft ==
    /\ At("try") /\ task.users = {}
    /\ session' = NoSession /\ restored' = TRUE
    /\ Done
    /\ UNCHANGED <<vault, granted, call, saved, failures, faults, faulty,
                   crashes, signedOut>>

\* set_active in load_active: an error is only logged.
Prefer ==
    LET written == [index EXCEPT !.active =
                       IF task.user \in index.accounts THEN task.user ELSE @] IN
    /\ At("prefer")
    /\ \/ NoFault /\ index' = written
       \/ Fault /\ index' \in {index, written}
    /\ Goto("adopt")
    /\ UNCHANGED <<store, file, document, suppressed, service, call, saved,
                   failures, crashes, signedOut>>

\* restore_next_account, resolve_session_locked, switch_account: the loaded
\* session is the session.
Adopt ==
    /\ At("adopt")
    /\ \E durable \in {store[task.user] = task.grant, FALSE} :
          /\ IF durable = (store[task.user] = task.grant) THEN NoFault ELSE Fault
          /\ session' = [user |-> task.user, grant |-> task.grant,
                         secure |-> TRUE,
                         state |-> IF durable THEN "secure-store"
                                   ELSE "migration-pending"]
    /\ restored' = TRUE
    /\ Done
    /\ UNCHANGED <<vault, granted, call, saved, failures, crashes, signedOut>>

\* Mutant: the outcome of the save is not looked at.
EnterUnverified ==
    /\ At("enter") \/ At("visit")
    /\ session' = [user |-> task.user, grant |-> task.grant,
                   secure |-> task.at = "enter",
                   state |-> IF task.at = "enter" THEN "secure-store"
                             ELSE "memory-only"]
    /\ Done
    /\ UNCHANGED <<vault, restored, granted, call, saved, failures, faults,
                   faulty, crashes, signedOut>>

\* complete_device_login, store_refreshed_session: the session in hand is the
\* session, whatever became of its save ("visit": it is not saved).
Enter ==
    /\ At("enter") \/ At("visit")
    /\ session' = [user |-> task.user, grant |-> task.grant,
                   secure |-> task.at = "enter",
                   state |-> IF task.at = "enter" /\ saved THEN "secure-store"
                             ELSE "memory-only"]
    /\ Done
    /\ UNCHANGED <<vault, restored, granted, call, saved, failures, faults,
                   faulty, crashes, signedOut>>

-----------------------------------------------------------------------------
(* The operations of GfnService.                                            *)

\* auth_operation is taken.
Begin(next) ==
    /\ Idle
    /\ task' = next
    /\ failures' = FALSE

\* resolve_session_locked, the first time
Restore ==
    /\ session.user = NoUser /\ ~restored
    /\ restored' = TRUE
    /\ \/ NoFault /\ Begin(Loop("try", Discovered))
       \/ Fault /\ Begin(Loop("try", {}))
    /\ UNCHANGED <<vault, session, granted, call, saved, crashes, signedOut>>

\* complete_device_login
CompleteDeviceLogin(u, stay) ==
    /\ granted < MaxGrant
    /\ granted' = granted + 1
    /\ restored' = TRUE
    /\ Begin(With(IF stay THEN "enter" ELSE "visit", u, granted + 1))
    /\ call' = IF stay THEN SaveCall(u, granted + 1) ELSE RemoveCall(u)
    /\ signedOut' = IF stay THEN signedOut \ {u} ELSE signedOut
    /\ UNCHANGED <<vault, session, saved, faults, faulty, crashes>>

\* refresh_session or update_client_token, then store_refreshed_session
Refresh(g) ==
    /\ session.user # NoUser
    /\ g <= MaxGrant
    /\ granted' = IF g > granted THEN g ELSE granted
    /\ Begin(With(IF session.secure THEN "enter" ELSE "visit", session.user, g))
    /\ call' = IF session.secure THEN SaveCall(session.user, g) ELSE NoCall
    /\ UNCHANGED <<vault, session, restored, saved, faults, faulty, crashes,
                   signedOut>>

\* resolve_session_locked: the refresh is refused for good; the account is
\* removed, then there is no session.
Revoked ==
    /\ session.user # NoUser
    /\ Begin(Loop("try", {}))
    /\ call' = RemoveCall(session.user)
    /\ UNCHANGED <<vault, service, saved, faults, faulty, crashes, signedOut>>

\* logout: invalidate_auth_work, cleanup_account, restore_next_account
Logout ==
    /\ Begin(Loop("next", {}))
    /\ session' = NoSession /\ restored' = TRUE
    /\ call' = IF session.user = NoUser THEN NoCall ELSE RemoveCall(session.user)
    /\ UNCHANGED <<vault, granted, saved, faults, faulty, crashes, signedOut>>

\* switch_account: the account must load and be on the list.
SwitchAccount(u, r) ==
    /\ r.grant # 0
    /\ Begin(With("switch", u, r.grant))
    /\ Load(u, r)
    /\ UNCHANGED <<vault, service, saved, crashes, signedOut>>

Switch ==
    /\ At("switch")
    /\ SetActive(task.user, "adopt")
    /\ UNCHANGED <<store, file, document, suppressed, service, call, saved,
                   failures, crashes, signedOut>>

\* remove_account, of the account of the session
RemoveCurrent(u) ==
    /\ session.user = u
    /\ session' = NoSession /\ restored' = TRUE
    /\ Begin(Loop("next", {}))
    /\ call' = RemoveCall(u)
    /\ UNCHANGED <<vault, granted, saved, faults, faulty, crashes, signedOut>>

\* and of another one, which is loaded first and thereby saved once more
RemoveOther(u, r) ==
    /\ session.user # u
    /\ restored' = TRUE
    /\ Begin(With("removal", u, 0))
    /\ Load(u, r)
    /\ UNCHANGED <<vault, session, granted, saved, crashes, signedOut>>

\* logout_all
LogoutAll ==
    /\ \E listed \in {index.accounts, {}} :
          /\ IF listed = index.accounts THEN NoFault ELSE Fault
          /\ Begin([Loop("forget", listed \cup ({session.user} \ {NoUser}))
                       EXCEPT !.active = session.user])
    /\ session' = NoSession /\ restored' = TRUE
    /\ UNCHANGED <<vault, granted, call, saved, crashes, signedOut>>

\* A listed account is loaded and removed, the session's is only removed.
ForgetCurrent(u) ==
    /\ At("forget") /\ u \in task.users /\ u = task.active
    /\ call' = RemoveCall(u)
    /\ task' = [task EXCEPT !.users = Left(u)]
    /\ UNCHANGED <<vault, service, saved, failures, faults, faulty, crashes,
                   signedOut>>

ForgetOther(u, r) ==
    /\ At("forget") /\ u \in task.users /\ u # task.active
    /\ Load(u, r)
    /\ task' = [task EXCEPT !.at = "forgetting", !.user = u, !.users = Left(u)]
    /\ UNCHANGED <<vault, service, saved, failures, crashes, signedOut>>

\* cleanup_account of the account that was loaded
Cleanup ==
    /\ At("forgetting") \/ At("removal")
    /\ call' = RemoveCall(task.user)
    /\ IF task.at = "removal" THEN Done ELSE Goto("forget")
    /\ UNCHANGED <<vault, service, saved, failures, faults, faulty, crashes,
                   signedOut>>

\* remove_all, of what is discovered and what was removed before
RemoveAll ==
    /\ At("forget") /\ task.users = {}
    /\ \/ NoFault /\ task' = Loop("sweep", Discovered \cup index.suppressed)
       \/ Fault /\ Done
    /\ UNCHANGED <<vault, service, call, saved, failures, crashes, signedOut>>

Sweep(u) ==
    /\ At("sweep") /\ u \in task.users
    /\ call' = RemoveCall(u)
    /\ task' = [task EXCEPT !.users = Left(u)]
    /\ UNCHANGED <<vault, service, saved, failures, faults, faulty, crashes,
                   signedOut>>

SweepDone ==
    /\ At("sweep") /\ task.users = {}
    /\ Done
    /\ UNCHANGED <<vault, service, call, saved, failures, faults, faulty,
                   crashes, signedOut>>

\* The core dies and is started again: with_client migrates.
Crash ==
    /\ crashes < MaxCrashes
    /\ crashes' = crashes + 1
    /\ suppressed' = {} /\ session' = NoSession /\ restored' = FALSE
    /\ task' = Loop("migrate", {}) /\ call' = NoCall
    /\ saved' = FALSE /\ failures' = FALSE /\ faulty' = FALSE
    /\ UNCHANGED <<store, index, file, document, granted, faults, signedOut>>

-----------------------------------------------------------------------------
VaultCall == SaveSecret \/ SaveIndex \/ RemoveSessionFile \/ Suppress \/ DeleteSecret

Migration ==
    \/ Migrate \/ Discover \/ LoadsDone \/ Durable \/ Select \/ Import
    \/ CopiesDone \/ Copied \/ DiscardDocument
    \/ \E u \in Users : Retry(u) \/ Copy(u) \/ \E r \in LoadResults(u) : LoadOne(u, r)

Running ==
    \/ RestoreNext \/ NobodyLeft \/ Prefer \/ Adopt \/ Enter \/ Switch
    \/ Cleanup \/ RemoveAll \/ SweepDone
    \/ \E u \in Users : \/ ForgetCurrent(u) \/ Sweep(u)
                        \/ \E r \in LoadResults(u) : Try(u, r) \/ ForgetOther(u, r)

Operation ==
    \/ Restore \/ Revoked \/ Logout \/ LogoutAll
    \/ \E u \in Users :
          \/ \E stay \in BOOLEAN : CompleteDeviceLogin(u, stay)
          \/ RemoveCurrent(u)
          \/ \E r \in LoadResults(u) : SwitchAccount(u, r) \/ RemoveOther(u, r)
    \/ \E g \in {session.grant, granted + 1} : Refresh(g)

Next == VaultCall \/ Migration \/ Running \/ Operation \/ Crash

Spec == Init /\ [][Next]_vars

-----------------------------------------------------------------------------
\* A user who signed out, was removed, was revoked or asked for a temporary
\* sign-in, and whose suppression reached accounts.json, is not signed in
\* again by a restore, a migration, a switch or a logout of somebody else,
\* whatever fails and whenever the core dies: only by a new sign-in.
SignedOutStaysOut ==
    Idle /\ session.user \in signedOut =>
        ~session.secure /\ session.state = "memory-only"

\* A session reported as secure-store is what a core that starts now finds:
\* its grant is in the credential store and the account is discovered.
SecureStoreSurvivesRestart ==
    Idle /\ session.state = "secure-store" =>
        /\ store[session.user] = session.grant
        /\ session.user \in Discovered

\* In a run of the core in which nothing fails, nothing is left of a removed
\* account once an operation is over, also when the removal was interrupted by
\* a failure or a death of an earlier run.
RemovedIsCleaned ==
    Idle /\ ~faulty =>
        \A u \in index.suppressed : store[u] = 0 /\ file[u] = 0

\* A grant in the credential store is replaced by an older one only by the
\* session of that user that is signed in, and deleted only by a removal.
StoreKeepsNewest ==
    [][\A u \in Users : store'[u] < store[u] =>
          \/ call.at = "delete" /\ call.user = u
          \/ session.user = u /\ store'[u] = session.grant]_vars

\* A legacy source is removed only after its account is in the credential
\* store and in the index, or was removed (core-protocol.md:152).
LegacySourceKept ==
    [][\A u \in Users :
          (file'[u] < file[u] \/ document'[u] < document[u]) =>
             \/ store[u] # 0 /\ u \in index.accounts
             \/ u \in suppressed \cup index.discarded]_vars

-----------------------------------------------------------------------------
(* The inductive invariant.                                                 *)

SomeUser == Users \cup {NoUser}
Legacies == [Users -> {0, LegacyGrant}]
Indexes == [active : SomeUser, accounts : SUBSET Users,
            suppressed : SUBSET Users, discarded : SUBSET Users]
Sessions == [user : SomeUser, grant : Nat, secure : BOOLEAN,
             state : {"none", "secure-store", "migration-pending",
                      "memory-only"}]
Migrating == {"migrate", "retry", "load", "durable", "select", "import", "copy",
              "copied", "reselect", "discard"}
Points == Migrating \cup
          {"idle", "next", "try", "prefer", "adopt", "enter", "visit", "switch",
           "removal", "forget", "forgetting", "sweep"}
Tasks == [at : Points, user : SomeUser, grant : Nat, users : SUBSET Users,
          active : SomeUser]
Calls == [at : {"none", "secret", "index", "clean", "suppress", "delete",
                "unfile"},
          user : SomeUser, grant : Nat]

TypeOK ==
    /\ store \in [Users -> Nat] /\ file \in Legacies /\ document \in Legacies
    /\ index \in Indexes /\ session \in Sessions
    /\ task \in Tasks /\ call \in Calls
    /\ suppressed \subseteq Users /\ signedOut \subseteq Users
    /\ restored \in BOOLEAN /\ saved \in BOOLEAN /\ failures \in BOOLEAN
    /\ faulty \in BOOLEAN
    /\ granted \in Nat /\ faults \in Nat /\ crashes \in Nat

Saving == call.at \in {"secret", "index", "clean"}
Removing == call.at \in {"suppress", "delete", "unfile"}

\* Nobody holds a grant that was not issued, or an empty one.
GrantInv ==
    /\ LegacyGrant <= granted
    /\ \A u \in Users : store[u] <= granted
    /\ session.grant <= granted /\ task.grant <= granted /\ call.grant <= granted
    /\ session.user # NoUser => session.grant > 0
    /\ Saving => call.grant > 0
    /\ task.at \in {"durable", "prefer", "adopt", "switch", "enter", "visit"}
         => task.grant > 0

\* The active account is listed, and a removal is never undone in part.
IndexInv ==
    /\ index.active \in index.accounts \cup {NoUser}
    /\ index.suppressed \subseteq index.discarded
    /\ signedOut \subseteq index.suppressed

\* Who saves and who removes, and what the call has achieved so far.
CallInv ==
    /\ call.at # "none" => call.user \in Users
    /\ Saving =>
          /\ task.at \in {"durable", "copied", "prefer", "adopt", "enter",
                          "switch", "removal", "forgetting"}
          /\ call.user = task.user /\ call.user \notin signedOut
          /\ task.at = "enter" => call.grant = task.grant
    /\ call.at = "secret" =>
          IF task.at # "enter" THEN store[call.user] \in {0, call.grant}
          ELSE \/ store[call.user] <= call.grant
               \/ session.user = call.user /\ session.grant = call.grant
    /\ call.at \in {"index", "clean"} => store[call.user] = call.grant
    /\ call.at = "clean" => /\ call.user \in index.accounts \ index.suppressed
                            /\ saved
    /\ Removing =>
          /\ task.at \in {"retry", "visit", "try", "next", "forget", "sweep",
                          "idle"}
          /\ task.at = "try" => task.users = {}
    /\ call.at \in {"delete", "unfile"} => call.user \in suppressed

\* What an operation may rely on between its steps.
TaskInv ==
    /\ task.at \in {"durable", "copied", "prefer", "adopt", "switch", "enter",
                    "visit", "removal", "forgetting"} => task.user \in Users
    /\ task.at \in {"prefer", "adopt", "switch", "enter"}
         => task.user \notin signedOut
    /\ task.at \in {"prefer", "adopt"} => task.user \in Discovered
    /\ task.at = "switch" => task.user \notin index.suppressed
    /\ task.at = "try" => task.users \subseteq Discovered
    /\ At("enter") /\ saved => /\ store[task.user] = task.grant
                               /\ task.user \in Discovered
    /\ task.at \in {"copy", "copied"} =>
          \A u \in task.users : document[u] # 0 /\ u \notin index.suppressed
    /\ task.at \in {"reselect", "discard"} => ~failures

\* The running operation ends with another session than the one there is.
Replacing == \/ task.at \in {"enter", "visit"}
             \/ task.at = "try" /\ task.users = {}

SessionInv ==
    /\ session.user = NoUser => session = NoSession
    /\ (\/ task.at \in Migrating \cup {"next", "prefer", "forget", "forgetting",
                                       "sweep"}
        \/ task.at = "try" /\ task.users # {}) => session.user = NoUser
    /\ task.at = "removal" => task.user # session.user
    /\ Removing /\ call.user = session.user => Replacing
    /\ session.user \in signedOut /\ ~Replacing =>
          ~session.secure /\ session.state = "memory-only"
    /\ session.state = "secure-store" /\ ~Replacing =>
          store[session.user] = session.grant /\ session.user \in Discovered

\* What is left of a removed account is still to be removed.
CleanInv ==
    ~faulty => \A u \in index.suppressed :
        \/ store[u] = 0 /\ file[u] = 0
        \/ task.at = "migrate"
        \/ task.at = "retry" /\ u \in task.users
        \/ /\ call.user = u
           /\ \/ call.at \in {"index", "suppress", "delete"}
              \/ call.at = "unfile" /\ store[u] = 0

\* Each account of the document is removed, safe or still to be copied.
DocumentInv ==
    task.at \in {"copy", "copied", "reselect", "discard"} /\ ~failures =>
        \A u \in Users : document[u] # 0 =>
            \/ u \in index.discarded
            \/ store[u] # 0 /\ u \in index.accounts
            \/ task.at \in {"copy", "copied"} /\ u \in task.users
            \/ /\ task.at = "copied" /\ u = task.user
               /\ call.at \in {"secret", "index"} \/ (call.at = "none" /\ ~saved)

VaultInv == /\ TypeOK /\ GrantInv /\ IndexInv /\ CallInv /\ TaskInv
            /\ SessionInv /\ CleanInv /\ DocumentInv

=============================================================================
