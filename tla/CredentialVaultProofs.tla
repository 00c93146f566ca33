----------------------- MODULE CredentialVaultProofs -----------------------
(***************************************************************************)
(* Proofs about CredentialVault, for any set of accounts and any number of *)
(* grants, failures and deaths of the core.                                *)
(*                                                                         *)
(* VaultInv is inductive.  Its parts say what the call in progress has     *)
(* achieved (CallInv), what the operation that made it may rely on         *)
(* (TaskInv), what is left to clean up (CleanInv) and which accounts of    *)
(* the document are safe (DocumentInv); the properties are what they say   *)
(* when no operation runs, or of the one step that deletes something.      *)
(***************************************************************************)
EXTENDS CredentialVault, TLAPS

\* What a call of load leaves behind, with result r.
LoadOutcome(u, r) ==
    /\ r.grant \in Nat /\ r.grant <= granted
    /\ r.err \in BOOLEAN /\ r.save \in BOOLEAN
    /\ r.grant # 0 => u \notin index.suppressed
    /\ r.save => /\ r.grant > 0 /\ store[u] \in {0, r.grant}
                 /\ call' = SaveCall(u, r.grant)
    /\ ~r.save => call' = NoCall
    /\ call' = SaveCall(u, r.grant) \/ call' = NoCall

\* A step with or without a fault.
LEMMA FaultKept ==
    ASSUME TypeOK, Fault \/ NoFault
    PROVE  faults' \in Nat /\ faulty' \in BOOLEAN /\ (faulty => faulty')
<1>1. CASE Fault
  <2>1. faulty' = TRUE
    BY <1>1 DEF Fault
  <2>2. faults' \in Nat
    BY <1>1 DEF TypeOK, Fault
  <2> QED BY <2>1, <2>2
<1>2. CASE NoFault
  <2>1. faults' = faults /\ faulty' = faulty
    BY <1>2 DEF NoFault
  <2> QED BY <2>1, Zenon DEF TypeOK
<1> QED BY <1>1, <1>2

\* CredentialVault::load returns a grant that was issued, of an account that is
\* not removed, and saves it only if the store has no other.
LEMMA LoadKeeps ==
    ASSUME TypeOK, GrantInv, NEW u \in Users,
           NEW r \in LoadResults(u), Load(u, r)
    PROVE  LoadOutcome(u, r)
<1>1. call' = IF r.save THEN SaveCall(u, r.grant) ELSE NoCall
    BY DEF Load
<1>2. Legacy(u) \in {0, 1} /\ store[u] \in Nat /\ store[u] <= granted
      /\ granted \in Nat /\ 1 <= granted
    BY DEF TypeOK, GrantInv, Legacy, Legacies, LegacyGrant
<1>3. /\ r.grant \in Nat /\ r.grant <= granted
      /\ r.err \in BOOLEAN /\ r.save \in BOOLEAN
      /\ r.grant # 0 => u \notin index.suppressed
      /\ r.save => r.grant > 0 /\ store[u] \in {0, r.grant}
  <2>1. CASE r = Nothing
    BY <2>1, <1>2 DEF Nothing
  <2>2. CASE /\ u \notin suppressed \cup index.suppressed
             /\ r = [grant |-> IF store[u] # 0 THEN store[u] ELSE Legacy(u),
                     save |-> IF store[u] # 0 THEN file[u] # 0 ELSE Legacy(u) # 0,
                     err |-> FALSE, fault |-> FALSE]
    <3>1. /\ r.grant = IF store[u] # 0 THEN store[u] ELSE Legacy(u)
          /\ r.err = FALSE
        BY <2>2
    <3>2. r.save \in BOOLEAN
        BY <2>2
    <3>3. r.save => store[u] # 0 \/ Legacy(u) # 0
        BY <2>2
    <3> QED BY <1>2, <2>2, <3>1, <3>2, <3>3
  <2>3. CASE /\ u \notin suppressed \cup index.suppressed
             /\ r = [grant |-> Legacy(u), save |-> FALSE, err |-> Legacy(u) = 0,
                     fault |-> TRUE]
    <3>1. r.grant = Legacy(u) /\ r.save = FALSE
        BY <2>3
    <3>2. r.err \in BOOLEAN
        BY <2>3
    <3> QED BY <1>2, <2>3, <3>1, <3>2
  <2>4. CASE r = [Nothing EXCEPT !.err = TRUE, !.fault = TRUE]
    BY <2>4, <1>2 DEF Nothing
  <2> QED BY <2>1, <2>2, <2>3, <2>4 DEF LoadResults
<1> QED BY <1>1, <1>3 DEF LoadOutcome


\* The records the steps build.
LEMMA TaskTyped ==
    ASSUME task \in Tasks, NEW at \in Points, NEW us \in SUBSET Users,
           NEW u \in SomeUser, NEW g \in Nat
    PROVE  /\ Loop(at, us) \in Tasks
           /\ [Loop(at, us) EXCEPT !.active = u] \in Tasks
           /\ With(at, u, g) \in Tasks
           /\ [task EXCEPT !.at = at] \in Tasks
           /\ [task EXCEPT !.users = us] \in Tasks
           /\ [task EXCEPT !.at = at, !.users = us] \in Tasks
           /\ [task EXCEPT !.at = at, !.user = u, !.users = us] \in Tasks
           /\ [task EXCEPT !.at = at, !.active = u, !.users = us] \in Tasks
           /\ [task EXCEPT !.at = at, !.users = us, !.user = u, !.grant = g] \in Tasks
BY DEF Loop, With, Tasks, SomeUser

LEMMA CallTyped ==
    ASSUME NEW u \in Users, NEW g \in Nat
    PROVE  /\ NoCall \in Calls /\ SaveCall(u, g) \in Calls
           /\ RemoveCall(u) \in Calls
BY DEF NoCall, SaveCall, RemoveCall, Calls, SomeUser

\* Which step writes what.
LEMMA Writers ==
    ASSUME [Next]_vars
    PROVE  /\ store' = store \/ SaveSecret \/ DeleteSecret
           /\ index' = index \/ SaveIndex \/ Suppress \/ Select \/ Prefer \/ Switch
           /\ file' = file \/ RemoveSessionFile
           /\ document' = document \/ DiscardDocument
           /\ suppressed' = suppressed \/ SaveIndex \/ Suppress \/ Crash
           /\ session' = session \/ session' = NoSession \/ Adopt \/ Enter
           /\ \/ signedOut' = signedOut \/ Suppress
              \/ \E u \in Users, stay \in BOOLEAN : CompleteDeviceLogin(u, stay)
           /\ \/ granted' = granted
              \/ \E u \in Users, stay \in BOOLEAN : CompleteDeviceLogin(u, stay)
              \/ \E g \in {session.grant, granted + 1} : Refresh(g)
           /\ Fault \/ NoFault \/ Crash
           /\ crashes' = crashes \/ Crash
           /\ restored' = restored \/ restored' \in BOOLEAN
           /\ saved' = saved \/ saved' \in BOOLEAN
           /\ failures' = failures \/ failures' \in BOOLEAN
<1> USE DEF Next, VaultCall, Migration, Running, Operation, SaveSecret, SaveIndex,
            RemoveSessionFile, Suppress, DeleteSecret, Migrate, Retry, Discover,
            LoadOne, LoadsDone, Durable, Select, Import, Copy, CopiesDone, Copied,
            DiscardDocument, RestoreNext, Try, NobodyLeft, Prefer, Adopt, Enter,
            Switch, ForgetCurrent, ForgetOther, Cleanup, RemoveAll, Sweep,
            SweepDone, Restore, Revoked, Logout, LogoutAll, CompleteDeviceLogin,
            SwitchAccount, RemoveCurrent, RemoveOther, Refresh, Crash, vars,
            vault, service
<1>1. store' = store \/ SaveSecret \/ DeleteSecret
    OBVIOUS
<1>2. index' = index \/ SaveIndex \/ Suppress \/ Select \/ Prefer \/ Switch
    OBVIOUS
<1>3. file' = file \/ RemoveSessionFile
    OBVIOUS
<1>4. document' = document \/ DiscardDocument
    OBVIOUS
<1>5. suppressed' = suppressed \/ SaveIndex \/ Suppress \/ Crash
    OBVIOUS
<1>6. session' = session \/ session' = NoSession \/ Adopt \/ Enter
    OBVIOUS
<1>7. \/ signedOut' = signedOut \/ Suppress
      \/ \E u \in Users, stay \in BOOLEAN : CompleteDeviceLogin(u, stay)
    OBVIOUS
<1>8. \/ granted' = granted
      \/ \E u \in Users, stay \in BOOLEAN : CompleteDeviceLogin(u, stay)
      \/ \E g \in {session.grant, granted + 1} : Refresh(g)
    OBVIOUS
<1>9. Fault \/ NoFault \/ Crash
    BY DEF NoFault, Load, SetActive
<1>10. crashes' = crashes \/ Crash
    OBVIOUS
<1>11. restored' = restored \/ restored' \in BOOLEAN
    OBVIOUS
<1>12. saved' = saved \/ saved' \in BOOLEAN
    OBVIOUS
<1>13. failures' = failures \/ failures' \in BOOLEAN
    BY DEF Begin
<1> QED BY <1>1, <1>2, <1>3, <1>4, <1>5, <1>6, <1>7, <1>8, <1>9, <1>10,
           <1>11, <1>12, <1>13

\* The types of all variables but `task` and `call`.
LEMMA DataTyped ==
    ASSUME VaultInv, [Next]_vars
    PROVE  /\ store' \in [Users -> Nat] /\ file' \in Legacies
           /\ document' \in Legacies
           /\ index' \in Indexes /\ session' \in Sessions
           /\ suppressed' \subseteq Users /\ signedOut' \subseteq Users
           /\ restored' \in BOOLEAN /\ saved' \in BOOLEAN /\ failures' \in BOOLEAN
           /\ faulty' \in BOOLEAN
           /\ granted' \in Nat /\ faults' \in Nat /\ crashes' \in Nat
<1> USE DEF VaultInv
<1>0. /\ call.grant \in Nat /\ task.grant \in Nat /\ session.grant \in Nat
      /\ call.at # "none" => call.user \in Users
      /\ index \in Indexes /\ task.user \in SomeUser /\ task.active \in SomeUser
    BY DEF TypeOK, Calls, Tasks, Sessions, CallInv
<1>1. store' \in [Users -> Nat]
  <2>1. CASE SaveSecret
    BY <2>1, <1>0 DEF SaveSecret, TypeOK
  <2>2. CASE DeleteSecret
    BY <2>2 DEF DeleteSecret, TypeOK
  <2> QED BY <2>1, <2>2, Writers DEF TypeOK
<1>2. file' \in Legacies
  <2>1. CASE RemoveSessionFile
    BY <2>1 DEF RemoveSessionFile, TypeOK, Legacies
  <2> QED BY <2>1, Writers DEF TypeOK
<1>3. document' \in Legacies
  <2>1. CASE DiscardDocument
    BY <2>1 DEF DiscardDocument, TypeOK, Legacies
  <2> QED BY <2>1, Writers DEF TypeOK
<1>4. index' \in Indexes
  <2>1. CASE SaveIndex
    <3>1. CASE index' = index
        BY <3>1, <1>0
    <3>2. CASE index' = [index EXCEPT !.suppressed = @ \ {call.user},
                                      !.active = call.user,
                                      !.accounts = @ \cup {call.user}]
        BY <2>1, <3>2, <1>0 DEF SaveIndex, Indexes, SomeUser
    <3> QED BY <2>1, <3>1, <3>2 DEF SaveIndex
  <2>2. CASE Suppress
    BY <2>2, <1>0 DEF Suppress, Successors, Indexes, SomeUser
  <2>3. CASE Select
    BY <2>3, <1>0 DEF Select, SetActive, Indexes, SomeUser
  <2>4. CASE Prefer
    BY <2>4, <1>0 DEF Prefer, Indexes, SomeUser
  <2>5. CASE Switch
    BY <2>5, <1>0 DEF Switch, SetActive, Indexes, SomeUser
  <2> QED BY <2>1, <2>2, <2>3, <2>4, <2>5, <1>0, Writers
<1>5. session' \in Sessions
  <2>1. CASE session' = NoSession
    BY <2>1 DEF NoSession, Sessions, SomeUser
  <2>2. CASE Adopt
    BY <2>2, <1>0 DEF Adopt, Sessions
  <2>3. CASE Enter
    BY <2>3, <1>0 DEF Enter, Sessions
  <2> QED BY <2>1, <2>2, <2>3, Writers DEF TypeOK
<1>6. suppressed' \subseteq Users
    BY <1>0, Writers DEF TypeOK, SaveIndex, Suppress, Crash
<1>7. signedOut' \subseteq Users
    BY <1>0, Writers DEF TypeOK, Suppress, CompleteDeviceLogin
<1>8. restored' \in BOOLEAN /\ saved' \in BOOLEAN /\ failures' \in BOOLEAN
    BY Writers, Zenon DEF TypeOK
<1>9. faults' \in Nat /\ faulty' \in BOOLEAN
  <2>1. CASE Crash
    <3>1. faults' = faults /\ faulty' = FALSE
        BY <2>1 DEF Crash
    <3> QED BY <3>1 DEF TypeOK
  <2> QED BY <2>1, Writers, FaultKept
<1>10. granted' \in Nat
  <2>1. granted \in Nat
    BY DEF TypeOK
  <2>2. ASSUME NEW u \in Users, NEW stay \in BOOLEAN,
               CompleteDeviceLogin(u, stay)
        PROVE  granted' \in Nat
    BY <2>1, <2>2 DEF CompleteDeviceLogin
  <2>3. ASSUME NEW g \in {session.grant, granted + 1}, Refresh(g)
        PROVE  granted' \in Nat
    BY <1>0, <2>1, <2>3 DEF Refresh
  <2> QED BY <2>1, <2>2, <2>3, Writers
<1>11. crashes' \in Nat
  <2>1. CASE Crash
    BY <2>1 DEF TypeOK, Crash
  <2> QED BY <2>1, Writers DEF TypeOK
<1> QED BY <1>1, <1>2, <1>3, <1>4, <1>5, <1>6, <1>7, <1>8, <1>9, <1>10, <1>11

\* The types of `task` and `call`.
LEMMA ControlTyped ==
    ASSUME VaultInv, [Next]_vars
    PROVE  task' \in Tasks /\ call' \in Calls
<1> DEFINE Typed == task' \in Tasks /\ call' \in Calls
<1> USE VaultAssumption DEF VaultInv, At, Idle, Goto, Done, Left, NoTask, Loop,
         SetActive, Begin
<1>0. /\ task \in Tasks /\ call \in Calls /\ Discovered \in SUBSET Users
      /\ InDocument \in SUBSET Users /\ index.suppressed \in SUBSET Users
      /\ index.accounts \in SUBSET Users /\ index.active \in SomeUser
      /\ session.user \in SomeUser /\ session.grant \in Nat /\ granted \in Nat
      /\ NoUser \in SomeUser /\ Users \subseteq SomeUser
    BY DEF TypeOK, Discovered, InDocument, Indexes, Sessions, SomeUser
<1>l. ASSUME NEW u \in Users, NEW r \in LoadResults(u), Load(u, r)
      PROVE  call' \in Calls /\ r.grant \in Nat
    BY <1>l, LoadKeeps, CallTyped DEF LoadOutcome
<1>1. CASE SaveSecret
    BY <1>1, <1>0 DEF SaveSecret, NoCall, Tasks, Calls, Points, Migrating,
       SomeUser
<1>2. CASE SaveIndex
    BY <1>2, <1>0 DEF SaveIndex, NoCall, Tasks, Calls, Points, Migrating,
       SomeUser
<1>3. CASE RemoveSessionFile
    BY <1>3, <1>0 DEF RemoveSessionFile, NoCall, Tasks, Calls, Points,
       Migrating, SomeUser
<1>4. CASE Suppress
    BY <1>4, <1>0 DEF Suppress, Tasks, Calls, Points, Migrating, SomeUser
<1>5. CASE DeleteSecret
    BY <1>5, <1>0 DEF DeleteSecret, Tasks, Calls, Points, Migrating, SomeUser
<1>6. CASE Migrate
    BY <1>6, <1>0 DEF Migrate, Loop, Tasks, Calls, Points, Migrating, SomeUser
<1>7. CASE Discover
  <2>1. {"load", "idle"} \subseteq Points /\ {} \in SUBSET Users
    BY DEF Points, Migrating
  <2>2. [task EXCEPT !.at = "load", !.users = Discovered] \in Tasks
    BY <1>0, <2>1, TaskTyped
  <2>3. NoTask \in Tasks
    BY <1>0, <2>1, TaskTyped
  <2> HIDE DEF NoTask
  <2> QED BY <1>7, <1>0, <2>2, <2>3 DEF Discover
<1>8. CASE LoadsDone
    BY <1>8, <1>0 DEF LoadsDone, Tasks, Calls, Points, Migrating, SomeUser
<1>9. CASE Durable
    BY <1>9, <1>0 DEF Durable, Tasks, Calls, Points, Migrating, SomeUser
<1>10. CASE Select
    BY <1>10, <1>0 DEF Select, Tasks, Calls, Points, Migrating, SomeUser
<1>11. CASE Import
  <2>1. {"copy", "idle"} \subseteq Points /\ {} \in SUBSET Users
    BY DEF Points, Migrating
  <2>2. NoTask \in Tasks
    BY <1>0, <2>1, TaskTyped
  <2> DEFINE us == InDocument \ (index.suppressed \cup index.discarded)
  <2>3. us \in SUBSET Users
    BY <1>0
  <2>4. ASSUME NEW active \in SomeUser
        PROVE  [task EXCEPT !.at = "copy", !.active = active, !.users = us]
                  \in Tasks
    BY <1>0, <2>1, <2>3, TaskTyped
  <2>5. task.active \in SomeUser
    BY <1>0 DEF Tasks
  <2> HIDE DEF NoTask
  <2>6. \/ task' = NoTask
        \/ \E active \in SomeUser :
              task' = [task EXCEPT !.at = "copy", !.active = active, !.users = us]
    BY <1>11, <1>0, <2>5 DEF Import
  <2> HIDE DEF us
  <2> QED BY <1>11, <1>0, <2>2, <2>4, <2>6 DEF Import
<1>12. CASE CopiesDone
    BY <1>12, <1>0 DEF CopiesDone, Tasks, Calls, Points, Migrating, SomeUser
<1>13. CASE Copied
    BY <1>13, <1>0 DEF Copied, Tasks, Calls, Points, Migrating, SomeUser
<1>14. CASE DiscardDocument
    BY <1>14, <1>0 DEF DiscardDocument, Tasks, Calls, Points, Migrating,
       SomeUser
<1>15. ASSUME NEW u \in Users, Retry(u) PROVE Typed
    BY <1>15, <1>0 DEF Retry, RemoveCall, Tasks, Calls, Points, Migrating,
       SomeUser
<1>16. ASSUME NEW u \in Users, Copy(u) PROVE Typed
  <2>1. "copied" \in Points /\ Left(u) \in SUBSET Users /\ u \in SomeUser
    BY <1>0 DEF Points, Migrating, Tasks
  <2>2. (IF store[u] # 0 THEN store[u] ELSE document[u]) \in Nat
    BY DEF TypeOK, Legacies, LegacyGrant
  <2> HIDE DEF Left
  <2>3. [task EXCEPT !.at = "copied", !.user = u, !.users = Left(u)] \in Tasks
    BY <1>0, <2>1, TaskTyped
  <2>4. [task EXCEPT !.users = Left(u)] \in Tasks
    BY <1>0, <2>1, TaskTyped
  <2>5. call' = call \/ call' = SaveCall(u, IF store[u] # 0 THEN store[u]
                                            ELSE document[u])
    BY <1>16 DEF Copy
  <2>6. call' \in Calls
    BY <1>0, <2>2, <2>5, CallTyped
  <2> QED BY <1>16, <2>3, <2>4, <2>6 DEF Copy
<1>17. ASSUME NEW u \in Users, NEW r \in LoadResults(u), LoadOne(u, r) PROVE Typed
  <2>1. call' \in Calls /\ r.grant \in Nat /\ Left(u) \in SUBSET Users
    BY <1>17, <1>0, <1>l DEF LoadOne, Tasks
  <2>2. CASE r.grant = 0
    BY <1>17, <1>0, <2>1, <2>2 DEF LoadOne, Tasks
  <2>3. CASE r.grant # 0
    BY <1>17, <1>0, <2>1, <2>3 DEF LoadOne, Tasks, Points, Migrating
  <2> QED BY <2>2, <2>3
<1>18. CASE RestoreNext
    BY <1>18, <1>0 DEF RestoreNext, Loop, Tasks, Calls, Points, Migrating,
       SomeUser
<1>19. CASE NobodyLeft
    BY <1>19, <1>0 DEF NobodyLeft, Tasks, Calls, Points, Migrating, SomeUser
<1>20. CASE Prefer
    BY <1>20, <1>0 DEF Prefer, Tasks, Calls, Points, Migrating, SomeUser
<1>21. CASE Adopt
    BY <1>21, <1>0 DEF Adopt, Tasks, Calls, Points, Migrating, SomeUser
<1>22. CASE Enter
    BY <1>22, <1>0 DEF Enter, Tasks, Calls, Points, Migrating, SomeUser
<1>23. CASE Switch
    BY <1>23, <1>0 DEF Switch, Tasks, Calls, Points, Migrating, SomeUser
<1>24. CASE Cleanup
    BY <1>24, <1>0 DEF Cleanup, RemoveCall, Tasks, Calls, Points, Migrating,
       SomeUser, TaskInv
<1>25. CASE RemoveAll
    BY <1>25, <1>0 DEF RemoveAll, Loop, Tasks, Calls, Points, Migrating,
       SomeUser
<1>26. CASE SweepDone
    BY <1>26, <1>0 DEF SweepDone, Tasks, Calls, Points, Migrating, SomeUser
<1>27. ASSUME NEW u \in Users, ForgetCurrent(u) PROVE Typed
    BY <1>27, <1>0 DEF ForgetCurrent, RemoveCall, Tasks, Calls, Points,
       Migrating, SomeUser
<1>28. ASSUME NEW u \in Users, Sweep(u) PROVE Typed
    BY <1>28, <1>0 DEF Sweep, RemoveCall, Tasks, Calls, Points, Migrating,
       SomeUser
<1>29. ASSUME NEW u \in Users, NEW r \in LoadResults(u), Try(u, r) PROVE Typed
  <2>1. call' \in Calls /\ r.grant \in Nat /\ Left(u) \in SUBSET Users
    BY <1>29, <1>0, <1>l DEF Try, Tasks
  <2>2. {"try", "adopt", "prefer"} \subseteq Points
    BY DEF Points
  <2>3. \/ task' = Loop("try", Left(u)) \/ task' = With("adopt", u, r.grant)
        \/ task' = With("prefer", u, r.grant)
    BY <1>29 DEF Try
  <2> HIDE DEF Left, Loop
  <2>4. Loop("try", Left(u)) \in Tasks
    BY <1>0, <2>1, <2>2, TaskTyped
  <2>5. With("adopt", u, r.grant) \in Tasks
    BY <1>0, <2>1, <2>2, TaskTyped
  <2>6. With("prefer", u, r.grant) \in Tasks
    BY <1>0, <2>1, <2>2, TaskTyped
  <2> QED BY <2>1, <2>3, <2>4, <2>5, <2>6
<1>30. ASSUME NEW u \in Users, NEW r \in LoadResults(u), ForgetOther(u, r) PROVE Typed
  <2>1. call' \in Calls /\ r.grant \in Nat
    BY <1>30, <1>l DEF ForgetOther
  <2> QED BY <1>30, <1>0, <2>1 DEF ForgetOther, Tasks, Points
<1>31. CASE Restore
    BY <1>31, <1>0 DEF Restore, Loop, Tasks, Calls, Points, Migrating, SomeUser
<1>32. CASE Revoked
    BY <1>32, <1>0 DEF Revoked, Loop, RemoveCall, Tasks, Calls, Points,
       Migrating, SomeUser
<1>33. CASE Logout
    BY <1>33, <1>0 DEF Logout, Loop, NoCall, RemoveCall, Tasks, Calls, Points,
       Migrating, SomeUser
<1>34. CASE LogoutAll
    BY <1>34, <1>0 DEF LogoutAll, Loop, Tasks, Calls, Points, Migrating,
       SomeUser
<1>35. ASSUME NEW u \in Users, NEW stay \in BOOLEAN, CompleteDeviceLogin(u, stay) PROVE Typed
  <2>1. {"enter", "visit"} \subseteq Points /\ granted + 1 \in Nat
    BY <1>0 DEF Points
  <2>2. task' = With("enter", u, granted + 1) \/ task' = With("visit", u, granted + 1)
    BY <1>35 DEF CompleteDeviceLogin
  <2>3. call' = SaveCall(u, granted + 1) \/ call' = RemoveCall(u)
    BY <1>35 DEF CompleteDeviceLogin
  <2>4. With("enter", u, granted + 1) \in Tasks
    BY <1>0, <2>1, TaskTyped
  <2>5. With("visit", u, granted + 1) \in Tasks
    BY <1>0, <2>1, TaskTyped
  <2>6. call' \in Calls
    BY <2>1, <2>3, CallTyped
  <2> QED BY <2>2, <2>4, <2>5, <2>6
<1>36. ASSUME NEW u \in Users, RemoveCurrent(u) PROVE Typed
    BY <1>36, <1>0 DEF RemoveCurrent, Loop, RemoveCall, Tasks, Calls, Points,
       Migrating, SomeUser
<1>37. ASSUME NEW u \in Users, NEW r \in LoadResults(u), SwitchAccount(u, r) PROVE Typed
  <2>1. call' \in Calls /\ r.grant \in Nat
    BY <1>37, <1>l DEF SwitchAccount
  <2> QED BY <1>37, <1>0, <2>1 DEF SwitchAccount, Points, With, Loop, Tasks
<1>38. ASSUME NEW u \in Users, NEW r \in LoadResults(u), RemoveOther(u, r) PROVE Typed
  <2>1. call' \in Calls /\ r.grant \in Nat
    BY <1>38, <1>l DEF RemoveOther
  <2> QED BY <1>38, <1>0, <2>1 DEF RemoveOther, Points, With, Loop, Tasks
<1>39. ASSUME NEW g \in {session.grant, granted + 1}, Refresh(g) PROVE Typed
  <2>1. /\ {"enter", "visit"} \subseteq Points /\ g \in Nat
        /\ session.user \in Users
    BY <1>39, <1>0 DEF Refresh, Points, SomeUser
  <2>2. \/ task' = With("enter", session.user, g)
        \/ task' = With("visit", session.user, g)
    BY <1>39 DEF Refresh
  <2>3. call' = SaveCall(session.user, g) \/ call' = NoCall
    BY <1>39 DEF Refresh
  <2>4. With("enter", session.user, g) \in Tasks
    BY <1>0, <2>1, TaskTyped
  <2>5. With("visit", session.user, g) \in Tasks
    BY <1>0, <2>1, TaskTyped
  <2>6. call' \in Calls
    BY <2>1, <2>3, CallTyped
  <2> QED BY <2>2, <2>4, <2>5, <2>6
<1>40. CASE Crash
    BY <1>40, <1>0 DEF Crash, Loop, NoCall, Tasks, Calls, Points, Migrating,
       SomeUser
<1>41. CASE UNCHANGED vars
    BY <1>41, <1>0 DEF vars
<1> QED BY <1>1, <1>2, <1>3, <1>4, <1>5, <1>6, <1>7, <1>8, <1>9, <1>10, <1>11,
           <1>12, <1>13, <1>14, <1>15, <1>16, <1>17, <1>18, <1>19, <1>20, <1>21,
           <1>22, <1>23, <1>24, <1>25, <1>26, <1>27, <1>28, <1>29, <1>30, <1>31,
           <1>32, <1>33, <1>34, <1>35, <1>36, <1>37, <1>38, <1>39, <1>40, <1>41
           DEF Next, VaultCall, Migration, Running, Operation

-----------------------------------------------------------------------------
\* What VaultInv says beyond the types.
Facts == /\ GrantInv /\ IndexInv /\ CallInv /\ TaskInv /\ SessionInv
         /\ CleanInv /\ DocumentInv

\* Without a session its invariant only asks who is removed.
LEMMA NobodyKept ==
    ASSUME session' = NoSession, signedOut' \subseteq Users, CallInv', TaskInv'
    PROVE  SessionInv'
<1>1. /\ session'.user = NoUser /\ session'.state = "none"
      /\ NoUser \notin Users
    BY VaultAssumption DEF NoSession
<1>2. Removing' => call'.user \in Users
    BY DEF CallInv, Removing
<1>3. task'.at = "removal" => task'.user \in Users
    BY DEF TaskInv
<1> QED BY <1>1, <1>2, <1>3 DEF SessionInv

\* Each write of a save or a remove keeps the facts.
LEMMA VaultCallKeeps ==
    ASSUME VaultInv, VaultCall
    PROVE  Facts'
<1> USE VaultAssumption DEF VaultInv, Facts, TypeOK, Tasks, Calls, Indexes, Sessions,
         Legacies, LegacyGrant, Migrating, Saving, Removing, vault, service, At,
         Idle, Goto, Done, Left, Loop, NoTask, NoCall
<1>1. CASE SaveSecret
  <2>1. GrantInv'
    BY <1>1 DEF SaveSecret, NoFault, Fault, GrantInv
  <2>2. IndexInv'
    BY <1>1 DEF SaveSecret, NoFault, Fault, IndexInv, CallInv, SomeUser
  <2>3. CallInv'
    BY <1>1 DEF SaveSecret, NoFault, Fault, CallInv, TaskInv, SessionInv,
       IndexInv, GrantInv
  <2>4. TaskInv'
    BY <1>1 DEF SaveSecret, NoFault, Fault, CallInv, TaskInv, SessionInv,
       IndexInv, Discovered, Replacing
  <2>5. SessionInv'
    BY <1>1 DEF SaveSecret, NoFault, Fault, CallInv, TaskInv, SessionInv,
       GrantInv, IndexInv, Discovered, Replacing
  <2>6. CleanInv'
    BY <1>1 DEF SaveSecret, NoFault, Fault, CleanInv, CallInv
  <2>7. DocumentInv'
    BY <1>1 DEF SaveSecret, NoFault, Fault, DocumentInv, CallInv, TaskInv,
       GrantInv, IndexInv
  <2> QED BY <2>1, <2>2, <2>3, <2>4, <2>5, <2>6, <2>7
<1>2. CASE SaveIndex
  <2> DEFINE u == call.user
  <2>same. /\ UNCHANGED <<store, file, document, service, task, failures, signedOut>>
           /\ (faulty => faulty') /\ call.at = "index" /\ u \in Users
    BY <1>2 DEF SaveIndex, Fault, NoFault, CallInv
  <2> DEFINE Written == /\ index'.active = u
                        /\ index'.accounts = index.accounts \cup {u}
                        /\ index'.suppressed = index.suppressed \ {u}
                        /\ index'.discarded = index.discarded
  <2>index. ASSUME index' = [index EXCEPT !.suppressed = @ \ {u}, !.active = u,
                                          !.accounts = @ \cup {u}]
            PROVE  Written
    <3>1. index \in Indexes
      OBVIOUS
    <3> QED BY <2>index, <3>1
  <2>call. ASSUME call' = [call EXCEPT !.at = "clean"]
           PROVE  call'.at = "clean" /\ call'.user = u /\ call'.grant = call.grant
    <3>1. call \in Calls
      OBVIOUS
    <3> QED BY <2>call, <3>1
  <2> HIDE DEF Written
  <2>fields. \/ /\ Written /\ suppressed' = suppressed \ {u} /\ saved'
                /\ call'.at = "clean" /\ call'.user = u /\ call'.grant = call.grant
             \/ /\ Written \/ index' = index
                /\ suppressed' = suppressed /\ ~saved' /\ call' = NoCall /\ faulty'
    BY <1>2, <2>index, <2>call DEF SaveIndex, Fault
  <2> USE DEF Written
  <2>1. GrantInv'
    BY <2>same, <2>fields DEF GrantInv
  <2>2. IndexInv'
    BY <2>same, <2>fields DEF IndexInv, CallInv, SomeUser
  <2>3. CallInv'
    BY <2>same, <2>fields DEF CallInv, TaskInv, SessionInv, IndexInv, GrantInv
  <2>4. TaskInv'
    BY <2>same, <2>fields DEF CallInv, TaskInv, SessionInv, IndexInv, Discovered,
       Replacing
  <2>5. SessionInv'
    BY <2>same, <2>fields DEF CallInv, TaskInv, SessionInv, GrantInv, IndexInv,
       Discovered, Replacing
  <2>6. CleanInv'
    BY <2>same, <2>fields DEF CleanInv, CallInv
  <2>7. DocumentInv'
    BY <2>same, <2>fields DEF DocumentInv, CallInv, TaskInv, GrantInv, IndexInv
  <2> QED BY <2>1, <2>2, <2>3, <2>4, <2>5, <2>6, <2>7
<1>3. CASE RemoveSessionFile
  <2>1. GrantInv'
    BY <1>3 DEF RemoveSessionFile, NoFault, Fault, GrantInv
  <2>2. IndexInv'
    BY <1>3 DEF RemoveSessionFile, NoFault, Fault, IndexInv, CallInv,
       SomeUser
  <2>3. CallInv'
    BY <1>3 DEF RemoveSessionFile, NoFault, Fault, CallInv, TaskInv,
       SessionInv, IndexInv, GrantInv
  <2>4. TaskInv'
    BY <1>3 DEF RemoveSessionFile, NoFault, Fault, CallInv, TaskInv,
       SessionInv, IndexInv, Discovered, Replacing
  <2>5. SessionInv'
    BY <1>3 DEF RemoveSessionFile, NoFault, Fault, CallInv, TaskInv,
       SessionInv, GrantInv, IndexInv, Discovered, Replacing
  <2>6. CleanInv'
    BY <1>3 DEF RemoveSessionFile, NoFault, Fault, CleanInv, CallInv
  <2>7. DocumentInv'
    BY <1>3 DEF RemoveSessionFile, NoFault, Fault, DocumentInv, CallInv,
       TaskInv, GrantInv, IndexInv
  <2> QED BY <2>1, <2>2, <2>3, <2>4, <2>5, <2>6, <2>7
<1>4. CASE Suppress
  <2>1. GrantInv'
    BY <1>4 DEF Suppress, Successors, Fault, NoFault, GrantInv
  <2>2. IndexInv'
    BY <1>4 DEF Suppress, Successors, Fault, NoFault, IndexInv, CallInv,
       SomeUser
  <2>3. CallInv'
    BY <1>4 DEF Suppress, Successors, Fault, NoFault, CallInv, TaskInv,
       SessionInv, IndexInv, GrantInv
  <2>4. TaskInv'
    BY <1>4 DEF Suppress, Successors, Fault, NoFault, CallInv, TaskInv,
       SessionInv, IndexInv, Discovered, Replacing
  <2>5. SessionInv'
    BY <1>4 DEF Suppress, Successors, Fault, NoFault, CallInv, TaskInv,
       SessionInv, GrantInv, IndexInv, Discovered, Replacing
  <2>6. CleanInv'
    BY <1>4 DEF Suppress, Successors, Fault, NoFault, CleanInv, CallInv
  <2>7. DocumentInv'
    BY <1>4 DEF Suppress, Successors, Fault, NoFault, DocumentInv, CallInv,
       TaskInv, GrantInv, IndexInv
  <2> QED BY <2>1, <2>2, <2>3, <2>4, <2>5, <2>6, <2>7
<1>5. CASE DeleteSecret
  <2>1. GrantInv'
    BY <1>5 DEF DeleteSecret, NoFault, Fault, GrantInv
  <2>2. IndexInv'
    BY <1>5 DEF DeleteSecret, NoFault, Fault, IndexInv, CallInv, SomeUser
  <2>3. CallInv'
    BY <1>5 DEF DeleteSecret, NoFault, Fault, CallInv, TaskInv, SessionInv,
       IndexInv, GrantInv
  <2>4. TaskInv'
    BY <1>5 DEF DeleteSecret, NoFault, Fault, CallInv, TaskInv, SessionInv,
       IndexInv, Discovered, Replacing
  <2>5. SessionInv'
    BY <1>5 DEF DeleteSecret, NoFault, Fault, CallInv, TaskInv, SessionInv,
       GrantInv, IndexInv, Discovered, Replacing
  <2>6. CleanInv'
    BY <1>5 DEF DeleteSecret, NoFault, Fault, CleanInv, CallInv
  <2>7. DocumentInv'
    BY <1>5 DEF DeleteSecret, NoFault, Fault, DocumentInv, CallInv, TaskInv,
       GrantInv, IndexInv
  <2> QED BY <2>1, <2>2, <2>3, <2>4, <2>5, <2>6, <2>7
<1> QED BY <1>1, <1>2, <1>3, <1>4, <1>5 DEF VaultCall

\* Each step of the migration keeps them.
LEMMA MigrationKeeps ==
    ASSUME VaultInv, Migration
    PROVE  Facts'
<1> USE VaultAssumption DEF VaultInv, Facts, TypeOK, Tasks, Calls, Indexes, Sessions,
         Legacies, LegacyGrant, Migrating, Saving, Removing, vault, service, At,
         Idle, Goto, Done, Left, Loop, NoTask, NoCall
<1>1. CASE Migrate
    BY <1>1, SMTT(30) DEF Migrate, NoFault, Fault, GrantInv, IndexInv,
       CallInv, TaskInv, SessionInv, CleanInv, DocumentInv, Discovered,
       Replacing, SomeUser
<1>2. CASE Discover
  <2>same. /\ UNCHANGED <<vault, service, call, saved, failures, signedOut>>
           /\ (faulty => faulty') /\ call.at = "none"
           /\ task.at = "retry" /\ task.users = {}
    BY <1>2 DEF Discover, Fault, NoFault
  <2>next. \/ task' = [task EXCEPT !.at = "load", !.users = Discovered]
           \/ task' = NoTask
    BY <1>2 DEF Discover
  <2>0. task'.at \in {"load", "idle"} /\ task'.grant \in {0, task.grant}
    <3>1. task \in Tasks
      BY DEF TypeOK
    <3>2. CASE task' = NoTask
      BY <3>2 DEF NoTask, Loop
    <3>3. CASE task' = [task EXCEPT !.at = "load", !.users = Discovered]
      BY <3>1, <3>3 DEF Tasks
    <3> QED BY <2>next, <3>2, <3>3
  <2>1. GrantInv'
    BY <2>0, <2>same DEF GrantInv
  <2>2. IndexInv'
    BY <2>0, <2>same DEF IndexInv, CallInv, SomeUser
  <2>3. CallInv'
    BY <2>0, <2>same DEF CallInv, TaskInv, SessionInv, IndexInv, GrantInv
  <2>4. TaskInv'
    BY <2>0, <2>same DEF CallInv, TaskInv, SessionInv, IndexInv, Discovered,
       Replacing
  <2>5session. session' = NoSession /\ signedOut' \subseteq Users
    BY <1>2 DEF Discover, SessionInv
  <2>5. SessionInv'
    BY <2>5session, <2>3, <2>4, NobodyKept
  <2>6. CleanInv'
    BY <2>0, <2>same DEF CleanInv, CallInv
  <2>7. DocumentInv'
    BY <2>0, <2>same DEF DocumentInv, CallInv, TaskInv, GrantInv, IndexInv
  <2> QED BY <2>1, <2>2, <2>3, <2>4, <2>5, <2>6, <2>7
<1>3. CASE LoadsDone
    BY <1>3, SMTT(30) DEF LoadsDone, GrantInv, IndexInv, CallInv, TaskInv,
       SessionInv, CleanInv, DocumentInv, Discovered, Replacing, SomeUser
<1>4. CASE Durable
    BY <1>4, SMTT(30) DEF Durable, NoFault, Fault, GrantInv, IndexInv,
       CallInv, TaskInv, SessionInv, CleanInv, DocumentInv, Discovered,
       Replacing, SomeUser
<1>5. CASE Select
    BY <1>5, SMTT(30) DEF Select, NoFault, SetActive, Fault, GrantInv,
       IndexInv, CallInv, TaskInv, SessionInv, CleanInv, DocumentInv,
       Discovered, Replacing, SomeUser
<1>6. CASE Import
  <2> DEFINE us == InDocument \ (index.suppressed \cup index.discarded)
  <2>same. /\ UNCHANGED <<vault, service, call, saved, failures, signedOut>>
           /\ task.at = "import" /\ call.at = "none"
    BY <1>6 DEF Import
  <2>fault. faulty => faulty'
    BY <1>6 DEF Import, Fault, NoFault
  <2>next. \/ \E active : task' = [task EXCEPT !.at = "copy", !.active = active,
                                             !.users = us]
           \/ task' = NoTask
    BY <1>6 DEF Import
  <2> HIDE DEF us
  <2>0. /\ task'.at \in {"copy", "idle"} /\ task'.grant \in {0, task.grant}
        /\ task'.at = "copy" => task'.users = us
    <3>1. task \in Tasks
      BY DEF TypeOK
    <3>2. CASE task' = NoTask
      BY <3>2 DEF NoTask, Loop
    <3>3. ASSUME NEW active,
                 task' = [task EXCEPT !.at = "copy", !.active = active, !.users = us]
          PROVE  task'.at = "copy" /\ task'.grant = task.grant /\ task'.users = us
      BY <3>1, <3>3 DEF Tasks
    <3> QED BY <2>next, <3>2, <3>3
  <2> USE DEF us
  <2>1. GrantInv'
    BY <2>0, <2>same, <2>fault DEF GrantInv, InDocument
  <2>2. IndexInv'
    BY <2>0, <2>same, <2>fault DEF IndexInv, CallInv, SomeUser, InDocument
  <2>3. CallInv'
    BY <2>0, <2>same, <2>fault DEF CallInv, TaskInv, SessionInv, IndexInv,
       GrantInv, InDocument
  <2>4. TaskInv'
    BY <2>0, <2>same, <2>fault DEF CallInv, TaskInv, SessionInv, IndexInv,
       Discovered, Replacing, InDocument
  <2>5session. session' = NoSession /\ signedOut' \subseteq Users
    BY <1>6 DEF Import, SessionInv
  <2>5. SessionInv'
    BY <2>5session, <2>3, <2>4, NobodyKept
  <2>6. CleanInv'
    BY <2>0, <2>same, <2>fault DEF CleanInv, CallInv, InDocument
  <2>7. DocumentInv'
    BY <2>0, <2>same, <2>fault DEF DocumentInv, CallInv, TaskInv, GrantInv,
       IndexInv, InDocument
  <2> QED BY <2>1, <2>2, <2>3, <2>4, <2>5, <2>6, <2>7
<1>7. CASE CopiesDone
    BY <1>7, SMTT(30) DEF CopiesDone, GrantInv, IndexInv, CallInv, TaskInv,
       SessionInv, CleanInv, DocumentInv, Discovered, Replacing, SomeUser
<1>8. CASE Copied
  <2>1. GrantInv'
    BY <1>8 DEF Copied, GrantInv
  <2>2. IndexInv'
    BY <1>8 DEF Copied, IndexInv, CallInv, SomeUser
  <2>3. CallInv'
    BY <1>8 DEF Copied, CallInv, TaskInv, SessionInv, IndexInv, GrantInv
  <2>4. TaskInv'
    BY <1>8 DEF Copied, CallInv, TaskInv, SessionInv, IndexInv, Discovered,
       Replacing
  <2>5. SessionInv'
    BY <1>8 DEF Copied, CallInv, TaskInv, SessionInv, GrantInv, IndexInv,
       Discovered, Replacing
  <2>6. CleanInv'
    BY <1>8 DEF Copied, CleanInv, CallInv
  <2>7. DocumentInv'
    BY <1>8 DEF Copied, DocumentInv, CallInv, TaskInv, GrantInv, IndexInv
  <2> QED BY <2>1, <2>2, <2>3, <2>4, <2>5, <2>6, <2>7
<1>9. CASE DiscardDocument
  <2>1. GrantInv'
    BY <1>9 DEF DiscardDocument, NoFault, Fault, GrantInv
  <2>2. IndexInv'
    BY <1>9 DEF DiscardDocument, NoFault, Fault, IndexInv, CallInv, SomeUser
  <2>3. CallInv'
    BY <1>9 DEF DiscardDocument, NoFault, Fault, CallInv, TaskInv,
       SessionInv, IndexInv, GrantInv
  <2>4. TaskInv'
    BY <1>9 DEF DiscardDocument, NoFault, Fault, CallInv, TaskInv,
       SessionInv, IndexInv, Discovered, Replacing
  <2>5session. session' = NoSession /\ signedOut' \subseteq Users
    BY <1>9 DEF DiscardDocument, NoFault, Fault, SessionInv
  <2>5. SessionInv'
    BY <2>5session, <2>3, <2>4, NobodyKept
  <2>6. CleanInv'
    BY <1>9 DEF DiscardDocument, NoFault, Fault, CleanInv, CallInv
  <2>7. DocumentInv'
    BY <1>9 DEF DiscardDocument, NoFault, Fault, DocumentInv, CallInv,
       TaskInv, GrantInv, IndexInv
  <2> QED BY <2>1, <2>2, <2>3, <2>4, <2>5, <2>6, <2>7
<1>10. ASSUME NEW u \in Users, Retry(u)
      PROVE  Facts'
  <2>1. GrantInv'
    BY <1>10 DEF Retry, RemoveCall, GrantInv
  <2>2. IndexInv'
    BY <1>10 DEF Retry, RemoveCall, IndexInv, CallInv, SomeUser
  <2>3. CallInv'
    BY <1>10 DEF Retry, RemoveCall, CallInv, TaskInv, SessionInv, IndexInv,
       GrantInv
  <2>4. TaskInv'
    BY <1>10 DEF Retry, RemoveCall, CallInv, TaskInv, SessionInv, IndexInv,
       Discovered, Replacing
  <2>5session. session' = NoSession /\ signedOut' \subseteq Users
    BY <1>10 DEF Retry, RemoveCall, SessionInv
  <2>5. SessionInv'
    BY <2>5session, <2>3, <2>4, NobodyKept
  <2>6. CleanInv'
    BY <1>10 DEF Retry, RemoveCall, CleanInv, CallInv
  <2>7. DocumentInv'
    BY <1>10 DEF Retry, RemoveCall, DocumentInv, CallInv, TaskInv, GrantInv,
       IndexInv
  <2> QED BY <2>1, <2>2, <2>3, <2>4, <2>5, <2>6, <2>7
<1>11. ASSUME NEW u \in Users, Copy(u)
      PROVE  Facts'
  <2> DEFINE g == IF store[u] # 0 THEN store[u] ELSE document[u]
  <2>grant. g \in Nat /\ g > 0 /\ g <= granted /\ store[u] \in {0, g}
    BY <1>11 DEF Copy, GrantInv, TaskInv
  <2>same. /\ UNCHANGED <<vault, service, saved, signedOut>> /\ (faulty => faulty')
           /\ task.at = "copy" /\ call.at = "none" /\ u \in task.users
    BY <1>11 DEF Copy, Fault, NoFault
  <2>0. /\ task'.users = task.users \ {u} /\ task'.grant = task.grant
        /\ \/ /\ task'.at = "copied" /\ task'.user = u
              /\ call' = SaveCall(u, g) /\ failures' = failures
           \/ task'.at = "copy" /\ call' = call /\ failures' = TRUE
    BY <1>11 DEF Copy
  <2> HIDE DEF g
  <2>1. GrantInv'
    BY <2>grant, <2>same, <2>0 DEF SaveCall, GrantInv
  <2>2. IndexInv'
    BY <2>grant, <2>same, <2>0 DEF SaveCall, IndexInv, CallInv, SomeUser
  <2>3. CallInv'
    BY <2>grant, <2>same, <2>0 DEF SaveCall, CallInv, TaskInv, SessionInv,
       IndexInv, GrantInv
  <2>4. TaskInv'
    BY <2>grant, <2>same, <2>0 DEF SaveCall, CallInv, TaskInv, SessionInv,
       IndexInv, Discovered, Replacing
  <2>5session. session' = NoSession /\ signedOut' \subseteq Users
    BY <1>11 DEF Copy, SaveCall, SessionInv
  <2>5. SessionInv'
    BY <2>5session, <2>3, <2>4, NobodyKept
  <2>6. CleanInv'
    BY <2>grant, <2>same, <2>0 DEF SaveCall, CleanInv, CallInv
  <2>7. DocumentInv'
    BY <2>grant, <2>same, <2>0 DEF SaveCall, DocumentInv, CallInv, TaskInv,
       GrantInv, IndexInv
  <2> QED BY <2>1, <2>2, <2>3, <2>4, <2>5, <2>6, <2>7
<1>12. ASSUME NEW u \in Users, NEW r \in LoadResults(u), LoadOne(u, r)
      PROVE  Facts'
  <2>0. LoadOutcome(u, r) /\ (faulty => faulty')
    BY <1>12, LoadKeeps, FaultKept DEF LoadOne, Load
  <2>1. GrantInv'
    BY <1>12, <2>0 DEF LoadOne, LoadOutcome, SaveCall, GrantInv
  <2>2. IndexInv'
    BY <1>12, <2>0 DEF LoadOne, LoadOutcome, SaveCall, IndexInv, CallInv,
       SomeUser
  <2>3. CallInv'
    BY <1>12, <2>0 DEF LoadOne, LoadOutcome, SaveCall, CallInv, TaskInv,
       SessionInv, IndexInv, GrantInv
  <2>4. TaskInv'
    BY <1>12, <2>0 DEF LoadOne, LoadOutcome, SaveCall, CallInv, TaskInv,
       SessionInv, IndexInv, Discovered, Replacing
  <2>5. SessionInv'
    BY <1>12, <2>0 DEF LoadOne, LoadOutcome, SaveCall, CallInv, TaskInv,
       SessionInv, GrantInv, IndexInv, Discovered, Replacing
  <2>6. CleanInv'
    BY <1>12, <2>0 DEF LoadOne, LoadOutcome, SaveCall, CleanInv, CallInv
  <2>7. DocumentInv'
    BY <1>12, <2>0 DEF LoadOne, LoadOutcome, SaveCall, DocumentInv, CallInv,
       TaskInv, GrantInv, IndexInv
  <2> QED BY <2>1, <2>2, <2>3, <2>4, <2>5, <2>6, <2>7
<1> QED BY <1>1, <1>2, <1>3, <1>4, <1>5, <1>6, <1>7, <1>8, <1>9, <1>10,
           <1>11, <1>12 DEF Migration

\* Each step of a running operation keeps them.
LEMMA RunningKeeps ==
    ASSUME VaultInv, Running
    PROVE  Facts'
<1> USE VaultAssumption DEF VaultInv, Facts, TypeOK, Tasks, Calls, Indexes, Sessions,
         Legacies, LegacyGrant, Migrating, Saving, Removing, vault, service, At,
         Idle, Goto, Done, Left, Loop, NoTask, NoCall
<1>1. CASE RestoreNext
  <2>1. GrantInv'
    BY <1>1 DEF RestoreNext, NoFault, Fault, GrantInv
  <2>2. IndexInv'
    BY <1>1 DEF RestoreNext, NoFault, Fault, IndexInv, CallInv, SomeUser
  <2>3. CallInv'
    BY <1>1 DEF RestoreNext, NoFault, Fault, CallInv, TaskInv, SessionInv,
       IndexInv, GrantInv
  <2>4. TaskInv'
    BY <1>1 DEF RestoreNext, NoFault, Fault, CallInv, TaskInv, SessionInv,
       IndexInv, Discovered, Replacing
  <2>5session. session' = NoSession /\ signedOut' \subseteq Users
    BY <1>1 DEF RestoreNext, NoFault, Fault, SessionInv
  <2>5. SessionInv'
    BY <2>5session, <2>3, <2>4, NobodyKept
  <2>6. CleanInv'
    BY <1>1 DEF RestoreNext, NoFault, Fault, CleanInv, CallInv
  <2>7. DocumentInv'
    BY <1>1 DEF RestoreNext, NoFault, Fault, DocumentInv, CallInv, TaskInv,
       GrantInv, IndexInv
  <2> QED BY <2>1, <2>2, <2>3, <2>4, <2>5, <2>6, <2>7
<1>2. CASE NobodyLeft
    BY <1>2, SMTT(30) DEF NobodyLeft, NoSession, GrantInv, IndexInv,
       CallInv, TaskInv, SessionInv, CleanInv, DocumentInv, Discovered,
       Replacing, SomeUser
<1>3. CASE Prefer
    BY <1>3, SMTT(30) DEF Prefer, NoFault, Fault, GrantInv, IndexInv,
       CallInv, TaskInv, SessionInv, CleanInv, DocumentInv, Discovered,
       Replacing, SomeUser
<1>4. CASE Adopt
  <2>1. GrantInv'
    BY <1>4 DEF Adopt, NoFault, Fault, GrantInv
  <2>2. IndexInv'
    BY <1>4 DEF Adopt, NoFault, Fault, IndexInv, CallInv, SomeUser
  <2>3. CallInv'
    BY <1>4 DEF Adopt, NoFault, Fault, CallInv, TaskInv, SessionInv,
       IndexInv, GrantInv
  <2>4. TaskInv'
    BY <1>4 DEF Adopt, NoFault, Fault, CallInv, TaskInv, SessionInv,
       IndexInv, Discovered, Replacing
  <2>5session. /\ session'.user = task.user /\ session'.grant = task.grant
               /\ session'.state \in {"secure-store", "migration-pending"}
               /\ session'.state = "secure-store" => store[task.user] = task.grant
    <3>1. PICK durable \in {store[task.user] = task.grant, FALSE} :
             session' = [user |-> task.user, grant |-> task.grant, secure |-> TRUE,
                         state |-> IF durable THEN "secure-store"
                                   ELSE "migration-pending"]
      BY <1>4 DEF Adopt
    <3>2. CASE durable
      BY <3>1, <3>2
    <3>3. CASE ~durable
      BY <3>1, <3>3
    <3> QED BY <3>2, <3>3
  <2>5rest. /\ task.at = "adopt" /\ task'.at = "idle" /\ call'.at = "none"
            /\ UNCHANGED <<store, index, file, document, signedOut>>
    BY <1>4 DEF Adopt
  <2>5user. task.user \in Users /\ task.user \notin signedOut
    BY <2>5rest DEF TaskInv
  <2>5found. task.user \in Discovered'
    BY <2>5rest DEF TaskInv, Discovered
  <2>5. SessionInv'
    <3>1. session'.user # NoUser /\ session'.user \notin signedOut'
      BY <2>5session, <2>5rest, <2>5user
    <3>2. session'.state = "secure-store" => store'[session'.user] = session'.grant
      BY <2>5session, <2>5rest
    <3>3. session'.user \in Discovered'
      BY <2>5session, <2>5found
    <3>4. task'.at = "idle" /\ ~Removing'
      BY <2>5rest
    <3> HIDE DEF Removing
    <3> QED BY <3>1, <3>2, <3>3, <3>4 DEF SessionInv
  <2>6. CleanInv'
    BY <1>4 DEF Adopt, NoFault, Fault, CleanInv, CallInv
  <2>7. DocumentInv'
    BY <1>4 DEF Adopt, NoFault, Fault, DocumentInv, CallInv, TaskInv,
       GrantInv, IndexInv
  <2> QED BY <2>1, <2>2, <2>3, <2>4, <2>5, <2>6, <2>7
<1>5. CASE Enter
  <2>1. GrantInv'
    BY <1>5 DEF Enter, GrantInv
  <2>2. IndexInv'
    BY <1>5 DEF Enter, IndexInv, CallInv, SomeUser
  <2>3. CallInv'
    BY <1>5 DEF Enter, CallInv, TaskInv, SessionInv, IndexInv, GrantInv
  <2>4. TaskInv'
    BY <1>5 DEF Enter, CallInv, TaskInv, SessionInv, IndexInv, Discovered,
       Replacing
  <2>5. SessionInv'
    BY <1>5 DEF Enter, CallInv, TaskInv, SessionInv, GrantInv, IndexInv,
       Discovered, Replacing
  <2>6. CleanInv'
    BY <1>5 DEF Enter, CleanInv, CallInv
  <2>7. DocumentInv'
    BY <1>5 DEF Enter, DocumentInv, CallInv, TaskInv, GrantInv, IndexInv
  <2> QED BY <2>1, <2>2, <2>3, <2>4, <2>5, <2>6, <2>7
<1>6. CASE Switch
    BY <1>6, SMTT(30) DEF Switch, SetActive, NoFault, Fault, GrantInv,
       IndexInv, CallInv, TaskInv, SessionInv, CleanInv, DocumentInv,
       Discovered, Replacing, SomeUser
<1>7. CASE Cleanup
  <2>1. GrantInv'
    BY <1>7 DEF Cleanup, RemoveCall, GrantInv
  <2>2. IndexInv'
    BY <1>7 DEF Cleanup, RemoveCall, IndexInv, CallInv, SomeUser
  <2>3. CallInv'
    BY <1>7 DEF Cleanup, RemoveCall, CallInv, TaskInv, SessionInv, IndexInv,
       GrantInv
  <2>4. TaskInv'
    BY <1>7 DEF Cleanup, RemoveCall, CallInv, TaskInv, SessionInv, IndexInv,
       Discovered, Replacing
  <2>5. SessionInv'
    BY <1>7 DEF Cleanup, RemoveCall, CallInv, TaskInv, SessionInv, GrantInv,
       IndexInv, Discovered, Replacing
  <2>6. CleanInv'
    BY <1>7 DEF Cleanup, RemoveCall, CleanInv, CallInv
  <2>7. DocumentInv'
    BY <1>7 DEF Cleanup, RemoveCall, DocumentInv, CallInv, TaskInv,
       GrantInv, IndexInv
  <2> QED BY <2>1, <2>2, <2>3, <2>4, <2>5, <2>6, <2>7
<1>8. CASE RemoveAll
    BY <1>8, SMTT(30) DEF RemoveAll, NoFault, Fault, GrantInv, IndexInv,
       CallInv, TaskInv, SessionInv, CleanInv, DocumentInv, Discovered,
       Replacing, SomeUser
<1>9. CASE SweepDone
    BY <1>9, SMTT(30) DEF SweepDone, GrantInv, IndexInv, CallInv, TaskInv,
       SessionInv, CleanInv, DocumentInv, Discovered, Replacing, SomeUser
<1>10. ASSUME NEW u \in Users, ForgetCurrent(u)
      PROVE  Facts'
  <2>1. GrantInv'
    BY <1>10 DEF ForgetCurrent, RemoveCall, GrantInv
  <2>2. IndexInv'
    BY <1>10 DEF ForgetCurrent, RemoveCall, IndexInv, CallInv, SomeUser
  <2>3. CallInv'
    BY <1>10 DEF ForgetCurrent, RemoveCall, CallInv, TaskInv, SessionInv,
       IndexInv, GrantInv
  <2>4. TaskInv'
    BY <1>10 DEF ForgetCurrent, RemoveCall, CallInv, TaskInv, SessionInv,
       IndexInv, Discovered, Replacing
  <2>5session. session' = NoSession /\ signedOut' \subseteq Users
    BY <1>10 DEF ForgetCurrent, RemoveCall, SessionInv
  <2>5. SessionInv'
    BY <2>5session, <2>3, <2>4, NobodyKept
  <2>6. CleanInv'
    BY <1>10 DEF ForgetCurrent, RemoveCall, CleanInv, CallInv
  <2>7. DocumentInv'
    BY <1>10 DEF ForgetCurrent, RemoveCall, DocumentInv, CallInv, TaskInv,
       GrantInv, IndexInv
  <2> QED BY <2>1, <2>2, <2>3, <2>4, <2>5, <2>6, <2>7
<1>11. ASSUME NEW u \in Users, Sweep(u)
      PROVE  Facts'
  <2>1. GrantInv'
    BY <1>11 DEF Sweep, RemoveCall, GrantInv
  <2>2. IndexInv'
    BY <1>11 DEF Sweep, RemoveCall, IndexInv, CallInv, SomeUser
  <2>3. CallInv'
    BY <1>11 DEF Sweep, RemoveCall, CallInv, TaskInv, SessionInv, IndexInv,
       GrantInv
  <2>4. TaskInv'
    BY <1>11 DEF Sweep, RemoveCall, CallInv, TaskInv, SessionInv, IndexInv,
       Discovered, Replacing
  <2>5session. session' = NoSession /\ signedOut' \subseteq Users
    BY <1>11 DEF Sweep, RemoveCall, SessionInv
  <2>5. SessionInv'
    BY <2>5session, <2>3, <2>4, NobodyKept
  <2>6. CleanInv'
    BY <1>11 DEF Sweep, RemoveCall, CleanInv, CallInv
  <2>7. DocumentInv'
    BY <1>11 DEF Sweep, RemoveCall, DocumentInv, CallInv, TaskInv, GrantInv,
       IndexInv
  <2> QED BY <2>1, <2>2, <2>3, <2>4, <2>5, <2>6, <2>7
<1>12. ASSUME NEW u \in Users, NEW r \in LoadResults(u), Try(u, r)
      PROVE  Facts'
  <2>0. LoadOutcome(u, r) /\ (faulty => faulty')
    BY <1>12, LoadKeeps, FaultKept DEF Try, Load
  <2>1. GrantInv'
    BY <1>12, <2>0 DEF Try, With, LoadOutcome, SaveCall, GrantInv
  <2>2. IndexInv'
    BY <1>12, <2>0 DEF Try, With, LoadOutcome, SaveCall, IndexInv, CallInv,
       SomeUser
  <2>3. CallInv'
    BY <1>12, <2>0 DEF Try, With, LoadOutcome, SaveCall, CallInv, TaskInv,
       SessionInv, IndexInv, GrantInv
  <2>4. TaskInv'
    BY <1>12, <2>0 DEF Try, With, LoadOutcome, SaveCall, CallInv, TaskInv,
       SessionInv, IndexInv, Discovered, Replacing
  <2>5. SessionInv'
    BY <1>12, <2>0 DEF Try, With, LoadOutcome, SaveCall, CallInv, TaskInv,
       SessionInv, GrantInv, IndexInv, Discovered, Replacing
  <2>6. CleanInv'
    BY <1>12, <2>0 DEF Try, With, LoadOutcome, SaveCall, CleanInv, CallInv
  <2>7. DocumentInv'
    BY <1>12, <2>0 DEF Try, With, LoadOutcome, SaveCall, DocumentInv,
       CallInv, TaskInv, GrantInv, IndexInv
  <2> QED BY <2>1, <2>2, <2>3, <2>4, <2>5, <2>6, <2>7
<1>13. ASSUME NEW u \in Users, NEW r \in LoadResults(u), ForgetOther(u, r)
      PROVE  Facts'
  <2>0. LoadOutcome(u, r) /\ (faulty => faulty')
    BY <1>13, LoadKeeps, FaultKept DEF ForgetOther, Load
  <2>1. GrantInv'
    BY <1>13, <2>0 DEF ForgetOther, LoadOutcome, SaveCall, GrantInv
  <2>2. IndexInv'
    BY <1>13, <2>0 DEF ForgetOther, LoadOutcome, SaveCall, IndexInv,
       CallInv, SomeUser
  <2>3. CallInv'
    BY <1>13, <2>0 DEF ForgetOther, LoadOutcome, SaveCall, CallInv, TaskInv,
       SessionInv, IndexInv, GrantInv
  <2>4. TaskInv'
    BY <1>13, <2>0 DEF ForgetOther, LoadOutcome, SaveCall, CallInv, TaskInv,
       SessionInv, IndexInv, Discovered, Replacing
  <2>5. SessionInv'
    BY <1>13, <2>0 DEF ForgetOther, LoadOutcome, SaveCall, CallInv, TaskInv,
       SessionInv, GrantInv, IndexInv, Discovered, Replacing
  <2>6. CleanInv'
    BY <1>13, <2>0 DEF ForgetOther, LoadOutcome, SaveCall, CleanInv, CallInv
  <2>7. DocumentInv'
    BY <1>13, <2>0 DEF ForgetOther, LoadOutcome, SaveCall, DocumentInv,
       CallInv, TaskInv, GrantInv, IndexInv
  <2> QED BY <2>1, <2>2, <2>3, <2>4, <2>5, <2>6, <2>7
<1> QED BY <1>1, <1>2, <1>3, <1>4, <1>5, <1>6, <1>7, <1>8, <1>9, <1>10,
           <1>11, <1>12, <1>13 DEF Running

\* Each operation that begins keeps them.
LEMMA OperationKeeps ==
    ASSUME VaultInv, Operation
    PROVE  Facts'
<1> USE VaultAssumption DEF VaultInv, Facts, TypeOK, Tasks, Calls, Indexes, Sessions,
         Legacies, LegacyGrant, Migrating, Saving, Removing, vault, service, At,
         Idle, Goto, Done, Left, Loop, NoTask, NoCall
<1>1. CASE Restore
    BY <1>1, SMTT(30) DEF Restore, NoFault, Begin, Fault, GrantInv,
       IndexInv, CallInv, TaskInv, SessionInv, CleanInv, DocumentInv,
       Discovered, Replacing, SomeUser
<1>2. CASE Revoked
    BY <1>2, SMTT(30) DEF Revoked, Begin, RemoveCall, GrantInv, IndexInv,
       CallInv, TaskInv, SessionInv, CleanInv, DocumentInv, Discovered,
       Replacing, SomeUser
<1>3. CASE Logout
    BY <1>3, SMTT(30) DEF Logout, Begin, NoSession, RemoveCall, GrantInv,
       IndexInv, CallInv, TaskInv, SessionInv, CleanInv, DocumentInv,
       Discovered, Replacing, SomeUser
<1>4. CASE LogoutAll
    BY <1>4, SMTT(30) DEF LogoutAll, NoFault, Fault, Begin, NoSession,
       GrantInv, IndexInv, CallInv, TaskInv, SessionInv, CleanInv,
       DocumentInv, Discovered, Replacing, SomeUser
<1>5. ASSUME NEW u \in Users, NEW stay \in BOOLEAN, CompleteDeviceLogin(u, stay)
      PROVE  Facts'
    BY <1>5, SMTT(30) DEF CompleteDeviceLogin, Begin, With, SaveCall,
       RemoveCall, GrantInv, IndexInv, CallInv, TaskInv, SessionInv,
       CleanInv, DocumentInv, Discovered, Replacing, SomeUser
<1>6. ASSUME NEW u \in Users, RemoveCurrent(u)
      PROVE  Facts'
    BY <1>6, SMTT(30) DEF RemoveCurrent, NoSession, Begin, RemoveCall,
       GrantInv, IndexInv, CallInv, TaskInv, SessionInv, CleanInv,
       DocumentInv, Discovered, Replacing, SomeUser
<1>7. ASSUME NEW u \in Users, NEW r \in LoadResults(u), SwitchAccount(u, r)
      PROVE  Facts'
  <2>0. LoadOutcome(u, r) /\ (faulty => faulty')
    BY <1>7, LoadKeeps, FaultKept DEF SwitchAccount, Load, Begin
  <2>1. GrantInv'
    BY <1>7, <2>0 DEF SwitchAccount, Begin, With, LoadOutcome, SaveCall,
       GrantInv
  <2>2. IndexInv'
    BY <1>7, <2>0 DEF SwitchAccount, Begin, With, LoadOutcome, SaveCall,
       IndexInv, CallInv, SomeUser
  <2>3. CallInv'
    BY <1>7, <2>0 DEF SwitchAccount, Begin, With, LoadOutcome, SaveCall,
       CallInv, TaskInv, SessionInv, IndexInv, GrantInv
  <2>4. TaskInv'
    BY <1>7, <2>0 DEF SwitchAccount, Begin, With, LoadOutcome, SaveCall,
       CallInv, TaskInv, SessionInv, IndexInv, Discovered, Replacing
  <2>5. SessionInv'
    BY <1>7, <2>0 DEF SwitchAccount, Begin, With, LoadOutcome, SaveCall,
       CallInv, TaskInv, SessionInv, GrantInv, IndexInv, Discovered,
       Replacing
  <2>6. CleanInv'
    BY <1>7, <2>0 DEF SwitchAccount, Begin, With, LoadOutcome, SaveCall,
       CleanInv, CallInv
  <2>7. DocumentInv'
    BY <1>7, <2>0 DEF SwitchAccount, Begin, With, LoadOutcome, SaveCall,
       DocumentInv, CallInv, TaskInv, GrantInv, IndexInv
  <2> QED BY <2>1, <2>2, <2>3, <2>4, <2>5, <2>6, <2>7
<1>8. ASSUME NEW u \in Users, NEW r \in LoadResults(u), RemoveOther(u, r)
      PROVE  Facts'
  <2>0. LoadOutcome(u, r) /\ (faulty => faulty')
    BY <1>8, LoadKeeps, FaultKept DEF RemoveOther, Load, Begin
  <2>1. GrantInv'
    BY <1>8, <2>0 DEF RemoveOther, Begin, With, LoadOutcome, SaveCall,
       GrantInv
  <2>2. IndexInv'
    BY <1>8, <2>0 DEF RemoveOther, Begin, With, LoadOutcome, SaveCall,
       IndexInv, CallInv, SomeUser
  <2>3. CallInv'
    BY <1>8, <2>0 DEF RemoveOther, Begin, With, LoadOutcome, SaveCall,
       CallInv, TaskInv, SessionInv, IndexInv, GrantInv
  <2>4. TaskInv'
    BY <1>8, <2>0 DEF RemoveOther, Begin, With, LoadOutcome, SaveCall,
       CallInv, TaskInv, SessionInv, IndexInv, Discovered, Replacing
  <2>5. SessionInv'
    BY <1>8, <2>0 DEF RemoveOther, Begin, With, LoadOutcome, SaveCall,
       CallInv, TaskInv, SessionInv, GrantInv, IndexInv, Discovered,
       Replacing
  <2>6. CleanInv'
    BY <1>8, <2>0 DEF RemoveOther, Begin, With, LoadOutcome, SaveCall,
       CleanInv, CallInv
  <2>7. DocumentInv'
    BY <1>8, <2>0 DEF RemoveOther, Begin, With, LoadOutcome, SaveCall,
       DocumentInv, CallInv, TaskInv, GrantInv, IndexInv
  <2> QED BY <2>1, <2>2, <2>3, <2>4, <2>5, <2>6, <2>7
<1>9. ASSUME NEW g \in {session.grant, granted + 1}, Refresh(g)
      PROVE  Facts'
    BY <1>9, SMTT(30) DEF Refresh, Begin, With, SaveCall, GrantInv,
       IndexInv, CallInv, TaskInv, SessionInv, CleanInv, DocumentInv,
       Discovered, Replacing, SomeUser
<1> QED BY <1>1, <1>2, <1>3, <1>4, <1>5, <1>6, <1>7, <1>8, <1>9 DEF
           Operation

-----------------------------------------------------------------------------
\* An earlier version leaves a state with the facts.
LEMMA VaultInit ==
    ASSUME Init
    PROVE  VaultInv
<1> USE VaultAssumption
<1>1. TypeOK
  <2>1. file \in Legacies /\ document \in Legacies /\ store \in [Users -> Nat]
    BY DEF Init, Legacies, LegacyGrant
  <2>2. index \in Indexes
    BY DEF Init, NoIndex, Indexes, SomeUser
  <2>3. session \in Sessions /\ task \in Tasks /\ call \in Calls
    BY DEF Init, NoSession, Loop, NoCall, Sessions, Tasks, Calls, Points,
           Migrating, SomeUser
  <2>4. restored \in BOOLEAN /\ saved \in BOOLEAN /\ failures \in BOOLEAN
        /\ faulty \in BOOLEAN
    BY Zenon DEF Init
  <2> QED BY <2>1, <2>2, <2>3, <2>4 DEF Init, TypeOK, LegacyGrant
<1>2. GrantInv
    BY <1>1 DEF Init, GrantInv, Saving, NoSession, Loop, NoCall, LegacyGrant
<1>3. IndexInv
    BY DEF Init, IndexInv, NoIndex
<1>4. CallInv /\ TaskInv
    BY DEF Init, CallInv, TaskInv, Saving, Removing, At, Loop, NoCall
<1>5. SessionInv
    BY DEF Init, SessionInv, NoSession, Loop, Removing, NoCall
<1>6. CleanInv /\ DocumentInv
    BY DEF Init, CleanInv, DocumentInv, Loop
<1> QED BY <1>1, <1>2, <1>3, <1>4, <1>5, <1>6 DEF VaultInv

\* Every step keeps the inductive invariant.
LEMMA VaultStep ==
    ASSUME VaultInv, [Next]_vars
    PROVE  VaultInv'
<1>1. TypeOK'
    BY DataTyped, ControlTyped DEF TypeOK
<1>2. ASSUME Crash PROVE Facts'
    BY <1>2, VaultAssumption, SMTT(30) DEF Crash, VaultInv, Facts, TypeOK,
       Tasks, Calls, Indexes, Sessions, Legacies, LegacyGrant, GrantInv,
       IndexInv, CallInv, TaskInv, SessionInv, CleanInv, DocumentInv,
       Saving, Removing, Discovered, Migrating, Replacing, SomeUser, Loop,
       NoCall, NoSession, At
<1>3. ASSUME UNCHANGED vars PROVE Facts'
    BY <1>3 DEF VaultInv, Facts, GrantInv, IndexInv, CallInv, TaskInv, SessionInv,
                CleanInv, DocumentInv, Saving, Removing, Replacing, Discovered,
                At, vars, vault, service
<1>4. Facts'
    BY <1>2, <1>3, VaultCallKeeps, MigrationKeeps, RunningKeeps, OperationKeeps
       DEF Next
<1> QED BY <1>1, <1>4 DEF VaultInv, Facts

\* The facts of the vault hold in every state: of every store, index, session
\* and program point of GfnService and CredentialVault.
THEOREM VaultInvariant == Spec => []VaultInv
<1>1. Init => VaultInv
    BY VaultInit
<1>2. VaultInv /\ [Next]_vars => VaultInv'
    BY VaultStep
<1> QED BY <1>1, <1>2, PTL DEF Spec

\* An account whose removal reached accounts.json is not signed in again by a
\* restore, a migration, a switch or somebody else's logout.
THEOREM SignedOut == Spec => []SignedOutStaysOut
<1>1. VaultInv => SignedOutStaysOut
    BY DEF VaultInv, SessionInv, Replacing, SignedOutStaysOut, Idle, At
<1> QED BY <1>1, VaultInvariant, PTL

\* A session that is reported as "secure-store" is found by the next core.
THEOREM SecureStore == Spec => []SecureStoreSurvivesRestart
<1>1. VaultInv => SecureStoreSurvivesRestart
    BY DEF VaultInv, SessionInv, Replacing, SecureStoreSurvivesRestart, Idle, At
<1> QED BY <1>1, VaultInvariant, PTL

\* A run of the core in which nothing fails leaves nothing of a removed
\* account, neither its own nor one an earlier run failed to remove.
THEOREM Cleaned == Spec => []RemovedIsCleaned
<1>1. VaultInv => RemovedIsCleaned
    BY DEF VaultInv, CleanInv, RemovedIsCleaned, Idle, At
<1> QED BY <1>1, VaultInvariant, PTL

\* The credential store goes back to an older grant only for the session of
\* that account, and loses one only by CredentialVault::remove.
THEOREM NewestKept == Spec => StoreKeepsNewest
<1> DEFINE Kept == \A u \in Users : store'[u] < store[u] =>
                     \/ call.at = "delete" /\ call.user = u
                     \/ session.user = u /\ store'[u] = session.grant
<1>1. ASSUME VaultInv, [Next]_vars
      PROVE  Kept
  <2>1. /\ store \in [Users -> Nat] /\ call.grant \in Nat /\ call.user \in SomeUser
        /\ session.grant \in Nat
    BY <1>1 DEF VaultInv, TypeOK, Calls, Sessions
  <2>2. CASE SaveSecret
    <3>1. store' = store \/ store' = [store EXCEPT ![call.user] = call.grant]
      BY <2>2 DEF SaveSecret
    <3>2. \/ store[call.user] <= call.grant
          \/ session.user = call.user /\ session.grant = call.grant
      BY <1>1, <2>1, <2>2 DEF SaveSecret, VaultInv, CallInv
    <3> QED BY <2>1, <3>1, <3>2
  <2>3. CASE DeleteSecret
    BY <2>1, <2>3 DEF DeleteSecret
  <2>4. CASE store' = store
    BY <2>1, <2>4
  <2> QED BY <1>1, <2>2, <2>3, <2>4, Writers
<1>2. VaultInv /\ [Next]_vars => [Kept]_vars
    BY <1>1
<1> QED BY <1>2, VaultInvariant, PTL DEF Spec, StoreKeepsNewest

\* A plaintext session file and the Electron document are removed only once
\* the account is in the credential store and in the index, or was removed.
THEOREM LegacyKept == Spec => LegacySourceKept
<1> DEFINE Kept == \A u \in Users :
                     (file'[u] < file[u] \/ document'[u] < document[u]) =>
                        \/ store[u] # 0 /\ u \in index.accounts
                        \/ u \in suppressed \cup index.discarded
<1>1. ASSUME VaultInv, [Next]_vars, NEW u \in Users, file'[u] < file[u]
      PROVE  \/ store[u] # 0 /\ u \in index.accounts
             \/ u \in suppressed \cup index.discarded
  <2>1. file \in Legacies /\ file[u] \in Int
    BY <1>1 DEF VaultInv, TypeOK, Legacies, LegacyGrant
  <2>2. RemoveSessionFile
    BY <1>1, <2>1, Writers
  <2>3. u = call.user /\ call.at \in {"clean", "unfile"}
    BY <1>1, <2>1, <2>2 DEF RemoveSessionFile, Legacies
  <2> QED BY <1>1, <2>3 DEF VaultInv, CallInv, GrantInv, Saving
<1>2. ASSUME VaultInv, [Next]_vars, NEW u \in Users, document'[u] < document[u]
      PROVE  \/ store[u] # 0 /\ u \in index.accounts
             \/ u \in suppressed \cup index.discarded
  <2>1. document[u] \in {0, 1}
    BY <1>2 DEF VaultInv, TypeOK, Legacies, LegacyGrant
  <2>2. DiscardDocument
    BY <1>2, <2>1, Writers
  <2>3. task.at = "discard" /\ document[u] # 0
    BY <1>2, <2>1, <2>2 DEF DiscardDocument, At
  <2> QED BY <1>2, <2>3 DEF VaultInv, DocumentInv, TaskInv
<1>3. VaultInv /\ [Next]_vars => [Kept]_vars
    BY <1>1, <1>2
<1> QED BY <1>3, VaultInvariant, PTL DEF Spec, LegacySourceKept

=============================================================================
