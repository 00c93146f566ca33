------------------------------- MODULE Requests -------------------------------
(***************************************************************************)
(* native/opennow-core/src/requests.rs at the granularity of its locks:    *)
(* the reader loop admits, cancels and acknowledges calls, one worker      *)
(* thread per call commits its work, awaits the receipt of an allocation   *)
(* and drops its permit.                                                   *)
(*                                                                         *)
(* The map of calls is locked by the reader while it looks for the token   *)
(* of a cancellation or receipt, and a worker removes itself under the     *)
(* same lock; `accepted` of a token is locked by its worker at the points  *)
(* in Locked and by the reader for one step.  The locks are therefore the  *)
(* program points of their holders.                                        *)
(***************************************************************************)
EXTENDS Naturals, FiniteSets

CONSTANTS
    Ids,            \* request IDs
    Background,     \* the IDs of background methods
    MaxActive,      \* MAX_ACTIVE
    MaxBackground   \* MAX_BACKGROUND

ASSUME RequestsAssumption ==
    /\ IsFiniteSet(Ids)
    /\ Background \subseteq Ids
    /\ MaxActive \in Nat
    /\ MaxBackground \in Nat

VARIABLES
    reader,     \* what the reader loop does, and for which call
    worker,     \* program point of each call's worker, "absent" without one
    cancelled,  \* RequestState.cancelled
    accepted    \* RequestState.accepted

vars == <<reader, worker, cancelled, accepted>>

-----------------------------------------------------------------------------
WorkerPoints == {"absent", "running", "commit", "work", "receipt", "waiting",
                 "woken", "ending"}

ReaderOps == {"idle", "cancel", "ack", "notify"}

TypeOK ==
    /\ reader \in [op : ReaderOps, id : Ids]
    /\ worker \in [Ids -> WorkerPoints]
    /\ cancelled \in SUBSET Ids
    /\ accepted \in SUBSET Ids

Init ==
    /\ reader \in [op : {"idle"}, id : Ids]
    /\ worker = [id \in Ids |-> "absent"]
    /\ cancelled = {}
    /\ accepted = {}

MapFree == reader.op = "idle"

\* Mutant: the commit lock is released before the work.
LockedCheckOnly == {"commit", "receipt"}

\* The points at which a worker holds `accepted` of its token.
Locked == {"commit", "work", "receipt"}

Active == {id \in Ids : worker[id] # "absent"}

-----------------------------------------------------------------------------
(* The reader loop.                                                         *)

HasRoom(id) ==
    /\ Cardinality(Active) < MaxActive
    /\ id \in Background => Cardinality(Active \cap Background) < MaxBackground

\* admit: a new token; a call that is refused is answered with "busy".
Admit(id) ==
    /\ MapFree
    /\ worker[id] = "absent"
    /\ HasRoom(id)
    /\ worker' = [worker EXCEPT ![id] = "running"]
    /\ cancelled' = cancelled \ {id}
    /\ accepted' = accepted \ {id}
    /\ UNCHANGED reader

\* cancel and acknowledge keep the map locked until the token is done.
Find(op, id) ==
    /\ MapFree
    /\ worker[id] # "absent"
    /\ reader' = [op |-> op, id |-> id]
    /\ UNCHANGED <<worker, cancelled, accepted>>

\* notify_all.
Woken(id) ==
    [worker EXCEPT ![id] = IF @ = "waiting" THEN "woken" ELSE @]

\* Mutant: a cancellation does not wake the worker.
CancelSilently ==
    /\ reader.op = "cancel"
    /\ worker[reader.id] \notin Locked
    /\ cancelled' = cancelled \cup {reader.id}
    /\ reader' = [reader EXCEPT !.op = "idle"]
    /\ UNCHANGED <<worker, accepted>>

Cancel ==
    /\ reader.op = "cancel"
    /\ worker[reader.id] \notin Locked
    /\ cancelled' = cancelled \cup {reader.id}
    /\ worker' = Woken(reader.id)
    /\ reader' = [reader EXCEPT !.op = "idle"]
    /\ UNCHANGED accepted

\* acknowledge releases the receipt before it notifies.
Acknowledge ==
    /\ reader.op = "ack"
    /\ worker[reader.id] \notin Locked
    /\ accepted' = accepted \cup {reader.id}
    /\ reader' = [reader EXCEPT !.op = "notify"]
    /\ UNCHANGED <<worker, cancelled>>

NotifyReceipt ==
    /\ reader.op = "notify"
    /\ worker' = Woken(reader.id)
    /\ reader' = [reader EXCEPT !.op = "idle"]
    /\ UNCHANGED <<cancelled, accepted>>

-----------------------------------------------------------------------------
(* The worker of a call.                                                    *)

At(id, from, to) ==
    /\ worker[id] = from
    /\ worker' = [worker EXCEPT ![id] = to]
    /\ UNCHANGED <<reader, cancelled, accepted>>

\* commit: lock, check, work, unlock.  A call commits once, or awaits its
\* receipt once, or does neither.
LockCommit(id) == At(id, "running", "commit")

CheckCommit(id) ==
    \/ id \in cancelled /\ At(id, "commit", "ending")
    \/ id \notin cancelled /\ At(id, "commit", "work")

\* Mutant: the work needs the map of calls, as dropping a permit does.
EndCommitInMap(id) == MapFree /\ At(id, "work", "ending")

EndCommit(id) == At(id, "work", "ending")

\* await_acceptance: the predicate is evaluated under the lock, which the
\* wait on the condition variable releases.
LockReceipt(id) == At(id, "running", "receipt")

CheckReceipt(id) ==
    IF id \in accepted \cup cancelled
    THEN At(id, "receipt", "ending")
    ELSE At(id, "receipt", "waiting")

Relock(id) == At(id, "woken", "receipt")

\* Ten seconds passed.
Timeout(id) == At(id, "waiting", "ending")

\* Mutant: the entry is removed without the lock of the map.
DropPermitUnlocked(id) ==
    At(id, "running", "absent") \/ At(id, "ending", "absent")

\* Permit::drop.
DropPermit(id) ==
    MapFree /\ (At(id, "running", "absent") \/ At(id, "ending", "absent"))

-----------------------------------------------------------------------------
ReaderStep == Cancel \/ Acknowledge \/ NotifyReceipt

\* What a worker does without waiting for anybody but a lock.
WorkerStep(id) ==
    \/ CheckCommit(id) \/ EndCommit(id) \/ CheckReceipt(id) \/ Relock(id)

Next ==
    \/ \E id \in Ids :
         \/ Admit(id)
         \/ \E op \in {"cancel", "ack"} : Find(op, id)
         \/ LockCommit(id) \/ LockReceipt(id) \/ WorkerStep(id)
         \/ Timeout(id) \/ DropPermit(id)
    \/ ReaderStep

Spec == Init /\ [][Next]_vars

\* Threads that hold or wait for a lock run.  The timeout is left out: being
\* woken must not depend on it.
FairSpec ==
    /\ Spec
    /\ WF_vars(ReaderStep)
    /\ \A id \in Ids : WF_vars(WorkerStep(id))

-----------------------------------------------------------------------------
\* A cancellation that has been stored fences the commit: no worker is inside
\* its committed work with the call cancelled, so that a sign-in whose
\* cancellation was processed is not completed.
CommitFence == \A id \in cancelled : worker[id] # "work"

\* At most MAX_ACTIVE calls run, and background calls leave room for others.
LimitsHold ==
    /\ Cardinality(Active) <= MaxActive
    /\ Cardinality(Active \cap Background) <= MaxBackground

\* The token that cancel or acknowledge found is that of a call that still
\* has its worker: its permit cannot be dropped under the reader.
TokenIsCurrent == reader.op # "idle" => worker[reader.id] # "absent"

\* The inductive invariant of the safety properties above.
RequestsInv ==
    /\ TypeOK
    /\ CommitFence
    /\ LimitsHold
    /\ TokenIsCurrent

\* The reader loop, which every call and cancellation comes through, is never
\* blocked for good by a worker that holds the receipt lock.
ReaderReturns == (reader.op # "idle") ~> (reader.op = "idle")

\* A worker that awaits its receipt is woken by the receipt or cancellation
\* itself, not only by its timeout.
WakesUp ==
    \A id \in Ids :
        (worker[id] = "waiting" /\ id \in cancelled \cup accepted)
            ~> (worker[id] # "waiting")

=============================================================================
