-------------------------- MODULE SessionAllocation --------------------------
(***************************************************************************)
(* The life of a cloud seat that `session.create` allocates: the Qt shell  *)
(* (CoreClient) sends the call and acknowledges or cancels it, the reader  *)
(* loop and one worker thread per call run it (main.rs, requests.rs), the  *)
(* account-scoped service routes it (gfn.rs) and CloudMatchService         *)
(* (cloudmatch.rs) allocates, hands over, compensates, polls, claims and   *)
(* ends the seat.  The account may change, the shell may cancel, an HTTP   *)
(* call may fail and the core may be restarted at any point.               *)
(*                                                                         *)
(* A call allocates at most one seat, so a seat is named by its call.  The *)
(* mutexes session_update_gate, session_routing and auth_operation are the *)
(* program points of the worker that holds them.  An operation that holds  *)
(* session_routing from its first read to its last write is one action,    *)
(* with the HTTP call it makes; only `session.create`, which is cancelled  *)
(* and crashes in the middle, is taken apart.                              *)
(***************************************************************************)
EXTENDS Integers, Sequences, FiniteSets

CONSTANTS
    Calls,       \* session.create calls, and the seats they allocate
    Users,       \* accounts
    None,        \* no seat, no account
    MaxChanges,  \* how often the account generation may change
    MaxFaults,   \* how many HTTP calls or file writes may fail
    MaxRestarts  \* how often the core may be restarted

ASSUME AllocationAssumption ==
    /\ None \notin Calls
    /\ None \notin Users
    /\ Users # {}
    /\ MaxChanges \in Nat
    /\ MaxFaults \in Nat
    /\ MaxRestarts \in Nat

VARIABLES
    shell,      \* CoreClient: what became of each call
    stdin,      \* the pipe to the core: messages <<type, call>>
    reply,      \* the answer to each call on its way to the shell
    worker,     \* program point of each call's worker thread
    cancelled,  \* Cancellation: the calls whose flag is set
    accepted,   \* Cancellation: the calls whose receipt came
    callGen,    \* account generation in the scope of each call
    account,    \* signed-in account
    generation, \* ServiceState.generation
    owner,      \* SessionRouting.active_owner
    active,     \* CloudMatchService.active
    fresh,      \* CloudMatchService.fresh
    retained,   \* CloudMatchService.retained_cleanup
    file,       \* pending-session-cleanup.json
    server,     \* CloudMatch: what became of each seat
    seatUser,   \* CloudMatch: account of each seat
    known,      \* seats whose ID this core holds, or has on disk
    claimed,    \* seats that were claimed
    faults, restarts

shellVars == <<shell, stdin, reply>>
callVars == <<worker, cancelled, accepted, callGen>>
accountVars == <<account, generation>>
seatVars == <<owner, active, fresh, retained, file, known, claimed>>
serverVars == <<server, seatUser>>
vars == <<shell, stdin, reply, worker, cancelled, accepted, callGen, account,
          generation, owner, active, fresh, retained, file, server, seatUser,
          known, claimed, faults, restarts>>

-----------------------------------------------------------------------------
WorkerPoints == {"idle", "admitted", "inspect", "routed", "posting", "posted",
                 "respond", "awaiting", "handOver", "release", "done"}

\* allocation_generation of an owner whose seat was handed over or claimed.
NoGeneration == -1

NoOwner == [seat |-> None, user |-> None, gen |-> NoGeneration]

Owners == [seat : Calls \cup {None}, user : Users \cup {None},
           gen : {NoGeneration} \cup 0..MaxChanges]

ShellTypeOK ==
    /\ shell \in [Calls -> {"idle", "pending", "delivered", "cancelled",
                            "failed"}]
    /\ stdin \in Seq({"request", "cancel", "ack"} \X Calls)
    /\ reply \in [Calls -> {"none", "ok", "error"}]

CallTypeOK ==
    /\ worker \in [Calls -> WorkerPoints]
    /\ cancelled \in SUBSET Calls
    /\ accepted \in SUBSET Calls
    /\ callGen \in [Calls -> 0..MaxChanges]

SeatTypeOK ==
    /\ account \in Users \cup {None}
    /\ generation \in 0..MaxChanges
    /\ owner \in Owners
    /\ {active, fresh, retained, file} \subseteq Calls \cup {None}
    /\ server \in [Calls -> {"none", "live", "gone"}]
    /\ seatUser \in [Calls -> Users \cup {None}]
    /\ known \in SUBSET Calls
    /\ claimed \in SUBSET Calls
    /\ faults \in 0..MaxFaults
    /\ restarts \in 0..MaxRestarts

TypeOK == ShellTypeOK /\ CallTypeOK /\ SeatTypeOK

Init ==
    /\ shell = [c \in Calls |-> "idle"]
    /\ stdin = <<>>
    /\ reply = [c \in Calls |-> "none"]
    /\ worker = [c \in Calls |-> "idle"]
    /\ cancelled = {}
    /\ accepted = {}
    /\ callGen = [c \in Calls |-> 0]
    /\ account \in Users
    /\ generation = 0
    /\ owner = NoOwner
    /\ active = None
    /\ fresh = None
    /\ retained = None
    /\ file = None
    /\ server = [c \in Calls |-> "none"]
    /\ seatUser = [c \in Calls |-> None]
    /\ known = {}
    /\ claimed = {}
    /\ faults = 0
    /\ restarts = 0

Fault == faults < MaxFaults /\ faults' = faults + 1

\* session_routing and auth_operation are held from the scope check of a
\* create to the end of its dispatch, session_update_gate from its start.
RoutingFree == \A c \in Calls : worker[c] \notin {"routed", "posting", "posted"}

GateFree == RoutingFree /\ \A c \in Calls : worker[c] # "inspect"

-----------------------------------------------------------------------------
(* The shell: CoreClient.                                                   *)

\* request: the scope names the account generation the shell knows.
SendCreate(c) ==
    /\ shell[c] = "idle"
    /\ account # None
    /\ shell' = [shell EXCEPT ![c] = "pending"]
    /\ callGen' = [callGen EXCEPT ![c] = generation]
    /\ stdin' = Append(stdin, <<"request", c>>)
    /\ UNCHANGED <<reply, worker, cancelled, accepted, accountVars, seatVars,
                   serverVars, faults, restarts>>

\* cancel, and the deadline in processTimeouts.
CancelCreate(c) ==
    /\ shell[c] = "pending"
    /\ shell' = [shell EXCEPT ![c] = "cancelled"]
    /\ stdin' = Append(stdin, <<"cancel", c>>)
    /\ UNCHANGED <<reply, callVars, accountVars, seatVars, serverVars, faults,
                   restarts>>

\* processLine: an answer to a call that is no longer pending is dropped, a
\* successful one is acknowledged before it is delivered.
ReceiveReply(c) ==
    /\ reply[c] # "none"
    /\ reply' = [reply EXCEPT ![c] = "none"]
    /\ \/ /\ shell[c] # "pending"
          /\ UNCHANGED <<shell, stdin>>
       \/ /\ shell[c] = "pending"
          /\ reply[c] = "error"
          /\ shell' = [shell EXCEPT ![c] = "failed"]
          /\ UNCHANGED stdin
       \/ /\ shell[c] = "pending"
          /\ reply[c] = "ok"
          /\ shell' = [shell EXCEPT ![c] = "delivered"]
          /\ stdin' = Append(stdin, <<"ack", c>>)
    /\ UNCHANGED <<callVars, accountVars, seatVars, serverVars, faults,
                   restarts>>

-----------------------------------------------------------------------------
(* The reader loop of main.rs.  A cancellation or receipt for a call whose  *)
(* permit was dropped finds no entry.                                       *)

Running(c) == worker[c] \notin {"idle", "done"}

ReadLine ==
    /\ stdin # <<>>
    /\ LET type == Head(stdin)[1]
           c == Head(stdin)[2]
       IN  /\ worker' = IF type = "request"
                        THEN [worker EXCEPT ![c] = "admitted"] ELSE worker
           /\ cancelled' = IF type = "cancel" /\ Running(c)
                           THEN cancelled \cup {c} ELSE cancelled
           /\ accepted' = IF type = "ack" /\ Running(c)
                          THEN accepted \cup {c} ELSE accepted
    /\ stdin' = Tail(stdin)
    /\ UNCHANGED <<shell, reply, callGen, accountVars, seatVars, serverVars,
                   faults, restarts>>

-----------------------------------------------------------------------------
(* The worker of a session.create call.                                     *)

\* The answer of a cancelled call is suppressed; the permit is dropped.
Fails(c) ==
    /\ worker' = [worker EXCEPT ![c] = "done"]
    /\ reply' = [reply EXCEPT ![c] = IF c \in cancelled THEN @ ELSE "error"]

\* admit_create.
MayAllocate == retained = None /\ fresh = None

\* requests::check, the session_update_gate of dispatch and admit_create.
AdmitCreate(c) ==
    /\ worker[c] = "admitted"
    /\ \/ /\ c \notin cancelled
          /\ GateFree
          /\ MayAllocate
          /\ worker' = [worker EXCEPT ![c] = "inspect"]
          /\ UNCHANGED reply
       \/ /\ c \in cancelled \/ ~GateFree \/ ~MayAllocate
          /\ Fails(c)
    /\ UNCHANGED <<shell, stdin, cancelled, accepted, callGen, accountVars,
                   seatVars, serverVars, faults, restarts>>

\* create_session up to the scope and active-seat checks under the
\* session_routing and auth_operation locks; the launch inspection and the
\* catalog may refuse the launch.
InspectLaunch(c) ==
    /\ worker[c] = "inspect"
    /\ \/ /\ c \notin cancelled
          /\ RoutingFree
          /\ account # None
          /\ generation = callGen[c]
          /\ active = None
          /\ worker' = [worker EXCEPT ![c] = "routed"]
          /\ UNCHANGED reply
       \/ Fails(c)
    /\ UNCHANGED <<shell, stdin, cancelled, accepted, callGen, accountVars,
                   seatVars, serverVars, faults, restarts>>

\* create_admitted up to the POST; CloudMatch may refuse.
PostCreate(c) ==
    /\ worker[c] = "routed"
    /\ \/ /\ c \in cancelled
          /\ Fails(c)
          /\ UNCHANGED serverVars
       \/ /\ c \notin cancelled
          /\ worker' = [worker EXCEPT ![c] = "posting"]
          /\ \/ /\ server' = [server EXCEPT ![c] = "live"]
                /\ seatUser' = [seatUser EXCEPT ![c] = account]
             \/ UNCHANGED serverVars
          /\ UNCHANGED reply
    /\ UNCHANGED <<shell, stdin, cancelled, accepted, callGen, accountVars,
                   seatVars, faults, restarts>>

\* The answer: the seat is recorded as fresh before anything else, or the
\* call fails; an answer that is lost leaves a seat nobody knows the ID of.
PostAnswered(c) ==
    /\ worker[c] = "posting"
    /\ \/ /\ server[c] # "none"
          /\ fresh' = c
          /\ known' = known \cup {c}
          /\ worker' = [worker EXCEPT ![c] = "posted"]
          /\ UNCHANGED <<reply, faults>>
       \/ /\ server[c] = "none"
          /\ Fails(c)
          /\ UNCHANGED <<fresh, known, faults>>
       \/ /\ server[c] # "none"
          /\ Fault
          /\ Fails(c)
          /\ UNCHANGED <<fresh, known>>
    /\ UNCHANGED <<shell, stdin, cancelled, accepted, callGen, accountVars,
                   owner, active, retained, file, claimed, serverVars,
                   restarts>>

\* The DELETE of a seat: done (or not found), or failed, with or without
\* effect on the server.
Deleted(c) ==
    server' = [server EXCEPT ![c] = IF @ = "live" THEN "gone" ELSE @]

DeleteFails(c) == Fault /\ (Deleted(c) \/ UNCHANGED server)

Without(seat, c) == IF seat = c THEN None ELSE seat

\* Mutant: a seat whose DELETE fails is forgotten.
FinishCreateForgets(c, accept) ==
    \/ /\ fresh # c
       /\ UNCHANGED <<active, fresh, retained, file, server, faults>>
    \/ /\ fresh = c
       /\ accept
       /\ fresh' = None
       /\ UNCHANGED <<active, retained, file, server, faults>>
    \/ /\ fresh = c
       /\ ~accept
       /\ (Deleted(c) /\ UNCHANGED faults) \/ DeleteFails(c)
       /\ active' = Without(active, c)
       /\ fresh' = None
       /\ UNCHANGED <<retained, file>>

\* finish_create: a seat that is not accepted is deleted; when that fails it
\* stays fresh and is retained in memory and on disk.
FinishCreate(c, accept) ==
    \/ /\ fresh # c
       /\ UNCHANGED <<active, fresh, retained, file, server, faults>>
    \/ /\ fresh = c
       /\ accept
       /\ fresh' = None
       /\ UNCHANGED <<active, retained, file, server, faults>>
    \/ /\ fresh = c
       /\ ~accept
       /\ Deleted(c)
       /\ active' = Without(active, c)
       /\ fresh' = None
       /\ retained' = Without(retained, c)
       /\ file' = IF retained = c THEN None ELSE file
       /\ UNCHANGED faults
    \/ /\ fresh = c
       /\ ~accept
       /\ DeleteFails(c)
       /\ active' = Without(active, c)
       /\ retained' = c
       /\ file' \in {c, file}
       /\ UNCHANGED fresh

\* Mutant: a cancelled create returns without closing its seat.
CompensateCreateForgets(c) ==
    /\ worker[c] = "posted"
    /\ c \in cancelled
    /\ Fails(c)
    /\ UNCHANGED <<shell, stdin, cancelled, accepted, callGen, accountVars,
                   seatVars, serverVars, faults, restarts>>

\* The cancellation checks of create_admitted after the POST.
CompensateCreate(c) ==
    /\ worker[c] = "posted"
    /\ c \in cancelled
    /\ FinishCreate(c, FALSE)
    /\ Fails(c)
    /\ UNCHANGED <<shell, stdin, cancelled, accepted, callGen, accountVars,
                   owner, seatUser, known, claimed, restarts>>

\* store_active and the capture of the owner; a seat that CloudMatch reports
\* as finished is not stored.
StoreCreated(c) ==
    /\ worker[c] = "posted"
    /\ c \notin cancelled
    /\ \/ /\ active' = c
          /\ owner' = [seat |-> c, user |-> account, gen |-> callGen[c]]
       \/ /\ server[c] = "gone"
          /\ UNCHANGED <<active, owner>>
    /\ worker' = [worker EXCEPT ![c] = "respond"]
    /\ UNCHANGED <<shellVars, cancelled, accepted, callGen, accountVars,
                   fresh, retained, file, known, claimed, serverVars, faults,
                   restarts>>

\* was_cancelled, and the delivery of the answer.
Respond(c) ==
    /\ worker[c] = "respond"
    /\ \/ /\ c \in cancelled
          /\ worker' = [worker EXCEPT ![c] = "release"]
          /\ UNCHANGED reply
       \/ /\ c \notin cancelled
          /\ worker' = [worker EXCEPT ![c] = "awaiting"]
          /\ reply' = [reply EXCEPT ![c] = "ok"]
    /\ UNCHANGED <<shell, stdin, cancelled, accepted, callGen, accountVars,
                   seatVars, serverVars, faults, restarts>>

\* Mutant: the receipt is awaited without a deadline.
AwaitAcceptanceForever(c) ==
    /\ worker[c] = "awaiting"
    /\ c \in accepted
    /\ worker' = [worker EXCEPT ![c] = IF c \notin cancelled
                                       THEN "handOver" ELSE "release"]
    /\ UNCHANGED <<shellVars, cancelled, accepted, callGen, accountVars,
                   seatVars, serverVars, faults, restarts>>

\* await_acceptance: the receipt, the cancellation or ten seconds.
AwaitAcceptance(c) ==
    /\ worker[c] = "awaiting"
    /\ worker' = [worker EXCEPT ![c] = IF c \in accepted \ cancelled
                                       THEN "handOver" ELSE "release"]
    /\ UNCHANGED <<shellVars, cancelled, accepted, callGen, accountVars,
                   seatVars, serverVars, faults, restarts>>

\* Mutant: the scope is not checked again at the hand-over.
InScopeUnchecked(c) == owner.seat = c

\* check_scope of the owner captured for this allocation.
InScope(c) ==
    /\ owner.seat = c
    /\ owner.gen = generation
    /\ owner.user = account

\* Mutant: the owner outlives its seat.
OwnerAfterFinishKept(c) ==
    IF active' # None /\ owner.seat = c
    THEN [owner EXCEPT !.gen = NoGeneration] ELSE owner

OwnerAfterFinish(c) ==
    IF active' = None THEN NoOwner
    ELSE IF owner.seat = c THEN [owner EXCEPT !.gen = NoGeneration]
    ELSE owner

\* finish_session_create under the session_routing lock.
FinishSessionCreate(c) ==
    /\ worker[c] \in {"handOver", "release"}
    /\ RoutingFree
    /\ FinishCreate(c, worker[c] = "handOver" /\ InScope(c))
    /\ owner' = OwnerAfterFinish(c)
    /\ worker' = [worker EXCEPT ![c] = "done"]
    /\ UNCHANGED <<shellVars, cancelled, accepted, callGen, accountVars,
                   known, claimed, seatUser, restarts>>

-----------------------------------------------------------------------------
(* The other operations on the seat.                                        *)

\* poll, report_ad and claim on the active seat: the seat is stored again, or
\* cleared with its owner when it is finished or not found.
PollSession ==
    /\ active # None
    /\ RoutingFree \* report_ad does not take session_update_gate
    /\ server[active] = "gone"
    /\ active' = None
    /\ owner' = NoOwner
    /\ UNCHANGED <<shellVars, callVars, accountVars, fresh, retained, file,
                   known, claimed, serverVars, faults, restarts>>

\* The account may reach its own seats that are not active: discovery lists
\* them, in a listing that may be older than the end of a seat, and the
\* retained one is listed without discovery.
Reachable(c) == account # None /\ seatUser[c] = account

\* claim_session: no other seat may be active, and the active seat may only
\* be claimed by its owner.
ClaimSession(c) ==
    /\ GateFree
    /\ \/ active = None /\ Reachable(c)
       \/ active = c /\ owner.seat = c /\ owner.user = account
    /\ server[c] = "live"
    /\ active' = c
    /\ owner' = IF owner = NoOwner
                THEN [seat |-> c, user |-> account, gen |-> NoGeneration]
                ELSE owner
    /\ known' = known \cup {c}
    /\ claimed' = claimed \cup {c}
    /\ UNCHANGED <<shellVars, callVars, accountVars, fresh, retained, file,
                   serverVars, faults, restarts>>

\* stop and stop_at: the active seat is ended with its owner's credentials, a
\* discovered one with the current account's; a retained seat is refused, so
\* that the record which stop_at would clear is never the one of its seat.
StopSession(c) ==
    /\ RoutingFree
    /\ IF active = c THEN owner.seat = c ELSE Reachable(c)
    /\ retained # c
    /\ \/ /\ Deleted(c)
          /\ active' = Without(active, c)
          /\ retained' = Without(retained, c)
          /\ file' = IF retained = c THEN None ELSE file
          /\ fresh' = Without(fresh, c)
          /\ owner' = IF active = c THEN NoOwner ELSE owner
          /\ UNCHANGED faults
       \/ /\ DeleteFails(c)
          /\ UNCHANGED <<active, retained, file, fresh, owner>>
    /\ UNCHANGED <<shellVars, callVars, accountVars, known, claimed, seatUser,
                   restarts>>

-----------------------------------------------------------------------------
(* The environment.                                                         *)

\* Sign-in, account switch, logout and revocation hold auth_operation.
ChangeAccount(user) ==
    /\ RoutingFree
    /\ generation < MaxChanges
    /\ user # account
    /\ account' = user
    /\ generation' = generation + 1
    /\ UNCHANGED <<shellVars, callVars, seatVars, serverVars, faults,
                   restarts>>

\* clear_cache changes the generation without any of the locks.
ClearCache ==
    /\ generation < MaxChanges
    /\ generation' = generation + 1
    /\ UNCHANGED <<shellVars, callVars, account, seatVars, serverVars, faults,
                   restarts>>

\* CloudMatch ends the seat.
SeatEnds(c) ==
    /\ server[c] = "live"
    /\ server' = [server EXCEPT ![c] = "gone"]
    /\ UNCHANGED <<shellVars, callVars, accountVars, seatVars, seatUser,
                   faults, restarts>>

\* with_cleanup_path reads the record back.
RecordAfterRestart == file

\* The core exits or is killed, the shell fails what is pending (failAll) and
\* starts it again: only the cleanup record survives.
RestartCore ==
    /\ restarts < MaxRestarts
    /\ restarts' = restarts + 1
    /\ shell' = [c \in Calls |-> IF shell[c] = "pending"
                                 THEN "failed" ELSE shell[c]]
    /\ stdin' = <<>>
    /\ reply' = [c \in Calls |-> "none"]
    /\ worker' = [c \in Calls |-> IF worker[c] = "idle" /\ shell[c] = "idle"
                                  THEN "idle" ELSE "done"]
    /\ owner' = NoOwner
    /\ active' = None
    /\ fresh' = None
    /\ retained' = RecordAfterRestart
    /\ known' = {c \in Calls : file = c}
    /\ UNCHANGED <<cancelled, accepted, callGen, accountVars, file, claimed,
                   serverVars, faults>>

-----------------------------------------------------------------------------
WorkerStep(c) ==
    \/ AdmitCreate(c) \/ InspectLaunch(c) \/ PostCreate(c) \/ PostAnswered(c)
    \/ CompensateCreate(c) \/ StoreCreated(c) \/ Respond(c)
    \/ AwaitAcceptance(c) \/ FinishSessionCreate(c)

Next ==
    \/ \E c \in Calls : SendCreate(c) \/ CancelCreate(c) \/ ReceiveReply(c)
    \/ ReadLine
    \/ \E c \in Calls : WorkerStep(c)
    \/ PollSession
    \/ \E c \in Calls : ClaimSession(c) \/ StopSession(c)
    \/ \E user \in Users \cup {None} : ChangeAccount(user)
    \/ ClearCache
    \/ \E c \in Calls : SeatEnds(c)
    \/ RestartCore

Spec == Init /\ [][Next]_vars

\* The reader and the workers are threads that run; every HTTP call, and the
\* wait for a receipt, has a deadline.
FairSpec ==
    /\ Spec
    /\ WF_vars(ReadLine)
    /\ \A c \in Calls : WF_vars(WorkerStep(c)) /\ WF_vars(ReceiveReply(c))

\* A user who wants a seat ended keeps asking for it.
FairRetrySpec == FairSpec /\ \A c \in Calls : SF_vars(StopSession(c))

-----------------------------------------------------------------------------
\* A seat whose ID the core has learned and that still runs is never
\* forgotten: it is active, awaits its hand-over, or is retained for cleanup,
\* whatever was cancelled, failed, polled, claimed or stopped meanwhile.
NoSeatForgotten ==
    \A c \in known : server[c] = "live" => c \in {active, fresh, retained}

\* While a create is between its checks and the end of its POST there is no
\* other seat: not an active one, not one awaiting its hand-over, and not one
\* left over from a failed cleanup, also of an earlier run of the core.
AllocationIsExclusive ==
    \A c \in Calls :
        /\ worker[c] \in {"routed", "posting"} =>
             active = None /\ fresh = None /\ retained = None
        /\ worker[c] = "posted" =>
             active = None /\ fresh = c /\ retained = None

\* active_owner is the owner of the active seat: the account it was allocated
\* for or claimed with, so that its credentials are never used for another
\* account's seat, and it never outlives the seat.
OwnerOwnsActiveSeat ==
    IF active = None THEN owner = NoOwner
    ELSE owner.seat = active /\ owner.user = seatUser[active]

\* A launch that the shell gave up, by cancelling, by its deadline or because
\* the answer came too late, does not become the active seat: when the call
\* has ended, an active seat was delivered to the shell or claimed.
AbandonedLaunchIsNotActive ==
    \A c \in Calls \ claimed :
        active = c /\ worker[c] = "done" => shell[c] = "delivered"

\* A seat is handed over only in the account context its launch was asked
\* for: not after an account change, nor after anything else that started a
\* new generation.
HandOverInItsScope ==
    [][\A c \in Calls :
          (worker[c] = "handOver" /\ worker'[c] = "done" /\ active' = c
             /\ fresh = c /\ fresh' = None)
          => generation = callGen[c] /\ account = seatUser[c]]_vars

\* The seats the core answers for.
Held == {active, fresh, retained} \ {None}

Ledger == INSTANCE SeatLedger WITH Seats <- Calls, held <- Held

\* The core keeps the ledger of its paid seats: it asks for one only when it
\* answers for none, and drops one only when the seat is over, through every
\* cancellation, lost answer, failed DELETE, claim, account change and restart.
ImplementsLedger == Ledger!LedgerSpec

HandingOver == {"respond", "awaiting", "handOver", "release"}
Dispatching == {"inspect", "routed", "posting", "posted"}

\* What is on the pipe: a request that was not read yet, and receipts of
\* delivered calls.
PipeInv ==
    /\ \A i \in 1..Len(stdin) :
         LET type == stdin[i][1]
             c == stdin[i][2]
         IN  /\ shell[c] # "idle"
             /\ type = "request" => worker[c] = "idle"
             /\ type = "ack" => shell[c] = "delivered"
    /\ \A i, j \in 1..Len(stdin) :
         (/\ stdin[i][1] = "request"
          /\ stdin[j][1] = "request"
          /\ stdin[i][2] = stdin[j][2]) => i = j
    /\ \A c \in Calls : shell[c] = "idle" => worker[c] = "idle"
    /\ \A c \in accepted : shell[c] = "delivered"

\* session_update_gate serialises the creates, and a seat exists only from
\* the POST of its call on.
GateInv ==
    /\ \A c, d \in Calls :
         worker[c] \in Dispatching /\ worker[d] \in Dispatching => c = d
    /\ \A c \in Calls :
         worker[c] \in {"idle", "admitted", "inspect", "routed"} =>
             server[c] = "none"
    /\ \A c \in known \cup claimed : server[c] # "none"
    /\ \A c \in Calls : worker[c] = "handOver" => c \in accepted
    /\ \A c \in Calls : worker[c] = "inspect" => fresh = None /\ retained = None

\* Where the IDs that the core holds come from.
SeatInv ==
    /\ \A c \in Calls :
         c \in {active, fresh, retained, file} => server[c] # "none"
    /\ file \in {None, retained}
    /\ fresh # None => /\ retained \in {None, fresh}
                       /\ \/ worker[fresh] \in {"posted"} \cup HandingOver
                          \/ retained = fresh
    /\ active # None /\ active \notin claimed =>
         \/ worker[active] \in HandingOver /\ fresh = active
         \/ worker[active] = "done" /\ shell[active] = "delivered"

\* The owner of an allocation carries the generation of its call, and a seat
\* belongs to the account that is held fixed while it is allocated.
OwnerInv ==
    /\ owner.gen # NoGeneration =>
         owner.gen = callGen[owner.seat] /\ owner.seat # None
    /\ \A c \in Calls :
         worker[c] \in {"posting", "posted"} /\ server[c] # "none" =>
             seatUser[c] = account

\* The inductive strengthening of the safety properties above: shell, pipe,
\* workers, locks, seats and owner agree in every state.
AllocationInv ==
    /\ TypeOK
    /\ PipeInv
    /\ GateInv
    /\ SeatInv
    /\ OwnerInv
    /\ NoSeatForgotten
    /\ AllocationIsExclusive
    /\ OwnerOwnsActiveSeat

\* Every call ends and returns its permit.
CallsEnd == \A c \in Calls : Running(c) ~> ~Running(c)

\* In the end the seat of a cancelled launch is closed or retained for
\* cleanup, unless its ID was never learned or lost with the core.
CancelledSeatIsReleased ==
    \A c \in Calls :
        []<>(shell[c] = "cancelled") =>
            <>[](server[c] # "live" \/ retained = c \/ c \notin known
                   \/ c \in claimed)

\* "Cleanup failure retains the seat and its scoped discovery route for
\* explicit retry": a user who keeps ending the retained session gets rid of
\* the record that blocks every other launch.
CleanupIsRetried == \A c \in Calls : (retained = c) ~> (retained # c)

=============================================================================
