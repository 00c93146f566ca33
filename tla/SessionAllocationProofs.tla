----------------------- MODULE SessionAllocationProofs -----------------------
(***************************************************************************)
(* The safety of SessionAllocation for any number of calls and accounts    *)
(* and any bounds.  AllocationInv is inductive; each of its conjuncts has  *)
(* a lemma with one step per action.                                       *)
(***************************************************************************)
EXTENDS SessionAllocation, TLAPS

\* Every step keeps ShellTypeOK: messages, calls and answers keep their
\* types.
LEMMA ShellTypingStep ==
    ASSUME AllocationInv, AllocationAssumption, [Next]_vars
    PROVE  ShellTypeOK'
<1> USE AllocationAssumption DEF AllocationInv, TypeOK, ShellTypeOK,
    shellVars, callVars, accountVars, seatVars, serverVars
<1>1. ASSUME NEW c \in Calls, SendCreate(c) PROVE ShellTypeOK'
  BY <1>1 DEF SendCreate
<1>2. ASSUME NEW c \in Calls, CancelCreate(c) PROVE ShellTypeOK'
  BY <1>2 DEF CancelCreate
<1>3. ASSUME NEW c \in Calls, ReceiveReply(c) PROVE ShellTypeOK'
  <2>1. <<"ack", c>> \in {"request", "cancel", "ack"} \X Calls
    OBVIOUS
  <2>2. stdin' \in Seq({"request", "cancel", "ack"} \X Calls)
    <3>1. stdin' = stdin \/ stdin' = Append(stdin, <<"ack", c>>)
      BY <1>3 DEF ReceiveReply
    <3> QED
      BY <2>1, <3>1
  <2>3. shell' \in [Calls -> {"idle", "pending", "delivered", "cancelled",
                              "failed"}]
    BY <1>3 DEF ReceiveReply
  <2>4. reply' \in [Calls -> {"none", "ok", "error"}]
    BY <1>3 DEF ReceiveReply
  <2> QED
    BY <2>2, <2>3, <2>4
<1>4. CASE ReadLine
  BY <1>4 DEF ReadLine, Running
<1>5. ASSUME NEW c \in Calls, AdmitCreate(c) PROVE ShellTypeOK'
  BY <1>5 DEF AdmitCreate, Fails, GateFree, RoutingFree, MayAllocate
<1>6. ASSUME NEW c \in Calls, InspectLaunch(c) PROVE ShellTypeOK'
  BY <1>6 DEF InspectLaunch, Fails, RoutingFree
<1>7. ASSUME NEW c \in Calls, PostCreate(c) PROVE ShellTypeOK'
  BY <1>7 DEF PostCreate, Fails
<1>8. ASSUME NEW c \in Calls, PostAnswered(c) PROVE ShellTypeOK'
  BY <1>8 DEF PostAnswered, Fails, Fault
<1>9. ASSUME NEW c \in Calls, CompensateCreate(c) PROVE ShellTypeOK'
  BY <1>9 DEF CompensateCreate, Fails, FinishCreate, Deleted, DeleteFails,
      Fault, Without
<1>10. ASSUME NEW c \in Calls, Respond(c) PROVE ShellTypeOK'
  BY <1>10 DEF Respond
<1>11. CASE RestartCore
  BY <1>11 DEF RestartCore, RecordAfterRestart
<1>12. ASSUME UNCHANGED <<shell, stdin, reply>>
      PROVE  ShellTypeOK'
  BY <1>12
<1>13. ASSUME NEW c \in Calls,
             StoreCreated(c) \/ AwaitAcceptance(c) \/ FinishSessionCreate(c)
             \/ ClaimSession(c) \/ StopSession(c) \/ SeatEnds(c)
      PROVE  UNCHANGED <<shell, stdin, reply>>
  BY <1>13 DEF StoreCreated, AwaitAcceptance, FinishSessionCreate,
      FinishCreate, Deleted, DeleteFails, Fault, Without, InScope,
      OwnerAfterFinish, RoutingFree, ClaimSession, Reachable, GateFree,
      StopSession, SeatEnds
<1>14. ASSUME PollSession \/ ClearCache \/ (\E user \in Users \cup {None} :
             ChangeAccount(user)) \/ UNCHANGED vars
      PROVE  UNCHANGED <<shell, stdin, reply>>
  BY <1>14 DEF PollSession, RoutingFree, ChangeAccount,
      ClearCache, vars
<1> QED
  BY <1>1, <1>2, <1>3, <1>4, <1>5, <1>6, <1>7, <1>8, <1>9, <1>10, <1>11,
      <1>12, <1>13, <1>14 DEF Next, WorkerStep

\* Every step keeps CallTypeOK: the workers keep their types.
LEMMA CallTypingStep ==
    ASSUME AllocationInv, AllocationAssumption, [Next]_vars
    PROVE  CallTypeOK'
<1> USE AllocationAssumption DEF AllocationInv, TypeOK, CallTypeOK,
    WorkerPoints, shellVars, callVars, accountVars, seatVars, serverVars
<1>1. ASSUME NEW c \in Calls, SendCreate(c) PROVE CallTypeOK'
  BY <1>1 DEF SendCreate, SeatTypeOK
<1>2. CASE ReadLine
  BY <1>2 DEF ReadLine, Running, ShellTypeOK
<1>3. ASSUME NEW c \in Calls, AdmitCreate(c) PROVE CallTypeOK'
  BY <1>3 DEF AdmitCreate, Fails, GateFree, RoutingFree, MayAllocate
<1>4. ASSUME NEW c \in Calls, InspectLaunch(c) PROVE CallTypeOK'
  BY <1>4 DEF InspectLaunch, Fails, RoutingFree
<1>5. ASSUME NEW c \in Calls, PostCreate(c) PROVE CallTypeOK'
  BY <1>5 DEF PostCreate, Fails
<1>6. ASSUME NEW c \in Calls, PostAnswered(c) PROVE CallTypeOK'
  BY <1>6 DEF PostAnswered, Fails, Fault
<1>7. ASSUME NEW c \in Calls, CompensateCreate(c) PROVE CallTypeOK'
  BY <1>7 DEF CompensateCreate, Fails, FinishCreate, Deleted, DeleteFails,
      Fault, Without
<1>8. ASSUME NEW c \in Calls, StoreCreated(c) PROVE CallTypeOK'
  BY <1>8 DEF StoreCreated
<1>9. ASSUME NEW c \in Calls, Respond(c) PROVE CallTypeOK'
  BY <1>9 DEF Respond
<1>10. ASSUME NEW c \in Calls, AwaitAcceptance(c) PROVE CallTypeOK'
  BY <1>10 DEF AwaitAcceptance
<1>11. ASSUME NEW c \in Calls, FinishSessionCreate(c) PROVE CallTypeOK'
  BY <1>11 DEF FinishSessionCreate, FinishCreate, Deleted, DeleteFails,
      Fault, Without, InScope, OwnerAfterFinish, RoutingFree
<1>12. CASE RestartCore
  BY <1>12 DEF RestartCore, RecordAfterRestart
<1>13. ASSUME UNCHANGED <<worker, cancelled, accepted, callGen>>
      PROVE  CallTypeOK'
  BY <1>13
<1>14. ASSUME NEW c \in Calls,
             CancelCreate(c) \/ ReceiveReply(c) \/ ClaimSession(c) \/
             StopSession(c) \/ SeatEnds(c)
      PROVE  UNCHANGED <<worker, cancelled, accepted, callGen>>
  BY <1>14 DEF CancelCreate, ReceiveReply, ClaimSession, Reachable,
      GateFree, RoutingFree, StopSession, Deleted, DeleteFails, Fault,
      Without, SeatEnds
<1>15. ASSUME PollSession \/ ClearCache \/ (\E user \in Users \cup {None} :
             ChangeAccount(user)) \/ UNCHANGED vars
      PROVE  UNCHANGED <<worker, cancelled, accepted, callGen>>
  BY <1>15 DEF PollSession, RoutingFree, ChangeAccount,
      ClearCache, vars
<1> QED
  BY <1>1, <1>2, <1>3, <1>4, <1>5, <1>6, <1>7, <1>8, <1>9, <1>10, <1>11,
      <1>12, <1>13, <1>14, <1>15 DEF Next, WorkerStep

\* Every step keeps SeatTypeOK: account, seats and owner keep their types.
LEMMA SeatTypingStep ==
    ASSUME AllocationInv, AllocationAssumption, [Next]_vars
    PROVE  SeatTypeOK'
<1> USE AllocationAssumption DEF AllocationInv, TypeOK, SeatTypeOK,
    NoGeneration, NoOwner, Owners, shellVars, callVars, accountVars,
    seatVars, serverVars
<1>1. ASSUME NEW c \in Calls, PostCreate(c) PROVE SeatTypeOK'
  BY <1>1 DEF PostCreate, Fails
<1>2. ASSUME NEW c \in Calls, PostAnswered(c) PROVE SeatTypeOK'
  BY <1>2 DEF PostAnswered, Fails, Fault
<1>3. ASSUME NEW c \in Calls, CompensateCreate(c) PROVE SeatTypeOK'
  BY <1>3 DEF CompensateCreate, Fails, FinishCreate, Deleted, DeleteFails,
      Fault, Without
<1>4. ASSUME NEW c \in Calls, StoreCreated(c) PROVE SeatTypeOK'
  BY <1>4 DEF StoreCreated, CallTypeOK
<1>5. ASSUME NEW c \in Calls, FinishSessionCreate(c) PROVE SeatTypeOK'
  BY <1>5 DEF FinishSessionCreate, FinishCreate, Deleted, DeleteFails,
      Fault, Without, InScope, OwnerAfterFinish, RoutingFree
<1>6. CASE PollSession
  BY <1>6 DEF PollSession, RoutingFree
<1>7. ASSUME NEW c \in Calls, ClaimSession(c) PROVE SeatTypeOK'
  BY <1>7 DEF ClaimSession, Reachable, GateFree, RoutingFree
<1>8. ASSUME NEW c \in Calls, StopSession(c) PROVE SeatTypeOK'
  BY <1>8 DEF StopSession, Reachable, Deleted, DeleteFails, Fault, Without,
      RoutingFree
<1>9. ASSUME NEW user \in Users \cup {None}, ChangeAccount(user)
      PROVE  SeatTypeOK'
  BY <1>9 DEF ChangeAccount, RoutingFree
<1>10. CASE ClearCache
  BY <1>10 DEF ClearCache
<1>11. ASSUME NEW c \in Calls, SeatEnds(c) PROVE SeatTypeOK'
  BY <1>11 DEF SeatEnds
<1>12. CASE RestartCore
  BY <1>12 DEF RestartCore, RecordAfterRestart
<1>13. ASSUME UNCHANGED <<account, generation, owner, active, fresh, retained,
                         file, server, seatUser, known, claimed, faults,
                         restarts>>
      PROVE  SeatTypeOK'
  BY <1>13
<1>14. ASSUME NEW c \in Calls,
             SendCreate(c) \/ CancelCreate(c) \/ ReceiveReply(c) \/
             AdmitCreate(c) \/ InspectLaunch(c) \/ Respond(c) \/
             AwaitAcceptance(c)
      PROVE  UNCHANGED <<account, generation, owner, active, fresh, retained,
                         file, server, seatUser, known, claimed, faults,
                         restarts>>
  BY <1>14 DEF SendCreate, CancelCreate, ReceiveReply, AdmitCreate, Fails,
      GateFree, RoutingFree, MayAllocate, InspectLaunch, Respond,
      AwaitAcceptance
<1>15. ASSUME ReadLine \/ UNCHANGED vars
      PROVE  UNCHANGED <<account, generation, owner, active, fresh, retained,
                         file, server, seatUser, known, claimed, faults,
                         restarts>>
  BY <1>15 DEF ReadLine, Running, vars
<1> QED
  BY <1>1, <1>2, <1>3, <1>4, <1>5, <1>6, <1>7, <1>8, <1>9, <1>10, <1>11,
      <1>12, <1>13, <1>14, <1>15 DEF Next, WorkerStep

\* Every step keeps PipeInv: the pipe to the core carries each request once,
\* and receipts of delivered calls.
LEMMA PipeStep ==
    ASSUME AllocationInv, AllocationAssumption, [Next]_vars
    PROVE  PipeInv'
<1> USE AllocationAssumption DEF AllocationInv, TypeOK, ShellTypeOK,
    CallTypeOK, PipeInv, shellVars, callVars, accountVars, seatVars,
    serverVars
<1>1. ASSUME NEW c \in Calls, SendCreate(c) PROVE PipeInv'
  <2>1. /\ stdin' = Append(stdin, <<"request", c>>)
        /\ Len(stdin') = Len(stdin) + 1
        /\ \A i \in 1..Len(stdin) : stdin'[i] = stdin[i]
        /\ stdin'[Len(stdin) + 1] = <<"request", c>>
        /\ Len(stdin) \in Nat
    BY <1>1 DEF SendCreate
  <2>2. \A i \in 1..Len(stdin) :
          stdin[i] \in {"request", "cancel", "ack"} \X Calls
    OBVIOUS
  <2>3. /\ worker[c] = "idle"
        /\ UNCHANGED <<worker, accepted>>
        /\ shell[c] = "idle"
        /\ shell' = [shell EXCEPT ![c] = "pending"]
    BY <1>1 DEF SendCreate
  <2>4. \A i \in 1..Len(stdin) : stdin[i][2] # c
    BY <2>2, <2>3
  <2>5. \A i \in 1..Len(stdin') :
          LET type == stdin'[i][1]
              d == stdin'[i][2]
          IN  /\ shell'[d] # "idle"
              /\ type = "request" => worker'[d] = "idle"
              /\ type = "ack" => shell'[d] = "delivered"
    BY <2>1, <2>2, <2>3, <2>4
  <2>6. \A i, j \in 1..Len(stdin') :
          (/\ stdin'[i][1] = "request"
           /\ stdin'[j][1] = "request"
           /\ stdin'[i][2] = stdin'[j][2]) => i = j
    BY <2>1, <2>2, <2>4
  <2>7. /\ \A d \in Calls : shell'[d] = "idle" => worker'[d] = "idle"
        /\ \A d \in accepted' : shell'[d] = "delivered"
    BY <2>3
  <2> QED
    BY <2>5, <2>6, <2>7
<1>2. ASSUME NEW c \in Calls, CancelCreate(c) PROVE PipeInv'
  BY <1>2 DEF CancelCreate
<1>3. ASSUME NEW c \in Calls, ReceiveReply(c) PROVE PipeInv'
  <2>1. CASE stdin' = Append(stdin, <<"ack", c>>)
    <3>1. /\ stdin' = Append(stdin, <<"ack", c>>)
          /\ Len(stdin') = Len(stdin) + 1
          /\ \A i \in 1..Len(stdin) : stdin'[i] = stdin[i]
          /\ stdin'[Len(stdin) + 1] = <<"ack", c>>
          /\ Len(stdin) \in Nat
      BY <1>3, <2>1 DEF ReceiveReply
    <3>2. \A i \in 1..Len(stdin) :
            stdin[i] \in {"request", "cancel", "ack"} \X Calls
      OBVIOUS
    <3> QED
      BY <1>3, <2>1, <3>1, <3>2 DEF ReceiveReply
  <2>2. CASE stdin' = stdin /\ shell' = shell
    BY <1>3, <2>2 DEF ReceiveReply
  <2>3. CASE /\ stdin' = stdin
             /\ shell[c] = "pending"
             /\ shell' = [shell EXCEPT ![c] = "failed"]
    <3>1. \A i \in 1..Len(stdin) :
            stdin[i] \in {"request", "cancel", "ack"} \X Calls
      OBVIOUS
    <3> QED
      BY <1>3, <2>3, <3>1 DEF ReceiveReply
  <2> QED
    BY <1>3, <2>1, <2>2, <2>3 DEF ReceiveReply
<1>4. CASE ReadLine
  <2>1. /\ Len(stdin) \in Nat \ {0}
        /\ Len(stdin') = Len(stdin) - 1
        /\ \A i \in 1..Len(stdin') :
             i + 1 \in 1..Len(stdin) /\ stdin'[i] = stdin[i + 1]
        /\ Head(stdin) = stdin[1]
    BY <1>4 DEF ReadLine
  <2>2. \A i \in 1..Len(stdin) :
          stdin[i] \in {"request", "cancel", "ack"} \X Calls
    OBVIOUS
  <2> QED
    BY <1>4, <2>1, <2>2 DEF ReadLine
<1>5. ASSUME NEW c \in Calls, AdmitCreate(c) PROVE PipeInv'
  <2>1. /\ worker[c] = "admitted"
        /\ worker' \in {[worker EXCEPT ![c] = "inspect"],
                        [worker EXCEPT ![c] = "done"]}
        /\ UNCHANGED <<shell, stdin, accepted>>
    BY <1>5 DEF AdmitCreate, Fails
  <2> QED
    BY <2>1
<1>6. ASSUME NEW c \in Calls, InspectLaunch(c) PROVE PipeInv'
  BY <1>6 DEF InspectLaunch, Fails, RoutingFree
<1>7. ASSUME NEW c \in Calls, PostCreate(c) PROVE PipeInv'
  BY <1>7 DEF PostCreate, Fails
<1>8. ASSUME NEW c \in Calls, PostAnswered(c) PROVE PipeInv'
  BY <1>8 DEF PostAnswered, Fails, Fault
<1>9. ASSUME NEW c \in Calls, CompensateCreate(c) PROVE PipeInv'
  BY <1>9 DEF CompensateCreate, Fails, FinishCreate, Deleted, DeleteFails,
      Fault, Without
<1>10. ASSUME NEW c \in Calls, StoreCreated(c) PROVE PipeInv'
  BY <1>10 DEF StoreCreated
<1>11. ASSUME NEW c \in Calls, Respond(c) PROVE PipeInv'
  BY <1>11 DEF Respond
<1>12. ASSUME NEW c \in Calls, AwaitAcceptance(c) PROVE PipeInv'
  BY <1>12 DEF AwaitAcceptance
<1>13. ASSUME NEW c \in Calls, FinishSessionCreate(c) PROVE PipeInv'
  BY <1>13 DEF FinishSessionCreate, FinishCreate, Deleted, DeleteFails,
      Fault, Without, InScope, OwnerAfterFinish, RoutingFree
<1>14. CASE RestartCore
  BY <1>14 DEF RestartCore, RecordAfterRestart
<1>15. ASSUME UNCHANGED <<shell, stdin, worker, accepted>>
      PROVE  PipeInv'
  BY <1>15
<1>16. ASSUME NEW c \in Calls,
             ClaimSession(c) \/ StopSession(c) \/ SeatEnds(c)
      PROVE  UNCHANGED <<shell, stdin, worker, accepted>>
  BY <1>16 DEF ClaimSession, Reachable, GateFree, RoutingFree, StopSession,
      Deleted, DeleteFails, Fault, Without, SeatEnds
<1>17. ASSUME PollSession \/ ClearCache \/ (\E user \in Users \cup {None} :
             ChangeAccount(user)) \/ UNCHANGED vars
      PROVE  UNCHANGED <<shell, stdin, worker, accepted>>
  BY <1>17 DEF PollSession, RoutingFree, ChangeAccount,
      ClearCache, vars
<1> QED
  BY <1>1, <1>2, <1>3, <1>4, <1>5, <1>6, <1>7, <1>8, <1>9, <1>10, <1>11,
      <1>12, <1>13, <1>14, <1>15, <1>16, <1>17 DEF Next, WorkerStep

\* Every step keeps GateInv: one create at a time is between its admission
\* and the end of its dispatch.
LEMMA GateStep ==
    ASSUME AllocationInv, AllocationAssumption, [Next]_vars
    PROVE  GateInv'
<1> USE AllocationAssumption DEF AllocationInv, TypeOK, CallTypeOK,
    SeatTypeOK, WorkerPoints, GateInv, Dispatching, shellVars, callVars,
    accountVars, seatVars, serverVars
<1>1. CASE ReadLine
  BY <1>1 DEF ReadLine, Running, ShellTypeOK, PipeInv
<1>2. ASSUME NEW c \in Calls, AdmitCreate(c) PROVE GateInv'
  BY <1>2 DEF AdmitCreate, Fails, GateFree, RoutingFree, MayAllocate
<1>3. ASSUME NEW c \in Calls, InspectLaunch(c) PROVE GateInv'
  <2>1. CASE Fails(c)
    BY <1>3, <2>1 DEF InspectLaunch, Fails, RoutingFree
  <2>2. CASE ~Fails(c)
    BY <1>3, <2>2 DEF InspectLaunch, Fails, RoutingFree
  <2> QED
    BY <2>1, <2>2
<1>4. ASSUME NEW c \in Calls, PostCreate(c) PROVE GateInv'
  <2>1. CASE Fails(c) /\ UNCHANGED serverVars
    BY <1>4, <2>1 DEF PostCreate, Fails
  <2>2. CASE worker' = [worker EXCEPT ![c] = "posting"] /\ UNCHANGED serverVars
    BY <1>4, <2>2 DEF PostCreate
  <2>3. CASE /\ worker' = [worker EXCEPT ![c] = "posting"]
             /\ server' = [server EXCEPT ![c] = "live"]
    BY <1>4, <2>3 DEF PostCreate
  <2> QED
    BY <1>4, <2>1, <2>2, <2>3 DEF PostCreate
<1>5. ASSUME NEW c \in Calls, PostAnswered(c) PROVE GateInv'
  <2>1. CASE worker' = [worker EXCEPT ![c] = "posted"]
    BY <1>5, <2>1 DEF PostAnswered, Fails
  <2>2. CASE Fails(c) /\ UNCHANGED <<fresh, known>>
    BY <1>5, <2>2 DEF PostAnswered, Fails
  <2> QED
    BY <1>5, <2>1, <2>2 DEF PostAnswered
<1>6. ASSUME NEW c \in Calls, CompensateCreate(c) PROVE GateInv'
  BY <1>6 DEF CompensateCreate, Fails, FinishCreate, Deleted, DeleteFails,
      Fault, Without
<1>7. ASSUME NEW c \in Calls, StoreCreated(c) PROVE GateInv'
  BY <1>7 DEF StoreCreated
<1>8. ASSUME NEW c \in Calls, Respond(c) PROVE GateInv'
  BY <1>8 DEF Respond
<1>9. ASSUME NEW c \in Calls, AwaitAcceptance(c) PROVE GateInv'
  BY <1>9 DEF AwaitAcceptance
<1>10. ASSUME NEW c \in Calls, FinishSessionCreate(c) PROVE GateInv'
  BY <1>10 DEF FinishSessionCreate, FinishCreate, Deleted, DeleteFails,
      Fault, Without, InScope, OwnerAfterFinish, RoutingFree
<1>11. ASSUME NEW c \in Calls, ClaimSession(c) PROVE GateInv'
  BY <1>11 DEF ClaimSession, Reachable, GateFree, RoutingFree
<1>12. ASSUME NEW c \in Calls, StopSession(c) PROVE GateInv'
  BY <1>12 DEF StopSession, Reachable, Deleted, DeleteFails, Fault, Without,
      RoutingFree
<1>13. ASSUME NEW c \in Calls, SeatEnds(c) PROVE GateInv'
  BY <1>13 DEF SeatEnds
<1>14. CASE RestartCore
  BY <1>14 DEF RestartCore, RecordAfterRestart, SeatInv, PipeInv
<1>15. ASSUME UNCHANGED <<worker, server, known, claimed, accepted, fresh,
                         retained>>
      PROVE  GateInv'
  BY <1>15
<1>16. ASSUME NEW c \in Calls,
             SendCreate(c) \/ CancelCreate(c) \/ ReceiveReply(c)
      PROVE  UNCHANGED <<worker, server, known, claimed, accepted, fresh,
                         retained>>
  BY <1>16 DEF SendCreate, CancelCreate, ReceiveReply
<1>17. ASSUME PollSession \/ ClearCache \/ (\E user \in Users \cup {None} :
             ChangeAccount(user)) \/ UNCHANGED vars
      PROVE  UNCHANGED <<worker, server, known, claimed, accepted, fresh,
                         retained>>
  BY <1>17 DEF PollSession, RoutingFree, ChangeAccount,
      ClearCache, vars
<1> QED
  BY <1>1, <1>2, <1>3, <1>4, <1>5, <1>6, <1>7, <1>8, <1>9, <1>10, <1>11,
      <1>12, <1>13, <1>14, <1>15, <1>16, <1>17 DEF Next, WorkerStep

\* Every step keeps SeatInv: the IDs the core holds are of seats its calls
\* allocated.
LEMMA SeatsStep ==
    ASSUME AllocationInv, AllocationAssumption, [Next]_vars
    PROVE  SeatInv'
<1> USE AllocationAssumption DEF AllocationInv, TypeOK, ShellTypeOK,
    CallTypeOK, SeatTypeOK, WorkerPoints, NoGeneration, NoOwner, Owners,
    PipeInv, GateInv, SeatInv, HandingOver, Dispatching,
    AllocationIsExclusive, OwnerOwnsActiveSeat, shellVars, callVars,
    accountVars, seatVars, serverVars
<1>1. ASSUME NEW c \in Calls, SendCreate(c) PROVE SeatInv'
  BY <1>1 DEF SendCreate
<1>2. ASSUME NEW c \in Calls, CancelCreate(c) PROVE SeatInv'
  BY <1>2 DEF CancelCreate
<1>3. ASSUME NEW c \in Calls, ReceiveReply(c) PROVE SeatInv'
  BY <1>3 DEF ReceiveReply
<1>4. CASE ReadLine
  BY <1>4 DEF ReadLine, Running
<1>5. ASSUME NEW c \in Calls, AdmitCreate(c) PROVE SeatInv'
  BY <1>5 DEF AdmitCreate, Fails, GateFree, RoutingFree, MayAllocate
<1>6. ASSUME NEW c \in Calls, InspectLaunch(c) PROVE SeatInv'
  BY <1>6 DEF InspectLaunch, Fails, RoutingFree
<1>7. ASSUME NEW c \in Calls, PostCreate(c) PROVE SeatInv'
  BY <1>7 DEF PostCreate, Fails
<1>8. ASSUME NEW c \in Calls, PostAnswered(c) PROVE SeatInv'
  BY <1>8 DEF PostAnswered, Fails, Fault
<1>9. ASSUME NEW c \in Calls, CompensateCreate(c) PROVE SeatInv'
  BY <1>9 DEF CompensateCreate, Fails, FinishCreate, Deleted, DeleteFails,
      Fault, Without
<1>10. ASSUME NEW c \in Calls, StoreCreated(c) PROVE SeatInv'
  BY <1>10 DEF StoreCreated
<1>11. ASSUME NEW c \in Calls, Respond(c) PROVE SeatInv'
  BY <1>11 DEF Respond
<1>12. ASSUME NEW c \in Calls, AwaitAcceptance(c) PROVE SeatInv'
  BY <1>12 DEF AwaitAcceptance
<1>13. ASSUME NEW c \in Calls, FinishSessionCreate(c) PROVE SeatInv'
  BY <1>13 DEF FinishSessionCreate, FinishCreate, Deleted, DeleteFails,
      Fault, Without, InScope, OwnerAfterFinish, RoutingFree
<1>14. CASE PollSession
  BY <1>14 DEF PollSession, RoutingFree
<1>15. ASSUME NEW c \in Calls, ClaimSession(c) PROVE SeatInv'
  BY <1>15 DEF ClaimSession, Reachable, GateFree, RoutingFree
<1>16. ASSUME NEW c \in Calls, StopSession(c) PROVE SeatInv'
  BY <1>16 DEF StopSession, Reachable, Deleted, DeleteFails, Fault, Without,
      RoutingFree
<1>17. ASSUME NEW c \in Calls, SeatEnds(c) PROVE SeatInv'
  BY <1>17 DEF SeatEnds
<1>18. CASE RestartCore
  BY <1>18 DEF RestartCore, RecordAfterRestart
<1>19. ASSUME UNCHANGED <<shell, worker, active, fresh, retained, file, server,
                         claimed>>
      PROVE  SeatInv'
  BY <1>19
<1>20. ASSUME ClearCache \/ (\E user \in Users \cup {None} :
             ChangeAccount(user)) \/ UNCHANGED vars
      PROVE  UNCHANGED <<shell, worker, active, fresh, retained, file, server,
                         claimed>>
  BY <1>20 DEF ChangeAccount, RoutingFree, ClearCache, vars
<1> QED
  BY <1>1, <1>2, <1>3, <1>4, <1>5, <1>6, <1>7, <1>8, <1>9, <1>10, <1>11,
      <1>12, <1>13, <1>14, <1>15, <1>16, <1>17, <1>18, <1>19, <1>20 DEF
      Next, WorkerStep

\* Every step keeps OwnerInv: the owner of an allocation carries the
\* generation of its call.
LEMMA OwnerStep ==
    ASSUME AllocationInv, AllocationAssumption, [Next]_vars
    PROVE  OwnerInv'
<1> USE AllocationAssumption DEF AllocationInv, TypeOK, ShellTypeOK,
    CallTypeOK, SeatTypeOK, WorkerPoints, NoGeneration, NoOwner, Owners,
    PipeInv, GateInv, SeatInv, OwnerInv, HandingOver, Dispatching,
    AllocationIsExclusive, OwnerOwnsActiveSeat, shellVars, callVars,
    accountVars, seatVars, serverVars
<1>1. ASSUME NEW c \in Calls, SendCreate(c) PROVE OwnerInv'
  BY <1>1 DEF SendCreate
<1>2. CASE ReadLine
  BY <1>2 DEF ReadLine, Running
<1>3. ASSUME NEW c \in Calls, AdmitCreate(c) PROVE OwnerInv'
  BY <1>3 DEF AdmitCreate, Fails, GateFree, RoutingFree, MayAllocate
<1>4. ASSUME NEW c \in Calls, InspectLaunch(c) PROVE OwnerInv'
  BY <1>4 DEF InspectLaunch, Fails, RoutingFree
<1>5. ASSUME NEW c \in Calls, PostCreate(c) PROVE OwnerInv'
  BY <1>5 DEF PostCreate, Fails
<1>6. ASSUME NEW c \in Calls, PostAnswered(c) PROVE OwnerInv'
  BY <1>6 DEF PostAnswered, Fails, Fault
<1>7. ASSUME NEW c \in Calls, CompensateCreate(c) PROVE OwnerInv'
  BY <1>7 DEF CompensateCreate, Fails, FinishCreate, Deleted, DeleteFails,
      Fault, Without
<1>8. ASSUME NEW c \in Calls, StoreCreated(c) PROVE OwnerInv'
  BY <1>8 DEF StoreCreated
<1>9. ASSUME NEW c \in Calls, Respond(c) PROVE OwnerInv'
  BY <1>9 DEF Respond
<1>10. ASSUME NEW c \in Calls, AwaitAcceptance(c) PROVE OwnerInv'
  BY <1>10 DEF AwaitAcceptance
<1>11. ASSUME NEW c \in Calls, FinishSessionCreate(c) PROVE OwnerInv'
  BY <1>11 DEF FinishSessionCreate, FinishCreate, Deleted, DeleteFails,
      Fault, Without, InScope, OwnerAfterFinish, RoutingFree
<1>12. CASE PollSession
  BY <1>12 DEF PollSession, RoutingFree
<1>13. ASSUME NEW c \in Calls, ClaimSession(c) PROVE OwnerInv'
  BY <1>13 DEF ClaimSession, Reachable, GateFree, RoutingFree
<1>14. ASSUME NEW c \in Calls, StopSession(c) PROVE OwnerInv'
  BY <1>14 DEF StopSession, Reachable, Deleted, DeleteFails, Fault, Without,
      RoutingFree
<1>15. ASSUME NEW user \in Users \cup {None}, ChangeAccount(user)
      PROVE  OwnerInv'
  BY <1>15 DEF ChangeAccount, RoutingFree
<1>16. ASSUME NEW c \in Calls, SeatEnds(c) PROVE OwnerInv'
  BY <1>16 DEF SeatEnds
<1>17. CASE RestartCore
  BY <1>17 DEF RestartCore, RecordAfterRestart
<1>18. ASSUME UNCHANGED <<owner, callGen, worker, server, seatUser, account>>
      PROVE  OwnerInv'
  BY <1>18
<1>19. ASSUME NEW c \in Calls,
             CancelCreate(c) \/ ReceiveReply(c)
      PROVE  UNCHANGED <<owner, callGen, worker, server, seatUser, account>>
  BY <1>19 DEF CancelCreate, ReceiveReply
<1>20. ASSUME ClearCache \/ UNCHANGED vars
      PROVE  UNCHANGED <<owner, callGen, worker, server, seatUser, account>>
  BY <1>20 DEF ClearCache, vars
<1> QED
  BY <1>1, <1>2, <1>3, <1>4, <1>5, <1>6, <1>7, <1>8, <1>9, <1>10, <1>11,
      <1>12, <1>13, <1>14, <1>15, <1>16, <1>17, <1>18, <1>19, <1>20 DEF
      Next, WorkerStep

\* Every step keeps NoSeatForgotten: no running seat with a known ID is
\* dropped.
LEMMA KnownStep ==
    ASSUME AllocationInv, AllocationAssumption, [Next]_vars
    PROVE  NoSeatForgotten'
<1> USE AllocationAssumption DEF AllocationInv, TypeOK, ShellTypeOK,
    CallTypeOK, SeatTypeOK, WorkerPoints, NoGeneration, NoOwner, Owners,
    PipeInv, GateInv, SeatInv, HandingOver, Dispatching, NoSeatForgotten,
    AllocationIsExclusive, OwnerOwnsActiveSeat, shellVars, callVars,
    accountVars, seatVars, serverVars
<1>1. ASSUME NEW c \in Calls, PostCreate(c) PROVE NoSeatForgotten'
  BY <1>1 DEF PostCreate, Fails
<1>2. ASSUME NEW c \in Calls, PostAnswered(c) PROVE NoSeatForgotten'
  BY <1>2 DEF PostAnswered, Fails, Fault
<1>3. ASSUME NEW c \in Calls, CompensateCreate(c) PROVE NoSeatForgotten'
  BY <1>3 DEF CompensateCreate, Fails, FinishCreate, Deleted, DeleteFails,
      Fault, Without
<1>4. ASSUME NEW c \in Calls, StoreCreated(c) PROVE NoSeatForgotten'
  BY <1>4 DEF StoreCreated
<1>5. ASSUME NEW c \in Calls, FinishSessionCreate(c)
      PROVE  NoSeatForgotten'
  BY <1>5 DEF FinishSessionCreate, FinishCreate, Deleted, DeleteFails,
      Fault, Without, InScope, OwnerAfterFinish, RoutingFree
<1>6. CASE PollSession
  BY <1>6 DEF PollSession, RoutingFree
<1>7. ASSUME NEW c \in Calls, ClaimSession(c) PROVE NoSeatForgotten'
  BY <1>7 DEF ClaimSession, Reachable, GateFree, RoutingFree
<1>8. ASSUME NEW c \in Calls, StopSession(c) PROVE NoSeatForgotten'
  <2>1. CASE Deleted(c)
    BY <1>8, <2>1 DEF StopSession, Deleted, DeleteFails, Without
  <2>2. CASE UNCHANGED <<server, active, retained, fresh>>
    BY <1>8, <2>2 DEF StopSession
  <2> QED
    BY <1>8, <2>1, <2>2 DEF StopSession, DeleteFails
<1>9. ASSUME NEW c \in Calls, SeatEnds(c) PROVE NoSeatForgotten'
  BY <1>9 DEF SeatEnds
<1>10. CASE RestartCore
  BY <1>10 DEF RestartCore, RecordAfterRestart
<1>11. ASSUME UNCHANGED <<known, server, active, fresh, retained>>
      PROVE  NoSeatForgotten'
  BY <1>11
<1>12. ASSUME NEW c \in Calls,
             SendCreate(c) \/ CancelCreate(c) \/ ReceiveReply(c) \/
             AdmitCreate(c) \/ InspectLaunch(c) \/ Respond(c) \/
             AwaitAcceptance(c)
      PROVE  UNCHANGED <<known, server, active, fresh, retained>>
  BY <1>12 DEF SendCreate, CancelCreate, ReceiveReply, AdmitCreate, Fails,
      GateFree, RoutingFree, MayAllocate, InspectLaunch, Respond,
      AwaitAcceptance
<1>13. ASSUME ReadLine \/ ClearCache \/ (\E user \in Users \cup {None} :
             ChangeAccount(user)) \/ UNCHANGED vars
      PROVE  UNCHANGED <<known, server, active, fresh, retained>>
  BY <1>13 DEF ReadLine, Running, ChangeAccount, RoutingFree, ClearCache,
      vars
<1> QED
  BY <1>1, <1>2, <1>3, <1>4, <1>5, <1>6, <1>7, <1>8, <1>9, <1>10, <1>11,
      <1>12, <1>13 DEF Next, WorkerStep

\* Every step keeps AllocationIsExclusive: a create that allocates finds no
\* other seat.
LEMMA ExclusionStep ==
    ASSUME AllocationInv, AllocationAssumption, [Next]_vars
    PROVE  AllocationIsExclusive'
<1> USE AllocationAssumption DEF AllocationInv, TypeOK, ShellTypeOK,
    CallTypeOK, SeatTypeOK, WorkerPoints, NoGeneration, NoOwner, Owners,
    PipeInv, GateInv, SeatInv, HandingOver, Dispatching,
    AllocationIsExclusive, OwnerOwnsActiveSeat, shellVars, callVars,
    accountVars, seatVars, serverVars
<1>1. CASE ReadLine
  BY <1>1 DEF ReadLine, Running
<1>2. ASSUME NEW c \in Calls, AdmitCreate(c) PROVE AllocationIsExclusive'
  BY <1>2 DEF AdmitCreate, Fails, GateFree, RoutingFree, MayAllocate
<1>3. ASSUME NEW c \in Calls, InspectLaunch(c)
      PROVE  AllocationIsExclusive'
  BY <1>3 DEF InspectLaunch, Fails, RoutingFree
<1>4. ASSUME NEW c \in Calls, PostCreate(c) PROVE AllocationIsExclusive'
  BY <1>4 DEF PostCreate, Fails
<1>5. ASSUME NEW c \in Calls, PostAnswered(c)
      PROVE  AllocationIsExclusive'
  BY <1>5 DEF PostAnswered, Fails, Fault
<1>6. ASSUME NEW c \in Calls, CompensateCreate(c)
      PROVE  AllocationIsExclusive'
  BY <1>6 DEF CompensateCreate, Fails, FinishCreate, Deleted, DeleteFails,
      Fault, Without
<1>7. ASSUME NEW c \in Calls, StoreCreated(c)
      PROVE  AllocationIsExclusive'
  BY <1>7 DEF StoreCreated
<1>8. ASSUME NEW c \in Calls, Respond(c) PROVE AllocationIsExclusive'
  BY <1>8 DEF Respond
<1>9. ASSUME NEW c \in Calls, AwaitAcceptance(c)
      PROVE  AllocationIsExclusive'
  BY <1>9 DEF AwaitAcceptance
<1>10. ASSUME NEW c \in Calls, FinishSessionCreate(c)
      PROVE  AllocationIsExclusive'
  BY <1>10 DEF FinishSessionCreate, FinishCreate, Deleted, DeleteFails,
      Fault, Without, InScope, OwnerAfterFinish, RoutingFree
<1>11. CASE PollSession
  BY <1>11 DEF PollSession, RoutingFree
<1>12. ASSUME NEW c \in Calls, ClaimSession(c)
      PROVE  AllocationIsExclusive'
  BY <1>12 DEF ClaimSession, Reachable, GateFree, RoutingFree
<1>13. ASSUME NEW c \in Calls, StopSession(c)
      PROVE  AllocationIsExclusive'
  BY <1>13 DEF StopSession, Reachable, Deleted, DeleteFails, Fault, Without,
      RoutingFree
<1>14. CASE RestartCore
  BY <1>14 DEF RestartCore, RecordAfterRestart
<1>15. ASSUME UNCHANGED <<worker, active, fresh, retained>>
      PROVE  AllocationIsExclusive'
  BY <1>15
<1>16. ASSUME NEW c \in Calls,
             SendCreate(c) \/ CancelCreate(c) \/ ReceiveReply(c) \/
             SeatEnds(c)
      PROVE  UNCHANGED <<worker, active, fresh, retained>>
  BY <1>16 DEF SendCreate, CancelCreate, ReceiveReply, SeatEnds
<1>17. ASSUME ClearCache \/ (\E user \in Users \cup {None} :
             ChangeAccount(user)) \/ UNCHANGED vars
      PROVE  UNCHANGED <<worker, active, fresh, retained>>
  BY <1>17 DEF ChangeAccount, RoutingFree, ClearCache, vars
<1> QED
  BY <1>1, <1>2, <1>3, <1>4, <1>5, <1>6, <1>7, <1>8, <1>9, <1>10, <1>11,
      <1>12, <1>13, <1>14, <1>15, <1>16, <1>17 DEF Next, WorkerStep

\* Every step keeps OwnerOwnsActiveSeat: the owner follows the active seat.
LEMMA OwnershipStep ==
    ASSUME AllocationInv, AllocationAssumption, [Next]_vars
    PROVE  OwnerOwnsActiveSeat'
<1> USE AllocationAssumption DEF AllocationInv, TypeOK, ShellTypeOK,
    CallTypeOK, SeatTypeOK, WorkerPoints, NoGeneration, NoOwner, Owners,
    PipeInv, GateInv, SeatInv, OwnerInv, HandingOver, Dispatching,
    AllocationIsExclusive, OwnerOwnsActiveSeat, shellVars, callVars,
    accountVars, seatVars, serverVars
<1>1. ASSUME NEW c \in Calls, PostCreate(c) PROVE OwnerOwnsActiveSeat'
  BY <1>1 DEF PostCreate, Fails
<1>2. ASSUME NEW c \in Calls, CompensateCreate(c)
      PROVE  OwnerOwnsActiveSeat'
  BY <1>2 DEF CompensateCreate, Fails, FinishCreate, Deleted, DeleteFails,
      Fault, Without
<1>3. ASSUME NEW c \in Calls, StoreCreated(c) PROVE OwnerOwnsActiveSeat'
  BY <1>3 DEF StoreCreated
<1>4. ASSUME NEW c \in Calls, FinishSessionCreate(c)
      PROVE  OwnerOwnsActiveSeat'
  BY <1>4 DEF FinishSessionCreate, FinishCreate, Deleted, DeleteFails,
      Fault, Without, InScope, OwnerAfterFinish, RoutingFree
<1>5. CASE PollSession
  BY <1>5 DEF PollSession, RoutingFree
<1>6. ASSUME NEW c \in Calls, ClaimSession(c) PROVE OwnerOwnsActiveSeat'
  BY <1>6 DEF ClaimSession, Reachable, GateFree, RoutingFree
<1>7. ASSUME NEW c \in Calls, StopSession(c) PROVE OwnerOwnsActiveSeat'
  BY <1>7 DEF StopSession, Reachable, Deleted, DeleteFails, Fault, Without,
      RoutingFree
<1>8. CASE RestartCore
  BY <1>8 DEF RestartCore, RecordAfterRestart
<1>9. ASSUME UNCHANGED <<active, owner, seatUser>>
      PROVE  OwnerOwnsActiveSeat'
  BY <1>9
<1>10. ASSUME NEW c \in Calls,
             SendCreate(c) \/ CancelCreate(c) \/ ReceiveReply(c) \/
             AdmitCreate(c) \/ InspectLaunch(c) \/ PostAnswered(c) \/
             Respond(c) \/ AwaitAcceptance(c) \/ SeatEnds(c)
      PROVE  UNCHANGED <<active, owner, seatUser>>
  BY <1>10 DEF SendCreate, CancelCreate, ReceiveReply, AdmitCreate, Fails,
      GateFree, RoutingFree, MayAllocate, InspectLaunch, PostAnswered,
      Fault, Respond, AwaitAcceptance, SeatEnds
<1>11. ASSUME ReadLine \/ ClearCache \/ (\E user \in Users \cup {None} :
             ChangeAccount(user)) \/ UNCHANGED vars
      PROVE  UNCHANGED <<active, owner, seatUser>>
  BY <1>11 DEF ReadLine, Running, ChangeAccount, RoutingFree, ClearCache,
      vars
<1> QED
  BY <1>1, <1>2, <1>3, <1>4, <1>5, <1>6, <1>7, <1>8, <1>9, <1>10, <1>11 DEF
      Next, WorkerStep

\* The initial states satisfy the invariant.
LEMMA AllocationInit ==
    ASSUME Init, AllocationAssumption PROVE AllocationInv
<1> USE AllocationAssumption
<1>1. TypeOK
  BY DEF Init, TypeOK, ShellTypeOK, CallTypeOK, SeatTypeOK, WorkerPoints,
         NoGeneration, NoOwner, Owners
<1>2. PipeInv /\ GateInv
  BY DEF Init, PipeInv, GateInv, Dispatching
<1>3. SeatInv /\ OwnerInv /\ NoSeatForgotten
  BY DEF Init, SeatInv, OwnerInv, NoSeatForgotten, NoOwner, NoGeneration
<1>4. AllocationIsExclusive /\ OwnerOwnsActiveSeat
  BY DEF Init, AllocationIsExclusive, OwnerOwnsActiveSeat
<1> QED
  BY <1>1, <1>2, <1>3, <1>4 DEF AllocationInv

\* Shell, pipe, workers, locks, seats and owner agree in every state.
THEOREM AllocationSafety == Spec => []AllocationInv
<1>1. Init => AllocationInv
  BY AllocationInit, AllocationAssumption
<1>2. AllocationInv /\ [Next]_vars => AllocationInv'
  BY AllocationAssumption, ShellTypingStep, CallTypingStep, SeatTypingStep,
     PipeStep, GateStep, SeatsStep,
     OwnerStep, KnownStep, ExclusionStep, OwnershipStep
     DEF AllocationInv, TypeOK
<1> QED
  BY <1>1, <1>2, PTL DEF Spec

\* A running seat whose ID the core has learned is never forgotten.
THEOREM SeatsAreNotForgotten == Spec => []NoSeatForgotten
<1>1. AllocationInv => NoSeatForgotten
  BY DEF AllocationInv
<1> QED
  BY <1>1, AllocationSafety, PTL

\* A create allocates only when there is no other seat, and one at a time.
THEOREM OneAllocationAtATime == Spec => []AllocationIsExclusive
<1>1. AllocationInv => AllocationIsExclusive
  BY DEF AllocationInv
<1> QED
  BY <1>1, AllocationSafety, PTL

\* The owner kept for the active seat is the account the seat belongs to.
THEOREM OwnershipIsExact == Spec => []OwnerOwnsActiveSeat
<1>1. AllocationInv => OwnerOwnsActiveSeat
  BY DEF AllocationInv
<1> QED
  BY <1>1, AllocationSafety, PTL

\* A launch the shell gave up never stays as the active seat.
THEOREM AbandonedLaunchesAreClosed == Spec => []AbandonedLaunchIsNotActive
<1>1. AllocationInv => AbandonedLaunchIsNotActive
  BY AllocationAssumption
     DEF AllocationInv, TypeOK, CallTypeOK, SeatTypeOK, SeatInv, HandingOver,
         AbandonedLaunchIsNotActive
<1> QED
  BY <1>1, AllocationSafety, PTL

\* A seat is handed over only in the account context its launch was asked for.
\* Only finish_session_create ends a worker at its hand-over; it accepts the
\* seat under check_scope, whose owner carries the generation of the call
\* (OwnerInv) and the account of the active seat (OwnerOwnsActiveSeat).
THEOREM SeatsAreHandedOverInScope == Spec => HandOverInItsScope
<1> DEFINE HandedOver(c) == /\ worker[c] = "handOver"
                            /\ worker'[c] = "done"
                            /\ active' = c
                            /\ fresh = c
                            /\ fresh' = None
           InItsScope(c) == generation = callGen[c] /\ account = seatUser[c]
<1>1. ASSUME AllocationInv, [Next]_vars, NEW c \in Calls, HandedOver(c)
      PROVE  InItsScope(c)
  <2>1. FinishSessionCreate(c)
    <3>1. ASSUME NEW d \in Calls, d # c,
                 WorkerStep(d) \/ ReceiveReply(d) \/ SendCreate(d)
          PROVE  worker'[c] = worker[c]
      BY <1>1, <3>1
         DEF AllocationInv, TypeOK, CallTypeOK, WorkerStep, AdmitCreate,
             InspectLaunch, PostCreate, PostAnswered, CompensateCreate,
             StoreCreated, Respond, AwaitAcceptance, FinishSessionCreate,
             Fails, ReceiveReply, SendCreate, callVars
    <3>2. WorkerStep(c) => FinishSessionCreate(c)
      BY <1>1
         DEF WorkerStep, AdmitCreate, InspectLaunch, PostCreate, PostAnswered,
             CompensateCreate, StoreCreated, Respond, AwaitAcceptance
    <3>3. ReadLine => worker'[c] # "done"
      BY <1>1 DEF AllocationInv, TypeOK, CallTypeOK, ReadLine
    <3>4. active' # None
      BY <1>1, AllocationAssumption
    <3> QED
      BY <1>1, <3>1, <3>2, <3>3, <3>4
         DEF Next, vars, SendCreate, CancelCreate, ReceiveReply, PollSession,
             ClaimSession, StopSession, ChangeAccount, ClearCache, SeatEnds,
             RestartCore, callVars
  <2>2. active = c /\ InScope(c)
    BY <1>1, <2>1, AllocationAssumption
       DEF FinishSessionCreate, FinishCreate, Without
  <2>3. owner.gen # NoGeneration
    BY <1>1, <2>2 DEF AllocationInv, TypeOK, SeatTypeOK, InScope, NoGeneration
  <2> QED
    BY <1>1, <2>2, <2>3, AllocationAssumption
       DEF AllocationInv, OwnerInv, OwnerOwnsActiveSeat, InScope
<1>2. AllocationInv /\ [Next]_vars
        => [\A c \in Calls :
              (worker[c] = "handOver" /\ worker'[c] = "done" /\ active' = c
                 /\ fresh = c /\ fresh' = None)
              => generation = callGen[c] /\ account = seatUser[c]]_vars
  BY <1>1
<1> QED
  BY <1>2, AllocationSafety, PTL DEF Spec, HandOverInItsScope

\* Every step of the core is a step of the ledger or leaves it alone: a
\* granted POST is Grant, its answer Take, a claim Find, the end of a seat End,
\* a finished, closed or stopped seat Drop.
LEMMA LedgerStep ==
    ASSUME AllocationInv, AllocationAssumption, [Next]_vars
    PROVE  [Ledger!LedgerNext]_<<server, Held, restarts>>
<1> USE AllocationAssumption DEF AllocationInv, TypeOK, CallTypeOK,
    SeatTypeOK, GateInv, SeatInv, AllocationIsExclusive,
    OwnerOwnsActiveSeat, Held, seatVars, serverVars
<1> DEFINE Keeps == UNCHANGED <<server, Held, restarts>>
           Simulated == Ledger!LedgerNext \/ Keeps
<1>1. ASSUME NEW c \in Calls, PostCreate(c) PROVE Simulated
  <2>1. CASE server' = server
    BY <1>1, <2>1 DEF PostCreate
  <2>2. CASE server' # server
    <3>1. Ledger!Grant(c)
      BY <1>1, <2>2 DEF PostCreate, Ledger!Grant
    <3> QED
      BY <3>1 DEF Ledger!LedgerNext
  <2> QED
    BY <2>1, <2>2
<1>2. ASSUME NEW c \in Calls, PostAnswered(c) PROVE Simulated
  <2>1. CASE fresh' = fresh
    BY <1>2, <2>1 DEF PostAnswered
  <2>2. CASE fresh' # fresh
    <3>1. Ledger!Take(c)
      BY <1>2, <2>2 DEF PostAnswered, Ledger!Take
    <3> QED
      BY <3>1 DEF Ledger!LedgerNext
  <2> QED
    BY <2>1, <2>2
\* A DELETE ends the seat or finds it ended.
<1>3. ASSUME NEW c \in Calls, Deleted(c), server[c] # "none"
      PROVE  /\ server' \in {server, [server EXCEPT ![c] = "gone"]}
             /\ server'[c] = "gone"
  BY <1>3 DEF Deleted
<1>4. ASSUME NEW c \in Calls, server[c] # "none",
             Deleted(c) \/ UNCHANGED server, UNCHANGED <<Held, restarts>>
      PROVE  Simulated
  <2>1. Keeps \/ Ledger!End(c)
    BY <1>4 DEF Deleted, Ledger!End
  <2> QED
    BY <2>1 DEF Ledger!LedgerNext
<1>5. ASSUME NEW c \in Calls, NEW accept \in BOOLEAN, FinishCreate(c, accept),
             accept => InScope(c), UNCHANGED restarts
      PROVE  Simulated
  <2>1. CASE fresh # c
    BY <1>5, <2>1 DEF FinishCreate
  <2>2. CASE fresh = c /\ accept
    BY <1>5, <2>2 DEF FinishCreate, InScope, NoOwner
  <2>3. CASE fresh = c /\ ~accept /\ Deleted(c) /\ fresh' = None
    <3>1. Ledger!Drop(c)
      BY <1>3, <1>5, <2>3 DEF FinishCreate, Without, Ledger!Drop
    <3> QED
      BY <3>1 DEF Ledger!LedgerNext
  <2>4. CASE fresh = c /\ ~accept /\ DeleteFails(c) /\ fresh' = fresh
    <3>1. UNCHANGED <<Held, restarts>>
      BY <1>5, <2>4 DEF FinishCreate, Without
    <3>2. server[c] # "none" /\ (Deleted(c) \/ UNCHANGED server)
      BY <2>4 DEF DeleteFails
    <3> QED
      BY <1>4, <3>1, <3>2
  <2> QED
    BY <1>5, <2>1, <2>2, <2>3, <2>4 DEF FinishCreate
<1>6. ASSUME NEW c \in Calls, CompensateCreate(c) PROVE Simulated
  BY <1>5, <1>6 DEF CompensateCreate
<1>7. ASSUME NEW c \in Calls, FinishSessionCreate(c) PROVE Simulated
  BY <1>5, <1>7 DEF FinishSessionCreate
<1>8. ASSUME NEW c \in Calls, StoreCreated(c) PROVE Keeps
  BY <1>8 DEF StoreCreated
<1>9. CASE PollSession
  <2>1. CASE active \in {fresh, retained}
    BY <1>9, <2>1 DEF PollSession
  <2>2. CASE active \notin {fresh, retained}
    <3>1. Ledger!Drop(active)
      BY <1>9, <2>2 DEF PollSession, Ledger!Drop
    <3> QED
      BY <1>9, <3>1 DEF PollSession, Ledger!LedgerNext
  <2> QED
    BY <2>1, <2>2
<1>10. ASSUME NEW c \in Calls, ClaimSession(c) PROVE Simulated
  <2>1. Ledger!Find(c)
    BY <1>10 DEF ClaimSession, Ledger!Find
  <2> QED
    BY <2>1 DEF Ledger!LedgerNext
<1>11. ASSUME NEW c \in Calls, StopSession(c) PROVE Simulated
  <2>1. CASE UNCHANGED Held
    <3>1. CASE server[c] # "none"
      BY <1>4, <1>11, <2>1, <3>1 DEF StopSession, DeleteFails
    <3>2. CASE server[c] = "none"
      BY <1>11, <2>1, <3>2 DEF StopSession, DeleteFails, Deleted
    <3> QED
      BY <3>1, <3>2
  <2>2. CASE Held' # Held
    <3>1. Deleted(c) /\ c \in Held /\ Held' = Held \ {c}
      BY <1>11, <2>2 DEF StopSession, Without
    <3>2. server[c] # "none" /\ UNCHANGED restarts
      BY <1>11, <3>1 DEF StopSession
    <3>3. Ledger!Drop(c)
      BY <1>3, <3>1, <3>2 DEF Ledger!Drop
    <3> QED
      BY <3>3 DEF Ledger!LedgerNext
  <2> QED
    BY <2>1, <2>2
<1>12. ASSUME NEW c \in Calls, SeatEnds(c) PROVE Simulated
  <2>1. Ledger!End(c)
    BY <1>12 DEF SeatEnds, Ledger!End
  <2> QED
    BY <2>1 DEF Ledger!LedgerNext
<1>13. CASE RestartCore
  <2>1. Held' = {retained'} \ {None}
    BY <1>13 DEF RestartCore
  <2>2. retained' = None \/ retained' \in Held
    BY <1>13 DEF RestartCore, RecordAfterRestart
  <2>3. Held' \in {{}} \cup {{s} : s \in Held}
    <3>1. CASE retained' = None
      BY <2>1, <3>1
    <3>2. CASE retained' # None
      <4>1. Held' = {retained'}
        BY <2>1, <3>2
      <4> QED
        BY <2>2, <3>2, <4>1
    <3> QED
      BY <3>1, <3>2
  <2>4. Ledger!Restart
    BY <1>13, <2>3 DEF RestartCore, Ledger!Restart
  <2> QED
    BY <2>4 DEF Ledger!LedgerNext
<1>14. ASSUME NEW c \in Calls,
              SendCreate(c) \/ CancelCreate(c) \/ ReceiveReply(c)
              \/ AdmitCreate(c) \/ InspectLaunch(c) \/ Respond(c)
              \/ AwaitAcceptance(c)
       PROVE  Keeps
  BY <1>14 DEF SendCreate, CancelCreate, ReceiveReply, AdmitCreate,
     InspectLaunch, Respond, AwaitAcceptance
<1>15. ASSUME ReadLine \/ ClearCache \/ UNCHANGED vars
              \/ (\E user \in Users \cup {None} : ChangeAccount(user))
       PROVE  Keeps
  BY <1>15 DEF ReadLine, ClearCache, ChangeAccount, vars
<1> QED
  BY <1>1, <1>2, <1>6, <1>7, <1>8, <1>9, <1>10, <1>11, <1>12, <1>13, <1>14,
     <1>15 DEF Next, WorkerStep

\* The core implements the ledger: for any number of calls, accounts, faults
\* and restarts it asks for a seat only when it answers for none, and drops one
\* only when it does not run.
THEOREM CoreImplementsLedger == Spec => ImplementsLedger
<1>1. Init => Ledger!LedgerInit
  BY AllocationAssumption DEF Init, Ledger!LedgerInit, Held
<1>2. AllocationInv /\ [Next]_vars => [Ledger!LedgerNext]_<<server, Held, restarts>>
  BY LedgerStep, AllocationAssumption
<1> QED
  BY <1>1, <1>2, AllocationSafety, PTL
     DEF Spec, ImplementsLedger, Ledger!LedgerSpec

=============================================================================
