------------------------- MODULE StreamEngineProofs -------------------------
(***************************************************************************)
(* Proofs about StreamEngine: EngineInv is inductive, so the safety of the *)
(* session's threads holds for any number of generations, of extra         *)
(* commands and of recovery attempts.                                      *)
(***************************************************************************)
EXTENDS StreamEngine, TLAPS

\* Each part of the invariant speaks of a few variables only, and a step that
\* leaves these alone keeps it.
LEMMA HeldFrame ==
    ASSUME HeldInv, UNCHANGED <<pc, then, held, alive>> PROVE HeldInv'
BY DEF HeldInv, TearingDown, LeftToJoin

LEMMA SenderFrame ==
    ASSUME SenderInv, UNCHANGED <<pc, held, alive, senders>> PROVE SenderInv'
BY DEF SenderInv, TearingDown

LEMMA HidFrame ==
    ASSUME HidInv, UNCHANGED <<pc, life, held, alive, hid>> PROVE HidInv'
BY DEF HidInv, BindingMatchesSession

LEMMA ContextFrame ==
    ASSUME ContextInv, UNCHANGED <<pc, then, life, held, alive, worker, log>>
    PROVE  ContextInv'
BY DEF ContextInv, TearingDown, InReport, Outdated

LEMMA ReportFrame ==
    ASSUME ReportInv, UNCHANGED <<pc, then, wasUp, life, alive, worker, log>>
    PROVE  ReportInv'
BY DEF ReportInv, TearingDown, InReport, Outdated

LEMMA ClipFrame ==
    ASSUME ClipInv, UNCHANGED <<pc, life, held, alive, worker, clip, log>>
    PROVE  ClipInv'
BY DEF ClipInv, Outdated

\* The shape of what the operators assign.
LEMMA CancelShape == ASSUME clip \in Clips, Cancel PROVE clip' \in Clips
<1>1. clip'.cancelled \in BOOLEAN /\ clip' = [clip EXCEPT !.cancelled = clip'.cancelled]
    BY DEF Cancel, Clips
<1> QED BY <1>1 DEF Clips

LEMMA ReportShape == ASSUME log \in Logs, ReportStop PROVE log' \in Logs
<1>1. log'.stops \in 0..2 /\ log' = [log EXCEPT !.stops = log'.stops]
    BY DEF ReportStop, Logs
<1> QED BY <1>1 DEF Logs

LEMMA NewLife ==
    ASSUME life \in Lives, NEW s \in {"Idle", "Connected"}, NEW c \in BOOLEAN
    PROVE  [state |-> s, context |-> c, generation |-> life.generation + 1] \in Lives
<1>1. life.generation + 1 \in Nat
    BY DEF Lives
<1> QED BY <1>1 DEF Lives

LEMMA NewLog == [ready |-> FALSE, stops |-> 0, ghost |-> FALSE] \in Logs
BY DEF Logs

LEMMA NewWorker ==
    ASSUME life \in Lives
    PROVE  [at |-> "loop", generation |-> life.generation, attempts |-> 0] \in Workers
BY DEF Lives, Workers

LEMMA WorkerMoves ==
    ASSUME worker \in Workers
    PROVE  /\ \A p \in {"loop", "running", "terminal", "report"} :
                  WorkerAt(p) => worker' \in Workers
           /\ WorkerEnds => worker' \in Workers
           /\ Recover => worker' \in Workers
           /\ worker' = [worker EXCEPT !.attempts = 0] => worker' \in Workers
<1>1. \A p \in {"loop", "running", "terminal", "report"} :
          WorkerAt(p) => worker' \in Workers
    BY DEF WorkerAt, Workers
<1>2. ASSUME WorkerEnds PROVE worker' \in Workers
  <2>1. worker' = [worker EXCEPT !.at = "loop", !.attempts = 0]
    BY <1>2 DEF WorkerEnds
  <2> QED BY <2>1 DEF Workers
<1>3. worker' = [worker EXCEPT !.attempts = 0] => worker' \in Workers
    BY DEF Workers
<1>4. ASSUME Recover PROVE worker' \in Workers
  <2>1. CASE worker.attempts >= RecoveryLimit
    BY <1>1, <1>4, <2>1 DEF Recover
  <2>2. CASE ~(worker.attempts >= RecoveryLimit)
    <3>1. worker.attempts + 1 \in Nat
        BY DEF Workers
    <3>2. PICK p \in {"loop", "terminal"} :
              worker' = [worker EXCEPT !.attempts = worker.attempts + 1, !.at = p]
        BY <1>4, <2>2 DEF Recover
    <3> QED BY <3>1, <3>2 DEF Workers
  <2> QED BY <2>1, <2>2
<1> QED BY <1>1, <1>2, <1>3, <1>4

\* The sockets and the RTSP session are no threads.
LEMMA NotThreads ==
    ASSUME EngineInv PROVE alive \cap Sockets = {} /\ "rtsp" \notin alive
BY DEF EngineInv, Shape, Threads, SessionThreads, Receivers, Sockets

LEMMA Untouched ==
    ASSUME EngineInv,
           UNCHANGED <<pc, then, wasUp, life, held, alive, senders, hid, worker,
                       clip, log>>
    PROVE  EngineInv'
BY HeldFrame, SenderFrame, HidFrame, ContextFrame, ReportFrame, ClipFrame
   DEF EngineInv, Shape

\* A generation that begins or ends outdates the worker and the export.
LEMMA NextGeneration ==
    ASSUME EngineInv, life'.generation = life.generation + 1
    PROVE  /\ worker.generation # life'.generation /\ worker.generation <= life'.generation
           /\ clip.generation # life'.generation /\ clip.generation <= life'.generation
           /\ clip.generation < life'.generation
<1>1. life.generation \in Nat /\ worker.generation \in Nat /\ clip.generation \in Nat
    BY DEF EngineInv, Shape, Lives, Workers, Clips
<1>2. worker.generation <= life.generation /\ clip.generation <= life.generation
    BY DEF EngineInv, ContextInv, ClipInv
<1> QED BY <1>1, <1>2

\* An engine that was never started.
LEMMA EngineInit == ASSUME Init PROVE EngineInv
<1> USE DEF Init
<1>1. Shape
  <2>1. life \in Lives /\ hid \in Bindings
    BY DEF Lives, Bindings
  <2>2. worker \in Workers /\ clip \in Clips
    BY DEF Workers, Clips
  <2>3. log \in Logs
    BY NewLog
  <2> QED BY <2>1, <2>2, <2>3 DEF Shape, Points, Returns
<1>2. HeldInv
    BY DEF HeldInv, TearingDown, LeftToJoin
<1>3. SenderInv /\ HidInv
    BY DEF SenderInv, HidInv, BindingMatchesSession, TearingDown
<1>4. ContextInv /\ ReportInv /\ ClipInv
    BY DEF ContextInv, ReportInv, ClipInv, TearingDown, InReport, Outdated
<1> QED BY <1>1, <1>2, <1>3, <1>4 DEF EngineInv

\* The joins of stop and of stop_media_resources keep the invariant.
LEMMA StopKeeps == EngineInv /\ StopStep => EngineInv'
<1> USE DEF Sockets, ReservationTaken
<1> SUFFICES ASSUME EngineInv, StopStep PROVE EngineInv'
    OBVIOUS
<1> USE DEF engineVars, threadVars, workerVars, sideVars
<1>1. CASE StopBegin
  <2>1. Shape'
      BY <1>1, CancelShape DEF StopBegin, GoTo, EngineInv, Shape, Points,
         Bindings
  <2>2. HeldInv'
      BY <1>1 DEF StopBegin, GoTo, Cancel, EngineInv, HeldInv, TearingDown,
         LeftToJoin
  <2>3. SenderInv'
      BY <1>1 DEF StopBegin, GoTo, Cancel, EngineInv, SenderInv, TearingDown,
         Receivers
  <2>4. HidInv'
      BY <1>1 DEF StopBegin, GoTo, Cancel, EngineInv, HidInv,
         BindingMatchesSession
  <2>5. ContextInv'
      BY <1>1 DEF StopBegin, GoTo, Cancel, EngineInv, ContextInv, TearingDown,
         InReport, Outdated
  <2>6. ReportInv'
      BY <1>1 DEF StopBegin, GoTo, Cancel, EngineInv, ReportInv, TearingDown,
         InReport, Outdated
  <2>7. ClipInv'
      BY <1>1 DEF StopBegin, GoTo, Cancel, EngineInv, Shape, HeldInv,
         ContextInv, ClipInv, Outdated, TearingDown, LeftToJoin, InReport,
         Lives, Workers, Clips, Logs
  <2> QED BY <2>1, <2>2, <2>3, <2>4, <2>5, <2>6, <2>7 DEF EngineInv
<1>2. CASE StopLock
  <2>1. Shape'
    <3>1. life' \in Lives
        BY <1>2, NewLife DEF StopLock, EngineInv, Shape
    <3>2. wasUp' \in BOOLEAN
        BY <1>2 DEF StopLock
    <3> QED BY <1>2, <3>1, <3>2 DEF StopLock, Tell,
           EngineInv, Shape, Points
  <2>2. HeldInv'
      BY <1>2, NotThreads DEF StopLock, Tell, EngineInv, HeldInv, TearingDown,
         LeftToJoin
  <2>3. SenderInv'
      BY <1>2 DEF StopLock, Tell, EngineInv, SenderInv, TearingDown, Receivers
  <2>4. HidInv'
      BY <1>2 DEF StopLock, Tell, EngineInv, HidInv, BindingMatchesSession
  <2>5. ContextInv'
    <3>1. /\ life'.state = "Idle" /\ ~life'.context /\ life'.generation = life.generation + 1
          /\ pc' = "join bundle" /\ UNCHANGED <<then, alive, log, worker>>
        BY <1>2 DEF StopLock
    <3>2. worker'.generation <= life'.generation /\ Outdated'
        BY <3>1, NextGeneration DEF Outdated
    <3> QED BY <3>1, <3>2 DEF ContextInv, TearingDown, InReport
  <2>6. ReportInv'
    <3>1. /\ ~life'.context /\ life'.generation = life.generation + 1
          /\ pc = "lock" /\ pc' = "join bundle" /\ UNCHANGED <<then, alive, log, worker>>
        BY <1>2 DEF StopLock
    <3>2. Outdated' /\ TearingDown' /\ ~TearingDown
        BY <3>1, NextGeneration DEF Outdated, TearingDown
    <3>3. ~wasUp /\ then' \in {"ready", "drop", "closed"}
        BY <3>1, <3>2 DEF EngineInv, ReportInv, HeldInv
    <3>4. InReport' <=> InReport
        BY <3>1 DEF InReport
    <3>5. CASE life.state = "Idle"
      <4>1. ~wasUp' /\ ~life.context
        BY <1>2, <3>5 DEF StopLock, EngineInv, ContextInv
      <4> QED BY <3>1, <3>2, <3>3, <3>4, <4>1 DEF EngineInv, ReportInv
    <3>6. CASE life.state # "Idle"
      <4>1. wasUp'
        BY <1>2, <3>6 DEF StopLock
      <4>2. life.context \/ log.ghost
        BY <3>6 DEF EngineInv, ContextInv
      <4>3. life.context => log.stops = 0 /\ ~InReport
        BY DEF EngineInv, ContextInv, ReportInv
      <4> QED BY <3>1, <3>2, <3>3, <3>4, <4>1, <4>2, <4>3 DEF EngineInv,
                 ReportInv
    <3> QED BY <3>5, <3>6
  <2>7. ClipInv'
    <3>1. /\ life'.generation = life.generation + 1 /\ pc = "lock" /\ pc' = "join bundle"
          /\ UNCHANGED <<alive, log, worker, clip>>
        BY <1>2 DEF StopLock
    <3> QED BY <3>1, NextGeneration DEF EngineInv, ClipInv
  <2> QED BY <2>1, <2>2, <2>3, <2>4, <2>5, <2>6, <2>7 DEF EngineInv
<1>3. CASE JoinBundle
  <2>1. Shape'
      BY <1>3 DEF JoinBundle, GoTo, Tell, EngineInv, Shape, Points
  <2>2. HeldInv'
      BY <1>3 DEF JoinBundle, GoTo, Tell, EngineInv, HeldInv, TearingDown,
         LeftToJoin, Shape, Handles, Threads, SessionThreads, Receivers
  <2>3. SenderInv'
      BY <1>3 DEF JoinBundle, GoTo, Tell, EngineInv, SenderInv, TearingDown,
         Receivers
  <2>4. HidInv'
      BY <1>3 DEF JoinBundle, GoTo, Tell, EngineInv, HidInv,
         BindingMatchesSession
  <2>5. ContextInv'
      BY <1>3 DEF JoinBundle, GoTo, Tell, EngineInv, ContextInv, TearingDown,
         InReport, Outdated
  <2>6. ReportInv'
      BY <1>3 DEF JoinBundle, GoTo, Tell, EngineInv, ReportInv, TearingDown,
         InReport, Outdated
  <2>7. ClipInv'
      BY <1>3 DEF JoinBundle, GoTo, Tell, EngineInv, ClipInv, Outdated
  <2> QED BY <2>1, <2>2, <2>3, <2>4, <2>5, <2>6, <2>7 DEF EngineInv
<1>4. CASE JoinMjolnir
  <2>1. Shape'
      BY <1>4 DEF JoinMjolnir, GoTo, EngineInv, Shape, Points
  <2>2. HeldInv'
      BY <1>4, NotThreads DEF JoinMjolnir, GoTo, EngineInv, HeldInv,
         TearingDown, LeftToJoin
  <2>3. SenderInv'
      BY <1>4 DEF JoinMjolnir, GoTo, EngineInv, SenderInv, TearingDown,
         Receivers
  <2>4. HidInv'
      BY <1>4 DEF JoinMjolnir, GoTo, EngineInv, HidInv, BindingMatchesSession
  <2>5. ContextInv'
      BY <1>4 DEF JoinMjolnir, GoTo, EngineInv, ContextInv, TearingDown,
         InReport, Outdated
  <2>6. ReportInv'
      BY <1>4 DEF JoinMjolnir, GoTo, EngineInv, ReportInv, TearingDown,
         InReport, Outdated
  <2>7. ClipInv'
      BY <1>4 DEF JoinMjolnir, GoTo, EngineInv, ClipInv, Outdated
  <2> QED BY <2>1, <2>2, <2>3, <2>4, <2>5, <2>6, <2>7 DEF EngineInv
<1>5. CASE Release
  <2>1. Shape'
      BY <1>5, CancelShape DEF Release, GoTo, EngineInv, Shape, Points
  <2>2. HeldInv'
      BY <1>5 DEF Release, GoTo, Cancel, EngineInv, HeldInv, TearingDown,
         LeftToJoin
  <2>3. SenderInv'
      BY <1>5 DEF Release, GoTo, Cancel, EngineInv, SenderInv, TearingDown,
         Receivers
  <2>4. HidInv'
      BY <1>5 DEF Release, GoTo, Cancel, EngineInv, HidInv,
         BindingMatchesSession
  <2>5. ContextInv'
      BY <1>5 DEF Release, GoTo, Cancel, EngineInv, ContextInv, TearingDown,
         InReport, Outdated
  <2>6. ReportInv'
      BY <1>5 DEF Release, GoTo, Cancel, EngineInv, ReportInv, TearingDown,
         InReport, Outdated
  <2>7. ClipInv'
      BY <1>5 DEF Release, GoTo, Cancel, EngineInv, Shape, HeldInv, ContextInv,
         ClipInv, Outdated, TearingDown, LeftToJoin, InReport, Lives, Workers,
         Clips, Logs
  <2> QED BY <2>1, <2>2, <2>3, <2>4, <2>5, <2>6, <2>7 DEF EngineInv
<1>6. CASE JoinMic
  <2>1. Shape'
      BY <1>6 DEF JoinMic, GoTo, EngineInv, Shape, Points
  <2>2. HeldInv'
      BY <1>6 DEF JoinMic, GoTo, EngineInv, HeldInv, TearingDown, LeftToJoin
  <2>3. SenderInv'
      BY <1>6 DEF JoinMic, GoTo, EngineInv, SenderInv, TearingDown, Receivers
  <2>4. HidInv'
      BY <1>6 DEF JoinMic, GoTo, EngineInv, HidInv, BindingMatchesSession
  <2>5. ContextInv'
      BY <1>6 DEF JoinMic, GoTo, EngineInv, ContextInv, TearingDown, InReport,
         Outdated
  <2>6. ReportInv'
      BY <1>6 DEF JoinMic, GoTo, EngineInv, ReportInv, TearingDown, InReport,
         Outdated
  <2>7. ClipInv'
      BY <1>6 DEF JoinMic, GoTo, EngineInv, ClipInv, Outdated
  <2> QED BY <2>1, <2>2, <2>3, <2>4, <2>5, <2>6, <2>7 DEF EngineInv
<1>7. CASE JoinRecording
  <2>1. Shape'
      BY <1>7 DEF JoinRecording, GoTo, EngineInv, Shape, Points
  <2>2. HeldInv'
      BY <1>7 DEF JoinRecording, GoTo, EngineInv, HeldInv, TearingDown,
         LeftToJoin
  <2>3. SenderInv'
      BY <1>7 DEF JoinRecording, GoTo, EngineInv, SenderInv, TearingDown,
         Receivers
  <2>4. HidInv'
      BY <1>7 DEF JoinRecording, GoTo, EngineInv, HidInv, BindingMatchesSession
  <2>5. ContextInv'
      BY <1>7 DEF JoinRecording, GoTo, EngineInv, ContextInv, TearingDown,
         InReport, Outdated
  <2>6. ReportInv'
      BY <1>7 DEF JoinRecording, GoTo, EngineInv, ReportInv, TearingDown,
         InReport, Outdated
  <2>7. ClipInv'
      BY <1>7 DEF JoinRecording, GoTo, EngineInv, ClipInv, Outdated
  <2> QED BY <2>1, <2>2, <2>3, <2>4, <2>5, <2>6, <2>7 DEF EngineInv
<1>8. CASE JoinMedia
  <2>1. Shape'
      BY <1>8 DEF JoinMedia, GoTo, EngineInv, Shape, Points
  <2>2. HeldInv'
      BY <1>8 DEF JoinMedia, GoTo, EngineInv, HeldInv, TearingDown, LeftToJoin
  <2>3. SenderInv'
      BY <1>8 DEF JoinMedia, GoTo, EngineInv, SenderInv, TearingDown, Receivers
  <2>4. HidInv'
      BY <1>8 DEF JoinMedia, GoTo, EngineInv, HidInv, BindingMatchesSession
  <2>5. ContextInv'
      BY <1>8 DEF JoinMedia, GoTo, EngineInv, ContextInv, TearingDown,
         InReport, Outdated
  <2>6. ReportInv'
      BY <1>8 DEF JoinMedia, GoTo, EngineInv, ReportInv, TearingDown, InReport,
         Outdated
  <2>7. ClipInv'
      BY <1>8 DEF JoinMedia, GoTo, EngineInv, ClipInv, Outdated
  <2> QED BY <2>1, <2>2, <2>3, <2>4, <2>5, <2>6, <2>7 DEF EngineInv
<1>9. CASE JoinWorker
  <2>1. Shape'
      BY <1>9, ReportShape DEF JoinWorker, EngineInv, Shape, Points, HeldInv,
         TearingDown
  <2>2. HeldInv'
      BY <1>9 DEF JoinWorker, ReportStop, EngineInv, HeldInv, TearingDown,
         LeftToJoin
  <2>3. SenderInv'
      BY <1>9 DEF JoinWorker, ReportStop, EngineInv, HeldInv, SenderInv,
         TearingDown, Receivers, LeftToJoin
  <2>4. HidInv'
      BY <1>9 DEF JoinWorker, ReportStop, EngineInv, Shape, HeldInv, HidInv,
         BindingMatchesSession, TearingDown, LeftToJoin
  <2>5. ContextInv'
      BY <1>9 DEF JoinWorker, ReportStop, EngineInv, Shape, HeldInv,
         ContextInv, TearingDown, InReport, Outdated, LeftToJoin, Lives,
         Workers, Logs
  <2>6. ReportInv'
    <3>1. pc = "join worker" /\ pc' = then /\ UNCHANGED <<then, life, alive, worker>>
        BY <1>9 DEF JoinWorker
    <3>0. ~wasUp'
        BY <1>9 DEF JoinWorker
    <3>2. "worker" \notin alive
        BY <1>9 DEF JoinWorker, EngineInv, HeldInv
    <3>3. CASE wasUp
      <4>0. ReportStop
        BY <1>9, <3>3 DEF JoinWorker
      <4>1. log'.ghost = log.ghost /\ log'.ready = log.ready
        BY <4>0 DEF ReportStop, EngineInv, Shape, Logs
      <4>2. log'.stops > 0 /\ (log'.stops > 1 => log.stops # 0)
        BY <4>0 DEF ReportStop, EngineInv, Shape, Logs
      <4>3. then \notin {"media", "unlock"} /\ (log.ghost \/ log.stops = 0)
        BY <3>3 DEF EngineInv, ReportInv
      <4>4. ~life.context
        BY <3>1, <4>3 DEF EngineInv, ContextInv
      <4> QED BY <3>0, <3>1, <3>2, <4>1, <4>2, <4>3, <4>4 DEF EngineInv,
                 HeldInv, ReportInv, TearingDown, InReport, Outdated
    <3>4. CASE ~wasUp
      <4>1. log' = log
        BY <1>9, <3>4 DEF JoinWorker
      <4> QED BY <3>0, <3>1, <3>2, <3>4, <4>1 DEF EngineInv, HeldInv,
                 ReportInv, TearingDown, InReport, Outdated
    <3> QED BY <3>3, <3>4
  <2>7. ClipInv'
      BY <1>9 DEF JoinWorker, ReportStop, EngineInv, Shape, HeldInv,
         ContextInv, ClipInv, Outdated, TearingDown, LeftToJoin, InReport,
         Lives, Workers, Clips, Logs
  <2> QED BY <2>1, <2>2, <2>3, <2>4, <2>5, <2>6, <2>7 DEF EngineInv
<1>10. CASE Drop
  <2>1. Shape'
      BY <1>10 DEF Drop, EngineInv, Shape, Points, Returns
  <2>2. HeldInv'
      BY <1>10 DEF Drop, EngineInv, HeldInv, TearingDown, LeftToJoin
  <2>3. SenderInv'
      BY <1>10 DEF Drop, EngineInv, SenderInv, TearingDown, Receivers
  <2>4. HidInv'
      BY <1>10 DEF Drop, EngineInv, HidInv, BindingMatchesSession
  <2>5. ContextInv'
      BY <1>10 DEF Drop, EngineInv, ContextInv, TearingDown, InReport, Outdated
  <2>6. ReportInv'
      BY <1>10 DEF Drop, EngineInv, ReportInv, TearingDown, InReport, Outdated
  <2>7. ClipInv'
      BY <1>10 DEF Drop, EngineInv, ClipInv, Outdated
  <2> QED BY <2>1, <2>2, <2>3, <2>4, <2>5, <2>6, <2>7 DEF EngineInv
<1>11. CASE DropExport
  <2>1. Shape'
      BY <1>11 DEF DropExport, EngineInv, Shape
  <2>2. HeldInv'
      BY <1>11 DEF DropExport, EngineInv, HeldInv, TearingDown, LeftToJoin
  <2>3. SenderInv'
      BY <1>11 DEF DropExport, EngineInv, SenderInv, TearingDown, Receivers
  <2>4. HidInv'
      BY <1>11 DEF DropExport, EngineInv, HidInv, BindingMatchesSession
  <2>5. ContextInv'
      BY <1>11 DEF DropExport, EngineInv, ContextInv, TearingDown, InReport,
         Outdated
  <2>6. ClipInv'
      BY <1>11 DEF DropExport, EngineInv, ClipInv, Outdated
  <2>7. ReportInv'
      BY <1>11, ReportFrame DEF DropExport, EngineInv
  <2> QED BY <2>1, <2>2, <2>3, <2>4, <2>5, <2>6, <2>7 DEF EngineInv
<1> QED BY <1>1, <1>2, <1>3, <1>4, <1>5, <1>6, <1>7, <1>8, <1>9, <1>10, <1>11
       DEF StopStep

\* start, with each of its failures, keeps the invariant.
LEMMA StartKeeps == EngineInv /\ StartStep => EngineInv'
<1> USE DEF Sockets, ReservationTaken
<1> SUFFICES ASSUME EngineInv, StartStep PROVE EngineInv'
    OBVIOUS
<1> USE DEF engineVars, threadVars, workerVars, sideVars
<1>1. CASE Negotiate
  <2>1. Shape'
      BY <1>1 DEF Negotiate, GoTo, Refused, EngineInv, Shape, Points, Handles,
         Threads, SessionThreads, Receivers
  <2>2. HeldInv'
      BY <1>1, NotThreads DEF Negotiate, GoTo, Refused, EngineInv, HeldInv,
         TearingDown, LeftToJoin
  <2>3. SenderInv'
      BY <1>1 DEF Negotiate, GoTo, Refused, EngineInv, SenderInv, TearingDown,
         Receivers
  <2>4. HidInv'
      BY <1>1 DEF Negotiate, GoTo, Refused, EngineInv, HidInv,
         BindingMatchesSession
  <2>5. ContextInv'
      BY <1>1 DEF Negotiate, GoTo, Refused, EngineInv, ContextInv, TearingDown,
         InReport, Outdated
  <2>6. ReportInv'
    <3>1. wasUp' = wasUp
        BY <1>1 DEF Negotiate, GoTo, Refused
    <3>2. ~wasUp
        BY <1>1 DEF Negotiate, EngineInv, ReportInv, TearingDown
    <3> QED BY <1>1, <3>1, <3>2 DEF Negotiate, GoTo, Refused,
           EngineInv, Shape, HeldInv, ContextInv, ReportInv, TearingDown,
           InReport, Outdated, LeftToJoin, Lives, Workers, Logs
  <2>7. ClipInv'
      BY <1>1 DEF Negotiate, GoTo, Refused, EngineInv, ClipInv, Outdated
  <2> QED BY <2>1, <2>2, <2>3, <2>4, <2>5, <2>6, <2>7 DEF EngineInv
<1>2. CASE DropMic
  <2>1. Shape'
      BY <1>2 DEF DropMic, TearDown, Tell, EngineInv, Shape, Points, Returns
  <2>2. HeldInv'
      BY <1>2 DEF DropMic, TearDown, Tell, EngineInv, HeldInv, TearingDown,
         LeftToJoin
  <2>3. SenderInv'
      BY <1>2 DEF DropMic, TearDown, Tell, EngineInv, SenderInv, TearingDown,
         Receivers
  <2>4. HidInv'
      BY <1>2 DEF DropMic, TearDown, Tell, EngineInv, HidInv,
         BindingMatchesSession
  <2>5. ContextInv'
      BY <1>2 DEF DropMic, TearDown, Tell, EngineInv, ContextInv, TearingDown,
         InReport, Outdated
  <2>6. ReportInv'
      BY <1>2 DEF DropMic, TearDown, Tell, EngineInv, ReportInv, TearingDown,
         InReport, Outdated
  <2>7. ClipInv'
      BY <1>2 DEF DropMic, TearDown, Tell, EngineInv, ClipInv, Outdated
  <2> QED BY <2>1, <2>2, <2>3, <2>4, <2>5, <2>6, <2>7 DEF EngineInv
<1>3. CASE StartMedia
  <2>1. Shape'
      BY <1>3 DEF StartMedia, GoTo, Refused, EngineInv, Shape, Points, Handles,
         Threads, SessionThreads, Receivers, Senders
  <2>2. HeldInv'
      BY <1>3 DEF StartMedia, GoTo, Refused, EngineInv, HeldInv, TearingDown,
         LeftToJoin
  <2>3. SenderInv'
      BY <1>3 DEF StartMedia, GoTo, Refused, EngineInv, SenderInv, TearingDown,
         Receivers
  <2>4. HidInv'
      BY <1>3 DEF StartMedia, GoTo, Refused, EngineInv, HidInv,
         BindingMatchesSession
  <2>5. ContextInv'
      BY <1>3 DEF StartMedia, GoTo, Refused, EngineInv, ContextInv,
         TearingDown, InReport, Outdated
  <2>6. ReportInv'
    <3>1. wasUp' = wasUp
        BY <1>3 DEF StartMedia, GoTo, Refused
    <3>2. ~wasUp
        BY <1>3 DEF StartMedia, EngineInv, ReportInv, TearingDown
    <3> QED BY <1>3, <3>1, <3>2 DEF StartMedia, GoTo, Refused,
           sideVars, EngineInv, Shape, HeldInv, ContextInv, ReportInv,
           TearingDown, InReport, Outdated, LeftToJoin, Lives, Workers, Logs
  <2>7. ClipInv'
      BY <1>3 DEF StartMedia, GoTo, Refused, EngineInv, ClipInv, Outdated
  <2> QED BY <2>1, <2>2, <2>3, <2>4, <2>5, <2>6, <2>7 DEF EngineInv
<1>4. CASE Announce
  <2>1. Shape'
      BY <1>4 DEF Announce, GoTo, EngineInv, Shape, Points, Returns
  <2>2. HeldInv'
      BY <1>4, NotThreads DEF Announce, GoTo, EngineInv, HeldInv, TearingDown,
         LeftToJoin
  <2>3. SenderInv'
      BY <1>4 DEF Announce, GoTo, EngineInv, SenderInv, TearingDown, Receivers
  <2>4. HidInv'
      BY <1>4 DEF Announce, GoTo, EngineInv, HidInv, BindingMatchesSession
  <2>5. ContextInv'
      BY <1>4 DEF Announce, GoTo, EngineInv, ContextInv, TearingDown, InReport,
         Outdated
  <2>6. ReportInv'
    <3>1. wasUp' = wasUp
        BY <1>4 DEF Announce, GoTo
    <3>2. ~wasUp
        BY <1>4 DEF Announce, EngineInv, ReportInv, TearingDown
    <3> QED BY <1>4, <3>1, <3>2 DEF Announce, GoTo,
           EngineInv, Shape, HeldInv, ContextInv, ReportInv, TearingDown,
           InReport, Outdated, LeftToJoin, Lives, Workers, Logs
  <2>7. ClipInv'
      BY <1>4 DEF Announce, GoTo, EngineInv, ClipInv, Outdated
  <2> QED BY <2>1, <2>2, <2>3, <2>4, <2>5, <2>6, <2>7 DEF EngineInv
<1>5. CASE SpawnBundle
  <2>1. Shape'
      BY <1>5 DEF SpawnBundle, EngineInv, Shape, Points, Returns, Bindings,
         Handles, Threads, SessionThreads, Receivers, Senders
  <2>2. HeldInv'
      BY <1>5, NotThreads DEF SpawnBundle, EngineInv, HeldInv, TearingDown,
         LeftToJoin
  <2>3. SenderInv'
      BY <1>5 DEF SpawnBundle, EngineInv, SenderInv, TearingDown, Receivers
  <2>4. HidInv'
      BY <1>5 DEF SpawnBundle, EngineInv, Shape, HeldInv, HidInv,
         BindingMatchesSession, TearingDown, LeftToJoin, Bindings
  <2>5. ContextInv'
      BY <1>5 DEF SpawnBundle, EngineInv, ContextInv, TearingDown, InReport,
         Outdated
  <2>6. ReportInv'
    <3>1. wasUp' = wasUp
        BY <1>5 DEF SpawnBundle
    <3>2. ~wasUp
        BY <1>5 DEF SpawnBundle, EngineInv, ReportInv, TearingDown
    <3> QED BY <1>5, <3>1, <3>2 DEF SpawnBundle, EngineInv, Shape,
           HeldInv, ContextInv, ReportInv, TearingDown, InReport, Outdated,
           LeftToJoin, Lives, Workers, Logs
  <2>7. ClipInv'
      BY <1>5 DEF SpawnBundle, EngineInv, ClipInv, Outdated
  <2> QED BY <2>1, <2>2, <2>3, <2>4, <2>5, <2>6, <2>7 DEF EngineInv
<1>6. CASE SpawnMjolnir
  <2>1. Shape'
      BY <1>6 DEF SpawnMjolnir, GoTo, TearDown, Tell, EngineInv, Shape, Points,
         Returns, Handles, Threads, SessionThreads, Receivers, Senders
  <2>2. HeldInv'
      BY <1>6 DEF SpawnMjolnir, GoTo, TearDown, Tell, EngineInv, HeldInv,
         TearingDown, LeftToJoin
  <2>3. SenderInv'
      BY <1>6 DEF SpawnMjolnir, GoTo, TearDown, Tell, EngineInv, SenderInv,
         TearingDown, Receivers
  <2>4. HidInv'
      BY <1>6 DEF SpawnMjolnir, GoTo, TearDown, Tell, EngineInv, HidInv,
         BindingMatchesSession
  <2>5. ContextInv'
      BY <1>6 DEF SpawnMjolnir, GoTo, TearDown, Tell, EngineInv, ContextInv,
         TearingDown, InReport, Outdated
  <2>6. ReportInv'
    <3>1. wasUp' = wasUp
        BY <1>6 DEF SpawnMjolnir, GoTo, TearDown, Tell
    <3>2. ~wasUp
        BY <1>6 DEF SpawnMjolnir, EngineInv, ReportInv, TearingDown
    <3> QED BY <1>6, <3>1, <3>2 DEF SpawnMjolnir, GoTo, TearDown, Tell,
           workerVars, sideVars, EngineInv, Shape, HeldInv, ContextInv,
           ReportInv, TearingDown, InReport, Outdated, LeftToJoin, Lives,
           Workers, Logs
  <2>7. ClipInv'
      BY <1>6 DEF SpawnMjolnir, GoTo, TearDown, Tell, EngineInv, ClipInv,
         Outdated
  <2> QED BY <2>1, <2>2, <2>3, <2>4, <2>5, <2>6, <2>7 DEF EngineInv
<1>7. CASE Activate
  <2>1. Shape'
    <3>1. life' \in Lives /\ log' \in Logs
        BY <1>7, NewLife, NewLog DEF Activate, EngineInv, Shape
    <3> QED BY <1>7, <3>1 DEF Activate, GoTo, EngineInv,
           Shape, Points
  <2>2. HeldInv'
      BY <1>7 DEF Activate, GoTo, EngineInv, HeldInv, TearingDown, LeftToJoin
  <2>3. SenderInv'
      BY <1>7 DEF Activate, GoTo, EngineInv, SenderInv, TearingDown, Receivers
  <2>4. HidInv'
      BY <1>7 DEF Activate, GoTo, EngineInv, HidInv, BindingMatchesSession
  <2>5. ContextInv'
    <3>1. /\ life'.state = "Connected" /\ life'.context /\ life'.generation = life.generation + 1
          /\ pc' = "bind hid" /\ UNCHANGED <<then, alive, worker>>
        BY <1>7 DEF Activate, GoTo
    <3>2. "worker" \notin alive
        BY <1>7 DEF Activate, EngineInv, HeldInv
    <3> QED BY <3>1, <3>2, NextGeneration DEF ContextInv, TearingDown,
               InReport, Outdated
  <2>6. ReportInv'
    <3>1. life'.context /\ log'.stops = 0 /\ ~log'.ready /\ ~log'.ghost
        BY <1>7 DEF Activate
    <3>2. pc = "activate" /\ pc' = "bind hid" /\ wasUp' = wasUp /\ alive' = alive
        BY <1>7 DEF Activate, GoTo
    <3>3. "worker" \notin alive /\ ~wasUp
        BY <1>7 DEF Activate, EngineInv, HeldInv, ReportInv, TearingDown
    <3>4. ~wasUp'
        BY <3>2, <3>3
    <3>5. ~InReport'
        BY <3>2, <3>3 DEF InReport
    <3>6. ~(log'.stops > 1)
        BY <3>1
    <3> QED BY <3>1, <3>2, <3>4, <3>5, <3>6 DEF ReportInv
  <2>7. ClipInv'
    <3>1. life'.generation = life.generation + 1 /\ ~log'.ghost
        BY <1>7 DEF Activate
    <3>2. UNCHANGED <<alive, worker, clip>>
        BY <1>7 DEF Activate
    <3> QED BY <3>1, <3>2, NextGeneration DEF EngineInv, ClipInv
  <2> QED BY <2>1, <2>2, <2>3, <2>4, <2>5, <2>6, <2>7 DEF EngineInv
<1>8. CASE BindHid
  <2>1. Shape'
    <3>1. hid' \in Bindings
        BY <1>8 DEF BindHid, EngineInv, Shape, Lives, Bindings
    <3> QED BY <1>8, <3>1 DEF BindHid, GoTo,
           EngineInv, Shape, Points, Returns
  <2>2. HeldInv'
      BY <1>8 DEF BindHid, GoTo, EngineInv, HeldInv, TearingDown, LeftToJoin
  <2>3. SenderInv'
      BY <1>8 DEF BindHid, GoTo, EngineInv, SenderInv, TearingDown, Receivers
  <2>4. HidInv'
      BY <1>8 DEF BindHid, GoTo, EngineInv, Shape, HeldInv, HidInv,
         BindingMatchesSession, TearingDown, LeftToJoin, Bindings
  <2>5. ContextInv'
      BY <1>8 DEF BindHid, GoTo, EngineInv, ContextInv, TearingDown, InReport,
         Outdated
  <2>6. ReportInv'
      BY <1>8 DEF BindHid, GoTo, EngineInv, ReportInv, TearingDown, InReport,
         Outdated
  <2>7. ClipInv'
      BY <1>8 DEF BindHid, GoTo, EngineInv, ClipInv, Outdated
  <2> QED BY <2>1, <2>2, <2>3, <2>4, <2>5, <2>6, <2>7 DEF EngineInv
<1>9. CASE SpawnWorker
  <2>1. Shape'
    <3>1. worker' \in Workers
        BY <1>9, NewWorker DEF SpawnWorker, EngineInv, Shape
    <3> QED BY <1>9, <3>1 DEF SpawnWorker, GoTo, TearDown, Tell,
           EngineInv, Shape, Points, Returns, Handles, Threads,
           SessionThreads, Receivers
  <2>2. HeldInv'
      BY <1>9 DEF SpawnWorker, GoTo, TearDown, Tell, EngineInv, HeldInv,
         TearingDown, LeftToJoin
  <2>3. SenderInv'
      BY <1>9 DEF SpawnWorker, GoTo, TearDown, Tell, EngineInv, SenderInv,
         TearingDown, Receivers
  <2>4. HidInv'
      BY <1>9 DEF SpawnWorker, GoTo, TearDown, Tell, EngineInv, HidInv,
         BindingMatchesSession
  <2>5. ContextInv'
    <3>1. life' = life /\ log' = log /\ life.generation \in Nat
        BY <1>9 DEF SpawnWorker, EngineInv, Shape, Lives
    <3>2. life.context /\ life.state = "Connected" /\ {"bundle", "media"} \subseteq held
        BY <1>9 DEF SpawnWorker, EngineInv, HeldInv, ContextInv
    <3>3. CASE UNCHANGED <<held, alive, worker>> /\ pc' = "join bundle" /\ then' = "unlock"
        BY <1>9, <3>1, <3>2, <3>3 DEF SpawnWorker, EngineInv, HeldInv,
           ContextInv, TearingDown, InReport, Outdated
    <3>4. ASSUME held' = held \cup {"worker"}, alive' = alive \cup {"worker"},
                 worker' = [at |-> "loop", generation |-> life.generation, attempts |-> 0],
                 pc' = "play" \/ pc' = "tail"
          PROVE  ContextInv'
      <4>1. worker'.generation = life'.generation /\ worker'.generation \in Nat
        BY <3>1, <3>4
      <4>2. ~TearingDown' /\ ~InReport' /\ ~Outdated'
        BY <3>4, <4>1 DEF TearingDown, InReport, Outdated
      <4>3. worker'.generation <= life'.generation
        BY <4>1
      <4> QED
        BY <3>1, <3>2, <3>4, <4>2, <4>3 DEF ContextInv
    <3> QED BY <1>9, <3>3, <3>4 DEF SpawnWorker, GoTo, TearDown
  <2>6. ReportInv'
      BY <1>9 DEF SpawnWorker, GoTo, TearDown, Tell, EngineInv, Shape, HeldInv,
         ContextInv, ReportInv, TearingDown, InReport, Outdated, LeftToJoin,
         Lives, Workers, Logs
  <2>7. ClipInv'
    <3>1. life' = life /\ log' = log /\ clip' = clip
        BY <1>9 DEF SpawnWorker
    <3>2. "worker" \notin alive /\ "bundle" \in held
        BY <1>9 DEF SpawnWorker, EngineInv, HeldInv
    <3>3. ~log.ghost
        BY <1>9, <3>2 DEF SpawnWorker, EngineInv, ClipInv
    <3>4. CASE UNCHANGED <<held, alive, worker>>
        BY <3>1, <3>2, <3>3, <3>4 DEF EngineInv, ClipInv
    <3>5. ASSUME alive' = alive \cup {"worker"},
                 worker' = [at |-> "loop", generation |-> life.generation, attempts |-> 0]
          PROVE  ClipInv'
      <4>1. ~Outdated'
        BY <3>1, <3>5 DEF Outdated
      <4> QED BY <3>1, <3>3, <3>5, <4>1 DEF EngineInv, ClipInv
    <3> QED BY <1>9, <3>4, <3>5 DEF SpawnWorker
  <2> QED BY <2>1, <2>2, <2>3, <2>4, <2>5, <2>6, <2>7 DEF EngineInv
<1>10. CASE Unlock
  <2>1. Shape'
      BY <1>10 DEF Unlock, GoTo, EngineInv, Shape, Points, Lives, Bindings
  <2>2. HeldInv'
      BY <1>10 DEF Unlock, GoTo, EngineInv, HeldInv, TearingDown, LeftToJoin
  <2>3. SenderInv'
      BY <1>10 DEF Unlock, GoTo, EngineInv, SenderInv, TearingDown, Receivers
  <2>4. HidInv'
      BY <1>10 DEF Unlock, GoTo, EngineInv, HidInv, BindingMatchesSession
  <2>5. ContextInv'
      BY <1>10 DEF Unlock, GoTo, EngineInv, Shape, HeldInv, ContextInv,
         TearingDown, InReport, Outdated, LeftToJoin, Lives, Workers, Logs
  <2>6. ReportInv'
      BY <1>10 DEF Unlock, GoTo, EngineInv, ReportInv, TearingDown, InReport,
         Outdated
  <2>7. ClipInv'
      BY <1>10 DEF Unlock, GoTo, EngineInv, ClipInv, Outdated
  <2> QED BY <2>1, <2>2, <2>3, <2>4, <2>5, <2>6, <2>7 DEF EngineInv
<1>11. CASE Play
  <2>1. Shape'
      BY <1>11 DEF Play, GoTo, EngineInv, Shape, Points, Returns, Handles,
         Threads, SessionThreads, Receivers
  <2>2. HeldInv'
      BY <1>11 DEF Play, GoTo, EngineInv, HeldInv, TearingDown, LeftToJoin
  <2>3. SenderInv'
      BY <1>11 DEF Play, GoTo, EngineInv, SenderInv, TearingDown, Receivers
  <2>4. HidInv'
      BY <1>11 DEF Play, GoTo, EngineInv, HidInv, BindingMatchesSession
  <2>5. ContextInv'
      BY <1>11 DEF Play, GoTo, EngineInv, ContextInv, TearingDown, InReport,
         Outdated
  <2>6. ReportInv'
    <3>1. wasUp' = wasUp
        BY <1>11 DEF Play, GoTo
    <3>2. ~wasUp
        BY <1>11 DEF Play, EngineInv, ReportInv, TearingDown
    <3> QED BY <1>11, <3>1, <3>2 DEF Play, GoTo,
           EngineInv, Shape, HeldInv, ContextInv, ReportInv, TearingDown,
           InReport, Outdated, LeftToJoin, Lives, Workers, Logs
  <2>7. ClipInv'
      BY <1>11 DEF Play, GoTo, EngineInv, ClipInv, Outdated
  <2> QED BY <2>1, <2>2, <2>3, <2>4, <2>5, <2>6, <2>7 DEF EngineInv
<1>12. CASE StartTail
  <2>1. Shape'
      BY <1>12 DEF StartTail, Refused, StartCapture, EngineInv, Shape, Points,
         Logs, Handles, Threads, SessionThreads, Receivers
  <2>2. HeldInv'
      BY <1>12 DEF StartTail, Refused, StartCapture, EngineInv, HeldInv,
         TearingDown, LeftToJoin
  <2>3. SenderInv'
      BY <1>12 DEF StartTail, Refused, StartCapture, EngineInv, SenderInv,
         TearingDown, Receivers
  <2>4. HidInv'
      BY <1>12 DEF StartTail, Refused, StartCapture, EngineInv, HidInv,
         BindingMatchesSession
  <2>5. ContextInv'
      BY <1>12 DEF StartTail, Refused, StartCapture, EngineInv, ContextInv,
         TearingDown, InReport, Outdated
  <2>6. ReportInv'
      BY <1>12 DEF StartTail, Refused, StartCapture, EngineInv, ReportInv,
         TearingDown, InReport, Outdated
  <2>7. ClipInv'
      BY <1>12 DEF StartTail, Refused, StartCapture, EngineInv, ClipInv,
         Outdated
  <2> QED BY <2>1, <2>2, <2>3, <2>4, <2>5, <2>6, <2>7 DEF EngineInv
<1> QED BY <1>1, <1>2, <1>3, <1>4, <1>5, <1>6, <1>7, <1>8, <1>9, <1>10, <1>11,
       <1>12 DEF StartStep

\* The commands, and what is left of the ones that wait keep the invariant.
LEMMA CommandKeeps == EngineInv /\ (Command \/ Mute \/ Unmute \/ EndRecording) => EngineInv'
<1> USE DEF Sockets, ReservationTaken
<1> SUFFICES ASSUME EngineInv, Command \/ Mute \/ Unmute \/ EndRecording PROVE EngineInv'
    OBVIOUS
<1> USE DEF engineVars, threadVars, workerVars, sideVars
<1>1. CASE NvstBind
  <2>1. Shape'
      BY <1>1 DEF NvstBind, EngineInv, Shape, Handles, Threads, SessionThreads,
         Receivers
  <2>2. HeldInv'
      BY <1>1 DEF NvstBind, EngineInv, HeldInv, TearingDown, LeftToJoin
  <2>3. SenderInv'
      BY <1>1 DEF NvstBind, EngineInv, SenderInv, TearingDown, Receivers
  <2>4. HidInv'
      BY <1>1 DEF NvstBind, EngineInv, HidInv, BindingMatchesSession
  <2>5. ContextInv'
      BY <1>1 DEF NvstBind, EngineInv, ContextInv, TearingDown, InReport,
         Outdated
  <2>6. ClipInv'
      BY <1>1 DEF NvstBind, EngineInv, ClipInv, Outdated
  <2>7. ReportInv'
      BY <1>1, ReportFrame DEF NvstBind, EngineInv
  <2> QED BY <2>1, <2>2, <2>3, <2>4, <2>5, <2>6, <2>7 DEF EngineInv
<1>2. CASE NvstUnbind
  <2>1. Shape'
      BY <1>2 DEF NvstUnbind, EngineInv, Shape
  <2>2. HeldInv'
      BY <1>2, NotThreads DEF NvstUnbind, EngineInv, HeldInv, TearingDown,
         LeftToJoin
  <2>3. SenderInv'
      BY <1>2 DEF NvstUnbind, EngineInv, SenderInv, TearingDown, Receivers
  <2>4. HidInv'
      BY <1>2 DEF NvstUnbind, EngineInv, HidInv, BindingMatchesSession
  <2>5. ContextInv'
      BY <1>2 DEF NvstUnbind, EngineInv, ContextInv, TearingDown, InReport,
         Outdated
  <2>6. ClipInv'
      BY <1>2 DEF NvstUnbind, EngineInv, ClipInv, Outdated
  <2>7. ReportInv'
      BY <1>2, ReportFrame DEF NvstUnbind, EngineInv
  <2> QED BY <2>1, <2>2, <2>3, <2>4, <2>5, <2>6, <2>7 DEF EngineInv
<1>3. CASE Stop
  <2>1. Shape'
      BY <1>3 DEF Stop, EngineInv, Shape, Points, Returns
  <2>2. HeldInv'
      BY <1>3 DEF Stop, EngineInv, HeldInv, TearingDown, LeftToJoin
  <2>3. SenderInv'
      BY <1>3 DEF Stop, EngineInv, SenderInv, TearingDown, Receivers
  <2>4. HidInv'
      BY <1>3 DEF Stop, EngineInv, HidInv, BindingMatchesSession
  <2>5. ContextInv'
      BY <1>3 DEF Stop, EngineInv, ContextInv, TearingDown, InReport, Outdated
  <2>6. ReportInv'
      BY <1>3 DEF Stop, EngineInv, ReportInv, TearingDown, InReport, Outdated
  <2>7. ClipInv'
      BY <1>3 DEF Stop, EngineInv, ClipInv, Outdated
  <2> QED BY <2>1, <2>2, <2>3, <2>4, <2>5, <2>6, <2>7 DEF EngineInv
<1>4. CASE Shutdown
  <2>1. Shape'
      BY <1>4 DEF Shutdown, EngineInv, Shape, Points, Returns
  <2>2. HeldInv'
      BY <1>4 DEF Shutdown, EngineInv, HeldInv, TearingDown, LeftToJoin
  <2>3. SenderInv'
      BY <1>4 DEF Shutdown, EngineInv, SenderInv, TearingDown, Receivers
  <2>4. HidInv'
      BY <1>4 DEF Shutdown, EngineInv, HidInv, BindingMatchesSession
  <2>5. ContextInv'
      BY <1>4 DEF Shutdown, EngineInv, ContextInv, TearingDown, InReport,
         Outdated
  <2>6. ReportInv'
      BY <1>4 DEF Shutdown, EngineInv, ReportInv, TearingDown, InReport,
         Outdated
  <2>7. ClipInv'
      BY <1>4 DEF Shutdown, EngineInv, ClipInv, Outdated
  <2> QED BY <2>1, <2>2, <2>3, <2>4, <2>5, <2>6, <2>7 DEF EngineInv
<1>5. ASSUME NEW p \in Plans, Start(p) PROVE EngineInv'
  <2>1. Shape'
      BY <1>5 DEF Start, EngineInv, Shape, Points
  <2>2. HeldInv'
      BY <1>5 DEF Start, EngineInv, HeldInv, TearingDown, LeftToJoin
  <2>3. SenderInv'
      BY <1>5 DEF Start, EngineInv, SenderInv, TearingDown, Receivers
  <2>4. HidInv'
      BY <1>5 DEF Start, EngineInv, HidInv, BindingMatchesSession
  <2>5. ContextInv'
      BY <1>5 DEF Start, EngineInv, ContextInv, TearingDown, InReport, Outdated
  <2>6. ReportInv'
      BY <1>5 DEF Start, EngineInv, ReportInv, TearingDown, InReport, Outdated
  <2>7. ClipInv'
      BY <1>5 DEF Start, EngineInv, ClipInv, Outdated
  <2> QED BY <2>1, <2>2, <2>3, <2>4, <2>5, <2>6, <2>7 DEF EngineInv
<1>6. ASSUME NEW on \in BOOLEAN, SetMicrophone(on) PROVE EngineInv'
  <2>1. Shape'
      BY <1>6 DEF SetMicrophone, Extra, EngineInv, Shape, Points, Returns
  <2>2. HeldInv'
      BY <1>6 DEF SetMicrophone, Extra, EngineInv, HeldInv, TearingDown,
         LeftToJoin
  <2>3. SenderInv'
      BY <1>6 DEF SetMicrophone, Extra, EngineInv, SenderInv, TearingDown,
         Receivers
  <2>4. HidInv'
      BY <1>6 DEF SetMicrophone, Extra, EngineInv, HidInv,
         BindingMatchesSession
  <2>5. ContextInv'
      BY <1>6 DEF SetMicrophone, Extra, EngineInv, ContextInv, TearingDown,
         InReport, Outdated
  <2>6. ReportInv'
      BY <1>6 DEF SetMicrophone, Extra, EngineInv, ReportInv, TearingDown,
         InReport, Outdated
  <2>7. ClipInv'
      BY <1>6 DEF SetMicrophone, Extra, EngineInv, ClipInv, Outdated
  <2> QED BY <2>1, <2>2, <2>3, <2>4, <2>5, <2>6, <2>7 DEF EngineInv
<1>7. CASE StartRecording
  <2>1. Shape'
      BY <1>7 DEF StartRecording, Extra, EngineInv, Shape, Handles, Threads,
         SessionThreads, Receivers
  <2>2. HeldInv'
      BY <1>7 DEF StartRecording, Extra, EngineInv, HeldInv, TearingDown,
         LeftToJoin
  <2>3. SenderInv'
      BY <1>7 DEF StartRecording, Extra, EngineInv, SenderInv, TearingDown,
         Receivers
  <2>4. HidInv'
      BY <1>7 DEF StartRecording, Extra, EngineInv, HidInv,
         BindingMatchesSession
  <2>5. ContextInv'
      BY <1>7 DEF StartRecording, Extra, EngineInv, ContextInv, TearingDown,
         InReport, Outdated
  <2>6. ReportInv'
      BY <1>7 DEF StartRecording, Extra, EngineInv, ReportInv, TearingDown,
         InReport, Outdated
  <2>7. ClipInv'
      BY <1>7 DEF StartRecording, Extra, EngineInv, ClipInv, Outdated
  <2> QED BY <2>1, <2>2, <2>3, <2>4, <2>5, <2>6, <2>7 DEF EngineInv
<1>8. CASE StopRecording
  <2>1. Shape'
      BY <1>8 DEF StopRecording, GoTo, EngineInv, Shape, Points
  <2>2. HeldInv'
      BY <1>8 DEF StopRecording, GoTo, EngineInv, HeldInv, TearingDown,
         LeftToJoin
  <2>3. SenderInv'
      BY <1>8 DEF StopRecording, GoTo, EngineInv, SenderInv, TearingDown,
         Receivers
  <2>4. HidInv'
      BY <1>8 DEF StopRecording, GoTo, EngineInv, HidInv, BindingMatchesSession
  <2>5. ContextInv'
      BY <1>8 DEF StopRecording, GoTo, EngineInv, ContextInv, TearingDown,
         InReport, Outdated
  <2>6. ReportInv'
      BY <1>8 DEF StopRecording, GoTo, EngineInv, ReportInv, TearingDown,
         InReport, Outdated
  <2>7. ClipInv'
      BY <1>8 DEF StopRecording, GoTo, EngineInv, ClipInv, Outdated
  <2> QED BY <2>1, <2>2, <2>3, <2>4, <2>5, <2>6, <2>7 DEF EngineInv
<1>9. CASE SaveClip
  <2>1. Shape'
    <3>1. clip' \in Clips
        BY <1>9 DEF SaveClip, EngineInv, Shape, Lives, Clips
    <3> QED BY <1>9, <3>1 DEF SaveClip, Extra,
           EngineInv, Shape, Handles, Threads, SessionThreads, Receivers
  <2>2. HeldInv'
      BY <1>9 DEF SaveClip, Extra, EngineInv, HeldInv, TearingDown, LeftToJoin
  <2>3. SenderInv'
      BY <1>9 DEF SaveClip, Extra, EngineInv, SenderInv, TearingDown, Receivers
  <2>4. HidInv'
      BY <1>9 DEF SaveClip, Extra, EngineInv, HidInv, BindingMatchesSession
  <2>5. ContextInv'
      BY <1>9 DEF SaveClip, Extra, EngineInv, ContextInv, TearingDown,
         InReport, Outdated
  <2>6. ReportInv'
      BY <1>9 DEF SaveClip, Extra, EngineInv, ReportInv, TearingDown, InReport,
         Outdated
  <2>7. ClipInv'
      BY <1>9 DEF SaveClip, Extra, EngineInv, Shape, HeldInv, ContextInv,
         ClipInv, Outdated, TearingDown, LeftToJoin, InReport, Lives, Workers,
         Clips, Logs
  <2> QED BY <2>1, <2>2, <2>3, <2>4, <2>5, <2>6, <2>7 DEF EngineInv
<1>10. CASE StopReplay
  <2>1. Shape'
      BY <1>10, CancelShape DEF StopReplay, EngineInv, Shape
  <2>2. ClipInv'
      BY <1>10 DEF StopReplay, Cancel, EngineInv, Shape, HeldInv, ContextInv,
         ClipInv, Outdated, TearingDown, LeftToJoin, InReport, Lives, Workers,
         Clips, Logs
  <2>3. HeldInv' /\ SenderInv' /\ HidInv' /\ ContextInv' /\ ReportInv'
      BY <1>10, HeldFrame, SenderFrame, HidFrame, ContextFrame, ReportFrame DEF
         StopReplay, Cancel, EngineInv
  <2> QED BY <2>1, <2>2, <2>3 DEF EngineInv
<1>11. CASE Mute
  <2>1. Shape'
      BY <1>11 DEF Mute, GoTo, EngineInv, Shape, Points, HeldInv, TearingDown
  <2>2. HeldInv'
      BY <1>11 DEF Mute, GoTo, EngineInv, HeldInv, TearingDown, LeftToJoin
  <2>3. SenderInv'
      BY <1>11 DEF Mute, GoTo, EngineInv, HeldInv, SenderInv, TearingDown,
         Receivers, LeftToJoin
  <2>4. HidInv'
      BY <1>11 DEF Mute, GoTo, EngineInv, Shape, HeldInv, HidInv,
         BindingMatchesSession, TearingDown, LeftToJoin
  <2>5. ContextInv'
      BY <1>11 DEF Mute, GoTo, EngineInv, Shape, HeldInv, ContextInv,
         TearingDown, InReport, Outdated, LeftToJoin, Lives, Workers, Logs
  <2>6. ReportInv'
      BY <1>11 DEF Mute, GoTo, EngineInv, Shape, HeldInv, ContextInv,
         ReportInv, TearingDown, InReport, Outdated, LeftToJoin, Lives,
         Workers, Logs
  <2>7. ClipInv'
      BY <1>11 DEF Mute, GoTo, EngineInv, ClipInv, Outdated
  <2> QED BY <2>1, <2>2, <2>3, <2>4, <2>5, <2>6, <2>7 DEF EngineInv
<1>12. CASE Unmute
  <2>1. Shape'
      BY <1>12 DEF Unmute, GoTo, StartCapture, EngineInv, Shape, Points,
         Threads, SessionThreads, Receivers
  <2>2. HeldInv'
      BY <1>12 DEF Unmute, GoTo, StartCapture, EngineInv, HeldInv, TearingDown,
         LeftToJoin
  <2>3. SenderInv'
      BY <1>12 DEF Unmute, GoTo, StartCapture, EngineInv, SenderInv,
         TearingDown, Receivers
  <2>4. HidInv'
      BY <1>12 DEF Unmute, GoTo, StartCapture, EngineInv, HidInv,
         BindingMatchesSession
  <2>5. ContextInv'
      BY <1>12 DEF Unmute, GoTo, StartCapture, EngineInv, ContextInv,
         TearingDown, InReport, Outdated
  <2>6. ReportInv'
      BY <1>12 DEF Unmute, GoTo, StartCapture, EngineInv, ReportInv,
         TearingDown, InReport, Outdated
  <2>7. ClipInv'
      BY <1>12 DEF Unmute, GoTo, StartCapture, EngineInv, ClipInv, Outdated
  <2> QED BY <2>1, <2>2, <2>3, <2>4, <2>5, <2>6, <2>7 DEF EngineInv
<1>13. CASE EndRecording
  <2>1. Shape'
      BY <1>13 DEF EndRecording, GoTo, EngineInv, Shape, Points
  <2>2. HeldInv'
      BY <1>13 DEF EndRecording, GoTo, EngineInv, HeldInv, TearingDown,
         LeftToJoin
  <2>3. SenderInv'
      BY <1>13 DEF EndRecording, GoTo, EngineInv, SenderInv, TearingDown,
         Receivers
  <2>4. HidInv'
      BY <1>13 DEF EndRecording, GoTo, EngineInv, HidInv, BindingMatchesSession
  <2>5. ContextInv'
      BY <1>13 DEF EndRecording, GoTo, EngineInv, ContextInv, TearingDown,
         InReport, Outdated
  <2>6. ReportInv'
      BY <1>13 DEF EndRecording, GoTo, EngineInv, ReportInv, TearingDown,
         InReport, Outdated
  <2>7. ClipInv'
      BY <1>13 DEF EndRecording, GoTo, EngineInv, ClipInv, Outdated
  <2> QED BY <2>1, <2>2, <2>3, <2>4, <2>5, <2>6, <2>7 DEF EngineInv
<1> QED BY <1>1, <1>2, <1>3, <1>4, <1>5, <1>6, <1>7, <1>8, <1>9, <1>10, <1>11,
       <1>12, <1>13 DEF Command

\* The lifecycle worker keep the invariant.
LEMMA WorkerKeeps == EngineInv /\ (WorkerStep \/ WorkerEvent) => EngineInv'
<1> SUFFICES ASSUME EngineInv, WorkerStep \/ WorkerEvent PROVE EngineInv'
    OBVIOUS
<1> USE DEF engineVars, threadVars, workerVars, sideVars
<1>1. CASE WorkerLeaves
  <2>1. Shape'
      BY <1>1 DEF WorkerLeaves, WorkerEnds, Ends, Outdated, EngineInv, Shape,
         Workers
  <2>2. HeldInv'
      BY <1>1 DEF WorkerLeaves, WorkerEnds, Ends, Outdated, EngineInv, HeldInv,
         TearingDown, LeftToJoin
  <2>3. SenderInv'
      BY <1>1 DEF WorkerLeaves, WorkerEnds, Ends, Outdated, EngineInv,
         SenderInv, TearingDown, Receivers
  <2>4. HidInv'
      BY <1>1 DEF WorkerLeaves, WorkerEnds, Ends, Outdated, EngineInv, HidInv,
         BindingMatchesSession
  <2>5. ContextInv'
      BY <1>1 DEF WorkerLeaves, WorkerEnds, Ends, Outdated, EngineInv, Shape,
         HeldInv, ContextInv, TearingDown, InReport, LeftToJoin, Lives,
         Workers, Logs
  <2>6. ReportInv'
      BY <1>1 DEF WorkerLeaves, WorkerEnds, Ends, Outdated, EngineInv, Shape,
         HeldInv, ContextInv, ReportInv, TearingDown, InReport, LeftToJoin,
         Lives, Workers, Logs
  <2>7. ClipInv'
      BY <1>1 DEF WorkerLeaves, WorkerEnds, Ends, Outdated, EngineInv, ClipInv
  <2> QED BY <2>1, <2>2, <2>3, <2>4, <2>5, <2>6, <2>7 DEF EngineInv
<1>2. CASE WorkerFinal
  <2>1. Shape'
      BY <1>2 DEF WorkerFinal, WorkerAt, Outdated, EngineInv, Shape, Workers
  <2>2. ContextInv'
      BY <1>2 DEF WorkerFinal, WorkerAt, Outdated, EngineInv, Shape, HeldInv,
         ContextInv, TearingDown, InReport, LeftToJoin, Lives, Workers, Logs
  <2>3. ReportInv'
      BY <1>2 DEF WorkerFinal, WorkerAt, Outdated, EngineInv, Shape, HeldInv,
         ContextInv, ReportInv, TearingDown, InReport, LeftToJoin, Lives,
         Workers, Logs
  <2>4. ClipInv'
      BY <1>2 DEF WorkerFinal, WorkerAt, Outdated, EngineInv, Shape, HeldInv,
         ContextInv, ClipInv, TearingDown, LeftToJoin, InReport, Lives,
         Workers, Clips, Logs
  <2>5. HeldInv' /\ SenderInv' /\ HidInv'
      BY <1>2, HeldFrame, SenderFrame, HidFrame DEF WorkerFinal, WorkerAt,
         Outdated, EngineInv
  <2> QED BY <2>1, <2>2, <2>3, <2>4, <2>5 DEF EngineInv
<1>3. CASE WorkerRunning
  <2>1. Shape'
      BY <1>3 DEF WorkerRunning, WorkerAt, Outdated, EngineInv, Shape, Lives,
         Workers, Logs
  <2>2. HidInv'
      BY <1>3 DEF WorkerRunning, WorkerAt, Outdated, EngineInv, Shape, HeldInv,
         HidInv, BindingMatchesSession, TearingDown, LeftToJoin, Lives
  <2>3. ContextInv'
      BY <1>3 DEF WorkerRunning, WorkerAt, Outdated, EngineInv, Shape, HeldInv,
         ContextInv, TearingDown, InReport, LeftToJoin, Lives, Workers, Logs
  <2>4. ReportInv'
      BY <1>3 DEF WorkerRunning, WorkerAt, Outdated, EngineInv, Shape, HeldInv,
         ContextInv, ReportInv, TearingDown, InReport, LeftToJoin, Lives,
         Workers, Logs
  <2>5. ClipInv'
    <3>1. UNCHANGED <<pc, held, alive, clip>> /\ life'.generation = life.generation /\ worker'.generation = worker.generation
        BY <1>3 DEF WorkerRunning, WorkerAt, EngineInv, Shape, Lives, Workers
    <3>2. log'.ghost = (log.ghost \/ Outdated)
        BY <1>3 DEF WorkerRunning, EngineInv, Shape, Logs
    <3>3. "worker" \in alive
        BY <1>3 DEF WorkerRunning
    <3>4. CASE Outdated
      <4>1. TearingDown
        BY <3>3, <3>4 DEF EngineInv, ContextInv
      <4>2. clip.generation \in Nat /\ life.generation \in Nat
        BY DEF EngineInv, Shape, Clips, Lives
      <4>3. clip.generation < life.generation
        BY <3>3, <3>4 DEF EngineInv, ClipInv
      <4>4. clip.generation # life.generation
        BY <4>2, <4>3
      <4> QED BY <3>1, <3>2, <4>1, <4>4 DEF EngineInv, HeldInv, ClipInv,
                 TearingDown, Outdated
    <3>5. CASE ~Outdated
      <4>1. log'.ghost <=> log.ghost
        BY <3>2, <3>5
      <4> QED BY <3>1, <4>1 DEF EngineInv, ClipInv, Outdated
    <3> QED BY <3>4, <3>5
  <2>6. HeldInv' /\ SenderInv'
      BY <1>3, HeldFrame, SenderFrame DEF WorkerRunning, WorkerAt, Outdated,
         EngineInv
  <2> QED BY <2>1, <2>2, <2>3, <2>4, <2>5, <2>6 DEF EngineInv
<1>4. CASE WorkerTerminal
  <2>1. Shape'
    <3>1. life' \in Lives
        BY <1>4 DEF WorkerTerminal, EngineInv, Shape, Lives
    <3>2. worker' \in Workers
        BY <1>4, WorkerMoves DEF WorkerTerminal, EngineInv, Shape
    <3> QED BY <1>4, <3>1, <3>2 DEF WorkerTerminal, WorkerAt, WorkerEnds,
           Ends, Outdated, engineVars, sideVars, EngineInv, Shape
  <2>2. HeldInv'
      BY <1>4 DEF WorkerTerminal, WorkerAt, WorkerEnds, Ends, Outdated,
         EngineInv, HeldInv, TearingDown, LeftToJoin
  <2>3. SenderInv'
      BY <1>4 DEF WorkerTerminal, WorkerAt, WorkerEnds, Ends, Outdated,
         EngineInv, SenderInv, TearingDown, Receivers
  <2>4. HidInv'
      BY <1>4 DEF WorkerTerminal, WorkerAt, WorkerEnds, Ends, Outdated,
         EngineInv, Shape, HeldInv, HidInv, BindingMatchesSession, TearingDown,
         LeftToJoin, Lives
  <2>5. ContextInv'
    <3>1. "worker" \in alive /\ worker.at = "terminal" /\ UNCHANGED <<pc, then, held, log>>
        BY <1>4 DEF WorkerTerminal
    <3>2. CASE Outdated
      <4>1. life' = life /\ alive' = alive \ {"worker"} /\ worker'.generation = worker.generation
        BY <1>4, <3>2 DEF WorkerTerminal, WorkerEnds, Ends, EngineInv, Shape,
           Workers
      <4>2. TearingDown
        BY <3>1, <3>2 DEF EngineInv, ContextInv
      <4> QED BY <3>1, <3>2, <4>1, <4>2 DEF EngineInv, ContextInv, TearingDown,
                 InReport, Outdated
    <3>3. CASE ~Outdated
      <4>1. alive' = alive /\ worker'.generation = worker.generation /\ worker'.at = "report"
        BY <1>4, <3>3 DEF WorkerTerminal, WorkerAt, EngineInv, Shape, Workers
      <4>2. life'.state = "Idle" /\ ~life'.context /\ life'.generation = life.generation
        BY <1>4, <3>3 DEF WorkerTerminal, EngineInv, Shape, Lives
      <4>3. life.context /\ pc \notin {"bind hid", "spawn worker"}
        BY <3>1, <3>3 DEF EngineInv, ContextInv, HeldInv
      <4> QED BY <3>1, <3>3, <4>1, <4>2, <4>3 DEF EngineInv, ContextInv,
                 TearingDown, InReport, Outdated
    <3> QED BY <3>2, <3>3
  <2>6. ReportInv'
    <3>1. /\ UNCHANGED <<pc, then, wasUp, log>>
          /\ life'.generation = life.generation
          /\ worker'.generation = worker.generation
        BY <1>4 DEF WorkerTerminal, WorkerEnds, WorkerAt, EngineInv, Shape,
           Lives, Workers
    <3>2. CASE Outdated
      <4>1. life' = life /\ ~InReport /\ ~InReport'
        BY <1>4, <3>2 DEF WorkerTerminal, WorkerEnds, Ends, InReport
      <4> QED BY <3>1, <4>1 DEF EngineInv, ReportInv, TearingDown, Outdated
    <3>3. CASE ~Outdated
      <4>1. ~life'.context /\ InReport' /\ ~InReport
        BY <1>4, <3>3 DEF WorkerTerminal, WorkerAt, EngineInv, Shape, Lives,
           Workers, InReport
      <4>2. life.context
        BY <1>4, <3>3 DEF WorkerTerminal, EngineInv, ContextInv
      <4> QED BY <3>1, <3>3, <4>1, <4>2 DEF EngineInv, ReportInv, TearingDown,
                 Outdated
    <3> QED BY <3>2, <3>3
  <2>7. ClipInv'
    <3>1. UNCHANGED <<pc, held, log, clip>> /\ life'.generation = life.generation /\ worker'.generation = worker.generation
        BY <1>4 DEF WorkerTerminal, WorkerEnds, WorkerAt, EngineInv, Shape,
           Lives, Workers
    <3>2. alive \ {"worker"} \subseteq alive' /\ alive' \subseteq alive
        BY <1>4 DEF WorkerTerminal, WorkerEnds, Ends
    <3> QED BY <3>1, <3>2 DEF EngineInv, ClipInv, Outdated
  <2> QED BY <2>1, <2>2, <2>3, <2>4, <2>5, <2>6, <2>7 DEF EngineInv
<1>5. CASE WorkerReport
  <2>1. Shape'
      BY <1>5, ReportShape DEF WorkerReport, WorkerEnds, Ends, EngineInv,
         Shape, Workers
  <2>2. HeldInv'
      BY <1>5 DEF WorkerReport, ReportStop, WorkerEnds, Ends, EngineInv,
         HeldInv, TearingDown, LeftToJoin
  <2>3. SenderInv'
      BY <1>5 DEF WorkerReport, ReportStop, WorkerEnds, Ends, EngineInv,
         SenderInv, TearingDown, Receivers
  <2>4. HidInv'
      BY <1>5 DEF WorkerReport, ReportStop, WorkerEnds, Ends, EngineInv,
         HidInv, BindingMatchesSession
  <2>5. ContextInv'
      BY <1>5 DEF WorkerReport, ReportStop, WorkerEnds, Ends, EngineInv, Shape,
         HeldInv, ContextInv, TearingDown, InReport, Outdated, LeftToJoin,
         Lives, Workers, Logs
  <2>6. ReportInv'
    <3>1. InReport /\ ~InReport' /\ UNCHANGED <<pc, then, wasUp, life>>
        BY <1>5 DEF WorkerReport, WorkerEnds, Ends, InReport
    <3>2. log'.ghost = log.ghost /\ log'.ready = log.ready
        BY <1>5 DEF WorkerReport, ReportStop, EngineInv, Shape, Logs
    <3>3. log'.stops > 0 /\ (log'.stops > 1 => log.stops # 0)
        BY <1>5 DEF WorkerReport, ReportStop, EngineInv, Shape, Logs
    <3>4. worker'.generation = worker.generation
        BY <1>5 DEF WorkerReport, WorkerEnds, EngineInv, Shape, Workers
    <3>5. log'.stops > 1 => log.ghost
        BY <3>1, <3>3 DEF EngineInv, ReportInv
    <3> QED BY <3>1, <3>2, <3>3, <3>4, <3>5 DEF EngineInv, ContextInv,
               ReportInv, TearingDown, Outdated
  <2>7. ClipInv'
      BY <1>5 DEF WorkerReport, ReportStop, WorkerEnds, Ends, EngineInv, Shape,
         HeldInv, ContextInv, ClipInv, Outdated, TearingDown, LeftToJoin,
         InReport, Lives, Workers, Clips, Logs
  <2> QED BY <2>1, <2>2, <2>3, <2>4, <2>5, <2>6, <2>7 DEF EngineInv
<1>6. CASE WorkerEvent
  <2>1. Shape'
    <3>1. worker' \in Workers
        BY <1>6, WorkerMoves DEF WorkerEvent, EngineInv, Shape
    <3> QED BY <1>6, <3>1 DEF WorkerEvent, WorkerAt, Recover, Outdated,
           engineVars, threadVars, sideVars, EngineInv, Shape
  <2>2. ContextInv'
    <3>1. worker \in Workers /\ worker.at = "loop" /\ ~Outdated
        BY <1>6 DEF WorkerEvent, EngineInv, Shape
    <3>2. worker'.generation = worker.generation /\ worker'.at # "report"
        BY <1>6, <3>1 DEF WorkerEvent, WorkerAt, Recover, Workers
    <3>3. UNCHANGED <<pc, then, life, held, alive, log>>
        BY <1>6 DEF WorkerEvent
    <3> QED BY <3>1, <3>2, <3>3 DEF EngineInv, ContextInv, TearingDown,
               InReport, Outdated
  <2>3. ReportInv'
    <3>1. worker \in Workers /\ worker.at = "loop" /\ ~Outdated
        BY <1>6 DEF WorkerEvent, EngineInv, Shape
    <3>2. worker'.generation = worker.generation /\ worker'.at # "report"
        BY <1>6, <3>1 DEF WorkerEvent, WorkerAt, Recover, Workers
    <3>3. UNCHANGED <<pc, then, wasUp, life, alive, log>>
        BY <1>6 DEF WorkerEvent
    <3> QED BY <3>1, <3>2, <3>3 DEF EngineInv, ReportInv, TearingDown,
               InReport, Outdated
  <2>4. ClipInv'
    <3>1. worker'.generation = worker.generation
        BY <1>6 DEF WorkerEvent, WorkerAt, Recover, EngineInv, Shape, Workers
    <3>2. UNCHANGED <<pc, life, held, alive, clip, log>>
        BY <1>6 DEF WorkerEvent
    <3> QED BY <3>1, <3>2 DEF EngineInv, ClipInv, Outdated
  <2>5. HeldInv' /\ SenderInv' /\ HidInv'
      BY <1>6, HeldFrame, SenderFrame, HidFrame DEF WorkerEvent, WorkerAt,
         Recover, Outdated, EngineInv
  <2> QED BY <2>1, <2>2, <2>3, <2>4, <2>5 DEF EngineInv
<1> QED BY <1>1, <1>2, <1>3, <1>4, <1>5, <1>6 DEF WorkerStep

\* The other threads of the session keep the invariant.
LEMMA ThreadKeeps == EngineInv /\ ThreadStep => EngineInv'
<1> SUFFICES ASSUME EngineInv, ThreadStep PROVE EngineInv'
    OBVIOUS
<1> USE DEF engineVars, threadVars, workerVars, sideVars
<1>1. CASE BundleLeaves
    BY <1>1, Untouched DEF BundleLeaves, SendFinal, Listening
<1>2. CASE BundleEnds
  <2>1. Shape'
      BY <1>2 DEF BundleEnds, Ends, EngineInv, Shape, Bindings
  <2>2. HeldInv'
      BY <1>2 DEF BundleEnds, Ends, EngineInv, HeldInv, TearingDown, LeftToJoin
  <2>3. SenderInv'
      BY <1>2 DEF BundleEnds, Ends, EngineInv, SenderInv, TearingDown,
         Receivers
  <2>4. HidInv'
      BY <1>2 DEF BundleEnds, Ends, EngineInv, HidInv, BindingMatchesSession
  <2>5. ContextInv'
      BY <1>2 DEF BundleEnds, Ends, EngineInv, ContextInv, TearingDown,
         InReport, Outdated
  <2>6. ReportInv'
      BY <1>2 DEF BundleEnds, Ends, EngineInv, ReportInv, TearingDown,
         InReport, Outdated
  <2>7. ClipInv'
      BY <1>2 DEF BundleEnds, Ends, EngineInv, ClipInv, Outdated
  <2> QED BY <2>1, <2>2, <2>3, <2>4, <2>5, <2>6, <2>7 DEF EngineInv
<1>3. CASE MjolnirEnds
  <2>1. Shape'
      BY <1>3 DEF MjolnirEnds, Ends, SendFinal, Listening, EngineInv, Shape
  <2>2. HeldInv'
      BY <1>3 DEF MjolnirEnds, Ends, SendFinal, Listening, EngineInv, HeldInv,
         TearingDown, LeftToJoin
  <2>3. SenderInv'
      BY <1>3 DEF MjolnirEnds, Ends, SendFinal, Listening, EngineInv,
         SenderInv, TearingDown, Receivers
  <2>4. HidInv'
      BY <1>3 DEF MjolnirEnds, Ends, SendFinal, Listening, EngineInv, HidInv,
         BindingMatchesSession
  <2>5. ContextInv'
      BY <1>3 DEF MjolnirEnds, Ends, SendFinal, Listening, EngineInv,
         ContextInv, TearingDown, InReport, Outdated
  <2>6. ReportInv'
      BY <1>3 DEF MjolnirEnds, Ends, SendFinal, Listening, EngineInv,
         ReportInv, TearingDown, InReport, Outdated
  <2>7. ClipInv'
      BY <1>3 DEF MjolnirEnds, Ends, SendFinal, Listening, EngineInv, ClipInv,
         Outdated
  <2> QED BY <2>1, <2>2, <2>3, <2>4, <2>5, <2>6, <2>7 DEF EngineInv
<1>4. CASE MediaEnds
  <2>1. Shape'
      BY <1>4 DEF MediaEnds, Ends, EngineInv, Shape
  <2>2. HeldInv'
      BY <1>4 DEF MediaEnds, Ends, EngineInv, HeldInv, TearingDown, LeftToJoin
  <2>3. SenderInv'
      BY <1>4 DEF MediaEnds, Ends, EngineInv, SenderInv, TearingDown, Receivers
  <2>4. HidInv'
      BY <1>4 DEF MediaEnds, Ends, EngineInv, HidInv, BindingMatchesSession
  <2>5. ContextInv'
      BY <1>4 DEF MediaEnds, Ends, EngineInv, ContextInv, TearingDown,
         InReport, Outdated
  <2>6. ReportInv'
      BY <1>4 DEF MediaEnds, Ends, EngineInv, ReportInv, TearingDown, InReport,
         Outdated
  <2>7. ClipInv'
      BY <1>4 DEF MediaEnds, Ends, EngineInv, ClipInv, Outdated
  <2> QED BY <2>1, <2>2, <2>3, <2>4, <2>5, <2>6, <2>7 DEF EngineInv
<1>5. CASE MicEnds
  <2>1. Shape'
      BY <1>5 DEF MicEnds, Ends, EngineInv, Shape
  <2>2. HeldInv'
      BY <1>5 DEF MicEnds, Ends, EngineInv, HeldInv, TearingDown, LeftToJoin
  <2>3. SenderInv'
      BY <1>5 DEF MicEnds, Ends, EngineInv, SenderInv, TearingDown, Receivers
  <2>4. HidInv'
      BY <1>5 DEF MicEnds, Ends, EngineInv, HidInv, BindingMatchesSession
  <2>5. ContextInv'
      BY <1>5 DEF MicEnds, Ends, EngineInv, ContextInv, TearingDown, InReport,
         Outdated
  <2>6. ReportInv'
      BY <1>5 DEF MicEnds, Ends, EngineInv, ReportInv, TearingDown, InReport,
         Outdated
  <2>7. ClipInv'
      BY <1>5 DEF MicEnds, Ends, EngineInv, ClipInv, Outdated
  <2> QED BY <2>1, <2>2, <2>3, <2>4, <2>5, <2>6, <2>7 DEF EngineInv
<1>6. CASE ConsumerClosed
    BY <1>6, Untouched DEF ConsumerClosed, SendFinal, Listening
<1>7. CASE RecordingEnds
  <2>1. Shape'
      BY <1>7 DEF RecordingEnds, Ends, EngineInv, Shape
  <2>2. HeldInv'
      BY <1>7 DEF RecordingEnds, Ends, EngineInv, HeldInv, TearingDown,
         LeftToJoin
  <2>3. SenderInv'
      BY <1>7 DEF RecordingEnds, Ends, EngineInv, SenderInv, TearingDown,
         Receivers
  <2>4. HidInv'
      BY <1>7 DEF RecordingEnds, Ends, EngineInv, HidInv, BindingMatchesSession
  <2>5. ContextInv'
      BY <1>7 DEF RecordingEnds, Ends, EngineInv, ContextInv, TearingDown,
         InReport, Outdated
  <2>6. ReportInv'
      BY <1>7 DEF RecordingEnds, Ends, EngineInv, ReportInv, TearingDown,
         InReport, Outdated
  <2>7. ClipInv'
      BY <1>7 DEF RecordingEnds, Ends, EngineInv, ClipInv, Outdated
  <2> QED BY <2>1, <2>2, <2>3, <2>4, <2>5, <2>6, <2>7 DEF EngineInv
<1>8. CASE ExportClip
  <2>1. Shape'
      BY <1>8 DEF ExportClip, EngineInv, Shape, Clips
  <2>2. ClipInv'
      BY <1>8 DEF ExportClip, EngineInv, Shape, HeldInv, ContextInv, ClipInv,
         Outdated, TearingDown, LeftToJoin, InReport, Lives, Workers, Clips,
         Logs
  <2>3. HeldInv' /\ SenderInv' /\ HidInv' /\ ContextInv' /\ ReportInv'
      BY <1>8, HeldFrame, SenderFrame, HidFrame, ContextFrame, ReportFrame DEF
         ExportClip, EngineInv
  <2> QED BY <2>1, <2>2, <2>3 DEF EngineInv
<1>9. CASE DeliverClip
  <2>1. Shape'
      BY <1>9 DEF DeliverClip, Ends, ClipIsCurrent, EngineInv, Shape, Clips
  <2>2. HeldInv'
      BY <1>9 DEF DeliverClip, Ends, ClipIsCurrent, EngineInv, HeldInv,
         TearingDown, LeftToJoin
  <2>3. SenderInv'
      BY <1>9 DEF DeliverClip, Ends, ClipIsCurrent, EngineInv, SenderInv,
         TearingDown, Receivers
  <2>4. HidInv'
      BY <1>9 DEF DeliverClip, Ends, ClipIsCurrent, EngineInv, HidInv,
         BindingMatchesSession
  <2>5. ContextInv'
      BY <1>9 DEF DeliverClip, Ends, ClipIsCurrent, EngineInv, ContextInv,
         TearingDown, InReport, Outdated
  <2>6. ReportInv'
      BY <1>9 DEF DeliverClip, Ends, ClipIsCurrent, EngineInv, ReportInv,
         TearingDown, InReport, Outdated
  <2>7. ClipInv'
    <3>1. clip'.at = "none" /\ clip'.generation = clip.generation
        BY <1>9 DEF DeliverClip, EngineInv, Shape, Clips
    <3>2. UNCHANGED <<pc, life, held, worker, log>> /\ alive' \subseteq alive
        BY <1>9 DEF DeliverClip, Ends
    <3> QED BY <3>1, <3>2 DEF EngineInv, ClipInv, Outdated
  <2> QED BY <2>1, <2>2, <2>3, <2>4, <2>5, <2>6, <2>7 DEF EngineInv
<1> QED BY <1>1, <1>2, <1>3, <1>4, <1>5, <1>6, <1>7, <1>8, <1>9 DEF ThreadStep

\* Every step of every thread keeps the invariant.
LEMMA EngineStep == EngineInv /\ [Next]_vars => EngineInv'
<1> SUFFICES ASSUME EngineInv, [Next]_vars PROVE EngineInv'
    OBVIOUS
<1>1. CASE Command
    BY <1>1, CommandKeeps
<1>2. CASE CommandStep
    BY <1>2, StopKeeps, StartKeeps, CommandKeeps DEF CommandStep
<1>3. CASE WorkerStep \/ WorkerEvent
    BY <1>3, WorkerKeeps
<1>4. CASE ThreadStep
    BY <1>4, ThreadKeeps
<1>5. CASE UNCHANGED vars
    BY <1>5, Untouched DEF vars
<1> QED BY <1>1, <1>2, <1>3, <1>4, <1>5 DEF Next

\* The invariant of the engine's threads, at any time.
THEOREM EngineSafety == Spec => []EngineInv
<1>1. Init => EngineInv
    BY EngineInit
<1>2. EngineInv /\ [Next]_vars => EngineInv'
    BY EngineStep
<1> QED BY <1>1, <1>2, PTL DEF Spec

\* BindingMatchesSession: at any time the HID session that is bound is the one
\* of the current generation and its bundle runs.
THEOREM BindingIsOfTheSession == Spec => []BindingMatchesSession
<1>1. EngineInv => BindingMatchesSession
    BY DEF EngineInv, HidInv
<1> QED BY <1>1, EngineSafety, PTL

\* NothingLeftBehind: a command that ends without a receiver has joined every
\* thread of the session and dropped every handle and sender of it.  What may
\* stay is a reservation and the clone a start has kept of one, until a stop,
\* nvst-unbind or shutdown; a shutdown leaves neither.
THEOREM CommandsLeaveNothing == Spec => []NothingLeftBehind
<1>1. ASSUME EngineInv, pc = "ready" \/ pc = "closed", "bundle" \notin held
      PROVE  /\ alive \subseteq {"clip"}
             /\ senders = {} /\ ~hid.open /\ held \subseteq {"clip"} \cup Sockets
             /\ pc = "closed" => held \cap Sockets = {}
  <2>1. held \subseteq {"clip"} \cup Sockets
    BY <1>1 DEF EngineInv, HeldInv, LeftToJoin
  <2>2. alive \subseteq {"clip"}
    BY <1>1, <2>1, NotThreads DEF EngineInv, HeldInv
  <2>3. ~hid.open
    BY <1>1, <2>2 DEF EngineInv, HidInv
  <2>4. "engine" \notin senders /\ "start" \notin senders
    BY <1>1, <2>1 DEF EngineInv, SenderInv, TearingDown, Sockets
  <2>5. senders \cap Receivers = {}
    BY <1>1, <2>2 DEF EngineInv, SenderInv, Receivers
  <2>6. senders = {}
    BY <1>1, <2>4, <2>5 DEF EngineInv, Shape, Senders
  <2>7. pc = "closed" => held \cap Sockets = {}
    BY <1>1 DEF EngineInv, HeldInv
  <2> QED BY <2>1, <2>2, <2>3, <2>6, <2>7
<1>2. EngineInv => NothingLeftBehind
    BY <1>1 DEF NothingLeftBehind
<1> QED BY <1>2, EngineSafety, PTL

\* SessionIsWatched: between two commands a session that is up has its worker,
\* at its own generation, and the Engine holds what it must join to end it.
THEOREM SessionsAreWatched == Spec => []SessionIsWatched
<1>1. EngineInv => SessionIsWatched
    BY DEF EngineInv, ContextInv, SessionIsWatched, TearingDown, Outdated
<1> QED BY <1>1, EngineSafety, PTL

\* EndReportedOnce: the end of a session that was announced is reported, and
\* twice only after a Running event revived a session that stop had ended.
THEOREM EndsAreReportedOnce == Spec => []EndReportedOnce
<1>1. EngineInv => EndReportedOnce
  <2>1. ASSUME EngineInv, pc = "ready" PROVE ~wasUp
    BY <2>1 DEF EngineInv, ReportInv, TearingDown
  <2> QED BY <2>1 DEF EngineInv, ReportInv, EndReportedOnce, InReport
<1> QED BY <1>1, EngineSafety, PTL

\* Only the delivery of an export makes a report.
Reports == clip'.reported # clip.reported /\ clip'.reported # "no"

LEMMA OnlyDeliveryReports ==
    ASSUME EngineInv, Next, Reports PROVE DeliverClip
<1>1. ASSUME Cancel PROVE ~Reports
    BY <1>1 DEF Cancel, Reports, EngineInv, Shape, Clips
<1>2. CASE StopStep
    BY <1>1, <1>2 DEF StopStep, StopBegin, StopLock, JoinBundle, JoinMjolnir,
       Release,
       JoinMic, JoinRecording, JoinMedia, JoinWorker, Drop, DropExport, sideVars, Reports
<1>3. CASE StartStep
    BY <1>3 DEF StartStep, Negotiate, DropMic, StartMedia, Announce,
       SpawnBundle,
       SpawnMjolnir, Activate, BindHid, SpawnWorker, Unlock, Play, StartTail,
       sideVars, Reports
<1>4. CASE Mute \/ Unmute \/ EndRecording
    BY <1>4 DEF Mute, Unmute, EndRecording, sideVars, Reports
<1>5. CASE Command
  <2>1. ASSUME SaveClip PROVE ~Reports
    BY <2>1 DEF SaveClip, Reports
  <2>2. CASE StopReplay
    BY <1>1, <2>2 DEF StopReplay
  <2>3. CASE (\E p \in Plans : Start(p)) \/ (\E on \in BOOLEAN : SetMicrophone(on))
    BY <2>3 DEF Start, SetMicrophone, sideVars, Reports
  <2>4. CASE NvstBind \/ NvstUnbind \/ Stop \/ Shutdown \/ StartRecording \/ StopRecording
    BY <2>4 DEF NvstBind, NvstUnbind, Stop, Shutdown, StartRecording,
       StopRecording,
       sideVars, Reports
  <2> QED BY <1>5, <2>1, <2>2, <2>3, <2>4 DEF Command
<1>6. CASE WorkerStep \/ WorkerEvent
    BY <1>6 DEF WorkerStep, WorkerEvent, WorkerLeaves, WorkerFinal,
       WorkerRunning,
       WorkerTerminal, WorkerReport, sideVars, Reports
<1>7. ASSUME ExportClip PROVE ~Reports
    BY <1>7 DEF ExportClip, Reports, EngineInv, Shape, Clips
<1>8. CASE ThreadStep
    BY <1>7, <1>8 DEF ThreadStep, BundleLeaves, BundleEnds, MjolnirEnds,
       MediaEnds, MicEnds,
       ConsumerClosed, RecordingEnds, sideVars, Reports
<1> QED BY <1>2, <1>3, <1>4, <1>5, <1>6, <1>8 DEF Next, CommandStep

\* ClipReportsInItsSession: an export reports only into the session it was cut
\* from, while that is up and before its end was made known.
THEOREM ClipsReportInTheirSession == Spec => ClipReportsInItsSession
<1>1. ASSUME EngineInv, DeliverClip, Reports
      PROVE  life.generation = clip.generation /\ (life.context \/ log.ghost)
                /\ log.stops = 0
  <2>1. ClipIsCurrent /\ clip.at = "deliver"
    BY <1>1 DEF DeliverClip, Reports, EngineInv, Shape, Clips
  <2>2. ~log.ghost
    BY <1>1, <2>1 DEF ClipIsCurrent, EngineInv, ClipInv
  <2>3. life.context
    BY <1>1, <2>1, <2>2 DEF ClipIsCurrent, EngineInv, ContextInv
  <2>4. log.stops = 0
    BY <1>1, <2>3 DEF EngineInv, ReportInv
  <2> QED BY <2>1, <2>3, <2>4 DEF ClipIsCurrent
<1>2. EngineInv /\ [Next]_vars =>
        [Reports => /\ life.generation = clip.generation
                    /\ life.context \/ log.ghost
                    /\ log.stops = 0]_vars
    BY <1>1, OnlyDeliveryReports
<1> QED BY <1>2, EngineSafety, PTL DEF Spec, ClipReportsInItsSession, Reports

=============================================================================
