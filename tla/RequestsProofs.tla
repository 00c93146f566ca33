---------------------------- MODULE RequestsProofs ----------------------------
(***************************************************************************)
(* The safety of Requests for any number of calls and any limits:          *)
(* RequestsInv is inductive as it stands.                                  *)
(***************************************************************************)
EXTENDS Requests, FiniteSetTheorems, TLAPS

\* A worker that leaves the set of active calls, or stays in it, keeps the
\* limits of admit.
LEMMA LimitsShrink ==
    ASSUME LimitsHold, RequestsAssumption, Active' \subseteq Active
    PROVE  LimitsHold'
<1>1. Active \subseteq Ids
  BY DEF Active
<1>2. IsFiniteSet(Active) /\ IsFiniteSet(Active \cap Background)
  BY <1>1, FS_Subset DEF RequestsAssumption
<1>3. /\ IsFiniteSet(Active')
      /\ Cardinality(Active') <= Cardinality(Active)
  BY <1>2, FS_Subset
<1>4. /\ IsFiniteSet(Active' \cap Background)
      /\ Cardinality(Active' \cap Background)
           <= Cardinality(Active \cap Background)
  <2>1. Active' \cap Background \subseteq Active \cap Background
    OBVIOUS
  <2> QED
    BY <2>1, <1>2, FS_Subset
<1>5. /\ Cardinality(Active) \in Nat
      /\ Cardinality(Active \cap Background) \in Nat
      /\ Cardinality(Active') \in Nat
      /\ Cardinality(Active' \cap Background) \in Nat
  BY <1>2, <1>3, <1>4, FS_CardinalityType
<1> QED
  BY <1>3, <1>4, <1>5 DEF LimitsHold, RequestsAssumption

\* admit keeps both limits: it counts under the lock under which it inserts.
LEMMA AdmitKeepsLimits ==
    ASSUME RequestsInv, RequestsAssumption, NEW id \in Ids, Admit(id)
    PROVE  LimitsHold'
<1>1. Active \subseteq Ids /\ id \notin Active
  BY DEF Active, Admit
<1>2. IsFiniteSet(Active) /\ IsFiniteSet(Active \cap Background)
  BY <1>1, FS_Subset DEF RequestsAssumption
<1>3. Active' = Active \cup {id}
  BY DEF Active, Admit, RequestsInv, TypeOK
<1>4. Cardinality(Active') = Cardinality(Active) + 1
  BY <1>1, <1>2, <1>3, FS_AddElement
<1>5. /\ Cardinality(Active) \in Nat
      /\ Cardinality(Active \cap Background) \in Nat
  BY <1>2, FS_CardinalityType
<1>6. Cardinality(Active') <= MaxActive
  BY <1>4, <1>5 DEF Admit, HasRoom, RequestsAssumption
<1>7. Cardinality(Active' \cap Background) <= MaxBackground
  <2>1. CASE id \in Background
    <3>1. Active' \cap Background = (Active \cap Background) \cup {id}
      BY <1>3, <2>1
    <3>2. Cardinality(Active' \cap Background)
            = Cardinality(Active \cap Background) + 1
      BY <3>1, <1>1, <1>2, FS_AddElement
    <3> QED
      BY <3>2, <1>5, <2>1 DEF Admit, HasRoom, RequestsAssumption
  <2>2. CASE id \notin Background
    <3>1. Active' \cap Background = Active \cap Background
      BY <1>3, <2>2
    <3> QED
      BY <3>1 DEF RequestsInv, LimitsHold
  <2> QED
    BY <2>1, <2>2
<1> QED
  BY <1>6, <1>7 DEF LimitsHold

\* What a step of a worker from one program point to another preserves, when
\* it neither starts work on a cancelled call nor leaves under the reader.
LEMMA AtStep ==
    ASSUME RequestsInv, RequestsAssumption, NEW id \in Ids,
           NEW from \in WorkerPoints \ {"absent"}, NEW to \in WorkerPoints,
           At(id, from, to),
           to = "work" => id \notin cancelled,
           to = "absent" => MapFree
    PROVE  RequestsInv'
<1>1. TypeOK'
  BY DEF RequestsInv, TypeOK, At
<1>2. CommitFence'
  BY DEF RequestsInv, TypeOK, CommitFence, At
<1>3. TokenIsCurrent'
  BY DEF RequestsInv, TypeOK, TokenIsCurrent, At, MapFree
<1>4. LimitsHold'
  <2>1. Active' \subseteq Active
    BY DEF Active, At, RequestsInv, TypeOK
  <2> QED
    BY <2>1, LimitsShrink DEF RequestsInv
<1> QED
  BY <1>1, <1>2, <1>3, <1>4 DEF RequestsInv

\* Every step of the reader and of the workers preserves the invariant.
LEMMA NextStep ==
    ASSUME RequestsInv, RequestsAssumption, [Next]_vars
    PROVE  RequestsInv'
<1>1. ASSUME NEW id \in Ids, Admit(id) PROVE RequestsInv'
  <2>1. LimitsHold'
    BY <1>1, AdmitKeepsLimits
  <2>2. TypeOK' /\ CommitFence' /\ TokenIsCurrent'
    BY <1>1 DEF RequestsInv, TypeOK, WorkerPoints, CommitFence,
                TokenIsCurrent, Admit, MapFree
  <2> QED
    BY <2>1, <2>2 DEF RequestsInv
<1>2. ASSUME NEW id \in Ids, NEW op \in {"cancel", "ack"}, Find(op, id)
      PROVE  RequestsInv'
  BY <1>2 DEF RequestsInv, TypeOK, ReaderOps, CommitFence, LimitsHold, Active,
              TokenIsCurrent, Find
<1>3. CASE Cancel
  <2>1. Active' \subseteq Active
    BY <1>3 DEF Active, Cancel, Woken, RequestsInv, TypeOK
  <2>2. TypeOK' /\ CommitFence' /\ TokenIsCurrent'
    BY <1>3 DEF RequestsInv, TypeOK, ReaderOps, WorkerPoints, CommitFence,
                TokenIsCurrent, Cancel, Woken, Locked
  <2> QED
    BY <2>1, <2>2, LimitsShrink DEF RequestsInv
<1>4. CASE Acknowledge
  BY <1>4 DEF RequestsInv, TypeOK, ReaderOps, CommitFence, LimitsHold, Active,
              TokenIsCurrent, Acknowledge
<1>5. CASE NotifyReceipt
  <2>1. Active' \subseteq Active
    BY <1>5 DEF Active, NotifyReceipt, Woken, RequestsInv, TypeOK
  <2>2. TypeOK' /\ CommitFence' /\ TokenIsCurrent'
    BY <1>5 DEF RequestsInv, TypeOK, ReaderOps, WorkerPoints, CommitFence,
                TokenIsCurrent, NotifyReceipt, Woken
  <2> QED
    BY <2>1, <2>2, LimitsShrink DEF RequestsInv
<1>6. ASSUME NEW id \in Ids,
             \/ LockCommit(id) \/ LockReceipt(id) \/ WorkerStep(id)
             \/ Timeout(id) \/ DropPermit(id)
      PROVE  RequestsInv'
  <2>1. CASE LockCommit(id) \/ LockReceipt(id) \/ Timeout(id)
    BY <2>1, AtStep DEF LockCommit, LockReceipt, Timeout, WorkerPoints
  <2>2. CASE CheckCommit(id)
    BY <2>2, AtStep DEF CheckCommit, WorkerPoints
  <2>3. CASE EndCommit(id) \/ Relock(id)
    BY <2>3, AtStep DEF EndCommit, Relock, WorkerPoints
  <2>4. CASE CheckReceipt(id)
    BY <2>4, AtStep DEF CheckReceipt, WorkerPoints
  <2>5. CASE DropPermit(id)
    BY <2>5, AtStep DEF DropPermit, WorkerPoints
  <2> QED
    BY <1>6, <2>1, <2>2, <2>3, <2>4, <2>5 DEF WorkerStep
<1>7. CASE UNCHANGED vars
  BY <1>7 DEF RequestsInv, TypeOK, CommitFence, LimitsHold, Active,
              TokenIsCurrent, vars
<1> QED
  BY <1>1, <1>2, <1>3, <1>4, <1>5, <1>6, <1>7 DEF Next, ReaderStep

\* RequestsInv holds at the start: no call is active.
LEMMA InitInv ==
    ASSUME Init, RequestsAssumption PROVE RequestsInv
<1>1. Active = {}
  BY DEF Init, Active
<1>2. Cardinality(Active) = 0 /\ Cardinality(Active \cap Background) = 0
  BY <1>1, FS_EmptySet
<1>3. LimitsHold
  BY <1>2 DEF LimitsHold, RequestsAssumption
<1> QED
  BY <1>3 DEF Init, RequestsInv, TypeOK, ReaderOps, WorkerPoints, CommitFence,
              TokenIsCurrent

\* The tokens, the locks and the limits of requests.rs agree in every state.
THEOREM RequestsSafety == Spec => []RequestsInv
<1>1. Init => RequestsInv
  BY InitInv, RequestsAssumption
<1>2. RequestsInv /\ [Next]_vars => RequestsInv'
  BY NextStep, RequestsAssumption
<1> QED
  BY <1>1, <1>2, PTL DEF Spec

\* No worker is inside its committed work after its cancellation was stored.
THEOREM CancellationFencesCommit == Spec => []CommitFence
<1>1. RequestsInv => CommitFence
  BY DEF RequestsInv
<1> QED
  BY <1>1, RequestsSafety, PTL

\* MAX_ACTIVE and MAX_BACKGROUND are never exceeded.
THEOREM LimitsAreKept == Spec => []LimitsHold
<1>1. RequestsInv => LimitsHold
  BY DEF RequestsInv
<1> QED
  BY <1>1, RequestsSafety, PTL

=============================================================================
