--------------------------- MODULE HidInputProofs ---------------------------
(***************************************************************************)
(* Proofs about HidInput: AttachmentInv is inductive, so the relation      *)
(* between the session and the server holds for any number of slots, any   *)
(* lane capacity, any drain budget and any number of controllers.          *)
(***************************************************************************)
EXTENDS HidInput, TLAPS

\* A step that leaves alone what the attachment is made of keeps the invariant:
\* the GUI thread's snapshots, and the drain of the lanes.
LEMMA AttachmentUntouched ==
    ASSUME AttachmentInv,
           pad' \in [Slots -> [inc : Int, down : BOOLEAN]],
           UNCHANGED <<next, selected, claims, epoch, evaluated, admitted, link,
                       sessionVars>>,
           UNCHANGED pump
    PROVE  AttachmentInv'
BY DEF AttachmentInv, Shape, ServerFollowsSession, AttachedOrTombed,
       SnapshotIsCurrent, PressedIsAttached, AttachedOnce, AdmissionIsCurrent,
       sessionVars

\* A new inventory, whatever it holds, leaves the session as it is and withdraws
\* what the session learned of the previous one.
LEMMA InventoryReplaced ==
    ASSUME AttachmentInv, NEW new, NEW old,
           ReplaceInventory(new, old), new \in [Slots -> Int],
           pad' \in [Slots -> [inc : Int, down : BOOLEAN]],
           selected' \in Int, next' \in Nat,
           UNCHANGED <<link, sessionVars, pump>>
    PROVE  AttachmentInv'
<1>1. Shape'
    BY DEF ReplaceInventory, AttachmentInv, Shape, sessionVars
<1>2. ServerFollowsSession' /\ AttachedOrTombed' /\ PressedIsAttached' /\ AttachedOnce'
    BY DEF ReplaceInventory, AttachmentInv, Shape, ServerFollowsSession,
           AttachedOrTombed, PressedIsAttached, AttachedOnce, sessionVars
<1>3. SnapshotIsCurrent'
    BY DEF ReplaceInventory, AttachmentInv, Shape, SnapshotIsCurrent, sessionVars
<1>4. AdmissionIsCurrent'
    BY DEF ReplaceInventory, AdmissionIsCurrent
<1> QED BY <1>1, <1>2, <1>3, <1>4 DEF AttachmentInv

\* Before the first session nothing is attached.
LEMMA AttachmentInit == Init => AttachmentInv
BY HidAssumption DEF Init, AttachmentInv, Shape, ServerFollowsSession, AttachedOrTombed,
       SnapshotIsCurrent, PressedIsAttached, AttachedOnce, AdmissionIsCurrent,
       AllZero, AllUp, Idle

\* Every step of the GUI thread, the engine and the bundle keeps the invariant.
LEMMA AttachmentStep == AttachmentInv /\ [Next]_vars => AttachmentInv'
<1> SUFFICES ASSUME AttachmentInv, [Next]_vars PROVE AttachmentInv'
    OBVIOUS
<1> USE HidAssumption

<1>1. CASE PumpReconcile
  <2>1. Shape'
    <3>1. claims' \in [Slots -> Int] /\ next' \in Nat /\ epoch' \in Nat /\ admitted' \subseteq Slots
        BY <1>1 DEF PumpReconcile, Retired, Admissible, AttachmentInv, Shape, guiVars, runtimeVars, Idle
    <3>0. pad' \in [Slots -> [inc : Int, down : BOOLEAN]] /\ selected' \in Int
        BY <1>1 DEF PumpReconcile, AttachmentInv, Shape, guiVars
    <3>2. source' \in [Slots -> Int] /\ server' \in [Slots -> Int]
        BY <1>1 DEF PumpReconcile, Retired, Admissible, AttachmentInv, Shape, guiVars, runtimeVars, Idle
    <3>3. attaches' \in [Slots -> Nat]
        BY <1>1 DEF PumpReconcile, Retired, Admissible, AttachmentInv, Shape, guiVars, runtimeVars, Idle
    <3>4. pump'.epoch \in Nat /\ pump'.new \subseteq Slots
        BY <1>1 DEF PumpReconcile, Retired, Admissible, AttachmentInv, Shape, guiVars, runtimeVars, Idle
    <3>5. pump' = [at |-> pump'.at, epoch |-> pump'.epoch,
               new |-> pump'.new, items |-> pump'.items]
        BY <1>1 DEF PumpReconcile, Retired, Admissible, AttachmentInv, Shape, guiVars, runtimeVars, Idle
    <3> QED BY <3>0, <3>1, <3>2, <3>3, <3>4, <3>5 DEF Shape
  <2>2. ServerFollowsSession'
    BY <1>1 DEF PumpReconcile, Retired, Admissible, AttachmentInv, Shape,
           ServerFollowsSession, AttachedOrTombed, PressedIsAttached,
           guiVars, runtimeVars, Idle
  <2>3. AttachedOrTombed'
    BY <1>1 DEF PumpReconcile, Retired, Admissible, AttachmentInv, Shape,
           ServerFollowsSession, AttachedOrTombed, guiVars, runtimeVars,
           Idle
  <2>4. SnapshotIsCurrent'
    BY <1>1 DEF PumpReconcile, Retired, Admissible, AttachmentInv, Shape,
           SnapshotIsCurrent, guiVars, runtimeVars, Idle
  <2>5. PressedIsAttached'
    BY <1>1 DEF PumpReconcile, Retired, Admissible, AttachmentInv, Shape,
           ServerFollowsSession, PressedIsAttached, guiVars, runtimeVars,
           Idle
  <2>6. AttachedOnce'
    BY <1>1 DEF PumpReconcile, Retired, Admissible, AttachmentInv, Shape,
           ServerFollowsSession, AttachedOnce, guiVars, runtimeVars, Idle
  <2>7. AdmissionIsCurrent'
    <3>1. ASSUME NEW s \in admitted, evaluated
          PROVE  source'[s] = source[s]
        BY <1>1, <3>1 DEF PumpReconcile, Retired, Admissible, AttachmentInv, Shape,
                          AdmissionIsCurrent, runtimeVars
    <3> QED
        BY <1>1, <3>1 DEF PumpReconcile, AttachmentInv, AdmissionIsCurrent, runtimeVars
  <2> QED BY <2>1, <2>2, <2>3, <2>4, <2>5, <2>6, <2>7 DEF AttachmentInv
<1>2. CASE PumpAdmit
  <2>1. Shape'
    <3>1. claims' \in [Slots -> Int] /\ next' \in Nat /\ epoch' \in Nat /\ admitted' \subseteq Slots
        BY <1>2 DEF PumpAdmit, SendAttaches, AttachmentInv, Shape, guiVars
    <3>0. pad' \in [Slots -> [inc : Int, down : BOOLEAN]] /\ selected' \in Int
        BY <1>2 DEF PumpAdmit, SendAttaches, AttachmentInv, Shape, guiVars
    <3>2. source' \in [Slots -> Int] /\ server' \in [Slots -> Int]
        BY <1>2 DEF PumpAdmit, SendAttaches, AttachmentInv, Shape, guiVars
    <3>3. attaches' \in [Slots -> Nat]
        BY <1>2 DEF PumpAdmit, SendAttaches, AttachmentInv, Shape, guiVars
    <3>4. pump'.epoch \in Nat /\ pump'.new \subseteq Slots
        BY <1>2 DEF PumpAdmit, SendAttaches, AttachmentInv, Shape, guiVars
    <3>5. pump' = [at |-> pump'.at, epoch |-> pump'.epoch,
               new |-> pump'.new, items |-> pump'.items]
        BY <1>2 DEF PumpAdmit, SendAttaches, AttachmentInv, Shape, guiVars
    <3> QED BY <3>0, <3>1, <3>2, <3>3, <3>4, <3>5 DEF Shape
  <2>2. ServerFollowsSession'
    BY <1>2 DEF PumpAdmit, SendAttaches, AttachmentInv, Shape,
           ServerFollowsSession, AttachedOrTombed, PressedIsAttached, Idle,
           guiVars
  <2>3. AttachedOrTombed'
    BY <1>2 DEF PumpAdmit, SendAttaches, AttachmentInv, Shape,
           ServerFollowsSession, AttachedOrTombed, Idle, guiVars
  <2>4. SnapshotIsCurrent'
    BY <1>2 DEF PumpAdmit, SendAttaches, AttachmentInv, Shape,
           SnapshotIsCurrent, Idle, guiVars
  <2>5. PressedIsAttached'
    BY <1>2 DEF PumpAdmit, SendAttaches, AttachmentInv, Shape,
           ServerFollowsSession, PressedIsAttached, Idle, guiVars
  <2>6. AttachedOnce'
    BY <1>2 DEF PumpAdmit, SendAttaches, AttachmentInv, Shape,
           ServerFollowsSession, AttachedOnce, Idle, guiVars
  <2>7. AdmissionIsCurrent'
    BY <1>2 DEF PumpAdmit, SendAttaches, AttachmentInv, Shape,
           SnapshotIsCurrent, AdmissionIsCurrent, Idle, guiVars
  <2> QED BY <2>1, <2>2, <2>3, <2>4, <2>5, <2>6, <2>7 DEF AttachmentInv
<1>3. CASE PumpDrain
  <2>1. Shape'
    BY <1>3 DEF PumpDrain, AttachmentInv, Shape, Idle, guiVars, sessionVars
  <2>2. ServerFollowsSession'
    BY <1>3 DEF PumpDrain, AttachmentInv, Shape, ServerFollowsSession,
           AttachedOrTombed, PressedIsAttached, Idle, guiVars, sessionVars
  <2>3. AttachedOrTombed'
    BY <1>3 DEF PumpDrain, AttachmentInv, Shape, ServerFollowsSession,
           AttachedOrTombed, Idle, guiVars, sessionVars
  <2>4. SnapshotIsCurrent'
    BY <1>3 DEF PumpDrain, AttachmentInv, Shape, SnapshotIsCurrent, Idle,
           guiVars, sessionVars
  <2>5. PressedIsAttached'
    BY <1>3 DEF PumpDrain, AttachmentInv, Shape, ServerFollowsSession,
           PressedIsAttached, Idle, guiVars, sessionVars
  <2>6. AttachedOnce'
    BY <1>3 DEF PumpDrain, AttachmentInv, Shape, ServerFollowsSession,
           AttachedOnce, Idle, guiVars, sessionVars
  <2>7. AdmissionIsCurrent'
    BY <1>3 DEF PumpDrain, AttachmentInv, Shape, SnapshotIsCurrent,
           AdmissionIsCurrent, Idle, guiVars, sessionVars
  <2> QED BY <2>1, <2>2, <2>3, <2>4, <2>5, <2>6, <2>7 DEF AttachmentInv
<1>4. CASE PumpSend
  <2>1. Shape'
    BY <1>4 DEF PumpSend, Delivered, Applies, AttachmentInv, Shape, guiVars,
           runtimeVars, Idle
  <2>2. ServerFollowsSession'
    BY <1>4 DEF PumpSend, Delivered, Applies, AttachmentInv, Shape,
           ServerFollowsSession, AttachedOrTombed, PressedIsAttached,
           guiVars, runtimeVars, Idle
  <2>3. AttachedOrTombed'
    BY <1>4 DEF PumpSend, Delivered, Applies, AttachmentInv, Shape,
           ServerFollowsSession, AttachedOrTombed, guiVars, runtimeVars,
           Idle
  <2>4. SnapshotIsCurrent'
    BY <1>4 DEF PumpSend, Delivered, Applies, AttachmentInv, Shape,
           SnapshotIsCurrent, guiVars, runtimeVars, Idle
  <2>5. PressedIsAttached'
    BY <1>4 DEF PumpSend, Delivered, Applies, AttachmentInv, Shape,
           ServerFollowsSession, PressedIsAttached, guiVars, runtimeVars,
           Idle
  <2>6. AttachedOnce'
    BY <1>4 DEF PumpSend, Delivered, Applies, AttachmentInv, Shape,
           ServerFollowsSession, AttachedOnce, guiVars, runtimeVars, Idle
  <2>7. AdmissionIsCurrent'
    BY <1>4 DEF PumpSend, Delivered, Applies, AttachmentInv, Shape,
           SnapshotIsCurrent, AdmissionIsCurrent, guiVars, runtimeVars, Idle
  <2> QED BY <2>1, <2>2, <2>3, <2>4, <2>5, <2>6, <2>7 DEF AttachmentInv
<1>5. CASE Open
  <2>1. Shape'
    BY <1>5 DEF Open, ResetLanes, AttachmentInv, Shape, guiVars, AllZero,
           Idle
  <2>2. ServerFollowsSession'
    BY <1>5 DEF Open, ResetLanes, AttachmentInv, Shape,
           ServerFollowsSession, AttachedOrTombed, PressedIsAttached,
           guiVars, AllZero, Idle
  <2>3. AttachedOrTombed'
    BY <1>5 DEF Open, ResetLanes, AttachmentInv, Shape,
           ServerFollowsSession, AttachedOrTombed, guiVars, AllZero, Idle
  <2>4. SnapshotIsCurrent'
    BY <1>5 DEF Open, ResetLanes, AttachmentInv, Shape, SnapshotIsCurrent,
           guiVars, AllZero, Idle
  <2>5. PressedIsAttached'
    BY <1>5 DEF Open, ResetLanes, AttachmentInv, Shape,
           ServerFollowsSession, PressedIsAttached, guiVars, AllZero, Idle
  <2>6. AttachedOnce'
    BY <1>5 DEF Open, ResetLanes, AttachmentInv, Shape,
           ServerFollowsSession, AttachedOnce, guiVars, AllZero, Idle
  <2>7. AdmissionIsCurrent'
    BY <1>5 DEF Open, ResetLanes, AttachmentInv, Shape, SnapshotIsCurrent,
           AdmissionIsCurrent, guiVars, AllZero, Idle
  <2> QED BY <2>1, <2>2, <2>3, <2>4, <2>5, <2>6, <2>7 DEF AttachmentInv
<1>6. CASE Bind
  <2>1. Shape'
    BY <1>6 DEF Bind, ResetLanes, AttachmentInv, Shape, guiVars, sessionVars
  <2>2. ServerFollowsSession'
    BY <1>6 DEF Bind, ResetLanes, AttachmentInv, Shape,
           ServerFollowsSession, AttachedOrTombed, PressedIsAttached,
           guiVars, sessionVars
  <2>3. AttachedOrTombed'
    BY <1>6 DEF Bind, ResetLanes, AttachmentInv, Shape,
           ServerFollowsSession, AttachedOrTombed, guiVars, sessionVars
  <2>4. SnapshotIsCurrent'
    BY <1>6 DEF Bind, ResetLanes, AttachmentInv, Shape, SnapshotIsCurrent,
           guiVars, sessionVars
  <2>5. PressedIsAttached'
    BY <1>6 DEF Bind, ResetLanes, AttachmentInv, Shape,
           ServerFollowsSession, PressedIsAttached, guiVars, sessionVars
  <2>6. AttachedOnce'
    BY <1>6 DEF Bind, ResetLanes, AttachmentInv, Shape,
           ServerFollowsSession, AttachedOnce, guiVars, sessionVars
  <2>7. AdmissionIsCurrent'
    BY <1>6 DEF Bind, ResetLanes, AttachmentInv, Shape, SnapshotIsCurrent,
           AdmissionIsCurrent, guiVars, sessionVars
  <2> QED BY <2>1, <2>2, <2>3, <2>4, <2>5, <2>6, <2>7 DEF AttachmentInv
<1>7. CASE Unbind
  <2>1. Shape'
    BY <1>7 DEF Unbind, ResetLanes, AttachmentInv, Shape, guiVars,
           sessionVars
  <2>2. ServerFollowsSession'
    BY <1>7 DEF Unbind, ResetLanes, AttachmentInv, Shape,
           ServerFollowsSession, AttachedOrTombed, PressedIsAttached,
           guiVars, sessionVars
  <2>3. AttachedOrTombed'
    BY <1>7 DEF Unbind, ResetLanes, AttachmentInv, Shape,
           ServerFollowsSession, AttachedOrTombed, guiVars, sessionVars
  <2>4. SnapshotIsCurrent'
    BY <1>7 DEF Unbind, ResetLanes, AttachmentInv, Shape, SnapshotIsCurrent,
           guiVars, sessionVars
  <2>5. PressedIsAttached'
    BY <1>7 DEF Unbind, ResetLanes, AttachmentInv, Shape,
           ServerFollowsSession, PressedIsAttached, guiVars, sessionVars
  <2>6. AttachedOnce'
    BY <1>7 DEF Unbind, ResetLanes, AttachmentInv, Shape,
           ServerFollowsSession, AttachedOnce, guiVars, sessionVars
  <2>7. AdmissionIsCurrent'
    BY <1>7 DEF Unbind, ResetLanes, AttachmentInv, Shape, SnapshotIsCurrent,
           AdmissionIsCurrent, guiVars, sessionVars
  <2> QED BY <2>1, <2>2, <2>3, <2>4, <2>5, <2>6, <2>7 DEF AttachmentInv
<1>8. CASE BundleEnds
  <2>1. Shape'
    BY <1>8 DEF BundleEnds, ResetLanes, AttachmentInv, Shape, guiVars,
           AllZero, AllUp, Idle
  <2>2. ServerFollowsSession'
    BY <1>8 DEF BundleEnds, ResetLanes, AttachmentInv, Shape,
           ServerFollowsSession, AttachedOrTombed, PressedIsAttached,
           guiVars, AllZero, AllUp, Idle
  <2>3. AttachedOrTombed'
    BY <1>8 DEF BundleEnds, ResetLanes, AttachmentInv, Shape,
           ServerFollowsSession, AttachedOrTombed, guiVars, AllZero, AllUp,
           Idle
  <2>4. SnapshotIsCurrent'
    BY <1>8 DEF BundleEnds, ResetLanes, AttachmentInv, Shape,
           SnapshotIsCurrent, guiVars, AllZero, AllUp, Idle
  <2>5. PressedIsAttached'
    BY <1>8 DEF BundleEnds, ResetLanes, AttachmentInv, Shape,
           ServerFollowsSession, PressedIsAttached, guiVars, AllZero, AllUp,
           Idle
  <2>6. AttachedOnce'
    BY <1>8 DEF BundleEnds, ResetLanes, AttachmentInv, Shape,
           ServerFollowsSession, AttachedOnce, guiVars, AllZero, AllUp, Idle
  <2>7. AdmissionIsCurrent'
    BY <1>8 DEF BundleEnds, ResetLanes, AttachmentInv, Shape,
           SnapshotIsCurrent, AdmissionIsCurrent, guiVars, AllZero, AllUp,
           Idle
  <2> QED BY <2>1, <2>2, <2>3, <2>4, <2>5, <2>6, <2>7 DEF AttachmentInv
<1>9. ASSUME NEW s \in Slots, Plug(s) PROVE AttachmentInv'
  <2>1. pad' \in [Slots -> [inc : Int, down : BOOLEAN]] /\ next' \in Nat
    BY <1>9 DEF Plug, AttachmentInv, Shape
  <2>2. Claims(pad', selected) \in [Slots -> Int]
    BY <2>1 DEF Claims, AttachmentInv, Shape
  <2> QED
    BY <1>9, <2>1, <2>2, InventoryReplaced DEF Plug, sessionVars, AttachmentInv, Shape
<1>10. ASSUME NEW s \in Slots, Unplug(s) PROVE AttachmentInv'
  <2>1. pad' \in [Slots -> [inc : Int, down : BOOLEAN]] /\ selected' \in Int
    BY <1>10 DEF Unplug, AttachmentInv, Shape
  <2>2. Claims(pad', selected') \in [Slots -> Int]
    BY <2>1 DEF Claims
  <2> QED
    BY <1>10, <2>1, <2>2, InventoryReplaced DEF Unplug, sessionVars, AttachmentInv, Shape
<1>11. ASSUME NEW p \in Slots, Change(p) PROVE AttachmentInv'
  <2>1. pad' \in [Slots -> [inc : Int, down : BOOLEAN]]
    BY <1>11 DEF Change, AttachmentInv, Shape
  <2> QED BY <1>11, <2>1, AttachmentUntouched DEF Change, silence, sessionVars
<1>12. CASE Keepalive
    BY <1>12, AttachmentUntouched DEF Keepalive, guiVars, sessionVars, AttachmentInv, Shape
<1>13. ASSUME NEW a \in BOOLEAN,
              SetActive(a) \/ SetInputSuspended(a) \/ SetShellCapture(a)
       PROVE  AttachmentInv'
    BY <1>13, AttachmentUntouched
    DEF SetActive, SetInputSuspended, SetShellCapture, silence, sessionVars,
        AttachmentInv, Shape
<1>14. ASSUME NEW choice \in Incarnations, SelectController(choice)
       PROVE  AttachmentInv'
  <2>1. Claims(pad, choice) \in [Slots -> Int] /\ choice \in Int
    BY DEF Claims, Incarnations, AttachmentInv, Shape
  <2> QED
    BY <1>14, <2>1, InventoryReplaced DEF SelectController, sessionVars, AttachmentInv, Shape
<1>15. CASE UNCHANGED vars
    BY <1>15, AttachmentUntouched
    DEF vars, guiVars, runtimeVars, sessionVars, AttachmentInv, Shape
<1> QED
    BY <1>1, <1>2, <1>3, <1>4, <1>5, <1>6, <1>7, <1>8, <1>9, <1>10, <1>11, <1>12, <1>13,
       <1>14, <1>15
    DEF Next, PumpStep, SessionStep, GuiStep

\* What the session, the pump and the server hold of the controllers always fits
\* together, whichever thread moves first.
THEOREM AttachmentIsInductive == Spec => []AttachmentInv
<1> QED BY AttachmentInit, AttachmentStep, PTL DEF Spec

\* Nothing is pressed at the server but on the controller that the session and
\* the server both hold, however unplugging races with the pump.
THEOREM PressedOnlyWhereAttached == Spec => []PressedIsAttached
<1>1. AttachmentInv => PressedIsAttached BY DEF AttachmentInv
<1> QED BY AttachmentIsInductive, <1>1, PTL

\* No slot is attached twice in a session (the tombstones of HidSession).
\* HidSession::admit never attaches a slot a second time in a session: the
\* tombstone of a removed controller keeps its low ID from being reused.
THEOREM SlotsAreAttachedOnce == Spec => []AttachedOnce
<1>1. AttachmentInv => AttachedOnce BY DEF AttachmentInv
<1> QED BY AttachmentIsInductive, <1>1, PTL

\* The slots that submit_snapshot_with admits hold the controller the bundle
\* attached, although set_session_admission answers to an earlier snapshot.
THEOREM AdmissionFollowsInventory == Spec => []AdmissionIsCurrent
<1>1. AttachmentInv => AdmissionIsCurrent BY DEF AttachmentInv
<1> QED BY AttachmentIsInductive, <1>1, PTL

=============================================================================
