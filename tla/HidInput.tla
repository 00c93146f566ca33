------------------------------ MODULE HidInput ------------------------------
(***************************************************************************)
(* The path of a Sony controller's input from the Qt shell to the game     *)
(* server.  The GUI thread (ControllerInput.cpp, opennow-streamer-ffi)     *)
(* replaces the inventory, submits a snapshot of a controller whenever it  *)
(* changes and again as a keepalive, and switches the capture on and off.  *)
(* It publishes nothing but a neutral snapshot while its input is          *)
(* suspended, nothing at all while the shell itself reads the controllers, *)
(* and only the controller that the user chose, when one is chosen.        *)
(* HidRuntime (opennow-streamer-hid/src/runtime.rs) keeps one bounded lane *)
(* per slot under one mutex.  The bundle's thread pumps the lanes          *)
(* (pump_hid_pending in nvst.rs) through its HidSession (session.rs), which *)
(* attaches and retires the controllers at the server.                     *)
(*                                                                         *)
(* A snapshot is reduced to whether anything is pressed.  Controllers are  *)
(* told apart by their incarnation; 0 stands for none.                     *)
(***************************************************************************)
EXTENDS Integers, Sequences

CONSTANTS
    NumSlots,        \* MAX_SOURCES
    QueueLimit,      \* MAX_QUEUED_STATES
    DrainBudget,     \* DRAIN_PER_ITERATION
    MaxIncarnation,  \* bound on the controllers that are ever plugged in
    MaxEpoch         \* bound on the inventories; then controllers only go

ASSUME HidAssumption ==
    /\ NumSlots \in Nat \ {0} /\ QueueLimit \in Nat \ {0}
    /\ DrainBudget \in Nat \ {0} /\ MaxIncarnation \in Nat
    /\ MaxEpoch \in Nat

Slots == 1..NumSlots

VARIABLES
    pad,       \* the controller in each slot, and whether it is pressed
    next,      \* m_nextIncarnation
    selected,  \* m_inputControllerId, as the incarnation it stands for
    suspended, \* m_inputSuspended
    captured,  \* m_shellCaptureEnabled
    claims,    \* inventory: the incarnation in each slot
    epoch,     \* inventory_epoch
    evaluated, \* session_evaluated_epoch is the current epoch
    admitted,  \* session_admitted
    lanes,     \* per slot: queued states, armed release, fault
    active,    \* capture_active
    link,      \* the bundle's endpoint: closed, open, bound, or unbound again
    source,    \* HidSession.sources: the incarnation attached in each slot
    tombs,     \* HidSession.tombstones: slots never attached again
    pump,      \* pump_hid_pending: point and locals
    server,    \* the incarnation the server has attached in each slot
    down,      \* whether the server sees the slot pressed
    attaches,  \* history: attachments of each slot in this session
    missed,    \* history: attached slots whose neutral snapshot was refused when
               \* the input was suspended or captured
    away       \* history: attached slots whose controller left the inventory

silence == <<suspended, captured>>
guiVars == <<pad, next, selected, silence, active>>
runtimeVars == <<claims, epoch, evaluated, admitted, lanes>>
sessionVars == <<source, tombs, server, down, attaches>>
losses == <<missed, away>>
vars == <<guiVars, runtimeVars, link, sessionVars, pump, losses>>

-----------------------------------------------------------------------------
Incarnations == 0..MaxIncarnation
EmptyLane == [states |-> <<>>, release |-> FALSE, fault |-> FALSE]
States == [inc : Incarnations, down : BOOLEAN]
Items == [slot : Slots, release : BOOLEAN, inc : Incarnations, down : BOOLEAN]
Idle == [at |-> "idle", epoch |-> 0, new |-> {}, items |-> <<>>]
AllZero == [s \in Slots |-> 0]
AllUp == [s \in Slots |-> FALSE]
EmptyLanes == [s \in Slots |-> EmptyLane]

TypeOK ==
    /\ pad \in [Slots -> States]
    /\ next \in 1..(MaxIncarnation + 1)
    /\ selected \in Incarnations
    /\ suspended \in BOOLEAN /\ captured \in BOOLEAN
    /\ claims \in [Slots -> Incarnations]
    /\ epoch \in Nat
    /\ evaluated \in BOOLEAN /\ admitted \in SUBSET Slots
    /\ lanes \in [Slots -> [states : Seq(States), release : BOOLEAN,
                            fault : BOOLEAN]]
    /\ active \in BOOLEAN
    /\ link \in {"closed", "open", "bound", "unbound"}
    /\ source \in [Slots -> Incarnations] /\ tombs \in SUBSET Slots
    /\ pump \in [at : {"idle", "admit", "drain", "send"}, epoch : Nat,
                 new : SUBSET Slots, items : Seq(Items)]
    /\ server \in [Slots -> Incarnations] /\ down \in [Slots -> BOOLEAN]
    /\ attaches \in [Slots -> Nat]
    /\ missed \in SUBSET Slots /\ away \in SUBSET Slots

Init ==
    /\ pad = [s \in Slots |-> [inc |-> 0, down |-> FALSE]]
    /\ next = 1 /\ selected = 0
    /\ suspended = FALSE /\ captured = FALSE
    /\ claims = AllZero /\ epoch = 0 /\ evaluated = FALSE /\ admitted = {}
    /\ lanes = EmptyLanes
    /\ active = FALSE
    /\ link = "closed"
    /\ source = AllZero /\ tombs = {} /\ pump = Idle
    /\ server = AllZero /\ down = AllUp /\ attaches = AllZero
    /\ missed = {} /\ away = {}

-----------------------------------------------------------------------------
(* The GUI thread.                                                         *)

\* deviceClaims: the controllers that acceptsController takes; the chosen one
\* stands in the first slot, whichever it is in.
Claims(pads, choice) ==
    [s \in Slots |-> IF choice = 0 THEN pads[s].inc
                     ELSE IF s = 1 THEN choice ELSE 0]

\* replace_inventory: the lane of a slot whose controller changed is reset, and
\* no snapshot is taken until the bundle has evaluated the new inventory.
ReplaceInventory(new, old) ==
    /\ claims' = new
    /\ lanes' = [s \in Slots |-> IF new[s] = claims[s] THEN old[s] ELSE EmptyLane]
    /\ away' = away \cup {s \in Slots : /\ source[s] # 0 /\ source[s] = claims[s]
                                      /\ new[s] # claims[s]}
    /\ epoch' = epoch + 1
    /\ evaluated' = FALSE
    /\ admitted' = {}

\* openController; its first snapshot comes before the inventory and is stale.
Plug(s) ==
    /\ pad[s].inc = 0 /\ next <= MaxIncarnation /\ epoch < MaxEpoch
    /\ \E d \in BOOLEAN : pad' = [pad EXCEPT ![s] = [inc |-> next, down |-> d]]
    /\ next' = next + 1
    /\ ReplaceInventory(Claims(pad', selected), lanes)
    /\ UNCHANGED <<selected, silence, active, link, sessionVars, pump, missed>>

\* closeController; the lane that its last snapshot reaches is reset.  The chosen
\* one takes the choice with it; the inventory that is empty in between shows the
\* pump nothing that the next one does not.
Unplug(s) ==
    /\ pad[s].inc # 0
    /\ pad' = [pad EXCEPT ![s] = [inc |-> 0, down |-> FALSE]]
    /\ selected' = IF selected = pad[s].inc THEN 0 ELSE selected
    /\ ReplaceInventory(Claims(pad', selected'), lanes)
    /\ UNCHANGED <<next, silence, active, link, sessionVars, pump, missed>>

\* SourceLane::push
Push(lane, state) ==
    IF lane.fault THEN lane
    ELSE IF Len(lane.states) >= QueueLimit
         THEN [states |-> <<>>, release |-> TRUE, fault |-> TRUE]
         ELSE [lane EXCEPT !.states = Append(@, state)]

\* submit_snapshot_with: a snapshot is refused without a session and before the
\* inventory was evaluated; a slot that is not admitted goes the way of ordinary
\* gamepads.
Takes(s) == link = "bound" /\ claims[s] # 0 /\ evaluated /\ s \in admitted

\* The lane of slot s after a snapshot of its controller.
Submitted(s, pressed) ==
    IF ~Takes(s) THEN lanes[s]
    ELSE IF active THEN Push(lanes[s], [inc |-> claims[s], down |-> pressed])
    ELSE [lanes[s] EXCEPT !.release = @ \/ ~pressed]

\* The controller that the inventory holds in slot s is pressed.
Pressed(s) == \E p \in Slots : claims[s] # 0 /\ pad[p].inc = claims[s] /\ pad[p].down

\* publishSonySnapshot lets no pressed button through.
Silent == suspended \/ captured

\* handleButton, handleAxis, handleTouchpad: the new state is submitted once, if
\* the controller is accepted and publishSonySnapshot does not hold it back.
Change(p) ==
    /\ pad[p].inc # 0
    /\ pad' = [pad EXCEPT ![p].down = ~@]
    /\ lanes' = [s \in Slots |-> IF ~Silent /\ claims[s] = pad[p].inc
                                 THEN Submitted(s, pad'[p].down) ELSE lanes[s]]
    /\ UNCHANGED <<next, selected, silence, active, claims, epoch, evaluated,
                   admitted, link, sessionVars, pump, losses>>

\* publishConnectedInputs: the lanes after a snapshot of every accepted
\* controller.
PublishConnected(neutral) ==
    [s \in Slots |-> IF claims[s] = 0 THEN lanes[s]
                     ELSE Submitted(s, Pressed(s) /\ ~neutral)]


\* poll: the timer publishes the state of every accepted controller again, unless
\* the shell reads the controllers; a suspended input is held back.
Keepalive ==
    /\ ~Silent
    /\ lanes' = PublishConnected(FALSE)
    /\ UNCHANGED <<guiVars, claims, epoch, evaluated, admitted, link,
                   sessionVars, pump, losses>>

\* The attached slots whose neutral snapshot is refused now.
Refused == {s \in Slots : link = "bound" /\ source[s] # 0 /\ source[s] = claims[s] /\ ~Takes(s)}

\* setInputSuspended: a neutral snapshot goes out before the others stop, the
\* state when they go on; neither gets past the shell's capture.
SetInputSuspended(b) ==
    /\ suspended # b
    /\ suspended' = b
    /\ lanes' = IF captured THEN lanes ELSE PublishConnected(b)
    /\ missed' = IF captured THEN missed ELSE IF b THEN Refused ELSE {}
    /\ UNCHANGED <<pad, next, selected, captured, active, claims, epoch, evaluated,
                   admitted, link, sessionVars, pump, away>>

\* setShellCaptureEnabled: likewise; the neutral snapshot goes out even if the
\* input is suspended, the state does not.
SetShellCapture(b) ==
    /\ captured # b
    /\ captured' = b
    /\ lanes' = IF ~b /\ suspended THEN lanes ELSE PublishConnected(b)
    /\ missed' = IF suspended THEN (IF b THEN missed \cap Refused ELSE missed)
                 ELSE IF b THEN Refused ELSE {}
    /\ UNCHANGED <<pad, next, selected, suspended, active, claims, epoch, evaluated,
                   admitted, link, sessionVars, pump, away>>

\* setInputControllerId: a neutral snapshot of what was accepted, then the new
\* inventory; the snapshots that follow it come before its evaluation.
SelectController(choice) ==
    /\ choice # selected /\ epoch < MaxEpoch
    /\ choice = 0 \/ \E p \in Slots : pad[p].inc = choice
    /\ selected' = choice
    /\ ReplaceInventory(Claims(pad, choice),
                        IF captured THEN lanes ELSE PublishConnected(TRUE))
    /\ UNCHANGED <<pad, next, silence, active, link, sessionVars, pump, missed>>

\* Mutant: queued states are kept, no release is armed.
SetActiveOnly(a) ==
    /\ active # a
    /\ active' = a
    /\ UNCHANGED <<pad, next, selected, silence, runtimeVars, link, sessionVars, pump, losses>>

\* set_active: when the capture ends, what is queued is dropped and a release is
\* armed for every controller.
SetActive(a) ==
    /\ active # a
    /\ active' = a
    /\ lanes' = [s \in Slots |->
                    IF a \/ claims[s] = 0 THEN lanes[s]
                    ELSE [lanes[s] EXCEPT !.states = <<>>, !.release = TRUE]]
    /\ UNCHANGED <<pad, next, selected, silence, claims, epoch, evaluated, admitted,
                   link, sessionVars, pump, losses>>

-----------------------------------------------------------------------------
(* The session: the engine opens, binds and unbinds, the bundle ends.      *)

ResetLanes ==
    /\ lanes' = EmptyLanes /\ evaluated' = FALSE /\ admitted' = {}
    /\ missed' = {} /\ away' = {}

\* open_endpoint, and the bundle's new HidSession.
Open ==
    /\ link = "closed"
    /\ link' = "open"
    /\ ResetLanes
    /\ source' = AllZero /\ tombs' = {} /\ attaches' = AllZero
    /\ UNCHANGED <<guiVars, claims, epoch, pump, server, down>>

\* bind_session
Bind ==
    /\ link = "open"
    /\ link' = "bound"
    /\ ResetLanes
    /\ UNCHANGED <<guiVars, claims, epoch, sessionVars, pump>>

\* unbind_session, by the engine's stop.
Unbind ==
    /\ link = "bound"
    /\ link' = "unbound"
    /\ ResetLanes
    /\ UNCHANGED <<guiVars, claims, epoch, sessionVars, pump>>

\* The bundle ends, because it was told to, something failed or a report could
\* not be queued: retire_all releases and removes what it attached, then the
\* endpoint is closed and the HidSession is gone with its tombstones.
BundleEnds ==
    /\ link # "closed"
    /\ link' = "closed"
    /\ ResetLanes
    /\ pump' = Idle
    /\ server' = AllZero /\ down' = AllUp
    /\ source' = AllZero
    /\ tombs' = {} /\ attaches' = AllZero
    /\ UNCHANGED <<guiVars, claims, epoch>>

-----------------------------------------------------------------------------
(* pump_hid_pending, in the bundle's thread.                               *)

Retired == {s \in Slots : source[s] # 0 /\ source[s] # claims[s]}

\* HidSession::admit refuses a slot with a tombstone.
Admissible == {s \in Slots : source[s] = 0 /\ claims[s] # 0 /\ s \notin tombs}

\* Mutant: a controller that was pressed is removed without a release.
PumpReconcileNoRelease ==
    /\ link = "bound" /\ pump.at = "idle"
    /\ pump' = [Idle EXCEPT !.at = "admit", !.epoch = epoch, !.new = Admissible]
    /\ source' = [s \in Slots |-> IF s \in Retired THEN 0
                                  ELSE IF s \in Admissible THEN claims[s]
                                  ELSE source[s]]
    /\ tombs' = tombs \cup Retired
    /\ server' = [s \in Slots |-> IF s \in Retired THEN 0 ELSE server[s]]
    /\ missed' = missed \ Retired /\ away' = away \ Retired
    /\ UNCHANGED <<guiVars, runtimeVars, link, attaches, down>>

\* inventory_snapshot and reconcile: a controller that is gone or was replaced
\* is released and removed at the server, and its slot stays without one.
PumpReconcile ==
    /\ link = "bound" /\ pump.at = "idle"
    /\ pump' = [Idle EXCEPT !.at = "admit", !.epoch = epoch, !.new = Admissible]
    /\ source' = [s \in Slots |-> IF s \in Retired THEN 0
                                  ELSE IF s \in Admissible THEN claims[s]
                                  ELSE source[s]]
    /\ tombs' = tombs \cup Retired
    /\ server' = [s \in Slots |-> IF s \in Retired THEN 0 ELSE server[s]]
    /\ down' = [s \in Slots |-> down[s] /\ s \notin Retired]
    /\ missed' = missed \ Retired /\ away' = away \ Retired
    /\ UNCHANGED <<guiVars, runtimeVars, link, attaches>>

\* The Attach commands of the newly admitted controllers.
SendAttaches ==
    /\ server' = [s \in Slots |-> IF s \in pump.new THEN source[s] ELSE server[s]]
    /\ attaches' = [s \in Slots |-> IF s \in pump.new THEN attaches[s] + 1
                                    ELSE attaches[s]]
    /\ pump' = [pump EXCEPT !.at = "drain", !.new = {}]

\* Mutant: the evaluation of an inventory that was replaced meanwhile counts.
PumpAdmitAlways ==
    /\ pump.at = "admit"
    /\ evaluated' = TRUE
    /\ admitted' = {s \in Slots : source[s] # 0}
    /\ SendAttaches
    /\ UNCHANGED <<guiVars, claims, epoch, lanes, link, source, tombs, down,
                   losses>>

\* set_session_admission is refused if the inventory was replaced meanwhile.
PumpAdmit ==
    /\ pump.at = "admit"
    /\ IF pump.epoch = epoch
       THEN evaluated' = TRUE /\ admitted' = {s \in Slots : source[s] # 0}
       ELSE UNCHANGED <<evaluated, admitted>>
    /\ SendAttaches
    /\ UNCHANGED <<guiVars, claims, epoch, lanes, link, source, tombs, down,
                   losses>>

\* What drain would take from a lane: the release, then the states.
LaneItems(s) ==
    (IF lanes[s].release
     THEN <<[slot |-> s, release |-> TRUE, inc |-> claims[s], down |-> FALSE]>>
     ELSE <<>>)
    \o [i \in 1..Len(lanes[s].states) |->
            [slot |-> s, release |-> FALSE, inc |-> lanes[s].states[i].inc,
             down |-> lanes[s].states[i].down]]

\* The items of the slots up to n, in the order in which drain meets them.
ItemsUpTo[n \in 0..NumSlots] ==
    IF n = 0 THEN <<>> ELSE ItemsUpTo[n - 1] \o LaneItems(n)

Least(a, b) == IF a < b THEN a ELSE b

\* How many items of lane s are taken within the budget.
TakenFrom(s) ==
    LET before == Len(ItemsUpTo[s - 1])
    IN  IF before >= DrainBudget THEN 0
        ELSE Least(Len(LaneItems(s)), DrainBudget - before)

\* drain: the budget goes to the lanes in slot order.
PumpDrain ==
    /\ pump.at = "drain"
    /\ LET all == ItemsUpTo[NumSlots]
       IN  pump' = [pump EXCEPT !.at = "send",
                       !.items = SubSeq(all, 1, Least(Len(all), DrainBudget))]
    /\ lanes' = [s \in Slots |->
           IF TakenFrom(s) = 0 THEN lanes[s]
           ELSE LET n == IF lanes[s].release THEN TakenFrom(s) - 1 ELSE TakenFrom(s)
                IN  [states |-> SubSeq(lanes[s].states, n + 1, Len(lanes[s].states)),
                     release |-> FALSE,
                     fault |-> lanes[s].fault /\ ~lanes[s].release]]
    /\ UNCHANGED <<guiVars, claims, epoch, evaluated, admitted, link, sessionVars,
                   losses>>

\* build_report takes a state of the controller that is attached,
\* release_snapshot the slot of any.
Applies(item) ==
    /\ source[item.slot] # 0
    /\ item.release \/ source[item.slot] = item.inc

\* The items that lead to a report about slot s.
Delivered(s) == {i \in 1..Len(pump.items) :
                    pump.items[i].slot = s /\ Applies(pump.items[i])}

\* The items are sent in order; the server keeps the last state of each slot.
PumpSend ==
    /\ pump.at = "send"
    /\ down' = [s \in Slots |->
           IF Delivered(s) = {} THEN down[s]
           ELSE \E i \in Delivered(s) : /\ \A j \in Delivered(s) : j <= i
                                        /\ pump.items[i].down]
    /\ pump' = Idle
    /\ UNCHANGED <<guiVars, runtimeVars, link, source, tombs, server, attaches,
                   losses>>

-----------------------------------------------------------------------------
PumpStep == PumpReconcile \/ PumpAdmit \/ PumpDrain \/ PumpSend

SessionStep == Open \/ Bind \/ Unbind \/ BundleEnds

GuiStep ==
    \/ \E s \in Slots : Plug(s) \/ Unplug(s) \/ Change(s)
    \/ Keepalive
    \/ \E a \in BOOLEAN : SetActive(a) \/ SetInputSuspended(a) \/ SetShellCapture(a)
    \/ \E choice \in Incarnations : SelectController(choice)

Next == PumpStep \/ SessionStep \/ GuiStep

Spec == Init /\ [][Next]_vars

\* The bundle's loop goes round every few milliseconds, and the poll timer of the
\* GUI thread always runs; what it publishes again is Keepalive's guard.
Fairness == WF_vars(PumpStep) /\ WF_vars(Keepalive)

FairSpec == Spec /\ Fairness

-----------------------------------------------------------------------------
\* The server sees something pressed only on the controller it has attached,
\* and that is the one the session holds: no report of another incarnation of
\* the slot, and none before the Attach or after the Removal, gets through.
PressedIsAttached ==
    \A s \in Slots : down[s] => server[s] # 0 /\ server[s] = source[s]

\* A slot is attached at most once in a session, however often controllers are
\* plugged and unplugged: the server never sees the same low ID again.
AttachedOnce == \A s \in Slots : attaches[s] <= 1

\* The GUI thread routes a slot to the rich path only for the controller that
\* the bundle attached there, although the inventory may be replaced between
\* the bundle's look at it and its answer.
AdmissionIsCurrent ==
    evaluated => \A s \in admitted : source[s] # 0 /\ source[s] = claims[s]

\* What the controllers at the server have to do with the session's sources at
\* every point of the pump: between reconcile and the Attach commands the new
\* ones are known to the session only, and they are neither pressed nor were
\* they attached before; without a session there is nothing at the server.
ServerFollowsSession ==
    /\ \A s \in Slots : s \notin pump.new => server[s] = source[s]
    /\ \A s \in pump.new : /\ source[s] # 0 /\ server[s] = 0 /\ ~down[s]
                            /\ attaches[s] = 0 /\ s \notin tombs
    /\ pump.at # "admit" => pump.new = {}
    /\ link \in {"closed", "open"} =>
           pump = Idle /\ \A s \in Slots : source[s] = 0 /\ ~down[s]

\* A slot that was attached in this session either still is or has a tombstone.
AttachedOrTombed ==
    \A s \in Slots : attaches[s] # 0 => s \in pump.new \/ source[s] # 0 \/ s \in tombs

\* What the session learned of the inventory is true while its epoch lasts.
SnapshotIsCurrent ==
    /\ pump.epoch <= epoch
    /\ (pump.at = "admit" /\ pump.epoch = epoch) =>
           \A s \in Slots : source[s] # 0 => source[s] = claims[s]

\* The shape of the variables that the invariant is about.
Shape ==
    /\ pad \in [Slots -> [inc : Int, down : BOOLEAN]] /\ selected \in Int
    /\ claims \in [Slots -> Int] /\ source \in [Slots -> Int]
    /\ server \in [Slots -> Int] /\ attaches \in [Slots -> Nat]
    /\ next \in Nat /\ epoch \in Nat /\ admitted \subseteq Slots
    /\ pump.epoch \in Nat /\ pump.new \subseteq Slots
    /\ pump = [at |-> pump.at, epoch |-> pump.epoch, new |-> pump.new,
               items |-> pump.items]

\* Taken together these are preserved by every step of the GUI thread, of the
\* engine and of the bundle's thread.
AttachmentInv ==
    /\ Shape
    /\ ServerFollowsSession
    /\ AttachedOrTombed
    /\ SnapshotIsCurrent
    /\ PressedIsAttached
    /\ AttachedOnce
    /\ AdmissionIsCurrent

\* The attached controller of slot s left the inventory and came back before the
\* bundle looked.  Its lane was reset, and the end of a capture in between armed
\* no release for it.
Returned(s) == s \in away /\ source[s] = claims[s]

\* When the capture ends, every slot is released at the server, again and again
\* as long as it is off.  Excepted is a controller that was chosen away and back
\* between two rounds of the pump: the release armed for it went with its lane.
ReleaseReachesServer ==
    []<>(active \/ link # "bound" \/ \A s \in Slots : (~down[s] \/ Returned(s)))

\* What the server shows of slot s is right, or the session is over, or one of
\* the two losses has happened that no keepalive makes good while the snapshots
\* are held back.
ReleasedOrPressed(s) ==
    \/ link # "bound" \/ ~down[s]
    \/ Pressed(s) /\ ~Silent
    \/ Silent /\ (s \in missed \/ Returned(s))


=============================================================================
