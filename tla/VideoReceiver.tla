---------------------------- MODULE VideoReceiver ----------------------------
(***************************************************************************)
(* The video receiver of the NVST transport (NvstVideoReceiver in nvst.rs) *)
(* on an unreliable network: datagrams of the stream arrive late, out of   *)
(* order, twice or never.  A datagram is authenticated under the index the *)
(* replay window guesses for it, goes through one of the two reorder       *)
(* buffers (RtpReorderBuffer, or FecReorderBuffer when the stream carries  *)
(* parity), and the packets that are in order again are assembled into     *)
(* frames.  Gaps ask for a retransmission (NACK) and, once given up, for a *)
(* keyframe.                                                               *)
(*                                                                         *)
(* process_datagram runs on the receiver's own thread; `at` is the place   *)
(* it is in:                                                               *)
(*   "resolve"    resolve_nack goes through the pending ranges, holding    *)
(*                their lock                                               *)
(*   "turn"       the loop of the reorder buffer's push                    *)
(*   "apply"      what the push found reaches feedback and picture         *)
(*   "assemble"   the packets that are ready are assembled, one by one     *)
(*   "idle"       the worker's loop polls, and takes its commands          *)
(* NvstFeedbackState is shared: the NACKs are sent by another thread, and  *)
(* the session may ask for a keyframe at any time.                         *)
(*                                                                         *)
(* The server sends Frames frames of Data packets, followed by Parity      *)
(* packets in a stream with FEC; packet i of the stream has the index      *)
(* FirstIndex + i.  -1 stands for None.  Times are choices: whether a wait *)
(* has exceeded MJOLNIR_REORDER_DEQUEUE_TIMEOUT when its gap is met again, *)
(* and when the polls find a timeout.                                      *)
(***************************************************************************)
EXTENDS ReplayWindow, Sequences, FiniteSets

CONSTANTS
    Frames,       \* bound: frames the server sends
    Encodings,    \* the sets of frames the server may encode as keyframes
    Data,         \* data packets of a frame
    Parity,       \* parity packets of a frame in a stream with FEC
    FirstIndex,   \* index of the first packet
    WindowLimit,  \* reorder_window_packets, MAX_REORDER_WINDOW
    BlockLimit,   \* MAX_PENDING_FEC_BLOCKS
    RangeLimit,   \* MAX_PENDING_NACK_RANGES
    NackLimit,    \* MAX_NACK_PACKET_COUNT
    MaxResets     \* bound: times the media state is reset

ASSUME ReceiverAssumption ==
    /\ Frames \in Nat \ {0} /\ Encodings \subseteq SUBSET (0..(Frames - 1))
    /\ Data \in Nat \ {0} /\ Parity \in Nat
    /\ FirstIndex \in Nat /\ WindowLimit \in Nat \ {0}
    /\ BlockLimit \in Nat \ {0} /\ RangeLimit \in Nat \ {0}
    /\ NackLimit \in Nat \ {0} /\ MaxResets \in Nat

VARIABLES
    fec,         \* the stream carries parity
    keys,        \* the frames the server encodes as keyframes
    replay,      \* SrtpReceiver.replay
    state,       \* NvstReceiverState
    next,        \* RtpReorderBuffer.next_index
    held,        \* RtpReorderBuffer.packets
    shards,      \* FecReorderBuffer.blocks: the shards of each pending block
    failed,      \* the blocks with repair_failed
    through,     \* FecReorderBuffer.completed_through
    gapWait,     \* gap_wait of the buffer the stream uses
    frame,       \* VideoAccessUnitAssembler.current_frame
    parts,       \* the packets it holds of that frame
    contiguous,  \* next_frame_contiguous
    last,        \* history: the frame that left last since the media state was reset
    shown,       \* history: the frame that left the receiver last
    progress,    \* FrameProgressWatchdog
    keyframeNeeded,  \* keyframe_needed of NvstFeedbackState
    nacks,       \* pending_nacks of NvstFeedbackState: ranges <<first, last>>
    at,          \* process_datagram: the place, and its local variables
    packet,      \* the packet that was authenticated
    updated,     \* the ranges resolve_nack has been through
    ready,       \* ReorderResult.ready
    asked,       \* ReorderResult.nack
    recovery,    \* ReorderResult.recovery
    emitted,     \* the frame the last step completed
    received,    \* history: packets taken in since the last reset
    resets       \* media resets so far

streamVars == <<fec, keys>>
plainVars == <<next, held>>
fecVars == <<shards, failed, through>>
bufferVars == <<plainVars, fecVars, gapWait>>
pictureVars == <<frame, parts, contiguous, last, shown>>
feedbackVars == <<keyframeNeeded, nacks>>
resultVars == <<ready, asked, recovery>>
taskVars == <<at, packet, updated, resultVars>>
receiverVars == <<streamVars, replay, state, bufferVars, pictureVars, progress,
                  feedbackVars, taskVars, emitted, received, resets>>

-----------------------------------------------------------------------------
(* The stream.                                                              *)
BlockSize == IF fec THEN Data + Parity ELSE Data
Packets == 0..(Frames * BlockSize - 1)
FrameOf(p) == p \div BlockSize
Shard(p) == p % BlockSize
Base(f) == f * BlockSize

IsLeast(x, S) == x \in S /\ \A y \in S : x <= y

Untracked == [authenticated |-> FALSE, keyframe |-> FALSE, stage |-> "Tracking"]

NoResult == ready = <<>> /\ asked = <<>> /\ recovery = FALSE

ReceiverInit ==
    /\ fec \in BOOLEAN /\ keys \in Encodings
    /\ replay = EmptyWindow /\ state = "Running"
    /\ next = -1 /\ held = {}
    /\ shards = [f \in {} |-> {}] /\ failed = {} /\ through = -1
    /\ gapWait = -1
    /\ frame = -1 /\ parts = <<>> /\ contiguous = TRUE
    /\ last = -1 /\ shown = -1
    /\ progress = Untracked
    /\ keyframeNeeded = FALSE /\ nacks = <<>>
    /\ at = "idle" /\ packet = -1 /\ updated = <<>> /\ NoResult
    /\ emitted = {} /\ received = {} /\ resets = 0

-----------------------------------------------------------------------------
(* process_datagram up to resolve_nack.                                     *)
Authentic(p) ==
    LET index == FirstIndex + p
    IN  /\ GuessPacketIndex(replay.highest, index % SequenceModulus) = index
        /\ Fresh(replay, index)

Authenticate(p) ==
    /\ at = "idle" /\ state = "Running" /\ Authentic(p)
    /\ replay' = Commit(replay, FirstIndex + p)
    /\ progress' = [progress EXCEPT !.authenticated = TRUE]
    /\ at' = "resolve" /\ packet' = p /\ updated' = <<>>
    /\ emitted' = {}
    /\ UNCHANGED <<streamVars, state, bufferVars, pictureVars, feedbackVars,
                   resultVars, received, resets>>

\* The parts of a range before and after a packet that arrived.
Around(range, p) ==
    IF p < range[1] \/ p > range[2] THEN <<range>>
    ELSE (IF range[1] < p THEN << <<range[1], p - 1>> >> ELSE <<>>)
         \o (IF p < range[2] THEN << <<p + 1, range[2]>> >> ELSE <<>>)

ResolveNack ==
    /\ at = "resolve" /\ nacks # <<>>
    /\ nacks' = Tail(nacks)
    /\ updated' = updated \o Around(Head(nacks), packet)
    /\ emitted' = {}
    /\ UNCHANGED <<streamVars, replay, state, bufferVars, pictureVars, progress,
                   keyframeNeeded, at, packet, resultVars, received, resets>>

\* resolve_nack returns, and the packet goes to its buffer.
Resolved ==
    /\ at = "resolve" /\ nacks = <<>>
    /\ nacks' = updated /\ updated' = <<>> /\ packet' = -1
    /\ received' = received \cup {packet}
    /\ emitted' = {}
    /\ UNCHANGED <<streamVars, replay, state, pictureVars, progress,
                   keyframeNeeded, ready, asked, resets>>

-----------------------------------------------------------------------------
(* RtpReorderBuffer.push.                                                   *)
Expected == IF next = -1 THEN packet ELSE next

Push ==
    /\ ~fec /\ Resolved
    /\ \/ /\ packet < Expected \/ packet \in held
          /\ at' = "idle" /\ next' = Expected
          /\ UNCHANGED <<held, gapWait, recovery>>
       \/ LET jump == held = {} /\ packet - Expected >= WindowLimit
          IN  /\ packet >= Expected /\ packet \notin held
              /\ at' = "turn" /\ recovery' = jump
              /\ held' = held \cup {packet}
              /\ next' = IF jump THEN packet ELSE Expected
              /\ gapWait' = IF jump THEN -1 ELSE gapWait
    /\ UNCHANGED fecVars

Turn ==
    /\ at = "turn" /\ emitted' = {}
    /\ UNCHANGED <<streamVars, replay, state, pictureVars, progress,
                   feedbackVars, packet, updated, received, resets>>

\* The push asks for nothing, or for a range while it waits for its first packet.
Break(range, wait) ==
    /\ at' = "apply" /\ asked' = range /\ gapWait' = wait
    /\ UNCHANGED <<ready, recovery>>

\* The push gives up a gap, and with it what it had made ready.
GiveUp ==
    /\ recovery' = TRUE /\ ready' = <<>> /\ asked' = <<>> /\ gapWait' = -1
    /\ UNCHANGED at

DrainPacket ==
    /\ ~fec /\ Turn
    /\ next \in held
    /\ ready' = Append(ready, next)
    /\ held' = held \ {next} /\ next' = next + 1
    /\ UNCHANGED <<fecVars, gapWait, at, asked, recovery>>

Drained ==
    /\ ~fec /\ Turn
    /\ held = {}
    /\ Break(asked, -1)
    /\ UNCHANGED <<plainVars, fecVars>>

WithinWindow(first) ==
    first - next < WindowLimit /\ Cardinality(held) < WindowLimit

\* Mutant: a range that ends at the newest packet, and a limit one too high.
AwaitGapToNewest(first) ==
    /\ ~fec /\ Turn
    /\ next \notin held /\ IsLeast(first, held)
    /\ first - next < WindowLimit /\ Cardinality(held) <= WindowLimit
    /\ \E newest \in held :
         /\ \A n \in held : n <= newest
         /\ Break(<<next, newest>>, next)
    /\ UNCHANGED <<plainVars, fecVars>>

AwaitGap(first) ==
    /\ ~fec /\ Turn
    /\ next \notin held /\ IsLeast(first, held)
    /\ WithinWindow(first)
    /\ Break(<<next, first - 1>>, next)
    /\ UNCHANGED <<plainVars, fecVars>>

\* The window is exceeded, or the wait for this gap has timed out.
SkipGap(first) ==
    /\ ~fec /\ Turn
    /\ next \notin held /\ IsLeast(first, held)
    /\ ~WithinWindow(first) \/ gapWait = next
    /\ GiveUp
    /\ next' = first
    /\ UNCHANGED <<held, fecVars>>

-----------------------------------------------------------------------------
(* FecReorderBuffer.push.                                                   *)
HeldShards(f) == IF f \in DOMAIN shards THEN shards[f] ELSE {}

PushShard ==
    LET f == FrameOf(packet)
        s == Shard(packet)
    IN  /\ fec /\ Resolved
        /\ UNCHANGED <<plainVars, through, gapWait, recovery>>
        /\ \/ /\ packet < through \/ s \in HeldShards(f)
              /\ at' = "idle"
              /\ UNCHANGED <<shards, failed>>
           \/ /\ packet >= through /\ s \notin HeldShards(f)
              /\ at' = "turn"
              /\ shards' = [g \in DOMAIN shards \cup {f} |->
                              IF g = f THEN HeldShards(f) \cup {s} ELSE shards[g]]
              /\ failed' = failed \ {f}

MissingData(f) == (0..(Data - 1)) \ shards[f]

\* first_missing_data_run: the shards low to high are its first run of missing ones.
FirstMissingRun(f, low, high) ==
    /\ IsLeast(low, MissingData(f))
    /\ high \in low..(Data - 1) /\ low..high \subseteq MissingData(f)
    /\ high + 1 \notin MissingData(f)

WithinLimits(span) ==
    span < WindowLimit /\ Cardinality(DOMAIN shards) < BlockLimit

\* has_enough_shards, and no repair of them has failed.
Complete(f) == Cardinality(shards[f]) >= Data /\ f \notin failed

\* The head of the blocks, after completed_through or not.
HeadBlock(f) == fec /\ Turn /\ IsLeast(f, DOMAIN shards)
GapBefore(f) == through # -1 /\ Base(f) > through

RemoveBlock(f) ==
    /\ shards' = [g \in DOMAIN shards \ {f} |-> shards[g]]
    /\ failed' = failed \ {f}

NoBlocks ==
    /\ fec /\ Turn /\ DOMAIN shards = {}
    /\ Break(asked, -1)
    /\ UNCHANGED <<plainVars, fecVars>>

AwaitBlock(f) ==
    /\ HeadBlock(f) /\ GapBefore(f)
    /\ WithinLimits(Base(f) - through)
    /\ Break(<<through, Base(f) - 1>>, through)
    /\ UNCHANGED <<plainVars, fecVars>>

SkipToBlock(f) ==
    /\ HeadBlock(f) /\ GapBefore(f)
    /\ ~WithinLimits(Base(f) - through) \/ gapWait = through
    /\ GiveUp
    /\ through' = Base(f)
    /\ UNCHANGED <<plainVars, shards, failed>>

\* finish, with or without a repair.
FinishBlock(f) ==
    /\ HeadBlock(f) /\ ~GapBefore(f) /\ Complete(f)
    /\ RemoveBlock(f)
    /\ ready' = ready \o [i \in 1..Data |-> Base(f) + i - 1]
    /\ through' = Base(f) + BlockSize /\ gapWait' = -1
    /\ UNCHANGED <<plainVars, at, asked, recovery>>

RepairFails(f, low, high) ==
    /\ HeadBlock(f) /\ ~GapBefore(f) /\ Complete(f)
    /\ FirstMissingRun(f, low, high)
    /\ failed' = failed \cup {f}
    /\ Break(<<Base(f) + low, Base(f) + high>>, Base(f) + low)
    /\ UNCHANGED <<plainVars, shards, through>>

OnlyBlock(f) ==
    /\ HeadBlock(f) /\ ~GapBefore(f) /\ ~Complete(f)
    /\ DOMAIN shards = {f}
    /\ Break(asked, gapWait)
    /\ UNCHANGED <<plainVars, fecVars>>

AwaitShards(f, low, high, newest) ==
    /\ HeadBlock(f) /\ ~GapBefore(f) /\ ~Complete(f) /\ newest # f
    /\ FirstMissingRun(f, low, high)
    /\ WithinLimits(Base(newest) - Base(f))
    /\ Break(<<Base(f) + low, Base(f) + high>>, Base(f) + low)
    /\ UNCHANGED <<plainVars, fecVars>>

SkipBlock(f, low, high, newest) ==
    /\ HeadBlock(f) /\ ~GapBefore(f) /\ ~Complete(f) /\ newest # f
    /\ FirstMissingRun(f, low, high)
    /\ ~WithinLimits(Base(newest) - Base(f)) \/ gapWait = Base(f) + low
    /\ GiveUp
    /\ RemoveBlock(f)
    /\ through' = Base(f) + BlockSize
    /\ UNCHANGED plainVars

-----------------------------------------------------------------------------
(* What the push found reaches the feedback and the picture.                *)
InvalidatePicture ==
    /\ frame' = -1 /\ parts' = <<>> /\ contiguous' = FALSE
    /\ keyframeNeeded' = TRUE
    /\ UNCHANGED <<last, shown, progress>>

\* request_nack: the range widens the first one it touches, or is a new one.
Touching(low, high) ==
    {k \in DOMAIN nacks : low <= nacks[k][2] + 1 /\ high + 1 >= nacks[k][1]}

RequestNack(low, high) ==
    \/ \E k \in DOMAIN nacks :
         /\ IsLeast(k, Touching(low, high))
         /\ nacks' = [nacks EXCEPT ![k] =
                        <<IF @[1] < low THEN @[1] ELSE low,
                          IF @[2] > high THEN @[2] ELSE high>>]
    \/ /\ Touching(low, high) = {}
       /\ nacks' = Append(IF Len(nacks) = RangeLimit THEN Tail(nacks) ELSE nacks,
                          <<low, high>>)

Applied ==
    /\ at = "apply"
    /\ at' = IF ready = <<>> THEN "idle" ELSE "assemble"
    /\ asked' = <<>> /\ recovery' = FALSE /\ emitted' = {}
    /\ UNCHANGED <<streamVars, replay, state, bufferVars, packet, updated, ready,
                   received, resets>>

\* Mutant: a gap that is skipped without a word to the assembler.
ApplyRecoveryUnnoticed ==
    /\ Applied /\ recovery
    /\ nacks' = <<>> /\ keyframeNeeded' = TRUE
    /\ UNCHANGED <<pictureVars, progress>>

ApplyRecovery ==
    /\ Applied /\ recovery
    /\ InvalidatePicture /\ nacks' = <<>>

ApplyNack ==
    /\ Applied /\ ~recovery
    /\ IF asked = <<>> THEN UNCHANGED nacks ELSE RequestNack(asked[1], asked[2])
    /\ UNCHANGED <<pictureVars, progress, keyframeNeeded>>

-----------------------------------------------------------------------------
(* The assembly of the packets that are in order again.                     *)

\* FrameProgressWatchdog.assembled.
Assembled(f) ==
    IF progress.keyframe \/ f \in keys
    THEN [progress EXCEPT !.keyframe = TRUE, !.stage = "Tracking"]
    ELSE progress

\* A frame starts before the one in the assembler has ended, or a packet of
\* that one is missing.
Unfinished(f, part) == part = 0 /\ frame \notin {-1, f}
Skips(f, part) == part # 0 /\ frame = f /\ parts[Len(parts)] # part - 1

\* Mutant: an assembler that starts a frame with any of its packets.
AwaitingStartWhenBusy(f, part) == part # 0 /\ frame \notin {-1, f}

AwaitingStart(f, part) == part # 0 /\ frame # f

Extended(part) == IF part = 0 THEN <<part>> ELSE Append(parts, part)

TakeReady ==
    /\ at = "assemble" /\ ready # <<>>
    /\ ready' = Tail(ready)
    /\ at' = IF Tail(ready) = <<>> THEN "idle" ELSE "assemble"
    /\ UNCHANGED <<streamVars, replay, state, bufferVars, packet, updated, asked,
                   recovery, received, resets>>

DropPacket ==
    LET f == FrameOf(Head(ready))
        part == Shard(Head(ready))
    IN  /\ TakeReady
        /\ Skips(f, part) \/ AwaitingStart(f, part)
        /\ InvalidatePicture
        /\ emitted' = {} /\ UNCHANGED nacks

\* The assembler takes the packet; a frame that broke off is dropped first.
Accept(f, part) ==
    /\ TakeReady /\ ~Skips(f, part) /\ ~AwaitingStart(f, part)
    /\ nacks' = IF Unfinished(f, part) THEN <<>> ELSE nacks

HoldPacket ==
    LET f == FrameOf(Head(ready))
        part == Shard(Head(ready))
    IN  /\ Accept(f, part) /\ part # Data - 1
        /\ frame' = f /\ parts' = Extended(part)
        /\ contiguous' = (contiguous /\ ~Unfinished(f, part))
        /\ keyframeNeeded' = (keyframeNeeded \/ Unfinished(f, part))
        /\ emitted' = {} /\ UNCHANGED <<last, shown, progress>>

CompleteFrame ==
    LET f == FrameOf(Head(ready))
        part == Shard(Head(ready))
    IN  /\ Accept(f, part) /\ part = Data - 1
        /\ frame' = -1 /\ parts' = <<>> /\ contiguous' = TRUE
        /\ last' = f /\ shown' = f
        /\ progress' = Assembled(f)
        /\ keyframeNeeded' = /\ keyframeNeeded \/ Unfinished(f, part)
                             /\ f \notin keys
        /\ emitted' = {[frame |-> f, parts |-> Extended(part), since |-> last,
                        after |-> shown,
                        contiguous |-> contiguous /\ ~Unfinished(f, part)]}

-----------------------------------------------------------------------------
(* Commands of the session, and the polls of the worker's loop.             *)
ResetMediaState ==
    /\ at = "idle"
    /\ next' = -1 /\ held' = {}
    /\ shards' = [f \in {} |-> {}] /\ failed' = {} /\ through' = -1
    /\ gapWait' = -1
    /\ frame' = -1 /\ parts' = <<>> /\ contiguous' = FALSE /\ last' = -1
    /\ progress' = Untracked
    /\ emitted' = {} /\ received' = {}
    /\ UNCHANGED <<streamVars, replay, shown, feedbackVars, taskVars>>

Pause ==
    /\ state = "Running" /\ resets < MaxResets
    /\ ResetMediaState
    /\ state' = "Paused" /\ resets' = resets + 1

Resume ==
    /\ state = "Paused"
    /\ ResetMediaState
    /\ state' = "Running" /\ UNCHANGED resets

Recover ==
    /\ state = "RecoveryRequired"
    /\ ResetMediaState
    /\ state' = "Running" /\ UNCHANGED resets

Stop ==
    /\ state # "Stopped"
    /\ ResetMediaState
    /\ state' = "Stopped" /\ UNCHANGED resets

PollReceiverTimeout ==
    /\ state = "Running" /\ resets < MaxResets
    /\ ResetMediaState
    /\ state' = "RecoveryRequired" /\ resets' = resets + 1

Escalate ==
    \/ /\ progress.stage = "Tracking"
       /\ progress' = [progress EXCEPT !.stage = "KeyframePending"]
       /\ keyframeNeeded' = TRUE /\ UNCHANGED state
    \/ /\ progress.stage = "KeyframePending"
       /\ progress' = [progress EXCEPT !.stage = "RecoveryRequired"]
       /\ state' = "RecoveryRequired" /\ UNCHANGED keyframeNeeded

\* Mutant: a watchdog that starts with the first keyframe.
PollFrameProgressAfterKeyframe ==
    /\ at = "idle" /\ state = "Running" /\ progress.keyframe
    /\ Escalate
    /\ emitted' = {}
    /\ UNCHANGED <<streamVars, replay, bufferVars, pictureVars, nacks, taskVars,
                   received, resets>>

PollFrameProgress ==
    /\ at = "idle" /\ state = "Running" /\ progress.authenticated
    /\ Escalate
    /\ emitted' = {}
    /\ UNCHANGED <<streamVars, replay, bufferVars, pictureVars, nacks, taskVars,
                   received, resets>>

-----------------------------------------------------------------------------
(* The other threads: the lock of pending_nacks is free.                    *)
Feedback ==
    /\ emitted' = {}
    /\ UNCHANGED <<streamVars, replay, state, bufferVars, pictureVars, progress,
                   taskVars, received, resets>>

\* take_nack: an expired range is forgotten, a long one is sent in parts.
ExpireNack(k) ==
    /\ at # "resolve"
    /\ nacks' = SubSeq(nacks, 1, k - 1) \o SubSeq(nacks, k + 1, Len(nacks))
    /\ Feedback /\ UNCHANGED keyframeNeeded

TakeNack(k) ==
    LET first == nacks[k][1]
        sent == first + NackLimit - 1
    IN  /\ at # "resolve" /\ sent < nacks[k][2]
        /\ nacks' = SubSeq(nacks, 1, k - 1)
                    \o << <<first, sent>>, <<sent + 1, nacks[k][2]>> >>
                    \o SubSeq(nacks, k + 1, Len(nacks))
        /\ Feedback /\ UNCHANGED keyframeNeeded

\* request_keyframe by the session: the decoder or the queue lost its chain.
RequestKeyframe ==
    /\ ~keyframeNeeded /\ state # "Stopped"
    /\ keyframeNeeded' = TRUE
    /\ Feedback /\ UNCHANGED nacks

-----------------------------------------------------------------------------
Buffer ==
    \/ Push \/ DrainPacket \/ Drained
    \/ \E first \in held : AwaitGap(first) \/ SkipGap(first)

FecBuffer ==
    \/ PushShard \/ NoBlocks
    \/ \E f \in DOMAIN shards :
         \/ AwaitBlock(f) \/ SkipToBlock(f) \/ FinishBlock(f) \/ OnlyBlock(f)
         \/ \E low, high \in 0..(Data - 1) :
              \/ RepairFails(f, low, high)
              \/ \E newest \in DOMAIN shards :
                   /\ \A g \in DOMAIN shards : g <= newest
                   /\ \/ AwaitShards(f, low, high, newest)
                      \/ SkipBlock(f, low, high, newest)

\* process_datagram once the packet is authentic.
Process ==
    \/ ResolveNack
    \/ Buffer \/ FecBuffer
    \/ ApplyRecovery \/ ApplyNack
    \/ DropPacket \/ HoldPacket \/ CompleteFrame

ReceiverNext ==
    \/ \E p \in Packets : Authenticate(p)
    \/ Process
    \/ Pause \/ Resume \/ Recover \/ Stop
    \/ PollReceiverTimeout \/ PollFrameProgress
    \/ \E k \in DOMAIN nacks : ExpireNack(k) \/ TakeNack(k)
    \/ RequestKeyframe

ReceiverSpec == ReceiverInit /\ [][ReceiverNext]_receiverVars

\* The worker's loop finishes a datagram and polls as long as it runs.
ReceiverFairSpec ==
    ReceiverSpec /\ WF_receiverVars(Process) /\ WF_receiverVars(PollFrameProgress)

-----------------------------------------------------------------------------
\* Every frame that leaves the receiver has all its data packets, in order,
\* whatever was lost, repaired, late or skipped on the way.
WholeFrames == \A e \in emitted : e.parts = [i \in 1..Data |-> i - 1]

\* A frame marked contiguous directly follows the frame that left the receiver
\* before it, also when a pause, a resume or a recovery lies between them; only
\* the first frame of a new receiver counts as contiguous although nothing
\* precedes it.  Between two resets of the media state frames leave in order.
\* After a reset an older frame may leave once more behind a newer one: the
\* reorder buffers start again at whatever packet is fresh to the replay window.
ContiguousFollows ==
    \A e \in emitted :
        /\ e.since < e.frame
        /\ e.contiguous => e.after \in {e.frame - 1, -1}

\* The NACKs ask only for packets that are genuinely absent: none that was
\* taken in since the media state was last reset.
NackOnlyMissing ==
    \A k \in DOMAIN nacks : nacks[k][1]..nacks[k][2] \cap received = {}

\* A stream whose packets arrive but which never completes a keyframe does not
\* count as running forever.
StallEscalates ==
    (state = "Running" /\ progress.authenticated)
        ~> (progress.keyframe \/ state # "Running")

-----------------------------------------------------------------------------
(* The inductive invariant behind the first three.                          *)
Ranges == Int \X Int

\* The values of the variables, and the places where results are pending.
BuffersTyped ==
    /\ fec \in BOOLEAN
    /\ next \in Nat \cup {-1} /\ held \subseteq Nat
    /\ DOMAIN shards \subseteq Nat /\ through \in Nat \cup {-1}
    /\ received \subseteq Nat

PictureTyped ==
    /\ frame \in Nat \cup {-1} /\ parts \in Seq(Nat) /\ contiguous \in BOOLEAN
    /\ last \in Nat \cup {-1} /\ shown \in Nat \cup {-1} /\ resets \in Nat

RangesTyped ==
    /\ nacks \in Seq(Ranges) /\ updated \in Seq(Ranges)
    /\ asked = <<>> \/ asked \in Ranges

TaskTyped ==
    /\ at \in {"idle", "resolve", "turn", "apply", "assemble"}
    /\ packet \in Int /\ (at = "resolve" => packet \in Nat)
    /\ ready \in Seq(Nat) /\ recovery \in BOOLEAN
    /\ at \in {"idle", "resolve"} => NoResult
    /\ at = "assemble" => ~recovery /\ asked = <<>>

ReceiverTyped == BuffersTyped /\ PictureTyped /\ RangesTyped /\ TaskTyped

\* The assembler holds the first packets of its frame.
AssemblerInOrder ==
    IF frame = -1 THEN parts = <<>>
    ELSE /\ Len(parts) \in 1..(Data - 1)
         /\ \A i \in 1..Len(parts) : parts[i] = i - 1

\* The packet that a stream without losses delivers to the assembler after p,
\* where the buffer in use stands, and where the assembler does.
Successor(p) == IF Shard(p) = Data - 1 THEN Base(FrameOf(p) + 1) ELSE p + 1
Frontier == IF fec THEN through ELSE next
Cursor == IF ready = <<>> THEN Frontier ELSE Head(ready)

\* The packets of a sequence are a run of the stream that ends before a place.
InOrder(packets, end) ==
    /\ \A k \in 1..Len(packets) : /\ Shard(packets[k]) < Data
                                  /\ Successor(packets[k]) <= end
    /\ \A j, k \in 1..Len(packets) : j < k => Successor(packets[j]) <= packets[k]
    /\ \A k \in 1..(Len(packets) - 1) : packets[k + 1] = Successor(packets[k])
    /\ packets # <<>> => end = Successor(packets[Len(packets)])

\* What is ready is a run of the stream up to the place of the buffer.
ReadyInOrder == InOrder(ready, Frontier)

\* What is still to come lies after the last frame, and while the chain is
\* whole it continues exactly where the assembler stands.
PictureFollows ==
    /\ last # -1 => /\ Base(last) + Data <= Frontier
                    /\ \A k \in 1..Len(ready) : Base(last) + Data <= ready[k]
    /\ frame # -1 => frame > last
    /\ contiguous /\ last # -1 /\ ~recovery => Cursor = Base(last + 1) + Len(parts)

\* What left last since a reset left last at all; the chain that a new receiver
\* begins with is broken by the first reset.
ShownFollows ==
    /\ last # -1 => shown = last
    /\ contiguous /\ last = -1 => shown = -1

\* A packet that was taken in is behind the buffer or in it.
PacketsHeld ==
    ~fec => /\ \A p \in received : p < next \/ p \in held
            /\ \A p \in held : next <= p
            /\ next = -1 => held = {}

ShardsHeld ==
    fec => /\ \A p \in received :
                \/ p < through
                \/ FrameOf(p) \in DOMAIN shards /\ Shard(p) \in shards[FrameOf(p)]
           /\ \A f \in DOMAIN shards : through <= Base(f)
           /\ through = -1 \/ through = Base(FrameOf(through))

\* A block has shards of its own, and one whose repair failed lacks data.
ShardsKept ==
    /\ \A f \in DOMAIN shards : shards[f] \subseteq 0..(BlockSize - 1)
    /\ \A f \in failed : f \in DOMAIN shards /\ MissingData(f) # {}

\* An incomplete block has missing data: push asserts it with expect wherever
\* it asks for a run of them, and where it gives a block up.
IncompleteHasMissing ==
    \A f \in DOMAIN shards : ~Complete(f) => MissingData(f) # {}

\* None of the ranges has a packet of S.
Spares(ranges, S) ==
    \A k \in 1..Len(ranges) : \A x \in S : x < ranges[k][1] \/ x > ranges[k][2]

RangesMissing ==
    /\ Spares(nacks, received)
    /\ Spares(updated, received \cup {packet})
    /\ asked # <<>> => \A x \in received : x < asked[1] \/ x > asked[2]

ReceiverInv ==
    /\ ReceiverTyped /\ AssemblerInOrder /\ ReadyInOrder /\ PictureFollows
    /\ ShownFollows /\ PacketsHeld /\ ShardsHeld /\ ShardsKept /\ RangesMissing
==============================================================================
