---------------------------- MODULE VideoPipeline ----------------------------
(***************************************************************************)
(* The way of a compressed frame from the NVST receiver to the software    *)
(* decoder, and the way back of the requests for a keyframe.               *)
(*                                                                         *)
(*   receiver worker (nvst.rs)      assembles frames, clears               *)
(*                                  keyframe_needed, delivers to a bounded *)
(*                                  channel (forward_receive_event)        *)
(*   media consumer (core lib.rs)   channel -> MediaSink::push             *)
(*   VideoQueue (video_queue.rs)    admits only what can be decoded        *)
(*   decoder thread (media.rs)      run_video_decoder_from                 *)
(*   session worker (core lib.rs)   turns events and feedback into         *)
(*                                  request_keyframe                       *)
(*   engine thread                  pauses and resumes all of them         *)
(*                                                                         *)
(* What VideoReceiver does to packets is here a frame that is completed or *)
(* lost.  A frame is a keyframe or a delta; `gap` is a history field: why a *)
(* frame was left behind between the previous frame at the same place and  *)
(* this one ("none" was, one was "lost", or it was skipped while "paused"),*)
(* whatever `contiguous` claims.                                           *)
(***************************************************************************)
EXTENDS Integers, Sequences

CONSTANTS
    ChannelLimit,   \* ENCODED_MEDIA_QUEUE_CAPACITY
    QueueLimit,     \* capacity of the VideoQueue
    MaxFaults,      \* bound: losses, overflows, timeouts, decoder errors and
                    \* pauses, together
    MaxPauses       \* bound: pauses

ASSUME PipelineAssumption ==
    /\ ChannelLimit \in Nat \ {0} /\ QueueLimit \in Nat \ {0}
    /\ MaxFaults \in Nat /\ MaxPauses \in Nat

VARIABLES
    receiver,   \* state, next_frame_contiguous, delivery_gap; gap: history
    needed,     \* keyframe_needed of NvstFeedbackState
    commands,   \* UdpReceiverCommands on their way to the receiver
    events,     \* receive events on their way to the session worker
    feedback,   \* MediaFeedback::RequestKeyframe on its way to the worker
    channel,    \* frames between the receiver and the consumer
    consumer,   \* consume_encoded_media: point and frame
    queue,      \* VideoQueue; lost: history
    decoder,    \* run_video_decoder_from: point and frame
    desynced,   \* video_desynced
    requested,  \* keyframe_requested
    paused,     \* SharedPipeline.paused
    engine,     \* set_paused: the next statement
    whole,      \* history: what the decoder lacks of the next reference
    orphaned,   \* history: the decoder desynchronised without a request
    faults,
    pauses

vars == <<receiver, needed, commands, events, feedback, channel, consumer,
          queue, decoder, desynced, requested, paused, engine, whole, orphaned,
          faults, pauses>>

-----------------------------------------------------------------------------
Gaps == {"none", "paused", "lost"}
FrameSet == [key : BOOLEAN, contiguous : BOOLEAN, gap : Gaps]
NoFrame == [key |-> FALSE, contiguous |-> FALSE, gap |-> "none"]
Idle == [at |-> "idle", frame |-> NoFrame]

\* The frames, and the places they pass.
FramesTyped ==
    /\ receiver \in [state : {"Running", "Paused", "RecoveryRequired"},
                     contiguous : BOOLEAN, undelivered : BOOLEAN, gap : Gaps]
    /\ channel \in Seq(FrameSet) /\ Len(channel) <= ChannelLimit
    /\ consumer \in [at : {"idle", "push"}, frame : FrameSet]
    /\ queue \in [frames : Seq(FrameSet), waiting : BOOLEAN, pending : BOOLEAN,
                  gap : Gaps]
    /\ Len(queue.frames) <= QueueLimit
    /\ decoder \in [at : {"idle", "gate", "decode"}, frame : FrameSet]

TypeOK ==
    /\ FramesTyped
    /\ needed \in BOOLEAN /\ feedback \in BOOLEAN
    /\ commands \in Seq({"Pause", "Resume", "Recover"})
    /\ events \subseteq {"PacketGap", "Backpressured", "Timeout"}
    /\ desynced \in BOOLEAN /\ requested \in BOOLEAN /\ paused \in BOOLEAN
    /\ engine \in {"idle", "clear", "desync", "forget"}
    /\ whole \in Gaps /\ orphaned \in BOOLEAN
    /\ faults \in 0..MaxFaults /\ pauses \in 0..MaxPauses

Init ==
    /\ receiver = [state |-> "Running", contiguous |-> TRUE,
                   undelivered |-> FALSE, gap |-> "none"]
    /\ needed = FALSE /\ feedback = FALSE
    /\ commands = <<>> /\ events = {} /\ channel = <<>>
    /\ consumer = Idle /\ decoder = Idle
    /\ queue = [frames |-> <<>>, waiting |-> TRUE, pending |-> FALSE,
                gap |-> "none"]
    /\ desynced = TRUE /\ requested = FALSE
    /\ paused = FALSE /\ engine = "idle"
    /\ whole = "lost" /\ orphaned = FALSE
    /\ faults = 0 /\ pauses = 0

\* A disturbance: there are at most MaxFaults of them, the pauses included.
Fault == faults + pauses < MaxFaults /\ faults' = faults + 1

-----------------------------------------------------------------------------
(* The receiver worker.                                                     *)

\* Mutant: a delivery that forgets the gap as soon as the keyframe is requested.
AssembleForgetsGap(key) ==
    /\ receiver.state = "Running"
    /\ needed' = (needed /\ ~key)
    /\ \/ /\ Len(channel) < ChannelLimit
          /\ channel' = Append(channel, [key |-> key, gap |-> receiver.gap,
                                         contiguous |-> receiver.contiguous])
          /\ receiver' = [receiver EXCEPT !.contiguous = TRUE, !.gap = "none"]
          /\ UNCHANGED <<events, faults>>
       \/ /\ Len(channel) = ChannelLimit /\ Fault
          /\ receiver' = [receiver EXCEPT !.contiguous = TRUE, !.gap = "lost"]
          /\ events' = events \cup {"Backpressured"}
          /\ UNCHANGED channel
    /\ UNCHANGED <<commands, feedback, consumer, queue, decoder, desynced,
                   requested, paused, engine, whole, orphaned, pauses>>

\* process_datagram completes a frame; forward_receive_event delivers it, or
\* finds the channel full and remembers the gap until a frame gets through.
Assemble(key) ==
    /\ receiver.state = "Running"
    /\ needed' = (needed /\ ~key)
    /\ \/ /\ Len(channel) < ChannelLimit
          /\ channel' = Append(channel,
                [key |-> key, gap |-> receiver.gap,
                 contiguous |-> receiver.contiguous /\ ~receiver.undelivered])
          /\ receiver' = [receiver EXCEPT !.contiguous = TRUE,
                                          !.undelivered = FALSE,
                                          !.gap = "none"]
          /\ UNCHANGED <<events, faults>>
       \/ /\ Len(channel) = ChannelLimit /\ Fault
          /\ receiver' = [receiver EXCEPT !.contiguous = TRUE,
                                          !.undelivered = TRUE,
                                          !.gap = "lost"]
          /\ events' = events \cup {"Backpressured"}
          /\ UNCHANGED channel
    /\ UNCHANGED <<commands, feedback, consumer, queue, decoder, desynced,
                   requested, paused, engine, whole, orphaned, pauses>>

\* A gap that was given up: invalidate_picture, and the event.
LoseFrame ==
    /\ receiver.state = "Running" /\ Fault
    /\ receiver' = [receiver EXCEPT !.contiguous = FALSE, !.gap = "lost"]
    /\ needed' = TRUE
    /\ events' = events \cup {"PacketGap"}
    /\ UNCHANGED <<commands, feedback, channel, consumer, queue, decoder,
                   desynced, requested, paused, engine, whole, orphaned, pauses>>

\* reset_media_state and a new state.
ResetTo(state) ==
    receiver' = [receiver EXCEPT !.state = state, !.contiguous = FALSE,
                                 !.gap = "lost"]

PollTimeout ==
    /\ receiver.state = "Running" /\ Fault
    /\ ResetTo("RecoveryRequired")
    /\ events' = events \cup {"Timeout"}
    /\ UNCHANGED <<needed, commands, feedback, channel, consumer, queue,
                   decoder, desynced, requested, paused, engine, whole,
                   orphaned, pauses>>

\* pause, resume and recover do nothing in another state than their own.
Applies(command) ==
    receiver.state = CASE command = "Pause" -> "Running"
                       [] command = "Resume" -> "Paused"
                       [] command = "Recover" -> "RecoveryRequired"

TakeCommand ==
    /\ commands # <<>>
    /\ commands' = Tail(commands)
    /\ IF Applies(Head(commands))
       THEN ResetTo(IF Head(commands) = "Pause" THEN "Paused" ELSE "Running")
       ELSE UNCHANGED receiver
    /\ UNCHANGED <<needed, events, feedback, channel, consumer, queue, decoder,
                   desynced, requested, paused, engine, whole, orphaned, faults,
                   pauses>>

-----------------------------------------------------------------------------
(* The session worker: forward_nvst_event and forward_nvst_media_feedback.  *)

\* Mutant: a frame dropped at the full channel is only logged.
HandleEventLogsDrop(e) ==
    /\ e \in events
    /\ events' = events \ {e}
    /\ needed' = (needed \/ e # "Backpressured")
    /\ commands' = IF e = "Timeout" THEN Append(commands, "Recover") ELSE commands
    /\ UNCHANGED <<receiver, feedback, channel, consumer, queue, decoder,
                   desynced, requested, paused, engine, whole, orphaned, faults,
                   pauses>>

\* Every event asks for a keyframe; a timeout also starts the recovery, the
\* limit of which is StreamEngine's.
HandleEvent(e) ==
    /\ e \in events
    /\ events' = events \ {e}
    /\ needed' = TRUE
    /\ commands' = IF e = "Timeout" THEN Append(commands, "Recover") ELSE commands
    /\ UNCHANGED <<receiver, feedback, channel, consumer, queue, decoder,
                   desynced, requested, paused, engine, whole, orphaned, faults,
                   pauses>>

HandleFeedback ==
    /\ feedback
    /\ feedback' = FALSE /\ needed' = TRUE
    /\ UNCHANGED <<receiver, commands, events, channel, consumer, queue,
                   decoder, desynced, requested, paused, engine, whole,
                   orphaned, faults, pauses>>

-----------------------------------------------------------------------------
(* The media consumer and the VideoQueue.                                   *)
\* A frame is left behind a frame that the pause has not cleared away yet.
Skipped(gap, waiting) == IF waiting \/ gap = "lost" THEN "lost" ELSE "paused"

\* MediaSink::push reads paused; the queue is locked later.
ConsumerTake ==
    /\ consumer.at = "idle" /\ channel # <<>>
    /\ channel' = Tail(channel)
    /\ IF paused
       THEN /\ queue' = [queue EXCEPT !.gap = Skipped(@, queue.waiting)]
            /\ UNCHANGED consumer
       ELSE /\ consumer' = [at |-> "push", frame |-> Head(channel)]
            /\ UNCHANGED queue
    /\ UNCHANGED <<receiver, needed, commands, events, feedback, decoder,
                   desynced, requested, paused, engine, whole, orphaned,
                   faults, pauses>>

\* invalidate_locked.
EmptyQueue == [frames |-> <<>>, waiting |-> TRUE, pending |-> FALSE,
                  gap |-> "lost"]

\* VideoQueue::push: the queue it leaves, and whether a keyframe is requested.
Refuse(q) == [queue |-> [q EXCEPT !.pending = TRUE, !.gap = "lost"],
              request |-> ~q.pending]

Admit(q, f) ==
    LET base == IF q.waiting /\ q.frames # <<>> THEN EmptyQueue ELSE q
    IN  [queue |-> [frames |-> Append(base.frames,
                                  [key |-> f.key,
                                   gap |-> IF f.gap = "none" THEN base.gap ELSE f.gap,
                                   contiguous |-> f.contiguous /\ ~q.waiting]),
                    waiting |-> FALSE, pending |-> FALSE, gap |-> "none"],
         request |-> FALSE]

QueuePush(q, f) ==
    LET full == Len(q.frames) = QueueLimit
        breaks == ~q.waiting /\ (~f.contiguous \/ full)
        keeps == /\ breaks /\ f.contiguous /\ ~f.key
                 /\ \E k \in DOMAIN q.frames : q.frames[k].key
        rest == IF breaks THEN EmptyQueue ELSE q
    IN  IF keeps THEN [queue |-> [q EXCEPT !.waiting = TRUE, !.pending = TRUE,
                                           !.gap = "lost"],
                       request |-> TRUE]
        ELSE IF rest.waiting /\ ~f.key THEN Refuse(rest) ELSE Admit(rest, f)

ConsumerPush ==
    /\ consumer.at = "push"
    /\ LET result == QueuePush(queue, consumer.frame)
       IN  /\ queue' = result.queue
           /\ feedback' = (feedback \/ result.request)
    /\ IF ~queue.waiting /\ Len(queue.frames) = QueueLimit THEN Fault
       ELSE UNCHANGED faults
    /\ consumer' = Idle
    /\ UNCHANGED <<receiver, needed, commands, events, channel, decoder,
                   desynced, requested, paused, engine, whole, orphaned, pauses>>

-----------------------------------------------------------------------------
(* The software decoder.                                                    *)
DecoderPop ==
    /\ decoder.at = "idle" /\ queue.frames # <<>>
    /\ decoder' = [at |-> "gate", frame |-> Head(queue.frames)]
    /\ queue' = [queue EXCEPT !.frames = Tail(@)]
    /\ UNCHANGED <<receiver, needed, commands, events, feedback, channel,
                   consumer, desynced, requested, paused, engine, whole,
                   orphaned, faults, pauses>>

\* paused and video_desynced are read before the frame is decoded.
DecoderGate ==
    /\ decoder.at = "gate"
    /\ LET f == decoder.frame
           lost == desynced \/ ~f.contiguous
       IN  IF paused
           THEN decoder' = Idle /\ whole' = "paused" /\ UNCHANGED desynced
           ELSE /\ desynced' = lost
                /\ IF lost /\ ~f.key
                   THEN decoder' = Idle /\ whole' = "lost"
                   ELSE /\ decoder' = [decoder EXCEPT !.at = "decode"]
                        /\ UNCHANGED whole
    /\ UNCHANGED <<receiver, needed, commands, events, feedback, channel,
                   consumer, queue, requested, paused, engine, orphaned, faults,
                   pauses>>

\* A frame decodes to a picture, or is taken in without one; then the request
\* that was made for it still suppresses the next.
DecoderAccepts(picture) ==
    /\ decoder.at = "decode"
    /\ desynced' = (desynced /\ ~decoder.frame.key)
    /\ requested' = (requested /\ ~picture)
    /\ whole' = "none" /\ orphaned' = (orphaned /\ desynced')
    /\ decoder' = Idle
    /\ UNCHANGED <<receiver, needed, commands, events, feedback, channel,
                   consumer, queue, paused, engine, faults, pauses>>

\* Mutant: the flag is set, but the request goes out only for a keyframe.
DecoderRefusesSilently ==
    /\ decoder.at = "decode" /\ Fault
    /\ desynced' = TRUE
    /\ requested' = TRUE
    /\ feedback' = (feedback \/ (~requested /\ decoder.frame.key))
    /\ whole' = "lost"
    /\ orphaned' = requested
    /\ decoder' = Idle
    /\ UNCHANGED <<receiver, needed, commands, events, channel, consumer,
                   queue, paused, engine, pauses>>

\* A failed reset or decode asks for a keyframe, unless one was asked for
\* since the last picture.  A failed reset leaves video_desynced set.
DecoderRefuses ==
    /\ decoder.at = "decode" /\ Fault
    /\ desynced' = TRUE
    /\ requested' = TRUE /\ feedback' = (feedback \/ ~requested)
    /\ whole' = "lost"
    /\ orphaned' = requested
    /\ decoder' = Idle
    /\ UNCHANGED <<receiver, needed, commands, events, channel, consumer,
                   queue, paused, engine, pauses>>

-----------------------------------------------------------------------------
(* The engine: MediaSession::set_paused, then the transport is told.        *)
SetPaused ==
    /\ engine = "idle"
    /\ paused \/ (pauses < MaxPauses /\ faults + pauses < MaxFaults)
    /\ paused' = ~paused
    /\ pauses' = IF paused THEN pauses ELSE pauses + 1
    /\ engine' = "clear"
    /\ UNCHANGED <<receiver, needed, commands, events, feedback, channel,
                   consumer, queue, decoder, desynced, requested, whole,
                   orphaned, faults>>

ClearQueue ==
    /\ engine = "clear"
    /\ queue' = EmptyQueue
    /\ IF paused THEN engine' = "idle" /\ commands' = Append(commands, "Pause")
       ELSE engine' = "desync" /\ UNCHANGED commands
    /\ UNCHANGED <<receiver, needed, events, feedback, channel, consumer,
                   decoder, desynced, requested, paused, whole, orphaned,
                   faults, pauses>>

\* The keyframe that ended the wait may have been decoded since the queue was
\* cleared; the decoder then waits for another one.
MarkDesynced ==
    /\ engine = "desync"
    /\ desynced' = TRUE /\ engine' = "forget"
    /\ orphaned' = (orphaned \/ (~desynced /\ ~queue.waiting))
    /\ UNCHANGED <<receiver, needed, commands, events, feedback, channel,
                   consumer, queue, decoder, requested, paused, whole, faults,
                   pauses>>

ForgetRequest ==
    /\ engine = "forget"
    /\ requested' = FALSE /\ engine' = "idle"
    /\ commands' = Append(commands, "Resume")
    /\ UNCHANGED <<receiver, needed, events, feedback, channel, consumer,
                   queue, decoder, desynced, paused, whole, orphaned, faults,
                   pauses>>

-----------------------------------------------------------------------------
Worker == (\E e \in events : HandleEvent(e)) \/ HandleFeedback
Consumer == ConsumerTake \/ ConsumerPush
Decoder == DecoderPop \/ DecoderGate \/ \E picture \in BOOLEAN : DecoderAccepts(picture)
Engine == ClearQueue \/ MarkDesynced \/ ForgetRequest

Next ==
    \/ \E key \in BOOLEAN : Assemble(key)
    \/ LoseFrame \/ PollTimeout \/ TakeCommand
    \/ Worker \/ Consumer \/ Decoder \/ DecoderRefuses
    \/ SetPaused \/ Engine

Spec == Init /\ [][Next]_vars

\* Every thread keeps running.  The server keeps sending frames, and one of
\* them is a keyframe as long as the client repeats its request for one.
FairSpec ==
    /\ Spec
    /\ WF_vars(TakeCommand) /\ WF_vars(Worker)
    /\ WF_vars(Consumer) /\ WF_vars(Decoder) /\ WF_vars(Engine)
    /\ SF_vars(Assemble(FALSE)) /\ SF_vars(needed /\ Assemble(TRUE))

-----------------------------------------------------------------------------
\* The decoder is never fed a delta whose reference was lost: whatever did not
\* arrive, was dropped at a full channel or queue, or was refused, the first
\* frame after it that is decoded is a keyframe.  Excepted is what the pause
\* skips behind a frame that passed MediaSink::push while the pause began.
DecoderChain ==
    decoder.at = "decode" /\ ~decoder.frame.key
        => whole # "lost" /\ decoder.frame.gap # "lost"

\* A frame that has lost its predecessor says so.
Marked(f) == f.gap = "lost" => ~f.contiguous

\* Why the chain holds: every place a frame passes keeps the mark, or keeps the
\* place from taking anything but a keyframe.
GapsAreMarked ==
    /\ receiver.gap = "lost" => ~receiver.contiguous \/ receiver.undelivered
    /\ \A k \in 1..Len(channel) : Marked(channel[k])
    /\ consumer.at = "push" => Marked(consumer.frame)
    /\ queue.gap = "lost" => queue.waiting
    /\ \A k \in 1..Len(queue.frames) : Marked(queue.frames[k])
    /\ decoder.at = "gate" => Marked(decoder.frame)
    /\ whole = "lost" => desynced

\* The inductive form of DecoderChain.
ChainInv == FramesTyped /\ GapsAreMarked /\ DecoderChain

KeyframeIn(frames) == \E k \in DOMAIN frames : frames[k].key

\* A keyframe, or a request for one, is under way to the queue.
KeyframeUnderWay ==
    \/ needed \/ feedback \/ events \cap {"PacketGap", "Backpressured"} # {}
    \/ KeyframeIn(channel)
    \/ consumer.at # "idle" /\ consumer.frame.key

\* A queue that has stopped asking for a keyframe still gets one: the request
\* or its answer is under way, except while the pause discards frames.
WaitingQueueIsServed ==
    queue.waiting /\ queue.pending /\ ~paused /\ engine = "idle"
        => KeyframeUnderWay

\* The inductive form of WaitingQueueIsServed: from the moment a resume has
\* cleared the queue.
ServedInv ==
    /\ needed \in BOOLEAN /\ feedback \in BOOLEAN
    /\ queue.waiting /\ queue.pending /\ ~paused /\ engine # "clear"
          => KeyframeUnderWay

\* A keyframe is on its way to the decoder, or the queue will see to it.
KeyframeComing ==
    \/ KeyframeUnderWay \/ events # {} \/ queue.waiting
    \/ KeyframeIn(queue.frames)
    \/ decoder.at # "idle" /\ decoder.frame.key

\* The picture comes back: from any loss the decoder gets, again and again, to
\* where it lacks no reference, unless the stream is paused.  Excepted is a
\* decoder that desynchronised without a request while no keyframe was coming:
\* request_software_keyframe was silent because keyframe_requested was still
\* set, by a request whose keyframe was refused too or was taken in without a
\* picture (Ok(None) does not clear it), or a resume marked the decoder
\* desynchronised after it had decoded the keyframe the queue had waited for.
PictureResumes ==
    []<>(whole = "none" \/ paused \/ (orphaned /\ ~KeyframeComing))
=============================================================================
