---------------------------- MODULE StreamEngine ----------------------------
(***************************************************************************)
(* The native streamer's Engine (opennow-streamer-core/src/lib.rs): one    *)
(* engine thread runs the commands start, stop, shutdown, nvst-bind,       *)
(* nvst-unbind, clip-save, replay-stop, recording-start, recording-stop    *)
(* and microphone-set; the session it starts is a set of threads: the      *)
(* bundle and Mjolnir receivers of the transport, the media consumer, the  *)
(* lifecycle worker that turns their events into state, the microphone     *)
(* pump, a recording and a replay export.  The threads share the lifecycle *)
(* (state, context, generation) under one mutex, and nothing else.         *)
(*                                                                         *)
(* An action is a stretch of one thread between two points where another   *)
(* thread can see or change what it uses.  A join is the guard that the    *)
(* thread has ended.  Sockets, codecs and payloads are left out; a call    *)
(* that may fail chooses its outcome.                                      *)
(***************************************************************************)
EXTENDS Integers

CONSTANTS
    MaxGeneration,   \* bound on the generations a run goes through
    MaxExtras,       \* bound on clip, recording and microphone commands
    RecoveryLimit    \* NVST_RECOVERY_ATTEMPT_LIMIT

ASSUME EngineAssumption ==
    MaxGeneration \in Nat /\ MaxExtras \in Nat /\ RecoveryLimit \in Nat

VARIABLES
    pc,       \* program point of the engine thread
    then,     \* where stop or stop_media_resources returns to
    wasUp,    \* was_active of the stop in progress
    plan,     \* what the start in progress was asked for
    life,     \* Lifecycle: state, whether there is a context, generation
    held,     \* what the Engine holds: threads it will join, sockets, RTSP
    alive,    \* threads that run
    told,     \* receivers whose command channel holds a Stop
    ending,   \* the bundle, between its last event and its end
    senders,  \* who holds a clone of the media consumer's sender
    sink,     \* whether the media session's sink is open
    hid,      \* HidRuntime: whether an endpoint is open, generation bound
    worker,   \* lifecycle worker: point, generation, recovery_attempts
    final,    \* whether the event channel holds a receiver's last event
    clip,     \* replay export: point, generation, cancelled, saved file
    mic,      \* MicrophoneController::enabled
    tap,      \* whether a recording is subscribed to the media session
    extras,   \* clip, recording and microphone commands so far
    log       \* history: what was reported of the session

engineVars == <<pc, then, wasUp, plan>>
threadVars == <<held, alive, told, ending, senders, sink>>
workerVars == <<worker, final>>
sideVars == <<clip, mic, tap, extras>>
vars == <<pc, then, wasUp, plan, life, held, alive, told, ending, senders,
          sink, hid, worker, final, clip, mic, tap, extras,
          log>>

-----------------------------------------------------------------------------
Receivers == {"bundle", "mjolnir"}
SessionThreads == Receivers \cup {"media", "worker", "mic", "recording"}
Threads == SessionThreads \cup {"clip"}

\* reserved_nvst_bundle, and nvst_hole_punch_socket: a clone of its socket for
\* nvst-send, kept once a start has taken the reservation.
Sockets == {"reserved", "punch"}

\* What a start is asked for: native-owned negotiation, a Mjolnir video
\* socket (which native-owned negotiation always has), an available
\* microphone.  `socket` is start's local reserved_mjolnir.
Plans == [owned : BOOLEAN, mjolnir : BOOLEAN, mic : BOOLEAN, socket : BOOLEAN]
NoPlan == [owned |-> FALSE, mjolnir |-> FALSE, mic |-> FALSE, socket |-> FALSE]

Points == {"ready", "negotiate", "drop mic", "media", "announce", "spawn",
           "mjolnir", "activate", "bind hid", "spawn worker", "play", "tail",
           "stop", "lock", "join bundle", "join mjolnir", "release", "join mic",
           "join recording", "join media", "join worker", "unlock",
           "end recording", "mute", "unmute", "drop", "closed"}

Returns == {"ready", "media", "unlock", "drop", "closed", "unmute"}

TypeOK ==
    /\ pc \in Points /\ then \in Returns /\ wasUp \in BOOLEAN /\ plan \in Plans
    /\ life \in [state : {"Idle", "Connected"}, context : BOOLEAN,
                 generation : 0..MaxGeneration]
    /\ held \in SUBSET (Threads \cup Sockets \cup {"rtsp"})
    /\ alive \in SUBSET Threads
    /\ told \in SUBSET Receivers
    /\ ending \in BOOLEAN
    /\ senders \in SUBSET (Receivers \cup {"engine", "start"})
    /\ sink \in BOOLEAN
    /\ hid \in [open : BOOLEAN, bound : 0..MaxGeneration]
    /\ worker \in [at : {"loop", "running", "terminal", "report"},
                   generation : 0..MaxGeneration,
                   attempts : 0..RecoveryLimit]
    /\ final \in BOOLEAN
    /\ clip \in [at : {"none", "export", "deliver"},
                 generation : 0..MaxGeneration, cancelled : BOOLEAN,
                 saved : BOOLEAN, reported : {"no", "saved", "failed"}]
    /\ mic \in BOOLEAN /\ tap \in BOOLEAN /\ extras \in 0..MaxExtras
    /\ log \in [ready : BOOLEAN, stops : 0..2, ghost : BOOLEAN]

Init ==
    /\ pc = "ready" /\ then = "ready" /\ wasUp = FALSE /\ plan = NoPlan
    /\ life = [state |-> "Idle", context |-> FALSE, generation |-> 0]
    /\ held = {} /\ alive = {} /\ told = {} /\ ending = FALSE /\ senders = {}
    /\ sink = FALSE
    /\ hid = [open |-> FALSE, bound |-> 0]
    /\ worker = [at |-> "loop", generation |-> 0, attempts |-> 0]
    /\ final = FALSE
    /\ clip = [at |-> "none", generation |-> 0, cancelled |-> FALSE,
               saved |-> FALSE, reported |-> "no"]
    /\ mic = FALSE /\ tap = FALSE /\ extras = 0
    /\ log = [ready |-> FALSE, stops |-> 0, ghost |-> FALSE]

-----------------------------------------------------------------------------
(* Reservation commands.                                                   *)

\* nvst_bind: reserve the sockets unless they already are.
NvstBind ==
    /\ pc = "ready" /\ "reserved" \notin held
    /\ held' = held \cup {"reserved"}
    /\ UNCHANGED <<engineVars, life, alive, told, ending, senders, sink, hid,
                   workerVars, sideVars, log>>

\* nvst_unbind: refused while the session is up or holds a receiver.
NvstUnbind ==
    /\ pc = "ready" /\ held \cap Sockets # {}
    /\ life.state = "Idle" /\ held \cap Receivers = {}
    /\ held' = held \ Sockets
    /\ UNCHANGED <<engineVars, life, alive, told, ending, senders, sink, hid,
                   workerVars, sideVars, log>>

-----------------------------------------------------------------------------
(* stop, and the stop_media_resources that start uses too.  `then` is the  *)
(* caller's next point.                                                    *)

GoTo(p) == pc' = p /\ UNCHANGED <<then, wasUp, plan>>

\* Send Stop to the receiver, whose handle stop or start has taken.
Tell(r) == told' = IF r \in held \cap alive THEN told \cup {r} ELSE told

\* Every event send is a try_send whose failure is ignored: the history
\* records that the report was made, not that the host read it.
ReportStop == log' = [log EXCEPT !.stops = IF @ < 2 THEN @ + 1 ELSE @]

\* clip_cancelled of the export that runs.
Cancel == clip' = [clip EXCEPT !.cancelled = "clip" \in alive]

\* stop: cancel the export, unbind the HID session.
StopBegin ==
    /\ pc = "stop"
    /\ Cancel
    /\ hid' = [hid EXCEPT !.bound = 0]
    /\ GoTo("lock")
    /\ UNCHANGED <<life, threadVars, workerVars, mic, tap, extras, log>>

\* stop: under the lifecycle lock the generation ends; then the bundle is
\* told to stop.  (The sockets that only this thread uses go too.)
StopLock ==
    /\ pc = "lock"
    /\ wasUp' = (life.state # "Idle")
    /\ life' = [state |-> "Idle", context |-> FALSE,
                generation |-> life.generation + 1]
    /\ held' = held \ Sockets
    /\ Tell("bundle")
    /\ pc' = "join bundle"
    /\ UNCHANGED <<then, plan, alive, ending, senders, sink, hid, workerVars, sideVars,
                   log>>

\* transport.stop(): the bundle has ended; Mjolnir is told to stop.
JoinBundle ==
    /\ pc = "join bundle" /\ ("bundle" \in held => "bundle" \notin alive)
    /\ held' = held \ {"bundle"}
    /\ Tell("mjolnir")
    /\ GoTo("join mjolnir")
    /\ UNCHANGED <<life, alive, ending, senders, sink, hid, workerVars, sideVars, log>>

\* Mutant: the handle of Mjolnir is dropped, which sends Stop but joins nothing.
JoinMjolnirDropped ==
    /\ pc = "join mjolnir"
    /\ held' = held \ {"mjolnir", "rtsp"}
    /\ GoTo("release")
    /\ UNCHANGED <<life, alive, told, ending, senders, sink, hid, workerVars,
                   sideVars, log>>

\* Mjolnir has ended; the RTSP session is shut down.
JoinMjolnir ==
    /\ pc = "join mjolnir" /\ ("mjolnir" \in held => "mjolnir" \notin alive)
    /\ held' = held \ {"mjolnir", "rtsp"}
    /\ GoTo("release")
    /\ UNCHANGED <<life, alive, told, ending, senders, sink, hid, workerVars, sideVars,
                   log>>

\* stop_media_resources: stop_replay cancels the export under the lifecycle
\* lock; dropping the controller stops its capture.
Release ==
    /\ pc = "release"
    /\ Cancel
    /\ mic' = FALSE
    /\ GoTo("join mic")
    /\ UNCHANGED <<life, threadVars, hid, workerVars, tap, extras, log>>

\* The pump has ended; stop_recording_inner unsubscribes the recording, if
\* there still is a media session.
JoinMic ==
    /\ pc = "join mic" /\ ("mic" \in held => "mic" \notin alive)
    /\ held' = held \ {"mic"}
    /\ tap' = (tap /\ "media" \notin held)
    /\ GoTo("join recording")
    /\ UNCHANGED <<life, alive, told, ending, senders, sink, hid, workerVars, clip, mic,
                   extras, log>>

\* Mutant: the media consumer's thread is joined before its sender is dropped.
JoinRecordingKeepsSender ==
    /\ pc = "join recording" /\ ("recording" \in held => "recording" \notin alive)
    /\ held' = held \ {"recording"}
    /\ sink' = FALSE
    /\ GoTo("join media")
    /\ UNCHANGED <<life, alive, told, ending, senders, hid, workerVars, sideVars,
                   log>>

\* The recording has ended; the media consumer is dropped and its session
\* stopped.
JoinRecording ==
    /\ pc = "join recording" /\ ("recording" \in held => "recording" \notin alive)
    /\ held' = held \ {"recording"}
    /\ senders' = senders \ {"engine"}
    /\ sink' = FALSE
    /\ GoTo("join media")
    /\ UNCHANGED <<life, alive, told, ending, hid, workerVars, sideVars, log>>

JoinMedia ==
    /\ pc = "join media" /\ ("media" \in held => "media" \notin alive)
    /\ held' = held \ {"media"}
    /\ GoTo("join worker")
    /\ UNCHANGED <<life, alive, told, ending, senders, sink, hid, workerVars, sideVars,
                   log>>

\* The lifecycle worker has ended.  A stop that ended a session reports it;
\* the caller goes on.
JoinWorker ==
    /\ pc = "join worker" /\ ("worker" \in held => "worker" \notin alive)
    /\ held' = held \ {"worker"}
    /\ pc' = then
    /\ senders' = senders \ {"start"}
    /\ wasUp' = FALSE
    /\ IF wasUp THEN ReportStop ELSE UNCHANGED log
    /\ UNCHANGED <<then, plan, life, alive, told, ending, sink, hid, workerVars,
                   sideVars>>

\* The commands stop and shutdown.  Shutdown drops the Engine: stop again,
\* then join the export.
Stop ==
    /\ pc = "ready" /\ life.generation < MaxGeneration
    /\ pc' = "stop" /\ then' = "ready"
    /\ UNCHANGED <<wasUp, plan, life, threadVars, hid, workerVars, sideVars, log>>

Shutdown ==
    /\ pc = "ready" /\ life.generation + 1 < MaxGeneration
    /\ pc' = "stop" /\ then' = "drop"
    /\ UNCHANGED <<wasUp, plan, life, threadVars, hid, workerVars, sideVars, log>>

Drop ==
    /\ pc = "drop"
    /\ pc' = "stop" /\ then' = "closed"
    /\ UNCHANGED <<wasUp, plan, life, threadVars, hid, workerVars, sideVars, log>>

DropExport ==
    /\ pc = "closed" /\ "clip" \in held /\ "clip" \notin alive
    /\ held' = held \ {"clip"}
    /\ UNCHANGED <<engineVars, life, alive, told, ending, senders, sink, hid,
                   workerVars, sideVars, log>>

-----------------------------------------------------------------------------
(* start, from the Idle check to the answer.                               *)

\* A start that fails answers the error.
Refused == pc' = "ready" /\ plan' = NoPlan /\ UNCHANGED <<then, wasUp>>

\* Stop the bundle and Mjolnir if held, then stop_media_resources, then p.
TearDown(p) ==
    /\ Tell("bundle")
    /\ pc' = "join bundle" /\ then' = p
    /\ UNCHANGED wasUp

Start(p) ==
    /\ pc = "ready" /\ life.state = "Idle"
    /\ ~p.socket /\ (p.owned => p.mjolnir)
    /\ life.generation + 2 <= MaxGeneration
    /\ plan' = p
    /\ pc' = IF p.owned THEN "negotiate" ELSE "drop mic"
    /\ mic' = IF p.owned THEN mic ELSE FALSE
    /\ UNCHANGED <<then, wasUp, life, threadVars, hid, workerVars, clip, tap, extras, log>>

\* Reserve the sockets if need be and negotiate over RTSP; a hand-over that
\* is refused after it leaves the reservation.
Negotiate ==
    /\ pc = "negotiate"
    /\ \/ /\ held' = held \cup {"reserved"}
          /\ mic' = FALSE
          /\ GoTo("drop mic")
       \/ /\ held' = held \cup {"reserved"}
          /\ Refused
          /\ UNCHANGED mic
       \/ /\ held' = held \ {"reserved"}
          /\ Refused
          /\ UNCHANGED mic
    /\ UNCHANGED <<life, alive, told, ending, senders, sink, hid, workerVars,
                   clip, tap, extras, log>>

\* The controller of the previous session is dropped, its pump has ended;
\* what else is left of that session is torn down before the new one.
DropMic ==
    /\ pc = "drop mic" /\ "mic" \notin alive
    /\ held' = held \ {"mic"}
    /\ TearDown("media")
    /\ UNCHANGED <<plan, life, alive, ending, senders, sink, hid, workerVars,
                   sideVars, log>>

\* The media session and the media consumer's thread.
StartMedia ==
    /\ pc = "media"
    /\ \/ /\ held' = held \cup {"media"}
          /\ alive' = alive \cup {"media"}
          /\ senders' = senders \cup {"engine"}
          /\ sink' = TRUE
          /\ GoTo(IF plan.owned THEN "announce" ELSE "spawn")
       \/ Refused /\ UNCHANGED <<held, alive, senders, sink>>
    /\ UNCHANGED <<life, told, ending, hid, workerVars, sideVars, log>>

Announce ==
    /\ pc = "announce"
    /\ \/ GoTo("spawn") /\ UNCHANGED held
       \/ /\ held' = held \ {"reserved"}
          /\ pc' = "release" /\ then' = "ready" /\ plan' = NoPlan
          /\ UNCHANGED wasUp
    /\ UNCHANGED <<life, alive, told, ending, senders, sink, hid, workerVars,
                   sideVars, log>>

\* start takes the reservation, if there is one, and keeps a clone of its
\* socket (a clone that fails only leaves less behind); without a reservation
\* an older clone stays.
ReservationTaken ==
    IF "reserved" \in held THEN (held \ {"reserved"}) \cup {"punch"} ELSE held

\* The bundle receiver, on the reserved socket if there is one; it opens its
\* HID endpoint before its thread runs.  start keeps a clone of the sender.
SpawnBundle ==
    /\ pc = "spawn"
    /\ \/ /\ held' = ReservationTaken \cup {"bundle"}
          /\ alive' = alive \cup {"bundle"}
          /\ senders' = senders \cup {"start", "bundle"}
          /\ hid' = [hid EXCEPT !.open = TRUE]
          /\ final' = FALSE
          /\ plan' = [plan EXCEPT !.socket = "reserved" \in held]
          /\ pc' = IF plan.mjolnir THEN "mjolnir" ELSE "activate"
          /\ UNCHANGED <<then, wasUp>>
       \/ /\ held' = ReservationTaken
          /\ pc' = "release" /\ then' = "ready" /\ plan' = NoPlan
          /\ UNCHANGED <<wasUp, alive, senders, hid, final>>
    /\ UNCHANGED <<life, told, ending, sink, worker, sideVars, log>>

\* Mjolnir's receiver takes start's clone of the sender.  It uses the reserved
\* socket, or one that is bound now: if that bind fails, start tears down
\* while it still holds the clone; if the spawn fails, the clone is gone.
SpawnMjolnir ==
    /\ pc = "mjolnir"
    /\ \/ /\ held' = held \cup {"mjolnir"}
          /\ alive' = alive \cup {"mjolnir"}
          /\ senders' = (senders \ {"start"}) \cup {"mjolnir"}
          /\ GoTo("activate")
          /\ UNCHANGED told
       \/ /\ senders' = senders \ {"start"}
          /\ TearDown("ready") /\ plan' = NoPlan
          /\ UNCHANGED <<held, alive>>
       \/ /\ ~plan.socket
          /\ TearDown("ready") /\ plan' = NoPlan
          /\ UNCHANGED <<held, alive, senders>>
    /\ UNCHANGED <<life, ending, sink, hid, workerVars, sideVars, log>>

\* Under the lifecycle lock the session becomes the current one.
Activate ==
    /\ pc = "activate"
    /\ senders' = senders \ {"start"}
    /\ life' = [state |-> "Connected", context |-> TRUE,
                generation |-> life.generation + 1]
    /\ log' = [ready |-> FALSE, stops |-> 0, ghost |-> FALSE]
    /\ GoTo("bind hid")
    /\ UNCHANGED <<held, alive, told, ending, sink, hid, workerVars, sideVars>>

\* bind_session fails if the bundle's endpoint is closed.
BindHid ==
    /\ pc = "bind hid"
    /\ IF hid.open
       THEN /\ hid' = [hid EXCEPT !.bound = life.generation]
            /\ GoTo("spawn worker")
       ELSE /\ pc' = "stop" /\ then' = "ready" /\ plan' = NoPlan
            /\ UNCHANGED <<hid, wasUp>>
    /\ UNCHANGED <<life, threadVars, workerVars, sideVars, log>>

SpawnWorker ==
    /\ pc = "spawn worker"
    /\ \/ /\ held' = held \cup {"worker"}
          /\ alive' = alive \cup {"worker"}
          /\ worker' = [at |-> "loop", generation |-> life.generation,
                        attempts |-> 0]
          /\ GoTo(IF plan.owned THEN "play" ELSE "tail")
          /\ UNCHANGED told
       \/ /\ TearDown("unlock") /\ plan' = NoPlan
          /\ UNCHANGED <<held, alive, worker>>
    /\ UNCHANGED <<life, ending, senders, sink, hid, final, sideVars, log>>

\* Mutant: the lifecycle keeps the session whose worker could not be spawned.
UnlockKeepsSession ==
    /\ pc = "unlock"
    /\ hid' = [hid EXCEPT !.bound = 0]
    /\ GoTo("ready")
    /\ UNCHANGED <<life, threadVars, workerVars, sideVars, log>>

\* The worker could not be spawned and all is torn down: the generation, which
\* only this thread advances, is still the one of this start.
Unlock ==
    /\ pc = "unlock"
    /\ life' = [life EXCEPT !.state = "Idle", !.context = FALSE]
    /\ hid' = [hid EXCEPT !.bound = 0]
    /\ GoTo("ready")
    /\ UNCHANGED <<threadVars, workerVars, sideVars, log>>

\* PLAY; then the bundle is released to send, unless it has gone.
Play ==
    /\ pc = "play"
    /\ \/ /\ held' = held \cup {"rtsp"}
          /\ \/ "bundle" \in alive /\ GoTo("tail")
             \/ /\ "bundle" \notin alive \/ ending
                /\ pc' = "stop" /\ then' = "ready" /\ plan' = NoPlan
                /\ UNCHANGED wasUp
       \/ /\ pc' = "stop" /\ then' = "ready" /\ plan' = NoPlan
          /\ UNCHANGED <<held, wasUp>>
    /\ UNCHANGED <<life, alive, told, ending, senders, sink, hid, workerVars,
                   sideVars, log>>

\* start_capture, under the lifecycle lock: only for the session that is up.
\* The device, the closed queue of an ended bundle or the spawn may fail it.
StartCapture ==
    \/ /\ life.state = "Connected" /\ life.generation = worker.generation
       /\ "bundle" \in alive
       /\ mic' = TRUE
       /\ alive' = alive \cup {"mic"}
    \/ UNCHANGED <<mic, alive>>

\* The microphone, the status "ready" and the answer.
StartTail ==
    /\ pc = "tail"
    /\ IF plan.mic
       THEN held' = held \cup {"mic"} /\ StartCapture
       ELSE UNCHANGED <<held, mic, alive>>
    /\ log' = [log EXCEPT !.ready = TRUE]
    /\ Refused
    /\ UNCHANGED <<life, told, ending, senders, sink, hid, workerVars, clip, tap, extras>>

-----------------------------------------------------------------------------
(* Commands of a running session.                                          *)

Extra == extras < MaxExtras /\ extras' = extras + 1

\* microphone-set: stop the capture, join the pump, perhaps capture again.
SetMicrophone(on) ==
    /\ pc = "ready" /\ life.state = "Connected" /\ "mic" \in held
    /\ ~(on /\ mic)
    /\ Extra
    /\ mic' = FALSE
    /\ pc' = "mute" /\ then' = IF on THEN "unmute" ELSE "ready"
    /\ UNCHANGED <<wasUp, plan, life, threadVars, hid, workerVars, clip, tap, log>>

Mute ==
    /\ pc = "mute" /\ "mic" \notin alive
    /\ GoTo(then)
    /\ UNCHANGED <<life, threadVars, hid, workerVars, sideVars, log>>

Unmute ==
    /\ pc = "unmute"
    /\ StartCapture
    /\ GoTo("ready")
    /\ UNCHANGED <<life, held, told, ending, senders, sink, hid, workerVars,
                   clip, tap, extras, log>>

\* recording-start; a recording that has ended is joined first.
StartRecording ==
    /\ pc = "ready" /\ "media" \in held /\ "recording" \notin alive
    /\ held' = held \cup {"recording"}
    /\ alive' = alive \cup {"recording"}
    /\ tap' = TRUE
    /\ Extra
    /\ UNCHANGED <<engineVars, life, told, ending, senders, sink, hid,
                   workerVars, clip, mic, log>>

\* recording-stop: unsubscribe, join.
StopRecording ==
    /\ pc = "ready" /\ "recording" \in held
    /\ tap' = (tap /\ "media" \notin held)
    /\ GoTo("end recording")
    /\ UNCHANGED <<life, threadVars, hid, workerVars, clip, mic, extras, log>>

EndRecording ==
    /\ pc = "end recording" /\ "recording" \notin alive
    /\ held' = held \ {"recording"}
    /\ GoTo("ready")
    /\ UNCHANGED <<life, alive, told, ending, senders, sink, hid, workerVars,
                   sideVars, log>>

\* clip-save: one export at a time, of the generation that is current.
SaveClip ==
    /\ pc = "ready" /\ "media" \in held /\ "clip" \notin alive
    /\ held' = held \cup {"clip"}
    /\ alive' = alive \cup {"clip"}
    /\ clip' = [at |-> "export", generation |-> life.generation,
                cancelled |-> FALSE, saved |-> FALSE, reported |-> "no"]
    /\ Extra
    /\ UNCHANGED <<engineVars, life, told, ending, senders, sink, hid,
                   workerVars, mic, tap, log>>

\* replay-stop
StopReplay ==
    /\ pc = "ready" /\ "media" \in held
    /\ Cancel
    /\ UNCHANGED <<engineVars, life, threadVars, hid, workerVars, mic, tap, extras, log>>

-----------------------------------------------------------------------------
(* The other threads.                                                      *)

Ends(t) == alive' = alive \ {t}

\* The channel of the events has a receiver: start's, then the worker's.
Listening == \/ "worker" \in alive
             \/ pc \in {"mjolnir", "activate", "bind hid", "spawn worker"}

SendFinal == final' = (final \/ Listening)

\* Every way out of the bundle's loop sends Lifecycle(Stopped) ...
BundleLeaves ==
    /\ "bundle" \in alive /\ ~ending
    /\ ending' = TRUE
    /\ SendFinal
    /\ UNCHANGED <<engineVars, life, held, alive, told, senders, sink, hid,
                   worker, sideVars, log>>

\* Mutant: the endpoint is closed but the HID session stays bound.
BundleEndsBound ==
    /\ ending
    /\ ending' = FALSE
    /\ Ends("bundle")
    /\ told' = told \ {"bundle"}
    /\ senders' = senders \ {"bundle"}
    /\ hid' = [hid EXCEPT !.open = FALSE]
    /\ UNCHANGED <<engineVars, life, held, sink, workerVars, sideVars, log>>

\* ... and then unbinds the HID session that is bound by then, drops its
\* channels and closes its endpoint.
BundleEnds ==
    /\ ending
    /\ ending' = FALSE
    /\ Ends("bundle")
    /\ told' = told \ {"bundle"}
    /\ senders' = senders \ {"bundle"}
    /\ hid' = [open |-> FALSE, bound |-> 0]
    /\ UNCHANGED <<engineVars, life, held, sink, workerVars, sideVars, log>>

\* Mutant: Mjolnir ends without its last event.
MjolnirEndsSilently ==
    /\ "mjolnir" \in alive
    /\ Ends("mjolnir")
    /\ told' = told \ {"mjolnir"}
    /\ senders' = senders \ {"mjolnir"}
    /\ UNCHANGED <<engineVars, life, held, ending, sink, hid, workerVars,
                   sideVars, log>>

MjolnirEnds ==
    /\ "mjolnir" \in alive
    /\ Ends("mjolnir")
    /\ told' = told \ {"mjolnir"}
    /\ senders' = senders \ {"mjolnir"}
    /\ SendFinal
    /\ UNCHANGED <<engineVars, life, held, ending, sink, hid, worker, sideVars,
                   log>>

\* A receiver whose frames nobody takes reports MediaConsumerClosed.
ConsumerClosed ==
    /\ alive \cap Receivers # {} /\ "media" \notin alive
    /\ SendFinal
    /\ UNCHANGED <<engineVars, life, threadVars, hid, worker, sideVars, log>>

\* consume_encoded_media ends when no sender is left, or when a frame meets a
\* closed sink.
MediaEnds ==
    /\ "media" \in alive
    /\ senders = {} \/ ~sink
    /\ Ends("media")
    /\ UNCHANGED <<engineVars, life, held, told, ending, senders, sink, hid,
                   workerVars, sideVars, log>>

\* The pump ends when it is disabled, when its session is not up any more, or
\* when the device or the transport fails.
PumpDone == ~mic \/ life.state # "Connected"
                 \/ life.generation # worker.generation

MicEnds ==
    /\ "mic" \in alive
    /\ mic' = FALSE
    /\ Ends("mic")
    /\ UNCHANGED <<engineVars, life, held, told, ending, senders, sink, hid,
                   workerVars, clip, tap, extras, log>>

\* record_matroska ends when it is unsubscribed, or fails.
RecordingEnds ==
    /\ "recording" \in alive
    /\ Ends("recording")
    /\ UNCHANGED <<engineVars, life, held, told, ending, senders, sink, hid,
                   workerVars, sideVars, log>>

ExportClip ==
    /\ clip.at = "export"
    /\ \E saved \in BOOLEAN : clip' = [clip EXCEPT !.at = "deliver", !.saved = saved]
    /\ UNCHANGED <<engineVars, life, threadVars, hid, workerVars, mic, tap, extras, log>>

\* Mutant: the state of the lifecycle is not looked at.
ClipIsOfGeneration ==
    /\ life.generation = clip.generation
    /\ ~clip.cancelled

ClipIsCurrent ==
    /\ life.generation = clip.generation
    /\ life.state = "Connected"
    /\ ~clip.cancelled

\* The export reports under the lifecycle lock, if its session is still up
\* (it retries while the event queue is full); otherwise its file is removed.
DeliverClip ==
    /\ clip.at = "deliver"
    /\ IF ClipIsCurrent
       THEN clip' = [clip EXCEPT !.at = "none", !.cancelled = FALSE,
                        !.reported = IF clip.saved THEN "saved" ELSE "failed"]
       ELSE clip' = [clip EXCEPT !.at = "none", !.cancelled = FALSE,
                        !.saved = FALSE]
    /\ Ends("clip")
    /\ UNCHANGED <<engineVars, life, held, told, ending, senders, sink, hid,
                   workerVars, mic, tap, extras, log>>

-----------------------------------------------------------------------------
(* The lifecycle worker, forward_nvst_session_events.                      *)

Outdated == life.generation # worker.generation

WorkerAt(p) == worker' = [worker EXCEPT !.at = p]

\* The worker ends, and the receiver of the events with it.
WorkerEnds ==
    /\ Ends("worker")
    /\ final' = FALSE
    /\ worker' = [worker EXCEPT !.at = "loop", !.attempts = 0]

\* The check of the generation, in every round and for every event.
WorkerLeaves ==
    /\ "worker" \in alive /\ worker.at = "loop" /\ Outdated
    /\ WorkerEnds
    /\ UNCHANGED <<engineVars, life, held, told, ending, senders, sink, hid,
                   sideVars, log>>

\* attempt_nvst_recovery: within the budget, if both receivers still listen.
Recover ==
    IF worker.attempts >= RecoveryLimit
    THEN WorkerAt("terminal")
    ELSE worker' = [worker EXCEPT !.attempts = @ + 1,
                       !.at = IF (held \cap Receivers) \subseteq alive
                              THEN "loop" ELSE "terminal"]

\* forward_nvst_event checks the generation, then handles the event.  The last
\* event of a receiver ends the session.
WorkerFinal ==
    /\ "worker" \in alive /\ worker.at = "loop" /\ ~Outdated /\ final
    /\ WorkerAt("terminal")
    /\ UNCHANGED <<engineVars, life, threadVars, hid, final, sideVars, log>>

\* Any number of other events may wait, from the receivers and the decoder:
\* Running; a loss of media or a decoder stall, which ask for recovery; an
\* accepted keyframe, which renews the budget.  A captured input that overflows
\* or cannot be sent ends the session.
WorkerEvent ==
    /\ "worker" \in alive /\ worker.at = "loop" /\ ~Outdated
    /\ \/ WorkerAt("running")
       \/ Recover
       \/ worker' = [worker EXCEPT !.attempts = 0]
       \/ WorkerAt("terminal")
    /\ UNCHANGED <<engineVars, life, threadVars, hid, final, sideVars, log>>

\* Lifecycle(Running): the state is set in a critical section of its own.
WorkerRunning ==
    /\ "worker" \in alive /\ worker.at = "running"
    /\ life' = [life EXCEPT !.state = "Connected"]
    /\ log' = [log EXCEPT !.ghost = @ \/ Outdated]
    /\ WorkerAt("loop")
    /\ UNCHANGED <<engineVars, threadVars, hid, final, sideVars>>

\* Mutant: the end is reported although stop has ended the generation.
WorkerTerminalAlways ==
    /\ "worker" \in alive /\ worker.at = "terminal"
    /\ life' = [life EXCEPT !.state = "Idle", !.context = FALSE]
    /\ WorkerAt("report")
    /\ UNCHANGED <<engineVars, held, alive, told, ending, senders, sink, hid,
                   final, sideVars, log>>

\* emit_nvst_terminal: under the lock, unless the generation has ended.
WorkerTerminal ==
    /\ "worker" \in alive /\ worker.at = "terminal"
    /\ IF Outdated
       THEN WorkerEnds /\ UNCHANGED life
       ELSE /\ life' = [life EXCEPT !.state = "Idle", !.context = FALSE]
            /\ WorkerAt("report")
            /\ UNCHANGED <<alive, final>>
    /\ UNCHANGED <<engineVars, held, told, ending, senders, sink, hid,
                   sideVars, log>>

\* ... then the receivers and the media session are stopped, without a join,
\* and the end is reported.
WorkerReport ==
    /\ "worker" \in alive /\ worker.at = "report"
    /\ told' = told \cup (alive \cap Receivers)
    /\ sink' = FALSE
    /\ ReportStop
    /\ WorkerEnds
    /\ UNCHANGED <<engineVars, life, held, ending, senders, hid, sideVars>>

-----------------------------------------------------------------------------
StopStep ==
    \/ StopBegin \/ StopLock \/ JoinBundle \/ JoinMjolnir \/ Release
    \/ JoinMic \/ JoinRecording \/ JoinMedia \/ JoinWorker \/ Drop \/ DropExport

StartStep ==
    \/ Negotiate \/ DropMic \/ StartMedia \/ Announce \/ SpawnBundle
    \/ SpawnMjolnir \/ Activate \/ BindHid \/ SpawnWorker \/ Unlock \/ Play
    \/ StartTail

CommandStep == StopStep \/ StartStep \/ Mute \/ Unmute \/ EndRecording

Command ==
    \/ NvstBind \/ NvstUnbind \/ Stop \/ Shutdown
    \/ \E p \in Plans : Start(p)
    \/ \E on \in BOOLEAN : SetMicrophone(on)
    \/ StartRecording \/ StopRecording \/ SaveClip \/ StopReplay

WorkerStep ==
    \/ WorkerLeaves \/ WorkerFinal \/ WorkerRunning \/ WorkerTerminal
    \/ WorkerReport

ThreadStep ==
    \/ BundleLeaves \/ BundleEnds \/ MjolnirEnds \/ MediaEnds \/ MicEnds
    \/ ConsumerClosed \/ RecordingEnds \/ ExportClip \/ DeliverClip

Next == Command \/ CommandStep \/ WorkerStep \/ WorkerEvent \/ ThreadStep

Spec == Init /\ [][Next]_vars

\* Every thread is scheduled: it goes on with the command it is in, a receiver
\* reads the Stop it was sent, the other threads end once they have to.  No
\* command need come, nothing need fail and no packet need arrive.  The event
\* channel is a FIFO, so the worker gets to a receiver's last event however
\* many others wait before it.
Fairness ==
    /\ WF_vars(CommandStep)
    /\ WF_vars("bundle" \in told /\ BundleLeaves)
    /\ WF_vars(BundleEnds)
    /\ WF_vars("mjolnir" \in told /\ MjolnirEnds)
    /\ WF_vars(senders = {} /\ MediaEnds)
    /\ WF_vars(PumpDone /\ MicEnds)
    /\ WF_vars(~tap /\ RecordingEnds)
    /\ WF_vars(ExportClip) /\ WF_vars(DeliverClip)
    /\ WF_vars(WorkerStep) /\ SF_vars(WorkerFinal)

FairSpec == Spec /\ Fairness

-----------------------------------------------------------------------------
\* The HID session that is bound is the one of the current generation, and the
\* bundle whose endpoint it uses runs: neither a late exit of a bundle nor a
\* start that fails leaves the binding of another session behind.
BindingMatchesSession ==
    hid.bound # 0 =>
        /\ hid.open /\ "bundle" \in alive /\ "bundle" \in held
        /\ hid.bound = life.generation

\* A command that ends without a receiver in the Engine's hands (a stop, a
\* start that failed on the way) leaves no thread or handle of the session, no
\* sender of the media consumer and no HID endpoint behind; only a replay
\* export may still run.  Two sockets that no thread reads may stay: a
\* reservation, and the clone that a start keeps of the one it took, also when
\* that start then fails.  A shutdown leaves neither.
NothingLeftBehind ==
    (pc \in {"ready", "closed"} /\ "bundle" \notin held) =>
        /\ alive \subseteq {"clip"}
        /\ senders = {} /\ ~hid.open /\ held \subseteq {"clip"} \cup Sockets
        /\ pc = "closed" => held \cap Sockets = {}

\* A session that is up between two commands is watched: its worker runs, at
\* its own generation, and the Engine holds what it must join to end it.
SessionIsWatched ==
    (pc = "ready" /\ life.context) =>
        /\ life.state = "Connected"
        /\ "worker" \in alive /\ worker.generation = life.generation
        /\ {"bundle", "media", "worker"} \subseteq held

\* The end of a session that was announced as ready is reported, by the worker
\* or by stop, and once; twice only after a Running event was applied to a
\* session that had already been stopped.
EndReportedOnce ==
    /\ (pc = "ready" /\ log.ready /\ ~life.context
          /\ ~("worker" \in alive /\ worker.at = "report")) => log.stops > 0
    /\ log.stops > 1 => log.ghost

\* No export reports into another session than its own, or after the end of
\* its session was made known.
ClipReportsInItsSession ==
    [][(clip'.reported # clip.reported /\ clip'.reported # "no")
         => /\ life.generation = clip.generation
            /\ life.context \/ log.ghost
            /\ log.stops = 0]_vars

\* start holds a clone of the sender while it joins the thread that waits for
\* the last sender to go: it waits for itself.
SelfJoin == pc = "join media" /\ "start" \in senders

\* Every command ends, whatever the other threads do meanwhile: no join waits
\* for a thread that waits for the engine, except for SelfJoin.
CommandEnds == (pc \notin {"ready", "closed"}) ~> (pc \in {"ready", "closed"} \/ SelfJoin)

\* A session whose bundle or Mjolnir receiver is gone does not stay up.
DeadReceiverEndsSession ==
    (life.context /\ held \cap Receivers # {} /\ ~(held \cap Receivers \subseteq alive)
       /\ pc = "ready")
        ~> ~life.context

\* stop leaves the Engine idle.
IdleAfterStop == (pc = "ready" /\ ~life.context) => life.state = "Idle"

-----------------------------------------------------------------------------
(* Why these hold: an invariant that every step preserves.                  *)

\* The points of stop_media_resources and of the joins before it.
TearingDown == pc \in {"join bundle", "join mjolnir", "release", "join mic",
                       "join recording", "join media", "join worker"}
InReport == "worker" \in alive /\ worker.at = "report"

\* What the Engine may still hold without a bundle, at each point.
LeftToJoin ==
    CASE pc = "join mjolnir" -> {"mjolnir", "rtsp", "mic", "recording",
                                 "media", "worker"}
      [] pc \in {"release", "join mic"} -> {"mic", "recording", "media", "worker"}
      [] pc = "join recording" -> {"recording", "media", "worker"}
      [] pc = "join media" -> {"media", "worker"}
      [] pc = "join worker" -> {"worker"}
      [] pc \in {"announce", "spawn"} -> {"media"}
      [] OTHER -> {}

\* Every thread that runs can be joined, and who waits returns where it should.
HeldInv ==
    /\ alive \subseteq held
    /\ "bundle" \in held \/ held \subseteq {"clip"} \cup Sockets \cup LeftToJoin
    /\ pc = "closed" \/ (TearingDown /\ then = "closed") => held \cap Sockets = {}
    /\ pc \in {"join mjolnir", "release", "join mic", "join recording",
               "join media", "join worker", "media", "announce", "spawn",
               "unlock", "drop", "closed"} => "bundle" \notin held
    /\ pc \in {"mjolnir", "activate", "bind hid", "spawn worker", "play", "tail"}
         => "bundle" \in held
    /\ pc \in {"announce", "spawn", "mjolnir", "activate", "bind hid",
               "spawn worker", "play", "tail"} => "media" \in held
    /\ pc \in {"mjolnir", "activate", "bind hid", "spawn worker"}
         => "worker" \notin held
    /\ pc \in {"mute", "unmute"} => "mic" \in held
    /\ pc = "mute" => then \in {"ready", "unmute"}
    /\ pc \in {"stop", "lock"} => then \in {"ready", "drop", "closed"}
    /\ TearingDown => then \in {"ready", "media", "unlock", "drop", "closed"}

\* Every sender has an owner that is joined before the media consumer is.
SenderInv ==
    /\ senders \cap Receivers \subseteq alive
    /\ "engine" \in senders => "media" \in held /\ pc # "join media"
    /\ "start" \in senders => pc \in {"mjolnir", "activate"} \/ TearingDown

\* Nothing is bound when the generation changes.
HidInv ==
    /\ hid.open => "bundle" \in alive
    /\ BindingMatchesSession
    /\ pc \in {"lock", "mjolnir", "activate", "bind hid"} => hid.bound = 0

\* A context lives from Activate to the end of its generation, under the eyes
\* of its worker once that is spawned.
ContextInv ==
    /\ life.context => life.state = "Connected"
    /\ ~life.context => life.state = "Idle" \/ log.ghost
    /\ life.context =>
          \/ pc \in {"bind hid", "spawn worker", "play", "tail", "ready", "mute",
                     "unmute", "end recording", "stop", "lock", "unlock"}
          \/ TearingDown /\ then = "unlock"
    /\ pc \in {"bind hid", "spawn worker"} => life.context
    /\ life.context /\ pc \in {"play", "tail", "ready", "mute", "unmute",
                               "end recording"} =>
          /\ "worker" \in alive
          /\ {"bundle", "media", "worker"} \subseteq held
    /\ worker.generation <= life.generation
    /\ "worker" \in alive /\ ~TearingDown => ~Outdated
    /\ "worker" \in alive /\ ~Outdated /\ worker.at # "report" => life.context
    /\ InReport => ~life.context

\* Nothing is reported while the session is up; then it is the worker's turn or
\* stop's, never both.
ReportInv ==
    /\ life.context => log.stops = 0
    /\ InReport => log.stops = 0 \/ log.ghost
    /\ log.stops > 1 => log.ghost
    /\ wasUp => /\ TearingDown /\ then \notin {"media", "unlock"}
                /\ Outdated
                /\ log.ghost \/ (log.stops = 0 /\ ~InReport)
    /\ (log.ready \/ pc \in {"play", "tail"}) /\ ~life.context /\ ~wasUp /\ ~InReport
          => log.stops > 0
    /\ (pc \in {"bind hid", "spawn worker", "unlock"}
          \/ (TearingDown /\ then = "unlock")) => ~log.ready

\* An export that may report belongs to a generation nobody has revived.
ClipInv ==
    /\ clip.at # "none" => "clip" \in alive
    /\ clip.generation <= life.generation
    /\ "worker" \in alive /\ Outdated => clip.generation < life.generation
    /\ clip.at # "none" /\ ~clip.cancelled /\ clip.generation = life.generation
          => ~log.ghost
    /\ log.ghost => \/ "bundle" \notin held
                    \/ pc \in {"mjolnir", "activate", "join bundle"}

\* The shape of the variables, without the bounds of an instance.
Lives == [state : {"Idle", "Connected"}, context : BOOLEAN, generation : Nat]
Handles == Threads \cup Sockets \cup {"rtsp"}
Senders == Receivers \cup {"engine", "start"}
Bindings == [open : BOOLEAN, bound : Nat]
Workers == [at : {"loop", "running", "terminal", "report"},
            generation : Nat, attempts : Nat]
Clips == [at : {"none", "export", "deliver"}, generation : Nat,
          cancelled : BOOLEAN, saved : BOOLEAN, reported : {"no", "saved", "failed"}]
Logs == [ready : BOOLEAN, stops : 0..2, ghost : BOOLEAN]

Shape ==
    /\ pc \in Points /\ then \in Returns /\ wasUp \in BOOLEAN
    /\ life \in Lives /\ hid \in Bindings /\ worker \in Workers
    /\ clip \in Clips /\ log \in Logs
    /\ held \subseteq Handles /\ alive \subseteq Threads /\ senders \subseteq Senders

EngineInv ==
    Shape /\ HeldInv /\ SenderInv /\ HidInv /\ ContextInv /\ ReportInv /\ ClipInv

=============================================================================
