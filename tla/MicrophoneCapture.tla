-------------------------- MODULE MicrophoneCapture --------------------------
(***************************************************************************)
(* Continuous capture of the microphone: the controllers of                *)
(* microphoneCaptureController.ts, one for each meeting that the user      *)
(* starts, and the native stream of microphone_stream.rs that they share.  *)
(*                                                                         *)
(* Three threads meet in the native stream: the main thread runs the       *)
(* commands one after the other, the audio callback must not wait, and a   *)
(* worker empties the queue between them.  Their accesses to the shared    *)
(* flags are steps of their own here.  Audio is counted in batches, what   *)
(* the device delivers at once; Batches of them make a chunk of 100 ms.    *)
(***************************************************************************)
EXTENDS Naturals, Sequences, FiniteSetsExt

CONSTANTS
  MaxStarts,    \* bound: meetings started with the microphone
  MaxBatches,   \* bound: batches that a stream delivers
  MaxPresses,   \* bound: presses of Pause and of Resume
  Batches,      \* batches in a chunk
  Capacity      \* NATIVE_QUEUE_CAPACITY

ASSUME MicrophoneAssumption ==
  /\ {MaxStarts, MaxBatches, MaxPresses} \subseteq Nat
  /\ {Batches, Capacity} \subseteq Nat \ {0}

VARIABLES
  \* the controllers, the last of them is captureControllerRef
  starts,      \* controllers that were made
  controller,  \* state of each
  handle,      \* whether each has the handle of a native stream
  streamTime,  \* streamTimeMs of each, counted in batches, without the gap that a resume
               \* makes of the time of the pause, which has no audio to cover
  presses,     \* presses of Pause and of Resume so far
  \* between the web view and the main thread
  commands,    \* commands that were invoked
  responses,   \* outcomes of commands on their way back
  events,      \* events of the native channels on their way
  \* the native side
  running,     \* the command that the main thread is executing, and how far it is
  stream,      \* the ActiveMicrophoneStream of the manager, with its AudioProcessor
  callback,    \* the audio callback: what it does next, and the epoch it read
  worker       \* what the worker does next

web == <<starts, controller, handle, streamTime, presses>>
native == <<running, stream, callback, worker>>
micVars == <<web, commands, responses, events, native>>

Starts == 1..MaxStarts

Idle == [cmd |-> "none", by |-> 0, step |-> 0]

\* queue: samples of an epoch, and changes of state.  captured is history.
Message(type, epoch) == [type |-> type, epoch |-> epoch]

NewStream(g) ==
  [id |-> g, paused |-> FALSE, stopped |-> FALSE, failed |-> FALSE, epoch |-> 0,
   queue |-> <<Message("capturing", 0)>>, output |-> 0, dropped |-> 0, lateInput |-> 0, resetOutput |-> 0,
   captured |-> 0]

NoStream == [NewStream(0) EXCEPT !.stopped = TRUE, !.queue = <<>>]

Event(g, type, n) == [by |-> g, type |-> type, chunks |-> n]

MicInit ==
  /\ starts = 0
  /\ controller = [g \in Starts |-> "idle"]
  /\ handle = [g \in Starts |-> FALSE]
  /\ streamTime = [g \in Starts |-> 0]
  /\ presses = 0
  /\ commands = <<>> /\ responses = <<>> /\ events = <<>>
  /\ running = Idle
  /\ stream = NoStream
  /\ callback = [next |-> "idle", epoch |-> 0]
  /\ worker = "ended"

-----------------------------------------------------------------------------
(* The user, and the controllers *)

Command(cmd, g) == [cmd |-> cmd, by |-> g, step |-> 1]

Stopped(g) == [controller EXCEPT ![g] = "stopped"]

\* stop(): what is left to stop natively if the controller has the handle.
StopCommands(g) == IF g # 0 /\ handle[g] THEN <<Command("stop", g)>> ELSE <<>>

\* startMicrophoneSession stops the old controller, and starts a new one.
StartMicrophoneSession ==
  /\ starts < MaxStarts
  /\ starts' = starts + 1
  /\ controller' = [(IF starts = 0 THEN controller ELSE Stopped(starts))
                      EXCEPT ![starts + 1] = "starting"]
  /\ handle' = IF starts = 0 THEN handle ELSE [handle EXCEPT ![starts] = FALSE]
  /\ commands' = commands \o StopCommands(starts) \o <<Command("start", starts + 1)>>
  /\ UNCHANGED <<streamTime, presses, responses, events, native>>

\* stopSession, and any other way to leave the meeting.
StopSession ==
  /\ starts # 0
  /\ controller[starts] # "stopped"
  /\ controller' = Stopped(starts)
  /\ handle' = [handle EXCEPT ![starts] = FALSE]
  /\ commands' = commands \o StopCommands(starts)
  /\ UNCHANGED <<starts, streamTime, presses, responses, events, native>>

PauseCapture ==
  /\ starts # 0 /\ presses < MaxPresses
  /\ controller[starts] = "capturing" /\ handle[starts]
  /\ presses' = presses + 1
  /\ commands' = Append(commands, Command("pause", starts))
  /\ UNCHANGED <<starts, controller, handle, streamTime, responses, events, native>>

ResumeCapture ==
  /\ starts # 0 /\ presses < MaxPresses
  /\ controller[starts] = "paused" /\ handle[starts]
  /\ presses' = presses + 1
  /\ commands' = Append(commands, Command("resume", starts))
  /\ UNCHANGED <<starts, controller, handle, streamTime, responses, events, native>>

\* emitGap of a number of chunks: the time of the stream passes them.
After(g, chunks) == [streamTime EXCEPT ![g] = @ + chunks * Batches]

\* fail(): the device is reported as unavailable for one chunk.
Fail(g) ==
  IF controller[g] \in {"failed", "stopped"}
  THEN UNCHANGED <<controller, handle, streamTime, commands>>
  ELSE /\ controller' = [controller EXCEPT ![g] = "failed"]
       /\ streamTime' = After(g, 1)
       /\ handle' = [handle EXCEPT ![g] = FALSE]
       /\ commands' = commands \o StopCommands(g)

\* Mutant: the handle is taken whatever became of the controller.
NeverTooLate(g) == FALSE

\* A start that is answered after the controller was stopped.
TooLate(g) == controller[g] = "stopped"

\* The promise of an invoked command settles.
Responds ==
  /\ responses # <<>>
  /\ responses' = Tail(responses)
  /\ LET r == Head(responses) IN
     \/ /\ r.cmd = "start" /\ r.ok /\ TooLate(r.by)
        /\ commands' = Append(commands, Command("stop", r.by))
        /\ UNCHANGED <<controller, handle, streamTime>>
     \/ /\ r.cmd = "start" /\ r.ok /\ ~TooLate(r.by)
        /\ handle' = [handle EXCEPT ![r.by] = TRUE]
        /\ controller' = [controller EXCEPT ![r.by] = "capturing"]
        /\ UNCHANGED <<streamTime, commands>>
     \/ ~r.ok /\ Fail(r.by)
     \/ r.ok /\ r.cmd # "start" /\ UNCHANGED <<controller, handle, streamTime, commands>>
  /\ UNCHANGED <<starts, presses, events, native>>

\* handleNativeEvent.  A controller that was stopped hears nothing.
Ignores(e) ==
  \/ controller[e.by] = "stopped"
  \/ e.type = "chunk" /\ controller[e.by] \notin {"starting", "capturing"}
  \/ e.type = "paused" /\ controller[e.by] # "capturing"
  \/ e.type = "capturing" /\ controller[e.by] = "starting"

EventArrives ==
  /\ events # <<>>
  /\ events' = Tail(events)
  /\ LET e == Head(events) IN
     \/ /\ Ignores(e)
        /\ UNCHANGED <<controller, handle, streamTime, commands>>
     \/ /\ ~Ignores(e) /\ e.type \in {"chunk", "gap"}
        /\ streamTime' = After(e.by, Max({1, e.chunks}))
        /\ UNCHANGED <<controller, handle, commands>>
     \/ ~Ignores(e) /\ e.type = "error" /\ Fail(e.by)
     \/ /\ ~Ignores(e) /\ e.type \in {"paused", "capturing"}
        /\ controller' = [controller EXCEPT ![e.by] = e.type]
        /\ UNCHANGED <<handle, streamTime, commands>>
  /\ UNCHANGED <<starts, presses, responses, native>>

-----------------------------------------------------------------------------
(* The main thread *)

NextCommand ==
  /\ running = Idle
  /\ commands # <<>>
  /\ running' = Head(commands)
  /\ commands' = Tail(commands)
  /\ UNCHANGED <<web, responses, events, stream, callback, worker>>

AtStep(cmd, step) == running.cmd = cmd /\ running.step = step

Proceed == running' = [running EXCEPT !.step = @ + 1] /\ UNCHANGED responses

Return(ok) ==
  /\ running' = Idle
  /\ responses' = Append(responses, [cmd |-> running.cmd, by |-> running.by, ok |-> ok])

\* stop_active_stream sets the flag, drops the device's stream and joins the worker.
StopActiveStream ==
  \/ AtStep("start", 1) /\ stream.id # 0 /\ (stream.stopped \/ stream.failed)
  \/ AtStep("stop", 1) /\ stream.id # 0

SignalStop ==
  /\ StopActiveStream
  /\ stream' = [stream EXCEPT !.stopped = TRUE]
  /\ Proceed
  /\ UNCHANGED <<web, commands, events, callback, worker>>

Joined(cmd) ==
  \/ AtStep(cmd, 1) /\ stream.id = 0
  \/ AtStep(cmd, 2) /\ worker = "ended" /\ callback.next = "idle"

\* start_microphone_stream, with a device that works or does not.  A stream that
\* stopped or failed is cleared away first.
AlreadyActive ==
  /\ AtStep("start", 1)
  /\ stream.id # 0 /\ ~stream.stopped /\ ~stream.failed
  /\ Return(FALSE)
  /\ UNCHANGED <<web, commands, events, stream, callback, worker>>

StartStream ==
  /\ Joined("start")
  /\ \/ stream' = NewStream(running.by) /\ worker' = "report" /\ Return(TRUE)
     \/ stream' = NoStream /\ worker' = "ended" /\ Return(FALSE)
  /\ UNCHANGED <<web, commands, events, callback>>

\* stop_microphone_stream, whoever the active stream belongs to.
StopStream ==
  /\ Joined("stop")
  /\ stream' = NoStream
  /\ Return(TRUE)
  /\ UNCHANGED <<web, commands, events, callback, worker>>

\* pause and resume of a manager without a stream, and resume of a failed one.
NotActive ==
  /\ running.cmd \in {"pause", "resume"} /\ running.step = 1
  /\ stream.id # 0 => running.cmd = "resume" /\ stream.failed
  /\ Return(FALSE)
  /\ UNCHANGED <<web, commands, events, stream, callback, worker>>

\* pause_microphone_stream
PauseStream ==
  /\ AtStep("pause", 1) /\ stream.id # 0
  /\ stream' = [stream EXCEPT !.paused = TRUE]
  /\ Proceed
  /\ UNCHANGED <<web, commands, events, callback, worker>>

PauseNewEpoch ==
  /\ AtStep("pause", 2)
  /\ stream' = [stream EXCEPT !.epoch = @ + 1]
  /\ Proceed
  /\ UNCHANGED <<web, commands, events, callback, worker>>

\* Mutant: the processor is reset and what it held is forgotten.
ResetSilently(s) == [s EXCEPT !.output = 0]

\* AudioProcessor::reset, and the counter of what it discards.
Reset(s) == [s EXCEPT !.output = 0, !.resetOutput = @ + s.output]

PauseResets ==
  /\ AtStep("pause", 3)
  /\ stream' = Reset(stream)
  /\ Proceed
  /\ UNCHANGED <<web, commands, events, callback, worker>>

\* A blocking send into the bounded queue; a worker that ended closed it.
SendState(state, last) ==
  \/ /\ worker # "ended" /\ Len(stream.queue) < Capacity
     /\ stream' = [stream EXCEPT !.queue = Append(@, Message(state, 0))]
     /\ IF last THEN Return(TRUE) ELSE Proceed
  \/ worker = "ended" /\ Return(FALSE) /\ UNCHANGED stream

PauseAnnounces ==
  /\ AtStep("pause", 4)
  /\ SendState("paused", TRUE)
  /\ UNCHANGED <<web, commands, events, callback, worker>>

\* resume_microphone_stream
ResumeAnnounces ==
  /\ AtStep("resume", 1) /\ stream.id # 0 /\ ~stream.failed
  /\ SendState("capturing", FALSE)
  /\ UNCHANGED <<web, commands, events, callback, worker>>

ResumeStream ==
  /\ AtStep("resume", 2)
  /\ stream' = [stream EXCEPT !.paused = FALSE]
  /\ Return(TRUE)
  /\ UNCHANGED <<web, commands, events, callback, worker>>

Execute ==
  \/ NextCommand \/ SignalStop \/ AlreadyActive \/ StartStream \/ StopStream \/ NotActive
  \/ PauseStream \/ PauseNewEpoch \/ PauseResets \/ PauseAnnounces
  \/ ResumeAnnounces \/ ResumeStream

-----------------------------------------------------------------------------
(* The audio callback and the worker *)

\* The device delivers a batch: the callback reads the epoch first.
DeviceDelivers ==
  /\ callback.next = "idle"
  /\ stream.id # 0 /\ stream.captured < MaxBatches
  /\ ~(running.cmd \in {"start", "stop"} /\ running.step = 2)
  /\ callback' = [next |-> "look", epoch |-> stream.epoch]
  /\ UNCHANGED <<web, commands, responses, events, running, stream, worker>>

CallbackLooks ==
  /\ callback.next = "look"
  /\ IF stream.paused \/ stream.stopped
     THEN callback' = [callback EXCEPT !.next = "idle"] /\ UNCHANGED stream
     ELSE /\ callback' = [callback EXCEPT !.next = "enqueue"]
          /\ stream' = [stream EXCEPT !.captured = @ + 1]
  /\ UNCHANGED <<web, commands, responses, events, running, worker>>

\* Mutant: what the callback enqueues belongs to the epoch at that time.
LateEpoch == stream.epoch

ReadEpoch == callback.epoch

\* enqueue_samples: never waits for room.
CallbackEnqueues ==
  /\ callback.next = "enqueue"
  /\ callback' = [callback EXCEPT !.next = "idle"]
  /\ stream' =
       IF worker = "ended" THEN [stream EXCEPT !.failed = TRUE]
       ELSE IF Len(stream.queue) < Capacity
            THEN [stream EXCEPT !.queue = Append(@, Message("samples", ReadEpoch))]
            ELSE [stream EXCEPT !.dropped = @ + 1]
  /\ UNCHANGED <<web, commands, responses, events, running, worker>>

\* The device is unplugged: the error callback.
DeviceFails ==
  /\ stream.id # 0 /\ ~stream.failed
  /\ stream' = [stream EXCEPT !.failed = TRUE]
  /\ UNCHANGED <<web, commands, responses, events, running, callback, worker>>

\* dropped_chunk_estimate
Estimate(n) == (n + Batches - 1) \div Batches

GapOf(n) == IF n = 0 THEN <<>> ELSE <<Event(stream.id, "gap", n)>>

\* The head of the loop: gaps for what was dropped and for what a pause discarded,
\* and a failure that ends it after one more message.
WorkerReports ==
  /\ worker = "report" /\ ~stream.stopped
  /\ worker' = "receive"
  /\ events' = events
       \o GapOf(Estimate(stream.dropped))
       \o GapOf(Estimate(stream.lateInput) + Estimate(stream.resetOutput))
       \o (IF stream.failed THEN <<Event(stream.id, "error", 0)>> ELSE <<>>)
  /\ stream' = [stream EXCEPT !.dropped = 0, !.lateInput = 0, !.resetOutput = 0,
                              !.stopped = stream.failed]
  /\ UNCHANGED <<web, commands, responses, running, callback>>

WorkerEnds ==
  /\ worker = "report" /\ stream.stopped /\ stream.id # 0
  /\ worker' = "ended"
  /\ UNCHANGED <<web, commands, responses, events, running, stream, callback>>

\* recv_timeout
WorkerReceives ==
  /\ worker = "receive"
  /\ IF stream.queue = <<>>
     THEN worker' = "report" /\ UNCHANGED <<stream, events>>
     ELSE LET message == Head(stream.queue)
              rest == [stream EXCEPT !.queue = Tail(@)]
          IN \/ /\ message.type # "samples"
                /\ worker' = "report"
                /\ events' = Append(events, Event(stream.id, message.type, 0))
                /\ stream' = rest
             \/ /\ message.type = "samples" /\ message.epoch = stream.epoch
                /\ worker' = "process"
                /\ stream' = rest
                /\ UNCHANGED events
             \/ /\ message.type = "samples" /\ message.epoch # stream.epoch
                /\ worker' = "report"
                /\ stream' = [rest EXCEPT !.lateInput = @ + 1]
                /\ UNCHANGED events
  /\ UNCHANGED <<web, commands, responses, running, callback>>

\* AudioProcessor::process, under its lock: a pause may have come between.
WorkerProcesses ==
  /\ worker = "process"
  /\ worker' = "report"
  /\ IF stream.output + 1 = Batches
     THEN /\ events' = Append(events, Event(stream.id, "chunk", 1))
          /\ stream' = [stream EXCEPT !.output = 0]
     ELSE /\ stream' = [stream EXCEPT !.output = @ + 1]
          /\ UNCHANGED events
  /\ UNCHANGED <<web, commands, responses, running, callback>>

Work == WorkerReports \/ WorkerEnds \/ WorkerReceives \/ WorkerProcesses

Callback == CallbackLooks \/ CallbackEnqueues

-----------------------------------------------------------------------------
MicNext ==
  \/ StartMicrophoneSession \/ StopSession \/ PauseCapture \/ ResumeCapture
  \/ Responds \/ EventArrives
  \/ Execute \/ Callback \/ Work
  \/ DeviceDelivers \/ DeviceFails

\* The threads run, and what they send to the web view arrives there.
MicFairness ==
  /\ WF_micVars(Execute) /\ WF_micVars(Callback) /\ WF_micVars(Work)
  /\ WF_micVars(Responds)

MicSpec == MicInit /\ [][MicNext]_micVars /\ MicFairness

-----------------------------------------------------------------------------
(* Properties *)

\* Every variable stays in its range, the queue within its capacity, and the worker
\* only works for a stream that the manager has.
MicTypeOK ==
  /\ starts \in 0..MaxStarts /\ presses \in 0..MaxPresses
  /\ controller \in [Starts -> {"idle", "starting", "capturing", "paused", "stopped", "failed"}]
  /\ handle \in [Starts -> BOOLEAN]
  /\ streamTime \in [Starts -> Nat]
  /\ running.cmd \in {"none", "start", "pause", "resume", "stop"}
  /\ stream.id \in 0..MaxStarts
  /\ Len(stream.queue) <= Capacity
  /\ stream.output \in 0..(Batches - 1)
  /\ callback.next \in {"idle", "look", "enqueue"}
  /\ worker \in {"report", "receive", "process", "ended"}
  /\ worker # "ended" => stream.id # 0
  /\ \A g \in Starts : handle[g] => controller[g] \notin {"stopped", "failed"}

Listening(g) == controller[g] \in {"starting", "capturing", "paused"}

\* The native side stays silent between its acknowledgement of a pause and that of the
\* resume, so that no chunk reaches a paused controller, which would drop it unseen.
PauseIsSilent ==
  events # <<>> /\ Head(events).type = "chunk" => controller[Head(events).by] # "paused"

\* The samples that wait in a queue.
WaitingIn(queue) == Cardinality({k \in 1..Len(queue) : queue[k].type = "samples"})

\* The chunks of g that the events of a line stand for, each by its event and its number.
ChunksIn(line, g) ==
  UNION {{<<k, n>> : n \in 1..line[k].chunks} : k \in {i \in 1..Len(line) : line[i].by = g}}

\* Audio that is on its way to the controller, in batches.
InFlight ==
  stream.output + stream.dropped + stream.lateInput + stream.resetOutput + WaitingIn(stream.queue)
  + (IF callback.next = "enqueue" THEN 1 ELSE 0) + (IF worker = "process" THEN 1 ELSE 0)
  + Batches * Cardinality(ChunksIn(events, stream.id))

\* The timeline of the stream does not fall behind its audio: a batch that the callback
\* took is in a chunk or covered by a gap, or still on its way, whichever of the three
\* threads a pause, an overflow or a late epoch took it from.
TimelineCovers ==
  stream.id # 0 /\ ~stream.failed /\ Listening(stream.id)
    => stream.captured <= streamTime[stream.id] + InFlight

\* A microphone that the user stopped is given back, also when the stop came before
\* the native start was answered or after another controller started.
MicrophoneReleased ==
  \A g \in Starts : controller[g] = "stopped" ~> stream.id # g
=============================================================================
