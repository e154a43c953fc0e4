------------------------------- MODULE XtSource -------------------------------
(***************************************************************************)
(* The XT lidar source process, xt_source_node.cpp, with the bounded work  *)
(* queue between its SDK callback and its worker, its owned stop and its   *)
(* shutdown watchdogs.                                                     *)
(*                                                                         *)
(* Four threads meet here.  The main thread runs tick() and the stop       *)
(* service on a single-threaded executor and afterwards close().  The SDK  *)
(* delivers frames on a thread of its own, which copies them into          *)
(* frame_queue_.  The worker writes each frame to the journal and          *)
(* publishes it.  A watchdog ends the process when a stop takes too long.  *)
(*                                                                         *)
(* A frame is its number of arrival.  A tick is one step, except that the  *)
(* start of the stream talks to the device and is split at every exchange. *)
(* The vendor's SDK and the device are external: a bounded queue of frames *)
(* and a device that streams or does not.                                  *)
(***************************************************************************)
EXTENDS Integers, Sequences, FiniteSets

CONSTANTS MaxFrames,    \* frames the device may send (a bound of the model)
          Capacity,     \* frames frame_queue_ holds, the one in work included
          SdkCapacity   \* frames the SDK holds

ASSUME XtAssumption ==
  /\ MaxFrames \in Nat \ {0}
  /\ Capacity \in Nat \ {0}
  /\ SdkCapacity \in Nat \ {0}

VARIABLES
  strict,       \* require_recorder_
  signal,       \* "none", "stop" (the handlers' flag) or "context" (ROS gone)
  pc,           \* where the main thread is
  ready, failed, paused, attempted, finished, initialized, streaming,
                \* ready_, failed_, paused_, fault_stop_attempted_, finished_,
                \* initialized_ and streaming_
  connected,    \* connected_event_
  device,       \* the device streams
  sdk,          \* frames inside of the SDK, oldest first
  dropped,      \* the SDK's counters of dropped frames are not zero
  emitted,      \* frames that reached the host
  tail,         \* those that did while the source was ready
  callback,     \* the frame the callback copies, 0 for none
  queue, closed, \* queue_ and closed_ of frame_queue_
  rejected,     \* its rejected_ is not zero
  accepted,     \* the frames it accepted, in order
  worker,       \* "awake", "asleep" in take(), "busy" or "gone"
  active,       \* the frame the worker has, 0 for none
  journal, published, \* frames in the source journal, and on both topics
  summary,      \* synchronized of source_summary.json, "none" without a file
  code          \* exit code of the process, -1 while it runs

flags == <<ready, failed, paused, attempted>>
stream == <<streaming, device>>
wire == <<sdk, dropped, emitted, tail>>
buffer == <<callback, queue, closed, rejected, accepted>>
work == <<worker, active, journal, published>>
phase == <<finished, initialized, connected>>
end == <<summary, code>>

vars == <<strict, signal, pc, flags, stream, phase, wire, buffer, work, end>>

Frames == 1 .. MaxFrames

Closing == {"stop", "shutdown", "draining", "close", "join", "report",
            "flush", "broken", "rejoin"}

Ended == pc \in {"done", "expired"}

\* The shape of every variable.
TypeOK ==
  /\ strict \in BOOLEAN
  /\ signal \in {"none", "stop", "context"}
  /\ pc \in {"spin", "start", "readback", "confirmed", "done", "expired"}
            \cup Closing
  /\ ready \in BOOLEAN /\ failed \in BOOLEAN /\ paused \in BOOLEAN
  /\ attempted \in BOOLEAN /\ finished \in BOOLEAN /\ initialized \in BOOLEAN
  /\ streaming \in BOOLEAN /\ connected \in BOOLEAN /\ device \in BOOLEAN
  /\ dropped \in BOOLEAN /\ closed \in BOOLEAN /\ rejected \in BOOLEAN
  /\ emitted \in 0 .. MaxFrames
  /\ tail \in SUBSET Frames
  /\ sdk \in Seq(Frames) /\ queue \in Seq(Frames) /\ accepted \in Seq(Frames)
  /\ journal \in Seq(Frames) /\ published \in Seq(Frames)
  /\ callback \in 0 .. MaxFrames /\ active \in 0 .. MaxFrames
  /\ worker \in {"awake", "asleep", "busy", "gone"}
  /\ summary \in {"none", "true", "false"}
  /\ code \in {-1, 0, 1, 74}

Init ==
  /\ strict \in BOOLEAN
  /\ signal = "none" /\ pc = "spin"
  /\ ready = FALSE /\ failed = FALSE /\ paused = FALSE /\ attempted = FALSE
  /\ streaming = FALSE /\ device = FALSE
  /\ finished = FALSE /\ initialized = FALSE /\ connected = FALSE
  /\ sdk = <<>> /\ dropped = FALSE /\ emitted = 0 /\ tail = {}
  /\ callback = 0 /\ queue = <<>> /\ closed = FALSE /\ rejected = FALSE
  /\ accepted = <<>>
  /\ worker = "awake" /\ active = 0 /\ journal = <<>> /\ published = <<>>
  /\ summary = "none" /\ code = -1

-----------------------------------------------------------------------------
(* The queue and the two ways to fail.                                     *)

\* pending_frames_: waiting, in work, and the copy a reservation was made for.
Pending ==
  Len(queue) + (IF active = 0 THEN 0 ELSE 1) + (IF callback = 0 THEN 0 ELSE 1)

\* cv_.notify_one and notify_all: the worker is the only one that waits.
Notify == worker' = IF worker = "asleep" THEN "awake" ELSE worker

\* latch_pipeline_failure, from whichever thread.
Latch ==
  /\ ready' = FALSE
  /\ failed' = TRUE
  /\ paused' = TRUE
  /\ UNCHANGED attempted

\* request_owned_stop with the value failed_ has by then.  A stop that is not
\* acknowledged, or that throws, may have reached the device all the same.
RequestStop(already) ==
  \/ /\ ~streaming
     /\ failed' = already
     /\ UNCHANGED stream
  \/ /\ streaming
     /\ streaming' = FALSE /\ device' = FALSE
     /\ failed' = already
  \/ /\ streaming
     /\ device' \in {device, FALSE}
     /\ failed' = TRUE
     /\ UNCHANGED streaming

\* fail(): only the first failure stops the stream from here.
Fail ==
  \/ failed /\ UNCHANGED <<flags, stream>>
  \/ /\ ~failed
     /\ ready' = FALSE /\ paused' = TRUE /\ attempted' = TRUE
     /\ RequestStop(TRUE)

-----------------------------------------------------------------------------
(* The main thread: the executor's callbacks.                              *)

\* What tick() reads of the SDK's counters before anything else.
DropSeen == strict /\ dropped

Tick == pc = "spin" /\ signal # "stop"

\* A stop that was requested ends the loop.
TickStop ==
  /\ pc = "spin" /\ signal = "stop"
  /\ finished' = TRUE
  /\ UNCHANGED <<strict, signal, pc, flags, stream, initialized, connected,
                 wire, buffer, work, end>>

\* The acquisition budget is used up; a drop is latched before that is asked.
TickExpired ==
  /\ Tick
  /\ finished' = TRUE
  /\ \/ DropSeen /\ Latch
     \/ ~DropSeen /\ UNCHANGED flags
  /\ UNCHANGED <<strict, signal, pc, stream, initialized, connected, wire,
                 buffer, work, end>>

\* A failed or paused source: one attempt at a stop, never one per tick.
TickFailed ==
  /\ Tick
  /\ failed \/ paused \/ DropSeen
  /\ ready' = (ready /\ ~DropSeen)
  /\ paused' = (paused \/ DropSeen)
  /\ attempted' = TRUE
  /\ \/ attempted /\ failed' = (failed \/ DropSeen) /\ UNCHANGED stream
     \/ ~attempted /\ RequestStop(failed \/ DropSeen)
  /\ UNCHANGED <<strict, signal, pc, phase, wire, buffer, work, end>>

\* A tick that neither returned early nor found a failure.
Healthy == Tick /\ ~failed /\ ~paused /\ ~DropSeen

\* The device connected and, when a recorder is required, it listens.  The
\* identity and the configuration are read and checked, then the start goes
\* out unless a stop was requested.  A check that fails, or a second
\* connection, is a failure.
TickConnect ==
  /\ Healthy
  /\ connected
  /\ connected' = FALSE
  /\ \/ Fail /\ UNCHANGED pc
     \/ ~initialized /\ pc' = "start" /\ UNCHANGED <<flags, stream>>
  /\ UNCHANGED <<strict, signal, finished, initialized, wire, buffer, work,
                 end>>

\* Faulty variant: the stream is owned only once its start was acknowledged.
start_owned_late ==
  /\ pc = "start"
  /\ \/ /\ signal = "stop"
        /\ finished' = TRUE /\ pc' = "spin"
        /\ UNCHANGED <<flags, stream>>
     \/ /\ signal # "stop"
        /\ streaming' = TRUE /\ device' = TRUE
        /\ pc' = "readback"
        /\ UNCHANGED <<flags, finished>>
     \/ /\ signal # "stop"
        /\ device' \in BOOLEAN
        /\ pc' = "spin"
        /\ failed' = TRUE /\ ready' = FALSE /\ paused' = TRUE
        /\ attempted' = (attempted \/ ~failed)
        /\ UNCHANGED <<streaming, finished>>
  /\ UNCHANGED <<strict, signal, initialized, connected, wire, buffer, work,
                 end>>

\* The start of the stream.  streaming_ is set before it is sent, since a lost
\* acknowledgement may still mean that the device began to stream.
StartStream ==
  /\ pc = "start"
  /\ \/ /\ signal = "stop"
        /\ finished' = TRUE /\ pc' = "spin"
        /\ UNCHANGED <<flags, stream>>
     \/ /\ signal # "stop"
        /\ streaming' = TRUE
        /\ device' \in BOOLEAN
        /\ pc' = "readback"
        /\ UNCHANGED <<flags, finished>>
  /\ UNCHANGED <<strict, signal, initialized, connected, wire, buffer, work,
                 end>>

\* The start was acknowledged and the device still has the configuration it
\* was checked with; anything else fails.
Readback ==
  /\ pc = "readback"
  /\ \/ /\ device
        /\ pc' = "confirmed" /\ initialized' = TRUE
        /\ UNCHANGED <<flags, stream>>
     \/ /\ Fail
        /\ pc' = "spin"
        /\ UNCHANGED initialized
  /\ UNCHANGED <<strict, signal, finished, connected, wire, buffer, work, end>>

\* The last line of read_identity_and_start.  Another thread may have latched
\* a failure since the start: ready_ is set regardless.
BecomeReady ==
  /\ pc = "confirmed"
  /\ pc' = "spin"
  /\ \/ signal = "stop" /\ finished' = TRUE /\ UNCHANGED ready
     \/ signal # "stop" /\ ready' = TRUE /\ UNCHANGED finished
  /\ UNCHANGED <<strict, signal, failed, paused, attempted, stream,
                 initialized, connected, wire, buffer, work, end>>

\* Connection timeout, lost connection or silence of the source.
TickLost ==
  /\ Healthy
  /\ Fail
  /\ UNCHANGED <<strict, signal, pc, phase, wire, buffer, work, end>>

\* The stop service: a callback of the same executor, between two ticks.
StopService ==
  /\ pc = "spin"
  /\ ready' = FALSE /\ paused' = TRUE /\ attempted' = TRUE
  /\ RequestStop(failed)
  /\ UNCHANGED <<strict, signal, pc, phase, wire, buffer, work, end>>

\* The loop of run() ends; from here on every deadline runs.
LoopEnds ==
  /\ pc = "spin"
  /\ signal # "none" \/ finished
  /\ pc' = "stop"
  /\ UNCHANGED <<strict, signal, flags, stream, phase, wire, buffer, work,
                 end>>

-----------------------------------------------------------------------------
(* The main thread: close().                                               *)

\* Faulty variant: close() stops accepting frames before it stops the stream.
close_unready ==
  /\ pc = "stop"
  /\ pc' = "shutdown"
  /\ RequestStop(failed)
  /\ ready' = FALSE
  /\ UNCHANGED <<strict, signal, paused, attempted, phase, wire, buffer, work,
                 end>>

\* The stream is stopped while the callback still accepts frames.
CloseStop ==
  /\ pc = "stop"
  /\ pc' = "shutdown"
  /\ RequestStop(failed)
  /\ UNCHANGED <<strict, signal, ready, paused, attempted, phase, wire, buffer,
                 work, end>>

\* XtSdk::shutdown stops its ingress, drains its queues and joins its threads.
SdkIngress ==
  /\ pc = "shutdown"
  /\ pc' = "draining"
  /\ UNCHANGED <<strict, signal, flags, stream, phase, wire, buffer, work, end>>

SdkDrained ==
  /\ pc = "draining"
  /\ sdk = <<>> /\ callback = 0
  /\ pc' = "close"
  /\ UNCHANGED <<strict, signal, flags, stream, phase, wire, buffer, work, end>>

\* XtSdk::shutdown throws; its threads may still run.
SdkFails ==
  /\ pc \in {"shutdown", "draining"}
  /\ pc' = "broken"
  /\ Latch
  /\ UNCHANGED <<strict, signal, stream, phase, wire, buffer, work, end>>

\* ready_ is cleared and the queue is closed; the handler of a failed cleanup
\* closes it too.
CloseQueue ==
  /\ pc \in {"close", "broken"}
  /\ pc' = IF pc = "close" THEN "join" ELSE "rejoin"
  /\ ready' = FALSE
  /\ closed' = TRUE
  /\ Notify
  /\ UNCHANGED <<strict, signal, failed, paused, attempted, stream, phase,
                 wire, callback, queue, rejected, accepted, active, journal,
                 published, end>>

\* The worker is joined.  After a failed cleanup there is no summary.
JoinWorker ==
  /\ pc \in {"join", "rejoin"}
  /\ worker = "gone"
  /\ pc' = IF pc = "join" THEN "report" ELSE "done"
  /\ code' = IF pc = "join" THEN code ELSE 1
  /\ UNCHANGED <<strict, signal, flags, stream, phase, wire, buffer, work,
                 summary>>

\* A recorder must have acknowledged every frame, and nothing may have been
\* dropped, rejected or left behind on the way.
Judge ==
  /\ pc = "report"
  /\ pc' = "flush"
  /\ \/ /\ ~strict \/ ~(rejected \/ dropped \/ Pending > 0 \/ sdk # <<>>)
        /\ UNCHANGED flags
     \/ strict /\ Latch
  /\ UNCHANGED <<strict, signal, stream, phase, wire, buffer, work, end>>

\* The summary's synchronized: every accepted frame was taken, journaled and
\* published.  worker_processed_ counts what left the queue.
Synchronized ==
  /\ ~failed
  /\ Pending = 0
  /\ Len(journal) = Len(published)
  /\ Len(accepted) = Len(journal)

\* The journal is flushed and synced, then the summary is; either may fail,
\* the second with the summary on disk.
Finish ==
  /\ pc = "flush"
  /\ pc' = "done"
  /\ \/ /\ summary' = IF Synchronized THEN "true" ELSE "false"
        /\ code' = IF failed \/ signal = "context" THEN 1 ELSE 0
        /\ UNCHANGED flags
     \/ /\ summary' \in {"none", IF Synchronized THEN "true" ELSE "false"}
        /\ code' = 1
        /\ Latch
  /\ UNCHANGED <<strict, signal, stream, phase, wire, buffer, work>>

-----------------------------------------------------------------------------
(* The SDK's callback thread.                                              *)

Joined == pc \in {"close", "join", "report", "flush"} \/ Ended

\* on_event, a new connection; nothing reads the flag once the loop has ended.
ConnectEvent ==
  /\ pc \notin Closing /\ ~Ended
  /\ ~connected
  /\ connected' = TRUE
  /\ UNCHANGED <<strict, signal, pc, flags, stream, finished, initialized,
                 wire, buffer, work, end>>

\* on_event, a frame the SDK's assembler refused; only a recorder minds.
MalformedEvent ==
  /\ ~Joined /\ device /\ strict
  /\ Latch
  /\ UNCHANGED <<strict, signal, pc, stream, phase, wire, buffer, work, end>>

\* The frame the SDK hands over next and what it keeps: every frame in order
\* for a recorder, only the latest one for a preview.
Offered == IF strict THEN Head(sdk) ELSE sdk[Len(sdk)]

Remaining == IF strict THEN Tail(sdk) ELSE <<>>

HandOver ==
  /\ ~Joined
  /\ callback = 0
  /\ sdk # <<>>
  /\ sdk' = Remaining
  /\ dropped' = (dropped \/ Len(Remaining) < Len(sdk) - 1)
  /\ UNCHANGED <<emitted, tail>>

\* on_frame: a source that is not ready ignores the frame.
FrameIgnored ==
  /\ HandOver
  /\ ~ready
  /\ UNCHANGED <<strict, signal, pc, flags, stream, phase, buffer, work, end>>

\* on_frame: an invalid frame, or no room for a valid one.
FrameRejected ==
  /\ HandOver
  /\ ready
  /\ rejected' = TRUE
  /\ Latch
  /\ UNCHANGED <<strict, signal, pc, stream, phase, callback, queue, closed,
                 accepted, work, end>>

\* try_copy: the reservation, under the queue's lock.
FrameReserved ==
  /\ HandOver
  /\ ready
  /\ ~closed /\ Pending < Capacity
  /\ callback' = Offered
  /\ UNCHANGED <<strict, signal, pc, flags, stream, phase, queue, closed,
                 rejected, accepted, work, end>>

\* try_copy: the copy was made outside of the lock and is queued.
FrameCopied ==
  /\ callback # 0 /\ ~Ended
  /\ callback' = 0
  /\ queue' = Append(queue, callback)
  /\ accepted' = Append(accepted, callback)
  /\ Notify
  /\ UNCHANGED <<strict, signal, pc, flags, stream, phase, wire, closed,
                 rejected, active, journal, published, end>>

\* Faulty variant: the reservation is given back without waking the worker.
copy_fails_quietly ==
  /\ callback # 0 /\ ~Ended
  /\ callback' = 0
  /\ rejected' = TRUE
  /\ Latch
  /\ UNCHANGED <<strict, signal, pc, stream, phase, wire, closed, queue,
                 accepted, work, end>>

\* try_copy: the copy threw; the reservation is given back.
FrameCopyFails ==
  /\ callback # 0 /\ ~Ended
  /\ callback' = 0
  /\ rejected' = TRUE
  /\ Notify
  /\ Latch
  /\ UNCHANGED <<strict, signal, pc, stream, phase, wire, closed, queue,
                 accepted, active, journal, published, end>>

-----------------------------------------------------------------------------
(* The worker thread.                                                      *)

\* take(): the oldest frame, the end of a closed queue that nothing is pending
\* in, or a wait.
WorkerTakes ==
  /\ worker = "awake" /\ ~Ended
  /\ \/ /\ queue # <<>>
        /\ worker' = "busy" /\ active' = Head(queue) /\ queue' = Tail(queue)
     \/ /\ queue = <<>>
        /\ worker' = IF closed /\ callback = 0 THEN "gone" ELSE "asleep"
        /\ UNCHANGED <<active, queue>>
  /\ UNCHANGED <<strict, signal, pc, flags, stream, phase, wire, callback,
                 closed, rejected, accepted, journal, published, end>>

\* process_frame went through and the frame is complete.
WorkerProcesses ==
  /\ worker = "busy" /\ ~Ended
  /\ journal' = Append(journal, active)
  /\ published' = Append(published, active)
  /\ worker' = "awake" /\ active' = 0
  /\ UNCHANGED <<strict, signal, pc, flags, stream, phase, wire, buffer, end>>

\* process_frame threw: before the journal line counted, between it and the
\* publication, or after both (the marker of the first valid frame).
WorkerFails ==
  /\ worker = "busy" /\ ~Ended
  /\ \/ UNCHANGED <<journal, published>>
     \/ journal' = Append(journal, active) /\ UNCHANGED published
     \/ /\ journal' = Append(journal, active)
        /\ published' = Append(published, active)
  /\ worker' = "awake" /\ active' = 0
  /\ Latch
  /\ UNCHANGED <<strict, signal, pc, stream, phase, wire, buffer, end>>

-----------------------------------------------------------------------------
(* The surroundings: the device, signals, ROS and the watchdogs.           *)

\* A frame reaches the SDK, which has room for it or counts it as dropped.
DeviceSends ==
  /\ device /\ ~Joined /\ pc # "draining"
  /\ emitted < MaxFrames
  /\ emitted' = emitted + 1
  /\ tail' = IF ready THEN tail \cup {emitted + 1} ELSE tail
  /\ \/ Len(sdk) < SdkCapacity /\ sdk' = Append(sdk, emitted + 1)
                               /\ UNCHANGED dropped
     \/ Len(sdk) = SdkCapacity /\ dropped' = TRUE /\ UNCHANGED sdk
  /\ UNCHANGED <<strict, signal, pc, flags, stream, phase, buffer, work, end>>

\* SIGINT or SIGTERM only sets a flag; the ROS context may also go away.  Once
\* the loop has ended neither is read again.
Interrupt ==
  /\ signal = "none" /\ pc \notin Closing /\ ~Ended
  /\ signal' \in {"stop", "context"}
  /\ UNCHANGED <<strict, pc, flags, stream, phase, wire, buffer, work, end>>

\* ProcessStopDeadline and ShutdownDeadline: the process exits at once, and
\* what its threads and its queues held is gone.
DeadlineExpires ==
  /\ signal = "stop" \/ pc \in Closing
  /\ ~Ended
  /\ pc' = "expired"
  /\ code' = 74
  /\ sdk' = <<>> /\ callback' = 0 /\ queue' = <<>>
  /\ worker' = "gone" /\ active' = 0
  /\ UNCHANGED <<strict, signal, flags, stream, phase, dropped, emitted, tail,
                 closed, rejected, accepted, journal, published, summary>>

Main ==
  \/ StartStream \/ Readback \/ BecomeReady
  \/ LoopEnds \/ CloseStop \/ SdkIngress \/ SdkDrained
  \/ CloseQueue \/ JoinWorker \/ Judge \/ Finish

Callback == FrameIgnored \/ FrameReserved \/ FrameCopied \/ FrameCopyFails

Worker == WorkerTakes \/ WorkerProcesses \/ WorkerFails

Next ==
  \/ TickStop \/ TickExpired \/ TickFailed \/ TickConnect \/ TickLost
  \/ StopService \/ Main \/ SdkFails
  \/ ConnectEvent \/ MalformedEvent \/ FrameRejected \/ Callback
  \/ Worker \/ DeviceSends \/ Interrupt \/ DeadlineExpires
  \/ Ended /\ UNCHANGED vars

\* The timer fires, the main thread returns from the calls that have a
\* timeout, the SDK's thread delivers what it holds and the worker runs.
\* Nothing makes a device, a signal or a deadline happen.
Fairness ==
  /\ WF_vars(TickFailed)
  /\ WF_vars(Main)
  /\ WF_vars(Callback \/ FrameRejected)
  /\ WF_vars(Worker)

Spec == Init /\ [][Next]_vars /\ Fairness

-----------------------------------------------------------------------------

\* What source_summary.json tells the recorder is true: a source that calls
\* itself synchronized has journaled and published exactly the frames it
\* accepted, in their order, and a strict source that no service call paused
\* has lost none of the frames that arrived while it was ready, the last ones
\* before the stop was acknowledged included.
SummaryIsTrue ==
  summary = "true" =>
    /\ journal = accepted /\ published = accepted
    /\ strict /\ ~paused => tail \subseteq {accepted[i] : i \in DOMAIN accepted}
    /\ \A i, j \in DOMAIN accepted : i < j => accepted[i] < accepted[j]

\* The process never forgets a stream it may have started: while the device
\* streams a stop is pending, and an exit code of 0 leaves no stream behind.
StreamIsOwned ==
  /\ device => streaming
  /\ code = 0 => ~device

\* A failure that any thread latched leads to an attempt to stop the stream,
\* and a cleanup comes to its end whatever was in the queues when it began.
StopsAndEnds ==
  /\ (failed /\ streaming) ~> (attempted \/ pc \in Closing \/ Ended)
  /\ (pc \in Closing) ~> Ended

=============================================================================
