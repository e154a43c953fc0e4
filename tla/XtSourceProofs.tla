--------------------------- MODULE XtSourceProofs ---------------------------
(***************************************************************************)
(* For any number of frames and any size of the two queues: the summary of *)
(* the source is true and no stream is forgotten.                          *)
(***************************************************************************)
EXTENDS XtSource, SequenceTheorems, TLAPS

USE XtAssumption

-----------------------------------------------------------------------------
(* The inductive invariant.                                                *)

\* The device streams only while streaming_ says so; from the stop of close() on
\* a stream that is left is a failure.
Stopped == {"shutdown", "draining", "close", "join", "report", "flush"}
Streams ==
  /\ device => streaming
  /\ pc \in Stopped => ~streaming \/ failed
  /\ code = 0 => ~streaming

\* Frames keep the order in which they reached the host.
Increasing(s) == \A i, j \in 1 .. Len(s) : i < j => s[i] < s[j]
Ordered ==
  /\ Increasing(accepted) /\ Increasing(sdk)
  /\ \A i \in 1 .. Len(accepted) : accepted[i] <= emitted
  /\ \A j \in 1 .. Len(sdk) : sdk[j] <= emitted
  /\ \A i \in 1 .. Len(accepted), j \in 1 .. Len(sdk) : accepted[i] < sdk[j]
  /\ callback # 0 =>
       /\ callback <= emitted
       /\ \A i \in 1 .. Len(accepted) : accepted[i] < callback
       /\ \A j \in 1 .. Len(sdk) : callback < sdk[j]

\* Until something fails, the accepted frames are the journaled ones, the one in
\* work and the waiting ones, and every journaled frame was published.
Held == IF active = 0 THEN 0 ELSE 1
Piped ==
  /\ worker = "busy" <=> active # 0
  /\ ~failed /\ pc # "expired" =>
       /\ published = journal
       /\ Len(accepted) = Len(journal) + Held + Len(queue)
       /\ \A i \in 1 .. Len(journal) : accepted[i] = journal[i]
       /\ active # 0 => accepted[Len(journal) + 1] = active
       /\ \A i \in 1 .. Len(queue) : accepted[Len(journal) + Held + i] = queue[i]

\* A frame that arrived while a strict source was ready is accepted or still on its
\* way, unless the source was paused or the SDK counted a drop.
Within(f, s) == \E i \in 1 .. Len(s) : s[i] = f
OnItsWay(f) == Within(f, accepted) \/ f = callback \/ Within(f, sdk)
Followed ==
  /\ tail # {} => ready \/ paused \/ pc \in {"join", "report", "flush", "done", "expired"}
  /\ pc \in {"broken", "rejoin"} => paused
  /\ pc \in {"close", "join", "report", "flush"} => sdk = <<>> /\ callback = 0
  /\ strict /\ ~paused /\ pc = "flush" => ~dropped
  /\ strict /\ ~paused /\ ~dropped /\ pc # "expired" => \A f \in tail : OnItsWay(f)

\* The process reports at its end only.
Reports == ~Ended => summary = "none" /\ code = -1

XInv == /\ TypeOK /\ Streams /\ Ordered /\ Piped /\ Followed /\ Reports
        /\ SummaryIsTrue

-----------------------------------------------------------------------------
(* What the parts of an action do.                                         *)

\* RequestStop keeps the types and a failure, and a stream that is left is one.
LEMMA RequestStopDoes ==
  ASSUME TypeOK, device => streaming, NEW already \in BOOLEAN, RequestStop(already)
  PROVE  /\ failed' \in BOOLEAN /\ streaming' \in BOOLEAN /\ device' \in BOOLEAN
         /\ already => failed'
         /\ device' => streaming'
         /\ streaming' => failed' \/ ~streaming
         /\ streaming' => streaming
  <1>1. CASE ~streaming /\ failed' = already /\ UNCHANGED stream
    BY <1>1 DEF TypeOK, stream
  <1>2. CASE streaming /\ streaming' = FALSE /\ device' = FALSE /\ failed' = already
    BY <1>2
  <1>3. CASE streaming /\ device' \in {device, FALSE} /\ failed' = TRUE /\ UNCHANGED streaming
    BY <1>3 DEF TypeOK
  <1> QED
    BY <1>1, <1>2, <1>3 DEF RequestStop

\* fail() keeps the types and leaves the source failed and paused.
LEMMA FailDoes ==
  ASSUME TypeOK, device => streaming, Fail
  PROVE  /\ ready' \in BOOLEAN /\ failed' \in BOOLEAN /\ paused' \in BOOLEAN
         /\ attempted' \in BOOLEAN /\ streaming' \in BOOLEAN /\ device' \in BOOLEAN
         /\ failed' /\ (device' => streaming')
         /\ (paused => paused') /\ (ready' \/ paused' \/ ~ready)
  <1>1. CASE failed /\ UNCHANGED <<flags, stream>>
    BY <1>1 DEF TypeOK, flags, stream
  <1>2. CASE /\ ready' = FALSE /\ paused' = TRUE /\ attempted' = TRUE
             /\ RequestStop(TRUE)
    BY <1>2, RequestStopDoes
  <1> QED
    BY <1>1, <1>2 DEF Fail

\* A latch keeps the types.
LEMMA LatchDoes ==
  ASSUME TypeOK, Latch
  PROVE  /\ ready' \in BOOLEAN /\ failed' \in BOOLEAN /\ paused' \in BOOLEAN
         /\ attempted' \in BOOLEAN /\ failed' /\ paused'
  BY DEF Latch, TypeOK

\* The steps that leave frames, queues and journal alone, apart from a wakeup.
Control == \/ TickStop \/ TickExpired \/ TickFailed \/ TickConnect \/ TickLost
           \/ StopService \/ Main \/ SdkFails \/ ConnectEvent \/ MalformedEvent \/ Interrupt

\* What a step of Control leaves alone.
Frozen ==
  /\ UNCHANGED <<strict, wire, callback, queue, rejected, accepted, active, journal, published>>
  /\ worker' = worker \/ (worker = "asleep" /\ worker' = "awake")

\* Neither a tick, nor a service, nor a step of close() touches a frame.
LEMMA ControlFreezes ==
  ASSUME TypeOK, Control
  PROVE  Frozen
  BY DEF Control, TickStop, TickExpired, TickFailed, TickConnect, TickLost, StopService, Main,
         StartStream, Readback, BecomeReady, LoopEnds, CloseStop, SdkIngress, SdkDrained, CloseQueue,
         JoinWorker, Judge, Finish, SdkFails, ConnectEvent, MalformedEvent, Interrupt, Notify,
         Frozen, wire, buffer, work

\* What a step of Control may do to the rest.
ControlTypes ==
  /\ signal' \in {"none", "stop", "context"}
  /\ ready' \in BOOLEAN /\ failed' \in BOOLEAN /\ paused' \in BOOLEAN
  /\ attempted' \in BOOLEAN /\ finished' \in BOOLEAN /\ initialized' \in BOOLEAN
  /\ streaming' \in BOOLEAN /\ connected' \in BOOLEAN /\ device' \in BOOLEAN
  /\ closed' \in BOOLEAN
Controlled ==
  /\ (failed => failed') /\ (paused => paused')
  /\ ready' \/ paused' \/ ~ready \/ pc' = "join"
  /\ device' => streaming'
  /\ pc' \in Stopped => ~streaming' \/ failed'
Moved ==
  /\ pc' \in {"spin", "start", "readback", "confirmed", "done"} \cup Closing
  /\ pc' \in {"broken", "rejoin"} => paused'
  /\ pc' \in {"close", "join", "report", "flush"} => sdk = <<>> /\ callback = 0
  /\ strict /\ ~paused' /\ pc' = "flush" => ~dropped
  /\ tail # {} /\ pc \in {"join", "report", "flush"} => pc' \in {"report", "flush", "done"} \/ paused'
  /\ pc' # "done" => summary' = "none" /\ code' = -1

\* What a tick, a service, an event, a signal or a step of close() does.
LEMMA ControlDoes ==
  ASSUME XInv, ~Ended, Control
  PROVE  ControlTypes /\ Controlled /\ Moved
  <1>0. /\ TypeOK /\ Streams /\ Followed /\ (device => streaming) /\ pc \notin {"done", "expired"}
        /\ summary = "none" /\ code = -1
    BY DEF XInv, Streams, Reports, Ended
  <1>1. CASE TickStop
    <2>1. ControlTypes
      BY <1>0, <1>1 DEF TickStop, ControlTypes, TypeOK, flags, stream, phase, buffer
    <2>2. Controlled
      BY <1>0, <1>1 DEF TickStop, Controlled, TypeOK, Streams, Followed, Stopped, Closing, flags, stream
    <2>3. Moved
      BY <1>0, <1>1 DEF TickStop, Moved, TypeOK, Followed, Closing, flags, end
    <2> QED
      BY <2>1, <2>2, <2>3
  <1>2. CASE TickExpired
    <2>1. ControlTypes
      BY <1>0, <1>2, LatchDoes DEF TickExpired, ControlTypes, TypeOK, Tick, flags, stream, phase, buffer
    <2>2. Controlled
      BY <1>0, <1>2, LatchDoes DEF TickExpired, Tick, Controlled, TypeOK, Streams, Followed, Stopped, Closing, flags, stream
    <2>3. Moved
      BY <1>0, <1>2, LatchDoes DEF TickExpired, Tick, Moved, TypeOK, Followed, Closing, flags, end
    <2> QED
      BY <2>1, <2>2, <2>3
  <1>3. CASE TickFailed
    <2>1. ControlTypes
      BY <1>0, <1>3, RequestStopDoes DEF TickFailed, ControlTypes, TypeOK, Tick, DropSeen, flags, stream, phase, buffer
    <2>2. Controlled
      BY <1>0, <1>3, RequestStopDoes DEF TickFailed, Tick, DropSeen, Controlled, TypeOK, Streams, Followed, Stopped, Closing, flags, stream
    <2>3. Moved
      BY <1>0, <1>3, RequestStopDoes DEF TickFailed, Tick, DropSeen, Moved, TypeOK, Followed, Closing, flags, end
    <2> QED
      BY <2>1, <2>2, <2>3
  <1>4. CASE TickConnect
    <2>1. ControlTypes
      BY <1>0, <1>4, FailDoes DEF TickConnect, ControlTypes, TypeOK, Healthy, Tick, flags, stream, phase, buffer
    <2>2. Controlled
      BY <1>0, <1>4, FailDoes DEF TickConnect, Healthy, Tick, Controlled, TypeOK, Streams, Followed, Stopped, Closing, flags, stream
    <2>3. Moved
      BY <1>0, <1>4, FailDoes DEF TickConnect, Healthy, Tick, Moved, TypeOK, Followed, Closing, flags, end
    <2> QED
      BY <2>1, <2>2, <2>3
  <1>5. CASE TickLost
    <2>1. ControlTypes
      BY <1>0, <1>5, FailDoes DEF TickLost, ControlTypes, TypeOK, Healthy, Tick, flags, stream, phase, buffer
    <2>2. Controlled
      BY <1>0, <1>5, FailDoes DEF TickLost, Healthy, Tick, Controlled, TypeOK, Streams, Followed, Stopped, Closing, flags, stream
    <2>3. Moved
      BY <1>0, <1>5, FailDoes DEF TickLost, Healthy, Tick, Moved, TypeOK, Followed, Closing, flags, end
    <2> QED
      BY <2>1, <2>2, <2>3
  <1>6. CASE StopService
    <2>1. ControlTypes
      BY <1>0, <1>6, RequestStopDoes DEF StopService, ControlTypes, TypeOK, flags, stream, phase, buffer
    <2>2. Controlled
      BY <1>0, <1>6, RequestStopDoes DEF StopService, Controlled, TypeOK, Streams, Followed, Stopped, Closing, flags, stream
    <2>3. Moved
      BY <1>0, <1>6, RequestStopDoes DEF StopService, Moved, TypeOK, Followed, Closing, flags, end
    <2> QED
      BY <2>1, <2>2, <2>3
  <1>7. CASE StartStream
    <2>1. ControlTypes
      <3>1. /\ finished' \in BOOLEAN
            /\ UNCHANGED stream \/ (streaming' \in BOOLEAN /\ device' \in BOOLEAN)
        BY <1>0, <1>7, Zenon DEF StartStream, TypeOK
      <3> QED
        BY <1>0, <1>7, <3>1 DEF StartStream, ControlTypes, TypeOK, flags, stream, phase, buffer
    <2>2. Controlled
      BY <1>0, <1>7 DEF StartStream, Controlled, TypeOK, Streams, Followed, Stopped, Closing, flags, stream
    <2>3. Moved
      BY <1>0, <1>7 DEF StartStream, Moved, TypeOK, Followed, Closing, flags, end
    <2> QED
      BY <2>1, <2>2, <2>3
  <1>8. CASE Readback
    <2>1. ControlTypes
      <3>1. initialized' \in BOOLEAN
        BY <1>0, <1>8, FailDoes, Zenon DEF Readback, TypeOK
      <3> QED
        BY <1>0, <1>8, FailDoes, <3>1 DEF Readback, ControlTypes, TypeOK, flags, stream, phase, buffer
    <2>2. Controlled
      BY <1>0, <1>8, FailDoes DEF Readback, Controlled, TypeOK, Streams, Followed, Stopped, Closing, flags, stream
    <2>3. Moved
      BY <1>0, <1>8, FailDoes DEF Readback, Moved, TypeOK, Followed, Closing, flags, end
    <2> QED
      BY <2>1, <2>2, <2>3
  <1>9. CASE BecomeReady
    <2>1. ControlTypes
      <3>1. ready' \in BOOLEAN /\ finished' \in BOOLEAN
        BY <1>0, <1>9, Zenon DEF BecomeReady, TypeOK
      <3> QED
        BY <1>0, <1>9, <3>1 DEF BecomeReady, ControlTypes, TypeOK, flags, stream, phase, buffer
    <2>2. Controlled
      BY <1>0, <1>9 DEF BecomeReady, Controlled, TypeOK, Streams, Followed, Stopped, Closing, flags, stream
    <2>3. Moved
      BY <1>0, <1>9 DEF BecomeReady, Moved, TypeOK, Followed, Closing, flags, end
    <2> QED
      BY <2>1, <2>2, <2>3
  <1>10. CASE LoopEnds
    <2>1. ControlTypes
      BY <1>0, <1>10 DEF LoopEnds, ControlTypes, TypeOK, flags, stream, phase, buffer
    <2>2. Controlled
      BY <1>0, <1>10 DEF LoopEnds, Controlled, TypeOK, Streams, Followed, Stopped, Closing, flags, stream
    <2>3. Moved
      BY <1>0, <1>10 DEF LoopEnds, Moved, TypeOK, Followed, Closing, flags, end
    <2> QED
      BY <2>1, <2>2, <2>3
  <1>11. CASE CloseStop
    <2>1. ControlTypes
      BY <1>0, <1>11, RequestStopDoes DEF CloseStop, ControlTypes, TypeOK, flags, stream, phase, buffer
    <2>2. Controlled
      BY <1>0, <1>11, RequestStopDoes DEF CloseStop, Controlled, TypeOK, Streams, Followed, Stopped, Closing, flags, stream
    <2>3. Moved
      BY <1>0, <1>11, RequestStopDoes DEF CloseStop, Moved, TypeOK, Followed, Closing, flags, end
    <2> QED
      BY <2>1, <2>2, <2>3
  <1>12. CASE SdkIngress
    <2>1. ControlTypes
      BY <1>0, <1>12 DEF SdkIngress, ControlTypes, TypeOK, flags, stream, phase, buffer
    <2>2. Controlled
      BY <1>0, <1>12 DEF SdkIngress, Controlled, TypeOK, Streams, Followed, Stopped, Closing, flags, stream
    <2>3. Moved
      BY <1>0, <1>12 DEF SdkIngress, Moved, TypeOK, Followed, Closing, flags, end
    <2> QED
      BY <2>1, <2>2, <2>3
  <1>13. CASE SdkDrained
    <2>1. ControlTypes
      BY <1>0, <1>13 DEF SdkDrained, ControlTypes, TypeOK, flags, stream, phase, buffer
    <2>2. Controlled
      BY <1>0, <1>13 DEF SdkDrained, Controlled, TypeOK, Streams, Followed, Stopped, Closing, flags, stream
    <2>3. Moved
      BY <1>0, <1>13 DEF SdkDrained, Moved, TypeOK, Followed, Closing, flags, end
    <2> QED
      BY <2>1, <2>2, <2>3
  <1>14. CASE CloseQueue
    <2>1. ControlTypes
      <3>1. ready' \in BOOLEAN /\ closed' \in BOOLEAN
        BY <1>0, <1>14, Zenon DEF CloseQueue, TypeOK
      <3> QED
        BY <1>0, <1>14, <3>1 DEF CloseQueue, ControlTypes, TypeOK, flags, stream, phase, buffer
    <2>2. Controlled
      BY <1>0, <1>14 DEF CloseQueue, Controlled, TypeOK, Streams, Followed, Stopped, Closing, flags, stream
    <2>3. Moved
      BY <1>0, <1>14 DEF CloseQueue, Moved, TypeOK, Followed, Closing, flags, end
    <2> QED
      BY <2>1, <2>2, <2>3
  <1>15. CASE JoinWorker
    <2>1. ControlTypes
      BY <1>0, <1>15 DEF JoinWorker, ControlTypes, TypeOK, flags, stream, phase, buffer
    <2>2. Controlled
      BY <1>0, <1>15 DEF JoinWorker, Controlled, TypeOK, Streams, Followed, Stopped, Closing, flags, stream
    <2>3. Moved
      BY <1>0, <1>15 DEF JoinWorker, Moved, TypeOK, Followed, Closing, flags, end
    <2> QED
      BY <2>1, <2>2, <2>3
  <1>16. CASE Judge
    <2>1. ControlTypes
      BY <1>0, <1>16, LatchDoes DEF Judge, ControlTypes, TypeOK, flags, stream, phase, buffer
    <2>2. Controlled
      BY <1>0, <1>16, LatchDoes DEF Judge, Controlled, TypeOK, Streams, Followed, Stopped, Closing, flags, stream
    <2>3. Moved
      BY <1>0, <1>16, LatchDoes DEF Judge, Moved, TypeOK, Followed, Closing, flags, end
    <2> QED
      BY <2>1, <2>2, <2>3
  <1>17. CASE Finish
    <2>1. ControlTypes
      BY <1>0, <1>17, LatchDoes DEF Finish, ControlTypes, TypeOK, flags, stream, phase, buffer
    <2>2. Controlled
      BY <1>0, <1>17, LatchDoes DEF Finish, Controlled, TypeOK, Streams, Followed, Stopped, Closing, flags, stream
    <2>3. Moved
      BY <1>0, <1>17, LatchDoes DEF Finish, Moved, TypeOK, Followed, Closing, flags, end
    <2> QED
      BY <2>1, <2>2, <2>3
  <1>18. CASE SdkFails
    <2>1. ControlTypes
      BY <1>0, <1>18, LatchDoes DEF SdkFails, ControlTypes, TypeOK, flags, stream, phase, buffer
    <2>2. Controlled
      BY <1>0, <1>18, LatchDoes DEF SdkFails, Controlled, TypeOK, Streams, Followed, Stopped, Closing, flags, stream
    <2>3. Moved
      BY <1>0, <1>18, LatchDoes DEF SdkFails, Moved, TypeOK, Followed, Closing, flags, end
    <2> QED
      BY <2>1, <2>2, <2>3
  <1>19. CASE ConnectEvent
    <2>1. ControlTypes
      BY <1>0, <1>19 DEF ConnectEvent, ControlTypes, TypeOK, Ended, flags, stream, phase, buffer
    <2>2. Controlled
      BY <1>0, <1>19 DEF ConnectEvent, Ended, Controlled, TypeOK, Streams, Followed, Stopped, Closing, flags, stream
    <2>3. Moved
      BY <1>0, <1>19 DEF ConnectEvent, Ended, Moved, TypeOK, Followed, Closing, flags, end
    <2> QED
      BY <2>1, <2>2, <2>3
  <1>20. CASE MalformedEvent
    <2>1. ControlTypes
      BY <1>0, <1>20, LatchDoes DEF MalformedEvent, ControlTypes, TypeOK, Joined, Ended, flags, stream, phase, buffer
    <2>2. Controlled
      BY <1>0, <1>20, LatchDoes DEF MalformedEvent, Joined, Ended, Controlled, TypeOK, Streams, Followed, Stopped, Closing, flags, stream
    <2>3. Moved
      BY <1>0, <1>20, LatchDoes DEF MalformedEvent, Joined, Ended, Moved, TypeOK, Followed, Closing, flags, end
    <2> QED
      BY <2>1, <2>2, <2>3
  <1>21. CASE Interrupt
    <2>1. ControlTypes
      BY <1>0, <1>21 DEF Interrupt, ControlTypes, TypeOK, Ended, flags, stream, phase, buffer
    <2>2. Controlled
      BY <1>0, <1>21 DEF Interrupt, Ended, Controlled, TypeOK, Streams, Followed, Stopped, Closing, flags, stream
    <2>3. Moved
      BY <1>0, <1>21 DEF Interrupt, Ended, Moved, TypeOK, Followed, Closing, flags, end
    <2> QED
      BY <2>1, <2>2, <2>3
  <1> QED
    BY <1>1, <1>2, <1>3, <1>4, <1>5, <1>6, <1>7, <1>8, <1>9, <1>10, <1>11, <1>12, <1>13, <1>14,
       <1>15, <1>16, <1>17, <1>18, <1>19, <1>20, <1>21 DEF Control, Main

\* A summary that says synchronized is written over a whole pipeline.
LEMMA FinishSummarizes ==
  ASSUME XInv, Finish
  PROVE  SummaryIsTrue'
  <1> SUFFICES ASSUME summary' = "true" PROVE SummaryIsTrue'
    BY DEF SummaryIsTrue
  <1>1. /\ TypeOK /\ Piped /\ Ordered /\ Followed /\ pc = "flush" /\ Synchronized
        /\ UNCHANGED <<strict, wire, accepted, journal, published>>
        /\ (~paused' => ~paused)
    BY DEF Finish, XInv, buffer, work, Latch, flags
  <1>2. /\ ~failed /\ Len(accepted) = Len(journal) /\ published = journal
        /\ \A k \in 1 .. Len(journal) : accepted[k] = journal[k]
    BY <1>1 DEF Synchronized, Piped
  <1>3. journal = accepted
    BY <1>1, <1>2, SeqEqual DEF TypeOK
  <1>4. strict /\ ~paused => tail \subseteq {accepted[k] : k \in DOMAIN accepted}
    <2> SUFFICES ASSUME strict, ~paused, NEW f \in tail PROVE \E k \in DOMAIN accepted : accepted[k] = f
      OBVIOUS
    <2>1. sdk = <<>> /\ callback = 0 /\ OnItsWay(f) /\ f \in Frames
      BY <1>1 DEF Followed, TypeOK
    <2>2. Within(f, accepted)
      BY <2>1 DEF OnItsWay, Within, Frames
    <2> QED
      BY <1>1, <2>2 DEF Within, TypeOK
  <1>5. \A k, j \in DOMAIN accepted : k < j => accepted[k] < accepted[j]
    <2>1. DOMAIN accepted = 1 .. Len(accepted)
      BY <1>1 DEF TypeOK
    <2> QED
      BY <1>1, <2>1 DEF Ordered, Increasing
  <1> QED
    BY <1>1, <1>2, <1>3, <1>4, <1>5 DEF SummaryIsTrue, wire

\* Nothing but the last step of close() writes a summary or an exit code of 0.
LEMMA OnlyFinishReports ==
  ASSUME XInv, ~Ended, Control, ~Finish
  PROVE  summary' = "none" /\ code' \in {-1, 1}
  <1>1. summary = "none" /\ code = -1
    BY DEF XInv, Reports
  <1> QED
    BY <1>1 DEF Control, TickStop, TickExpired, TickFailed, TickConnect, TickLost, StopService, Main,
         StartStream, Readback, BecomeReady, LoopEnds, CloseStop, SdkIngress, SdkDrained, CloseQueue,
         JoinWorker, Judge, SdkFails, ConnectEvent, MalformedEvent, Interrupt, end

\* A step of Control keeps the invariant.
LEMMA ControlStep ==
  ASSUME XInv, ~Ended, Control
  PROVE  XInv'
  <1>0. /\ TypeOK /\ Streams /\ Ordered /\ Piped /\ Followed
        /\ Frozen /\ ControlTypes /\ Controlled /\ Moved
    BY ControlFreezes, ControlDoes DEF XInv
  <1>1. summary' \in {"none", "true", "false"} /\ code' \in {-1, 0, 1, 74}
    BY OnlyFinishReports DEF Finish
  <1>2. TypeOK'
    BY <1>0, <1>1 DEF TypeOK, Frozen, ControlTypes, Moved, Closing, wire
  <1>3. Streams'
    <2>1. code' = 0 => ~streaming'
      <3>1. CASE Finish
        BY <1>0, <3>1 DEF Finish, Streams, Stopped, stream
      <3>2. CASE ~Finish
        BY <3>2, OnlyFinishReports
      <3> QED
        BY <3>1, <3>2
    <2> QED
      BY <1>0, <2>1 DEF Streams, Controlled
  <1>4. Ordered'
    BY <1>0 DEF Ordered, Increasing, Frozen, wire
  <1>5. Piped'
    BY <1>0 DEF Piped, Held, Frozen, Controlled, Ended
  <1>6. Followed'
    <2>1. tail # {} => ready' \/ paused' \/ pc' \in {"join", "report", "flush", "done", "expired"}
      BY <1>0 DEF Followed, Controlled, Moved, Ended
    <2>2. strict /\ ~paused' /\ ~dropped => \A f \in tail : OnItsWay(f)
      BY <1>0 DEF Followed, Controlled, Ended
    <2> QED
      BY <1>0, <2>1, <2>2 DEF Followed, Moved, Frozen, OnItsWay, Within, wire
  <1>7. Reports'
    BY <1>0 DEF Reports, Moved, Ended
  <1>8. SummaryIsTrue'
    <2>1. CASE Finish
      BY <2>1, FinishSummarizes
    <2>2. CASE ~Finish
      BY <2>2, OnlyFinishReports DEF SummaryIsTrue
    <2> QED
      BY <2>1, <2>2
  <1> QED
    BY <1>2, <1>3, <1>4, <1>5, <1>6, <1>7, <1>8 DEF XInv

-----------------------------------------------------------------------------
(* Frames on their way.                                                    *)

\* What Append, Head and Tail do to a sequence of frames.
LEMMA AppendHolds ==
  ASSUME NEW S, NEW s \in Seq(S), NEW e \in S
  PROVE  /\ Append(s, e) \in Seq(S) /\ Len(Append(s, e)) = Len(s) + 1
         /\ \A i \in 1 .. Len(s) : Append(s, e)[i] = s[i]
         /\ Append(s, e)[Len(s) + 1] = e
  OBVIOUS

\* See AppendHolds.
LEMMA TailHolds ==
  ASSUME NEW S, NEW s \in Seq(S), s # <<>>
  PROVE  /\ Head(s) \in S /\ Head(s) = s[1] /\ Tail(s) \in Seq(S) /\ Len(Tail(s)) = Len(s) - 1
         /\ \A i \in 1 .. Len(s) - 1 : Tail(s)[i] = s[i + 1]
         /\ Len(s) >= 1
  OBVIOUS

\* A frame on its way stays one while the sequences only grow.
LEMMA WithinAppend ==
  ASSUME NEW s \in Seq(Frames), NEW e \in Frames, NEW f
  PROVE  Within(f, Append(s, e)) <=> Within(f, s) \/ f = e
  <1>1. /\ Len(Append(s, e)) = Len(s) + 1 /\ Append(s, e)[Len(s) + 1] = e /\ Len(s) \in Nat
        /\ \A i \in 1 .. Len(s) : Append(s, e)[i] = s[i]
    BY AppendHolds
  <1> QED
    BY <1>1 DEF Within

\* What is handed over is in order with what was accepted and with what is left.
LEMMA HandOverDoes ==
  ASSUME TypeOK, Ordered, HandOver
  PROVE  /\ sdk' \in Seq(Frames) /\ Offered \in Frames /\ dropped' \in BOOLEAN
         /\ UNCHANGED <<emitted, tail>> /\ callback = 0 /\ ~Joined
         /\ Offered <= emitted /\ Increasing(sdk')
         /\ \A j \in 1 .. Len(sdk') : /\ Offered < sdk'[j] /\ sdk'[j] <= emitted
                                      /\ \A i \in 1 .. Len(accepted) : accepted[i] < sdk'[j]
         /\ \A i \in 1 .. Len(accepted) : accepted[i] < Offered
         /\ dropped => dropped'
         /\ strict => \A f : Within(f, sdk) => f = Offered \/ Within(f, sdk')
  <1>1. sdk \in Seq(Frames) /\ sdk # <<>> /\ callback = 0 /\ ~Joined /\ sdk' = Remaining
        /\ UNCHANGED <<emitted, tail>>
    BY DEF HandOver, TypeOK
  <1>2. dropped' \in BOOLEAN /\ (dropped => dropped')
    BY DEF HandOver
  <1>3. CASE strict
    <2>1. /\ Offered \in Frames /\ Offered = sdk[1] /\ sdk' \in Seq(Frames) /\ Len(sdk') = Len(sdk) - 1
          /\ \A j \in 1 .. Len(sdk) - 1 : sdk'[j] = sdk[j + 1]
          /\ Len(sdk) >= 1 /\ Len(sdk) \in Nat
      BY <1>1, <1>3, TailHolds DEF Offered, Remaining
    <2>2. \A f : Within(f, sdk) => f = Offered \/ Within(f, sdk')
      <3> SUFFICES ASSUME NEW f, NEW i \in 1 .. Len(sdk), sdk[i] = f, i # 1
                   PROVE  Within(f, sdk')
        BY <2>1 DEF Within
      <3>1. i - 1 \in 1 .. Len(sdk') /\ sdk'[i - 1] = f
        BY <2>1
      <3> QED
        BY <3>1 DEF Within
    <2>3. Increasing(sdk')
      BY <2>1 DEF Ordered, Increasing
    <2>4. \A j \in 1 .. Len(sdk') : /\ Offered < sdk'[j] /\ sdk'[j] <= emitted
                                     /\ \A i \in 1 .. Len(accepted) : accepted[i] < sdk'[j]
      BY <2>1 DEF Ordered, Increasing
    <2>5. Offered <= emitted /\ \A i \in 1 .. Len(accepted) : accepted[i] < Offered
      BY <2>1 DEF Ordered
    <2> QED
      BY <1>1, <1>2, <2>1, <2>2, <2>3, <2>4, <2>5
  <1>4. CASE ~strict
    <2>1. Offered \in Frames /\ Offered = sdk[Len(sdk)] /\ Len(sdk) \in 1 .. Len(sdk)
          /\ sdk' \in Seq(Frames) /\ Len(sdk') = 0
      BY <1>1, <1>4 DEF Offered, Remaining
    <2> QED
      BY <1>1, <1>2, <1>4, <2>1 DEF Ordered, Increasing, TypeOK
  <1> QED
    BY <1>3, <1>4

\* A step that is none of Control's leaves the main thread and its reports alone.
LEMMA Unreported ==
  ASSUME XInv, ~Ended, UNCHANGED <<pc, end>>
  PROVE  Reports' /\ SummaryIsTrue' /\ summary' = "none" /\ code' = -1
  BY DEF XInv, Reports, Ended, SummaryIsTrue, end

\* on_frame: the frame is ignored, rejected, or reserved a place.
LEMMA HandOverStep ==
  ASSUME XInv, FrameIgnored \/ FrameRejected \/ FrameReserved
  PROVE  XInv'
  <1>0. /\ TypeOK /\ Streams /\ Ordered /\ Piped /\ Followed /\ HandOver
        /\ UNCHANGED <<strict, signal, pc, stream, phase, queue, closed, accepted, work, end>>
    BY DEF XInv, FrameIgnored, FrameRejected, FrameReserved, buffer
  <1>1. /\ sdk' \in Seq(Frames) /\ Offered \in Frames /\ dropped' \in BOOLEAN
        /\ UNCHANGED <<emitted, tail>> /\ callback = 0 /\ ~Joined
        /\ Offered <= emitted /\ Increasing(sdk')
        /\ \A j \in 1 .. Len(sdk') : /\ Offered < sdk'[j] /\ sdk'[j] <= emitted
                                     /\ \A i \in 1 .. Len(accepted) : accepted[i] < sdk'[j]
        /\ \A i \in 1 .. Len(accepted) : accepted[i] < Offered
        /\ dropped => dropped'
        /\ strict => \A f : Within(f, sdk) => f = Offered \/ Within(f, sdk')
    BY <1>0, HandOverDoes
  <1>2. ~Ended /\ pc \notin {"close", "join", "report", "flush"}
    BY <1>1 DEF Joined
  <1>3. /\ \/ UNCHANGED flags /\ ~ready /\ UNCHANGED <<callback, rejected>>
           \/ Latch /\ rejected' = TRUE /\ UNCHANGED callback
           \/ UNCHANGED <<flags, rejected>> /\ callback' = Offered
    BY DEF FrameIgnored, FrameRejected, FrameReserved, buffer
  <1>4. /\ ready' \in BOOLEAN /\ failed' \in BOOLEAN /\ paused' \in BOOLEAN /\ attempted' \in BOOLEAN
        /\ (failed => failed') /\ (paused => paused') /\ (ready' \/ paused' \/ ~ready)
    BY <1>0, <1>3, LatchDoes DEF TypeOK, flags
  <1>5. rejected' \in BOOLEAN /\ callback' \in {0, Offered}
    BY <1>0, <1>1, <1>3 DEF TypeOK
  <1>6. TypeOK'
    <2>1. callback' \in 0 .. MaxFrames
      BY <1>1, <1>5 DEF Frames
    <2> QED
      BY <1>0, <1>1, <1>4, <1>5, <2>1 DEF TypeOK, stream, phase, work, end
  <1>7. Streams'
    BY <1>0, <1>4 DEF Streams, stream, end
  <1>8. Ordered'
    BY <1>0, <1>1, <1>5 DEF Ordered, Increasing
  <1>9. Piped'
    BY <1>0, <1>4 DEF Piped, Held, work
  <1>10. Followed'
    <2>1. ASSUME strict, ~paused', ~dropped', NEW f \in tail PROVE OnItsWay(f)'
      <3>1. ~paused /\ ~dropped /\ OnItsWay(f) /\ f # 0
        BY <1>0, <1>1, <1>2, <1>4, <2>1 DEF Followed, Ended, TypeOK, Frames
      <3>2. ready
        BY <1>0, <1>2, <2>1, <3>1 DEF Followed, Ended
      <3>3. callback' = Offered
        BY <1>3, <2>1, <3>2 DEF Latch
      <3> QED
        BY <1>0, <1>1, <2>1, <3>1, <3>3 DEF OnItsWay
    <2> QED
      BY <1>0, <1>1, <1>2, <1>4, <2>1 DEF Followed
  <1> QED
    BY <1>0, <1>2, <1>6, <1>7, <1>8, <1>9, <1>10, Unreported DEF XInv

\* try_copy: the copy is queued, or it failed.
LEMMA CopyStep ==
  ASSUME XInv, FrameCopied \/ FrameCopyFails
  PROVE  XInv'
  <1>0. /\ TypeOK /\ Streams /\ Ordered /\ Piped /\ Followed /\ ~Ended /\ callback # 0 /\ callback' = 0
        /\ worker' = worker \/ (worker = "asleep" /\ worker' = "awake")
        /\ UNCHANGED <<strict, signal, pc, stream, phase, wire, closed, active, journal, published, end>>
    BY DEF XInv, FrameCopied, FrameCopyFails, Notify
  <1>1. pc \notin {"close", "join", "report", "flush"} /\ callback \in Frames
    BY <1>0 DEF Followed, TypeOK, Frames
  <1>2. Reports' /\ SummaryIsTrue'
    BY <1>0, Unreported
  <1>3. CASE FrameCopied
    <2>1. /\ queue' = Append(queue, callback) /\ accepted' = Append(accepted, callback)
          /\ UNCHANGED <<flags, rejected>>
      BY <1>3 DEF FrameCopied
    <2>2. /\ queue' \in Seq(Frames) /\ Len(queue') = Len(queue) + 1 /\ queue'[Len(queue) + 1] = callback
          /\ \A i \in 1 .. Len(queue) : queue'[i] = queue[i]
      BY <1>0, <1>1, <2>1, AppendHolds DEF TypeOK
    <2>3. /\ accepted' \in Seq(Frames) /\ Len(accepted') = Len(accepted) + 1
          /\ accepted'[Len(accepted) + 1] = callback
          /\ \A i \in 1 .. Len(accepted) : accepted'[i] = accepted[i]
      BY <1>0, <1>1, <2>1, AppendHolds DEF TypeOK
    <2>4. TypeOK'
      BY <1>0, <2>1, <2>2, <2>3 DEF TypeOK, flags, stream, phase, wire, end
    <2>5. Streams'
      BY <1>0, <2>1 DEF Streams, flags, stream, end
    <2>6. Ordered'
      <3>1. \A i \in 1 .. Len(accepted') :
              \/ i \in 1 .. Len(accepted) /\ accepted'[i] = accepted[i]
              \/ i = Len(accepted) + 1 /\ accepted'[i] = callback
        BY <1>0, <2>3 DEF TypeOK
      <3>2. Increasing(accepted')
        <4> SUFFICES ASSUME NEW i \in 1 .. Len(accepted'), NEW j \in 1 .. Len(accepted'), i < j
                     PROVE  accepted'[i] < accepted'[j]
          BY DEF Increasing
        <4>1. i \in 1 .. Len(accepted) /\ accepted'[i] = accepted[i]
          BY <1>0, <2>3, <3>1 DEF TypeOK
        <4> QED
          BY <1>0, <3>1, <4>1 DEF Ordered, Increasing
      <3>3. \A i \in 1 .. Len(accepted') : /\ accepted'[i] <= emitted
                                           /\ \A j \in 1 .. Len(sdk) : accepted'[i] < sdk[j]
        BY <1>0, <3>1 DEF Ordered
      <3> QED
        BY <1>0, <3>1, <3>2, <3>3 DEF Ordered, wire
    <2>7. Piped'
      <3>1. Len(accepted) \in Nat /\ Len(queue) \in Nat /\ Len(journal) \in Nat
        BY <1>0 DEF TypeOK
      <3>2. ASSUME ~failed, pc # "expired"
            PROVE  /\ Len(accepted') = Len(journal) + Held + Len(queue')
                   /\ \A i \in 1 .. Len(journal) : accepted'[i] = journal[i]
                   /\ active # 0 => accepted'[Len(journal) + 1] = active
                   /\ \A i \in 1 .. Len(queue') : accepted'[Len(journal) + Held + i] = queue'[i]
        <4>1. Len(accepted) = Len(journal) + Held + Len(queue) /\ Held \in {0, 1}
          BY <1>0, <3>2 DEF Piped, Held
        <4>2. /\ \A i \in 1 .. Len(journal) : accepted'[i] = journal[i]
              /\ active # 0 => accepted'[Len(journal) + 1] = active
          BY <1>0, <2>3, <3>1, <3>2, <4>1 DEF Piped, Held
        <4>3. \A i \in 1 .. Len(queue') : accepted'[Len(journal) + Held + i] = queue'[i]
          <5> SUFFICES ASSUME NEW i \in 1 .. Len(queue')
                       PROVE  accepted'[Len(journal) + Held + i] = queue'[i]
            OBVIOUS
          <5>1. CASE i = Len(queue) + 1
            BY <2>2, <2>3, <3>1, <4>1, <5>1
          <5>2. CASE i \in 1 .. Len(queue)
            <6>1. Len(journal) + Held + i \in 1 .. Len(accepted)
              BY <3>1, <4>1, <5>2
            <6>2. accepted[Len(journal) + Held + i] = queue[i]
              BY <1>0, <3>2, <5>2 DEF Piped
            <6> QED
              BY <2>2, <2>3, <5>2, <6>1, <6>2
          <5> QED
            BY <2>2, <3>1, <5>1, <5>2
        <4> QED
          BY <2>2, <2>3, <3>1, <4>1, <4>2, <4>3
      <3> QED
        BY <1>0, <2>1, <3>2 DEF Piped, Held, flags
    <2>8. Followed'
      <3>1. ASSUME NEW f, OnItsWay(f), f # 0 PROVE OnItsWay(f)'
        BY <1>0, <1>1, <2>1, <3>1, WithinAppend DEF OnItsWay, wire, TypeOK
      <3>2. \A f \in tail : f # 0
        BY <1>0 DEF TypeOK, Frames
      <3> QED
        BY <1>0, <1>1, <2>1, <3>1, <3>2 DEF Followed, flags, wire
    <2> QED
      BY <1>2, <2>4, <2>5, <2>6, <2>7, <2>8 DEF XInv
  <1>4. CASE FrameCopyFails
    <2>1. Latch /\ rejected' = TRUE /\ UNCHANGED <<queue, accepted>>
      BY <1>4 DEF FrameCopyFails
    <2>2. /\ ready' \in BOOLEAN /\ failed' \in BOOLEAN /\ paused' \in BOOLEAN /\ attempted' \in BOOLEAN
          /\ failed' /\ paused'
      BY <1>0, <2>1, LatchDoes
    <2>3. rejected' \in BOOLEAN
      BY <2>1, Zenon
    <2>4. TypeOK'
      BY <1>0, <2>1, <2>2, <2>3 DEF TypeOK, stream, phase, wire, end
    <2>5. Streams' /\ Ordered'
      BY <1>0, <2>1, <2>2 DEF Streams, Ordered, Increasing, stream, wire, end
    <2>6. Piped'
      BY <1>0, <2>2 DEF Piped
    <2>7. Followed'
      BY <1>0, <1>1, <2>2 DEF Followed
    <2> QED
      BY <1>2, <2>4, <2>5, <2>6, <2>7 DEF XInv
  <1> QED
    BY <1>3, <1>4

\* take(): a frame moves from the queue to the worker, or the worker waits or ends.
LEMMA WorkerTakesStep ==
  ASSUME XInv, WorkerTakes
  PROVE  XInv'
  <1>0. /\ TypeOK /\ Streams /\ Ordered /\ Piped /\ Followed /\ ~Ended /\ worker = "awake" /\ active = 0
        /\ UNCHANGED <<strict, signal, pc, flags, stream, phase, wire, callback, closed, rejected,
                       accepted, journal, published, end>>
    BY DEF XInv, WorkerTakes, Piped
  <1>1. Streams' /\ Ordered' /\ Followed' /\ Reports' /\ SummaryIsTrue'
    BY <1>0, Unreported
    DEF Streams, Ordered, Increasing, Followed, OnItsWay, Within, flags, stream, wire, end
  <1>2. CASE queue # <<>>
    <2>1. worker' = "busy" /\ active' = Head(queue) /\ queue' = Tail(queue)
      BY <1>2 DEF WorkerTakes
    <2>2. /\ active' \in Frames /\ active' = queue[1] /\ queue' \in Seq(Frames)
          /\ Len(queue') = Len(queue) - 1 /\ Len(queue) >= 1
          /\ \A k \in 1 .. Len(queue) - 1 : queue'[k] = queue[k + 1]
      BY <1>0, <1>2, <2>1, TailHolds DEF TypeOK
    <2>3. TypeOK'
      BY <1>0, <2>1, <2>2 DEF TypeOK, Frames, flags, stream, phase, wire, end
    <2>4. Piped'
      <3>1. active' # 0 /\ Held' = 1 /\ Held = 0 /\ Len(queue) \in Nat /\ Len(journal) \in Nat
        BY <1>0, <2>2 DEF Held, Frames, TypeOK
      <3>2. ASSUME ~failed, pc # "expired"
            PROVE  /\ published = journal /\ Len(accepted) = Len(journal) + 1 + Len(queue')
                   /\ \A k \in 1 .. Len(journal) : accepted[k] = journal[k]
                   /\ accepted[Len(journal) + 1] = active'
                   /\ \A k \in 1 .. Len(queue') : accepted[Len(journal) + 1 + k] = queue'[k]
        <4>1. /\ published = journal /\ Len(accepted) = Len(journal) + Len(queue)
              /\ \A k \in 1 .. Len(journal) : accepted[k] = journal[k]
              /\ \A k \in 1 .. Len(queue) : accepted[Len(journal) + k] = queue[k]
          BY <1>0, <3>1, <3>2 DEF Piped
        <4>2. \A k \in 1 .. Len(queue') : k + 1 \in 1 .. Len(queue) /\ Len(journal) + 1 + k = Len(journal) + (k + 1)
          BY <2>2, <3>1
        <4> QED
          BY <2>2, <3>1, <4>1, <4>2
      <3> QED
        BY <1>0, <2>1, <3>1, <3>2 DEF Piped, flags
    <2> QED
      BY <1>1, <2>3, <2>4 DEF XInv
  <1>3. CASE queue = <<>>
    <2>1. worker' \in {"gone", "asleep"} /\ UNCHANGED <<active, queue>>
      BY <1>3 DEF WorkerTakes
    <2>2. TypeOK'
      BY <1>0, <2>1 DEF TypeOK, flags, stream, phase, wire, end
    <2>3. Piped'
      BY <1>0, <2>1 DEF Piped, Held, flags
    <2> QED
      BY <1>1, <2>2, <2>3 DEF XInv
  <1> QED
    BY <1>2, <1>3

\* process_frame went through, or threw somewhere.
LEMMA WorkerEndsStep ==
  ASSUME XInv, WorkerProcesses \/ WorkerFails
  PROVE  XInv'
  <1>0. /\ TypeOK /\ Streams /\ Ordered /\ Piped /\ Followed /\ ~Ended /\ worker = "busy" /\ active # 0
        /\ worker' = "awake" /\ active' = 0
        /\ UNCHANGED <<strict, signal, pc, stream, phase, wire, buffer, end>>
    BY DEF XInv, WorkerProcesses, WorkerFails, Piped
  <1>1. active \in Frames
    BY <1>0 DEF TypeOK, Frames
  <1>2. Ordered' /\ Reports' /\ SummaryIsTrue'
    BY <1>0, Unreported DEF Ordered, Increasing, wire, buffer
  <1>3. /\ Append(journal, active) \in Seq(Frames) /\ Len(Append(journal, active)) = Len(journal) + 1
        /\ Append(published, active) \in Seq(Frames)
        /\ Append(journal, active)[Len(journal) + 1] = active
        /\ \A k \in 1 .. Len(journal) : Append(journal, active)[k] = journal[k]
    BY <1>0, <1>1, AppendHolds DEF TypeOK
  <1>4. CASE WorkerProcesses
    <2>1. /\ journal' = Append(journal, active) /\ published' = Append(published, active)
          /\ UNCHANGED flags
      BY <1>4 DEF WorkerProcesses
    <2>2. TypeOK'
      BY <1>0, <1>3, <2>1 DEF TypeOK, flags, stream, phase, wire, buffer, end
    <2>3. Streams' /\ Followed'
      BY <1>0, <2>1 DEF Streams, Followed, OnItsWay, Within, flags, stream, wire, buffer, end
    <2>4. Piped'
      <3>1. Held = 1 /\ Held' = 0 /\ Len(journal) \in Nat /\ Len(queue) \in Nat
        BY <1>0 DEF Held, TypeOK
      <3>2. ASSUME ~failed, pc # "expired"
            PROVE  /\ published' = journal' /\ Len(accepted) = Len(journal') + Len(queue)
                   /\ \A k \in 1 .. Len(journal') : accepted[k] = journal'[k]
                   /\ \A k \in 1 .. Len(queue) : accepted[Len(journal') + k] = queue[k]
        <4>1. /\ published = journal /\ Len(accepted) = Len(journal) + 1 + Len(queue)
              /\ \A k \in 1 .. Len(journal) : accepted[k] = journal[k]
              /\ accepted[Len(journal) + 1] = active
              /\ \A k \in 1 .. Len(queue) : accepted[Len(journal) + 1 + k] = queue[k]
          BY <1>0, <3>1, <3>2 DEF Piped
        <4> QED
          BY <1>3, <2>1, <3>1, <4>1
      <3> QED
        BY <1>0, <2>1, <3>1, <3>2 DEF Piped, flags, buffer
    <2> QED
      BY <1>2, <2>2, <2>3, <2>4 DEF XInv
  <1>5. CASE WorkerFails
    <2>1. Latch /\ journal' \in {journal, Append(journal, active)}
          /\ published' \in {published, Append(published, active)}
      BY <1>5 DEF WorkerFails
    <2>2. /\ ready' \in BOOLEAN /\ failed' \in BOOLEAN /\ paused' \in BOOLEAN /\ attempted' \in BOOLEAN
          /\ failed' /\ paused'
      BY <1>0, <2>1, LatchDoes
    <2>3. journal' \in Seq(Frames) /\ published' \in Seq(Frames)
      <3>1. journal \in Seq(Frames) /\ published \in Seq(Frames)
        BY <1>0 DEF TypeOK
      <3> QED
        BY <1>3, <2>1, <3>1, Zenon
    <2>4. TypeOK'
      BY <1>0, <2>2, <2>3 DEF TypeOK, stream, phase, wire, buffer, end
    <2>5. Streams' /\ Piped'
      BY <1>0, <2>2 DEF Streams, Piped, stream, end
    <2>6. Followed'
      BY <1>0, <2>2 DEF Followed, wire, buffer
    <2> QED
      BY <1>2, <2>4, <2>5, <2>6 DEF XInv
  <1> QED
    BY <1>4, <1>5

\* A frame reaches the SDK.
LEMMA DeviceSendsStep ==
  ASSUME XInv, DeviceSends
  PROVE  XInv'
  <1>0. /\ TypeOK /\ Streams /\ Ordered /\ Piped /\ Followed /\ ~Joined
        /\ emitted < MaxFrames /\ emitted' = emitted + 1
        /\ tail' = IF ready THEN tail \cup {emitted + 1} ELSE tail
        /\ \/ sdk' = Append(sdk, emitted + 1) /\ UNCHANGED dropped
           \/ dropped' = TRUE /\ UNCHANGED sdk
        /\ UNCHANGED <<strict, signal, pc, flags, stream, phase, buffer, work, end>>
    BY DEF XInv, DeviceSends
  <1>1. ~Ended /\ pc \notin {"close", "join", "report", "flush"}
    BY <1>0 DEF Joined
  <1>2. emitted + 1 \in Frames /\ emitted \in Nat /\ emitted + 1 # 0
    BY <1>0 DEF TypeOK, Frames
  <1>3. sdk' \in Seq(Frames) /\ dropped' \in BOOLEAN
    <2>1. CASE sdk' = Append(sdk, emitted + 1) /\ UNCHANGED dropped
      BY <1>0, <1>2, <2>1, AppendHolds DEF TypeOK
    <2>2. CASE dropped' = TRUE /\ UNCHANGED sdk
      BY <1>0, <2>2 DEF TypeOK
    <2> QED
      BY <1>0, <2>1, <2>2
  <1>4. \A j \in 1 .. Len(sdk') : \/ j \in 1 .. Len(sdk) /\ sdk'[j] = sdk[j]
                                  \/ j = Len(sdk) + 1 /\ sdk'[j] = emitted + 1 /\ Len(sdk') = Len(sdk) + 1
    <2>0. sdk \in Seq(Frames) /\ Len(sdk) \in Nat
      BY <1>0 DEF TypeOK
    <2>1. CASE sdk' = Append(sdk, emitted + 1)
      <3>1. /\ Len(sdk') = Len(sdk) + 1 /\ sdk'[Len(sdk) + 1] = emitted + 1
            /\ \A k \in 1 .. Len(sdk) : sdk'[k] = sdk[k]
        BY <1>2, <2>0, <2>1, AppendHolds
      <3> QED
        BY <2>0, <3>1
    <2>2. CASE UNCHANGED sdk
      BY <2>2
    <2> QED
      BY <1>0, <2>1, <2>2
  <1>5. TypeOK'
    <2>1. emitted' \in 0 .. MaxFrames /\ tail' \in SUBSET Frames
      BY <1>0, <1>2 DEF TypeOK
    <2> QED
      BY <1>0, <1>3, <2>1 DEF TypeOK, flags, stream, phase, buffer, work, end
  <1>6. Streams' /\ Piped'
    BY <1>0 DEF Streams, Piped, Held, flags, stream, buffer, work, end
  <1>7. Ordered'
    <2>1. Increasing(sdk')
      <3> SUFFICES ASSUME NEW i \in 1 .. Len(sdk'), NEW j \in 1 .. Len(sdk'), i < j
                   PROVE  sdk'[i] < sdk'[j]
        BY DEF Increasing
      <3>1. Len(sdk) \in Nat /\ Len(sdk') \in Nat
        BY <1>0, <1>3 DEF TypeOK
      <3>2. i \in 1 .. Len(sdk) /\ sdk'[i] = sdk[i]
        BY <1>4, <3>1
      <3>3. sdk[i] \in Nat
        BY <1>0, <3>2 DEF TypeOK, Frames
      <3> QED
        BY <1>0, <1>2, <1>4, <3>2, <3>3 DEF Ordered, Increasing
    <2>2. \A j \in 1 .. Len(sdk') : sdk'[j] <= emitted + 1
      BY <1>0, <1>2, <1>4 DEF Ordered, TypeOK, Frames
    <2>3. \A i \in 1 .. Len(accepted) : /\ accepted[i] <= emitted + 1
                                        /\ \A j \in 1 .. Len(sdk') : accepted[i] < sdk'[j]
      <3> SUFFICES ASSUME NEW i \in 1 .. Len(accepted)
                   PROVE  accepted[i] <= emitted + 1 /\ \A j \in 1 .. Len(sdk') : accepted[i] < sdk'[j]
        OBVIOUS
      <3>1. accepted[i] \in Nat /\ accepted[i] <= emitted
        BY <1>0 DEF TypeOK, Frames, Ordered
      <3> QED
        BY <1>0, <1>2, <1>4, <3>1 DEF Ordered
    <2>4. callback # 0 => callback <= emitted + 1 /\ \A j \in 1 .. Len(sdk') : callback < sdk'[j]
      BY <1>0, <1>2, <1>4 DEF Ordered, TypeOK
    <2> QED
      BY <1>0, <2>1, <2>2, <2>3, <2>4 DEF Ordered, Increasing, buffer
  <1>8. Followed'
    <2>1. tail' # {} => ready' \/ paused' \/ pc' \in {"join", "report", "flush", "done", "expired"}
      BY <1>0 DEF Followed, flags
    <2>2. ASSUME strict, ~paused, ~dropped', NEW f \in tail' PROVE OnItsWay(f)'
      <3>1. ~dropped /\ sdk' = Append(sdk, emitted + 1)
        BY <1>0, <2>2
      <3>2. CASE f = emitted + 1
        BY <1>0, <1>2, <3>1, <3>2, WithinAppend DEF OnItsWay, TypeOK
      <3>3. CASE f \in tail
        <4>1. OnItsWay(f)
          BY <1>0, <1>1, <2>2, <3>1, <3>3 DEF Followed, Ended
        <4> QED
          BY <1>0, <1>2, <3>1, <4>1, WithinAppend DEF OnItsWay, TypeOK, buffer
      <3> QED
        BY <1>0, <2>2, <3>2, <3>3
    <2> QED
      BY <1>0, <1>1, <2>1, <2>2 DEF Followed, flags
  <1> QED
    BY <1>0, <1>1, <1>5, <1>6, <1>7, <1>8, Unreported DEF XInv

\* A deadline ends the process.
LEMMA DeadlineStep ==
  ASSUME XInv, DeadlineExpires
  PROVE  XInv'
  <1>0. /\ TypeOK /\ Streams /\ Ordered /\ Followed /\ pc' = "expired" /\ code' = 74
        /\ sdk' = <<>> /\ callback' = 0 /\ queue' = <<>> /\ worker' = "gone" /\ active' = 0
        /\ UNCHANGED <<strict, signal, flags, stream, phase, dropped, emitted, tail, closed, rejected,
                       accepted, journal, published, summary>>
        /\ summary = "none"
    BY DEF XInv, DeadlineExpires, Reports
  <1>1. TypeOK'
    BY <1>0 DEF TypeOK, flags, stream, phase
  <1>2. Streams' /\ Piped' /\ Reports' /\ SummaryIsTrue'
    BY <1>0 DEF Streams, Stopped, Piped, Reports, Ended, SummaryIsTrue, stream
  <1>3. Ordered'
    BY <1>0 DEF Ordered, Increasing
  <1>4. Followed'
    BY <1>0 DEF Followed
  <1> QED
    BY <1>1, <1>2, <1>3, <1>4 DEF XInv

-----------------------------------------------------------------------------
(* The theorems.                                                           *)

\* The invariant holds when the process starts.
LEMMA Starts == Init => XInv
  <1> SUFFICES ASSUME Init PROVE XInv
    OBVIOUS
  <1>1. TypeOK
    <2>1. /\ ready \in BOOLEAN /\ failed \in BOOLEAN /\ paused \in BOOLEAN /\ attempted \in BOOLEAN
          /\ finished \in BOOLEAN /\ initialized \in BOOLEAN /\ streaming \in BOOLEAN
          /\ connected \in BOOLEAN /\ device \in BOOLEAN /\ dropped \in BOOLEAN /\ closed \in BOOLEAN
          /\ rejected \in BOOLEAN
      BY Zenon DEF Init
    <2> QED
      BY <2>1 DEF Init, TypeOK
  <1>2. Streams /\ Ordered /\ Piped /\ Followed /\ Reports /\ SummaryIsTrue
    BY DEF Init, Streams, Stopped, Ordered, Increasing, Piped, Held, Followed, Reports, SummaryIsTrue
  <1> QED
    BY <1>1, <1>2 DEF XInv

\* Every step keeps the invariant; a process that ended takes no step.
LEMMA Keeps == XInv /\ [Next]_vars => XInv'
  <1> SUFFICES ASSUME XInv, [Next]_vars PROVE XInv'
    OBVIOUS
  <1>1. CASE UNCHANGED vars
    BY <1>1 DEF vars, flags, stream, phase, wire, buffer, work, end, XInv, TypeOK, Streams, Ordered,
       Increasing, Piped, Held, Followed, OnItsWay, Within, Reports, Ended, SummaryIsTrue
  <1>2. CASE Control
    <2>1. ~Ended
      BY <1>2 DEF Control, TickStop, TickExpired, TickFailed, TickConnect, TickLost, StopService, Main,
         StartStream, Readback, BecomeReady, LoopEnds, CloseStop, SdkIngress, SdkDrained, CloseQueue,
         JoinWorker, Judge, Finish, SdkFails, ConnectEvent, MalformedEvent, Interrupt, Healthy, Tick,
         Joined, Ended
    <2> QED
      BY <1>2, <2>1, ControlStep
  <1>3. CASE Callback \/ FrameRejected
    BY <1>3, HandOverStep, CopyStep DEF Callback
  <1>4. CASE Worker
    BY <1>4, WorkerTakesStep, WorkerEndsStep DEF Worker
  <1> QED
    BY <1>1, <1>2, <1>3, <1>4, DeviceSendsStep, DeadlineStep DEF Next, Control

\* The invariant implies what the runs check.
LEMMA Implies == XInv => TypeOK /\ SummaryIsTrue /\ StreamIsOwned
  BY DEF XInv, Streams, StreamIsOwned

\* Type correctness of the four threads of xt_source_node.cpp.
THEOREM SourceTypeCorrect == Spec => []TypeOK
  BY Starts, Keeps, Implies, PTL DEF Spec

\* source_summary.json, written by close(), is true for any number of frames and
\* any capacity of the queues.
THEOREM SummaryIsAlwaysTrue == Spec => []SummaryIsTrue
  BY Starts, Keeps, Implies, PTL DEF Spec

\* A stream that read_identity_and_start() may have started is stopped, or reported
\* by the exit code of close().
THEOREM StreamIsAlwaysOwned == Spec => []StreamIsOwned
  BY Starts, Keeps, Implies, PTL DEF Spec

============================================================================
