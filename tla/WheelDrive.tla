----------------------------- MODULE WheelDrive -----------------------------
(***************************************************************************)
(* The owner of the drive wheels during a mapping session: the scheduler   *)
(* MappingWheel and its serial channel WheelChannel                        *)
(* (src/wc_runtime/mapping_wheel.py).  One thread runs                     *)
(*                                                                         *)
(*     while not stopped and owner.failure is None:                        *)
(*         control_socket.pump(); owner.step()                             *)
(*                                                                         *)
(* and every control write of step() calls the socket pump once more, from *)
(* the guard evaluated immediately before the write.  Operator packets can *)
(* therefore change the intent between the moment step() chose a frame and *)
(* the moment that frame is written; pc says where step() is, and packets  *)
(* are accepted exactly at the two places where the code pumps.            *)
(*                                                                         *)
(* Time is abstracted to what the code asks of it: whether the last keys   *)
(* packet, UI heartbeat and feedback sample are still fresh, and how many  *)
(* of the latest samples are both zero and fresh.  Freshness ends at any   *)
(* moment; whether a sample or an initialization write is due is a free    *)
(* choice, and so is the next velocity write, except that two samples,     *)
(* FEEDBACK_PERIOD_S apart, cannot both fall into one CONTROL_PERIOD_S.    *)
(* Reasons, journal records, counters for the status packet and the        *)
(* numeric speed are left out.  The motor controller (dev) is outside the  *)
(* repository: it executes every acknowledged frame, and a frame that was  *)
(* written but not acknowledged may or may not have been executed.         *)
(***************************************************************************)
EXTENDS Integers, FiniteSets

CONSTANTS
    HybridManual,     \* interaction_policy = 'hybrid_manual'
    ArmAllowed,       \* manual_controls.arm_allowed
    KeyInputs,        \* the key sets the operator's packets carry
    MaxGeneration     \* bound: no packet is accepted at this generation

Keys == {"w", "a", "s", "d"}

ASSUME ConfigAssumption == HybridManual \in BOOLEAN /\ ArmAllowed \in BOOLEAN
ASSUME InputAssumption == KeyInputs \subseteq SUBSET Keys /\ MaxGeneration \in Nat

VARIABLES
    w,                   \* the fields of MappingWheel and of its WheelChannel
    pc,                  \* where the owner thread is
    step_generation,     \* step(): generation_before_step
    release_generation,  \* _release(): generation
    request,             \* step(): index of the initialization write chosen
    expected,            \* step(): the target of the velocity write chosen
    told,                \* the latest generation a status packet can have announced
    cancelled,           \* stopped[0], set by SIGINT, SIGTERM or SIGHUP
    dev                  \* the motor controller: servo enabled, speed target

vars == <<w, pc, step_generation, release_generation, request, expected, told, cancelled, dev>>

-----------------------------------------------------------------------------

Bit(b) == IF b THEN 1 ELSE 0

\* target(): the commanded direction of a set of held keys.
target(ks) == <<Bit("w" \in ks) - Bit("s" \in ks), Bit("a" \in ks) - Bit("d" \in ks)>>

Targets == (-1..1) \X (-1..1)
Zero == <<0, 0>>

States == {"READY", "DISARMED", "INITIALIZING", "ARMED", "FAULT"}

\* The positions of the owner thread.  "top": the loop condition; "pump": the
\* socket pump before step(); the "...Guard" positions: the pump inside a
\* prewrite guard; the others: inside step() or close().
Positions == {"top", "pump", "stop", "feedback", "act", "releaseGuard", "schedule",
              "initGuard", "driveGuard", "faultStop", "closeStop", "closed"}
Pumping == {"pump", "releaseGuard", "initGuard", "driveGuard"}

\* sequence of step(): three FC06 writes, a zero speed, the enable, completion.
InitLength == 5
ZeroWrite == 3
EnableWrite == 4

\* The types of the fields.
Flag == BOOLEAN
KeySet == SUBSET Keys
Heartbeat == {"none", "fresh", "stale"}
Count(n) == 0..n

Owner == [
    state : States,
    keys : KeySet,
    keys_fresh : Flag,            \* now - last_keys < KEY_TIMEOUT_S
    peer_connected : Flag,
    foreground : Flag,
    ui : Heartbeat, \* last_ui_heartbeat: None, younger, older than KEY_TIMEOUT_S
    arm_generation : Nat,
    init_step : Count(InitLength),
    initialized_by_user : Flag,
    stop_requested : Flag,
    stop_deadline : Flag,         \* stop_deadline is not None
    stop_zero_samples : Count(3),        \* 3 stands for three or more
    feedback_fresh : Flag,        \* now - last_feedback <= FEEDBACK_FRESH_S
    window : Count(3),                   \* how many of the latest samples are zero and fresh
    command_wait : Count(2),             \* next_command: 0 due; else the samples that force it due
    push_mode : Flag,
    push_mode_requested : Flag,
    hybrid_release_inhibited : Flag,
    failed : Flag,                \* WheelChannel.failed
    motion_may_exist : Flag,      \* WheelChannel.motion_may_exist
    recovery_attempted : Flag]    \* WheelChannel.recovery_attempted

\* MappingWheel.__init__ and WheelChannel.__init__.
NewOwner == [
    state |-> IF ArmAllowed THEN "READY" ELSE "DISARMED",
    keys |-> {}, keys_fresh |-> FALSE,
    peer_connected |-> FALSE, foreground |-> FALSE, ui |-> "none",
    arm_generation |-> 0,
    init_step |-> 0, initialized_by_user |-> FALSE,
    stop_requested |-> FALSE, stop_deadline |-> FALSE, stop_zero_samples |-> 0,
    feedback_fresh |-> FALSE, window |-> 0, command_wait |-> 0,
    push_mode |-> FALSE, push_mode_requested |-> FALSE, hybrid_release_inhibited |-> FALSE,
    failed |-> FALSE, motion_may_exist |-> FALSE, recovery_attempted |-> FALSE]

\* The controller may hold a speed target of an earlier session; its servo is off.
Init ==
    /\ w = NewOwner
    /\ pc = "top"
    /\ step_generation = 0
    /\ release_generation = 0
    /\ request = 0
    /\ expected = Zero
    /\ told = 0
    /\ cancelled = FALSE
    /\ dev \in [enabled : {FALSE}, speed : Targets]

-----------------------------------------------------------------------------
(* The methods of MappingWheel that change only its own fields, as           *)
(* functions of the fields, so that one handler can call several of them.    *)

_ui_fresh(v) == v.peer_connected /\ v.foreground /\ v.ui = "fresh"

\* Faulty variant: a revocation that clears the intent and requests no stop.
disarm_without_stop(v, all_released) ==
    [v EXCEPT !.keys = {}, !.keys_fresh = FALSE, !.arm_generation = v.arm_generation + 1,
              !.state = IF v.state = "FAULT" THEN "FAULT" ELSE "READY", !.init_step = 0,
              !.foreground = FALSE, !.ui = "none"]

\* disarm(reason); all_released stands for reason = 'ALL_KEYS_RELEASED'.
disarm(v, all_released) ==
    LET normal_release == all_released /\ HybridManual /\ _ui_fresh(v)
        deadline == v.stop_deadline /\ ~normal_release
    IN [v EXCEPT
         !.keys = {},
         !.keys_fresh = FALSE,
         !.arm_generation = v.arm_generation + 1,
         !.state = IF v.state = "FAULT" THEN "FAULT" ELSE IF ArmAllowed THEN "READY" ELSE "DISARMED",
         !.init_step = 0,
         !.push_mode_requested = normal_release,
         !.hybrid_release_inhibited = IF HybridManual THEN ~normal_release ELSE v.hybrid_release_inhibited,
         !.foreground = v.foreground /\ (HybridManual => normal_release),
         !.ui = IF HybridManual /\ ~normal_release THEN "none" ELSE v.ui,
         !.stop_deadline = deadline,
         !.stop_requested = v.stop_requested \/ normal_release \/ (v.motion_may_exist /\ ~deadline)]

revoke(v) == disarm(v, FALSE)

fault(v) == revoke([v EXCEPT !.state = "FAULT"])

connected(v) == [v EXCEPT !.peer_connected = TRUE, !.foreground = FALSE, !.ui = "none"]

disconnected(v) == revoke([v EXCEPT !.peer_connected = FALSE])

\* ManualSocket.pump() on a malformed, expired or flooding client.
rejected(v) == disconnected(revoke(v))

\* _request_hybrid_push(); closing never holds here: close() runs after the
\* socket is gone.
_request_hybrid_push(v) ==
    IF /\ HybridManual /\ ArmAllowed /\ ~v.hybrid_release_inhibited /\ _ui_fresh(v)
       /\ v.keys = {} /\ ~v.push_mode /\ ~v.push_mode_requested
       /\ v.state = "READY" /\ ~cancelled
    THEN [v EXCEPT !.push_mode_requested = TRUE,
                   !.stop_zero_samples = 0,
                   !.stop_deadline = ~v.motion_may_exist,
                   !.stop_requested = @ \/ v.motion_may_exist]
    ELSE v

_stationary_window_fresh(v) == v.stop_zero_samples = 3 /\ v.window = 3

\* command() for a push_mode packet of generation g.
push_command(v, g, enabled) ==
    IF v.state = "FAULT" \/ ~ArmAllowed \/ ~v.peer_connected \/ g # v.arm_generation
    THEN v
    ELSE LET d == revoke(v)
         IN [d EXCEPT !.push_mode = FALSE,
                      !.push_mode_requested = enabled,
                      !.stop_deadline = @ /\ ~enabled,
                      !.stop_requested = @ \/ enabled]

\* A foreground keys packet of hybrid mode, before its keys are looked at.
heartbeat(v, ks) ==
    IF ks = {}
    THEN [v EXCEPT !.foreground = TRUE, !.ui = "fresh"]
    ELSE [v EXCEPT !.foreground = TRUE, !.ui = "fresh",
                   !.hybrid_release_inhibited = FALSE,
                   !.push_mode = FALSE, !.push_mode_requested = FALSE,
                   !.stop_deadline = FALSE, !.stop_zero_samples = 0]

\* Faulty variant: opposing keys do not ask for a stop.
opposing_unstopped(v, ks) ==
    CASE v.keys # {} /\ ~v.keys_fresh -> revoke(v)
      [] (v.keys = {} \/ v.keys_fresh) /\ target(ks) # Zero ->
            [v EXCEPT !.keys = ks, !.keys_fresh = TRUE]
      [] (v.keys = {} \/ v.keys_fresh) /\ target(ks) = Zero /\ ks # {} ->
            [v EXCEPT !.keys = ks, !.keys_fresh = TRUE, !.state = "READY", !.init_step = 0]
      [] (v.keys = {} \/ v.keys_fresh) /\ ks = {} ->
            IF v.keys # {} \/ v.state \in {"INITIALIZING", "ARMED"}
            THEN disarm([v EXCEPT !.keys = {}], TRUE)
            ELSE _request_hybrid_push([v EXCEPT !.keys_fresh = FALSE])

\* The keys of a current packet replace the held keys.
take_keys(v, ks) ==
    CASE v.keys # {} /\ ~v.keys_fresh -> revoke(v)
      [] (v.keys = {} \/ v.keys_fresh) /\ target(ks) # Zero ->
            [v EXCEPT !.keys = ks, !.keys_fresh = TRUE]
      [] (v.keys = {} \/ v.keys_fresh) /\ target(ks) = Zero /\ ks # {} ->
            [v EXCEPT !.keys = ks, !.keys_fresh = TRUE, !.state = "READY", !.init_step = 0,
                      !.stop_requested = @ \/ (v.motion_may_exist /\ ~v.stop_deadline)]
      [] (v.keys = {} \/ v.keys_fresh) /\ ks = {} ->
            IF v.keys # {} \/ v.state \in {"INITIALIZING", "ARMED"}
            THEN disarm([v EXCEPT !.keys = {}], TRUE)
            ELSE _request_hybrid_push([v EXCEPT !.keys_fresh = FALSE])

\* command() for a keys packet of generation g.
keys_command(v, g, foreground, ks) ==
    IF \/ v.state \notin {"READY", "INITIALIZING", "ARMED"} \/ ~ArmAllowed
       \/ g # v.arm_generation
       \/ ~HybridManual /\ (v.push_mode \/ v.push_mode_requested)
    THEN v
    ELSE IF ~HybridManual THEN take_keys(v, ks)
    ELSE IF foreground THEN take_keys(heartbeat(v, ks), ks)
    ELSE IF v.foreground \/ v.keys # {} \/ v.push_mode_requested THEN revoke(v)
    ELSE v

-----------------------------------------------------------------------------
(* The operator's socket, serviced by ManualSocket.pump().                   *)

locals == <<step_generation, release_generation, request, expected>>
stepping == <<locals, told>>

\* One pump reads the packets already received and ends by sending the status:
\* a packet carries a generation announced by an earlier pump.
PumpEnds == told' = w.arm_generation

Pump == /\ pc \in Pumping
        /\ w.arm_generation < MaxGeneration
        /\ UNCHANGED <<pc, stepping, cancelled, dev>>

\* The hello of an accepted client.
Hello == /\ Pump
         /\ ~w.peer_connected
         /\ w' = connected(w)

\* End of file, or a failed send.
Disconnect == /\ Pump
              /\ w.peer_connected
              /\ w' = disconnected(w)

\* A packet, handshake or buffer the pump refuses, from any client, or an
\* error of the listener while there is none.
Reject == /\ Pump
          /\ \/ w' = rejected(w)
             \/ ~w.peer_connected /\ w' = revoke(w)

DisarmPacket == /\ Pump
                /\ w.peer_connected
                /\ w' = revoke(w)

\* A close packet: command() disarms, then the pump drops the client.
ClosePacket == /\ Pump
               /\ w.peer_connected
               /\ w' = rejected(w)

\* The record of the request may be refused by the journal: then the pump
\* treats the packet like a malformed one.
PushPacket == /\ Pump
              /\ w.peer_connected
              /\ \E g \in 0..told, enabled \in BOOLEAN :
                    \/ w' = push_command(w, g, enabled)
                    \/ w' = rejected(push_command(w, g, enabled))

KeysPacket == /\ Pump
              /\ w.peer_connected
              /\ \E g \in 0..told, foreground \in BOOLEAN, ks \in KeyInputs :
                    w' = keys_command(w, g, foreground, ks)

-----------------------------------------------------------------------------
(* Time and signals.                                                         *)

KeysExpire == /\ w.keys_fresh
              /\ w' = [w EXCEPT !.keys_fresh = FALSE]
              /\ UNCHANGED <<pc, stepping, cancelled, dev>>

HeartbeatExpires == /\ w.ui = "fresh"
                    /\ w' = [w EXCEPT !.ui = "stale"]
                    /\ UNCHANGED <<pc, stepping, cancelled, dev>>

\* Samples grow old oldest first; the latest one is last_feedback.
FeedbackExpires ==
    /\ \/ \E n \in 0..(w.window - 1) : w' = [w EXCEPT !.window = n]
       \/ w.feedback_fresh /\ w' = [w EXCEPT !.window = 0, !.feedback_fresh = FALSE]
    /\ UNCHANGED <<pc, stepping, cancelled, dev>>

CommandDue == /\ w.command_wait > 0
              /\ w' = [w EXCEPT !.command_wait = 0]
              /\ UNCHANGED <<pc, stepping, cancelled, dev>>

Signal == /\ ~cancelled
          /\ pc # "closed"
          /\ cancelled' = TRUE
          /\ UNCHANGED <<w, pc, stepping, dev>>

-----------------------------------------------------------------------------
(* The loop of main() and step().                                            *)

LoopBody == /\ pc = "top"
            /\ ~cancelled
            /\ w.state # "FAULT"
            /\ pc' = "pump"
            /\ UNCHANGED <<w, stepping, cancelled, dev>>

\* An exception of main()'s loop outside step(): publishing a status, or
\* writing wheel_ready.json.  (Exit faults once more, which only moves the
\* generation.)
LoopFails == /\ pc = "top"
             /\ w.state # "FAULT"
             /\ w' = fault(w)
             /\ UNCHANGED <<pc, stepping, cancelled, dev>>

\* The first part of step(), up to the stop request.
expired(v) ==
    LET a == IF cancelled THEN revoke(v) ELSE v
        b == IF HybridManual /\ a.ui # "none" /\ ~_ui_fresh(a) THEN revoke(a) ELSE a
    IN IF b.state \in {"READY", "INITIALIZING", "ARMED"} /\ b.keys # {} /\ ~b.keys_fresh
       THEN revoke(b) ELSE b

StepBegins == /\ pc = "pump"
              /\ w' = expired(w)
              /\ step_generation' = w.arm_generation
              /\ pc' = IF w'.stop_requested THEN "stop" ELSE "feedback"
              /\ PumpEnds
              /\ UNCHANGED <<release_generation, request, expected, cancelled, dev>>

\* The handler of an exception of step(): fault, then _stop().
Faulted(v) == /\ w' = fault(v)
              /\ pc' = "faultStop"

\* The journal reports a latched error at the start of step().
JournalFails == /\ pc = "pump"
                /\ Faulted(w)
                /\ step_generation' = w.arm_generation
                /\ PumpEnds
                /\ UNCHANGED <<release_generation, request, expected, cancelled, dev>>

\* The controller after a frame of effect e was written: acknowledged, it was
\* executed; otherwise it may have been.
Acknowledged(e) == dev' = e
Unanswered(e) == dev' \in {dev, e}

\* best_effort_zero(): one zero write that is never acknowledged.
best_effort_zero(v) ==
    IF v.motion_may_exist THEN [v EXCEPT !.recovery_attempted = TRUE] ELSE v
ZeroMayBeSent(v) ==
    IF v.motion_may_exist /\ ~v.recovery_attempted
    THEN Unanswered([dev EXCEPT !.speed = Zero]) ELSE dev' = dev

\* _stop() returning normally, with the fields v it leaves.
StopReturns(v) ==
    LET u == [w EXCEPT !.stop_requested = FALSE]
    IN \/ /\ ~u.motion_may_exist /\ ~u.push_mode_requested
          /\ v = u /\ dev' = dev
       \/ /\ u.motion_may_exist \/ u.push_mode_requested
          /\ u.failed
          /\ v = best_effort_zero(u) /\ ZeroMayBeSent(u)
       \/ /\ u.motion_may_exist \/ u.push_mode_requested
          /\ ~u.failed /\ u.stop_deadline
          /\ v = u /\ dev' = dev
       \/ /\ u.motion_may_exist \/ u.push_mode_requested
          /\ ~u.failed /\ ~u.stop_deadline
          /\ v = [u EXCEPT !.stop_deadline = TRUE, !.stop_zero_samples = 0]
          /\ Acknowledged([dev EXCEPT !.speed = Zero])

\* _stop() raising: the zero exchange failed and the single best-effort zero
\* was tried.
StopRaises(v) ==
    LET u == [w EXCEPT !.stop_requested = FALSE, !.failed = TRUE]
    IN /\ u.motion_may_exist \/ u.push_mode_requested
       /\ ~w.failed /\ ~w.stop_deadline
       /\ v = best_effort_zero(u)
       /\ Unanswered([dev EXCEPT !.speed = Zero])

StepStops ==
    /\ pc = "stop"
    /\ StopReturns(w')
    /\ pc' = IF w'.state = "FAULT" THEN "top" ELSE "feedback"
    /\ UNCHANGED <<stepping, cancelled>>

StepStopFails ==
    /\ pc = "stop"
    /\ \E v \in {best_effort_zero([w EXCEPT !.stop_requested = FALSE, !.failed = TRUE])} :
          StopRaises(v) /\ Faulted(v)
    /\ UNCHANGED <<stepping, cancelled>>

\* _stop() in the exception handler of step(); its own failure is swallowed.
FaultStops ==
    /\ pc = "faultStop"
    /\ StopReturns(w') \/ StopRaises(w')
    /\ pc' = "top"
    /\ UNCHANGED <<stepping, cancelled>>

FeedbackNotDue == /\ pc = "feedback"
                  /\ pc' = "act"
                  /\ UNCHANGED <<w, stepping, cancelled, dev>>

\* sample(): a valid response, archived and published.
sampled(v, zero) ==
    [v EXCEPT !.feedback_fresh = TRUE,
              !.command_wait = IF @ = 0 THEN 0 ELSE @ - 1,
              !.window = IF ~zero THEN 0 ELSE IF @ = 3 THEN 3 ELSE @ + 1,
              !.stop_zero_samples =
                  IF ~v.stop_deadline THEN @ ELSE IF ~zero THEN 0
                  ELSE IF @ = 3 THEN 3 ELSE @ + 1]

Sample == /\ pc = "feedback"
          /\ \E zero \in BOOLEAN : w' = sampled(w, zero)
          /\ pc' = "act"
          /\ UNCHANGED <<stepping, cancelled, dev>>

\* The query fails (the channel then stays failed), or the journal or the
\* publication refuses a valid response (the channel stays usable).
SampleFails == /\ pc = "feedback"
               /\ \E f \in {w.failed, TRUE} : Faulted([w EXCEPT !.failed = f])
               /\ UNCHANGED <<stepping, cancelled, dev>>

\* An exchange that fails before its guard: unsolicited bytes, a write
\* readiness timeout or a refused journal record.
ExchangeFailsEarly == /\ Faulted([w EXCEPT !.failed = TRUE])
                      /\ UNCHANGED <<stepping, cancelled, dev>>

ReleaseWanted(v) ==
    /\ v.stop_deadline /\ target(v.keys) = Zero
    /\ v.push_mode_requested /\ _stationary_window_fresh(v)

NoRelease == /\ pc = "act"
             /\ ~ReleaseWanted(w)
             /\ pc' = "schedule"
             /\ UNCHANGED <<w, stepping, cancelled, dev>>

ReleaseBegins == /\ pc = "act"
                 /\ ReleaseWanted(w)
                 /\ pc' = "releaseGuard"
                 /\ release_generation' = w.arm_generation
                 /\ UNCHANGED <<w, step_generation, request, expected, told, cancelled, dev>>

ReleaseFailsEarly == /\ pc = "act"
                     /\ ReleaseWanted(w)
                     /\ ExchangeFailsEarly

\* Faulty variant: the intent is not looked at again after the pump.
release_guard_before_pump(v) == ~cancelled /\ v.peer_connected /\ v.feedback_fresh

\* The guard of _release(), after its pump.
release_guard(v) ==
    /\ ~cancelled /\ v.peer_connected /\ ArmAllowed
    /\ v.push_mode_requested /\ release_generation = v.arm_generation
    /\ target(v.keys) = Zero /\ v.state \notin {"INITIALIZING", "ARMED", "FAULT"}
    /\ v.stop_deadline /\ _stationary_window_fresh(v)
    /\ HybridManual => ~v.hybrid_release_inhibited /\ _ui_fresh(v)
    /\ v.feedback_fresh

ReleaseCancelled == /\ pc = "releaseGuard"
                    /\ ~release_guard(w)
                    /\ pc' = "schedule"
                    /\ PumpEnds
                    /\ UNCHANGED <<w, locals, cancelled, dev>>

Released(v) == [v EXCEPT !.stop_deadline = FALSE, !.push_mode = TRUE,
                         !.push_mode_requested = FALSE,
                         !.initialized_by_user = FALSE, !.motion_may_exist = FALSE]

Release == /\ pc = "releaseGuard"
           /\ release_guard(w)
           /\ Acknowledged([dev EXCEPT !.enabled = FALSE])
           /\ \/ w' = Released(w) /\ pc' = "schedule"
              \/ Faulted(Released(w))       \* the journal refuses the record
           /\ PumpEnds
           /\ UNCHANGED <<locals, cancelled>>

ReleaseUnanswered == /\ pc = "releaseGuard"
                     /\ release_guard(w)
                     /\ Unanswered([dev EXCEPT !.enabled = FALSE])
                     /\ Faulted([w EXCEPT !.failed = TRUE])
                     /\ PumpEnds
                     /\ UNCHANGED <<locals, cancelled>>

-----------------------------------------------------------------------------
(* The last part of step(): turning a held direction into writes.            *)

\* A held direction leaves READY; the controller is initialized once.
activated(v) ==
    IF v.state = "READY" /\ target(v.keys) # Zero
    THEN [v EXCEPT !.state = IF v.initialized_by_user THEN "ARMED" ELSE "INITIALIZING",
                   !.init_step = 0, !.stop_deadline = FALSE]
    ELSE v

\* Nothing is due, or the session was cancelled during this step.  A new
\* initialization is due at once (next_init = now).
ScheduleIdle ==
    /\ pc = "schedule"
    /\ LET v == activated(w)
       IN IF cancelled THEN w' = w
          ELSE /\ w' = v
               /\ v.state = "INITIALIZING" => w.state = "INITIALIZING"
               /\ v.state = "ARMED" => v.command_wait > 0
    /\ pc' = "top"
    /\ UNCHANGED <<stepping, cancelled, dev>>

InitBegins ==
    /\ pc = "schedule" /\ ~cancelled
    /\ activated(w).state = "INITIALIZING"
    /\ w' = activated(w)
    /\ request' = w'.init_step
    /\ pc' = "initGuard"
    /\ UNCHANGED <<step_generation, release_generation, expected, told, cancelled, dev>>

\* A direction whose target is zero is cleared instead of written.
DriveBegins ==
    /\ pc = "schedule" /\ ~cancelled
    /\ LET v == activated(w)
       IN /\ v.state = "ARMED" /\ v.keys # {} /\ v.command_wait = 0
          /\ IF target(v.keys) = Zero
             THEN /\ w' = [v EXCEPT !.keys = {}, !.keys_fresh = FALSE,
                                    !.stop_requested = v.motion_may_exist]
                  /\ pc' = "top" /\ expected' = expected
             ELSE /\ w' = v /\ pc' = "driveGuard" /\ expected' = target(v.keys)
    /\ UNCHANGED <<step_generation, release_generation, request, told, cancelled, dev>>

WriteFailsEarly ==
    /\ pc = "schedule" /\ ~cancelled
    /\ LET v == activated(w)
       IN /\ \/ v.state = "INITIALIZING" /\ v.init_step < InitLength
             \/ v.state = "ARMED" /\ target(v.keys) # Zero /\ v.command_wait = 0
          /\ Faulted([v EXCEPT !.failed = TRUE])
    /\ UNCHANGED <<stepping, cancelled, dev>>

\* The journal refuses the record of a new motion request.
RequestUnlogged ==
    /\ pc = "schedule" /\ ~cancelled
    /\ activated(w) # w
    /\ Faulted(activated(w))
    /\ UNCHANGED <<stepping, cancelled, dev>>

\* The conditions of _guard() up to the target.
intent_fresh(v) ==
    /\ ~cancelled /\ v.peer_connected /\ ArmAllowed
    /\ HybridManual => _ui_fresh(v)
    /\ v.feedback_fresh
    /\ v.keys # {} /\ v.keys_fresh

\* Faulty variant: the target chosen before the pump is written whatever the
\* pump made of it.
_guard_of_old_target(v, initialization) ==
    IF ~intent_fresh(v) \/ v.stop_requested THEN "cancelled" ELSE "write"

\* The verdict of _guard(initialization, expected), after its pump.
_guard(v, initialization) ==
    IF ~intent_fresh(v) THEN "cancelled"
    ELSE IF target(v.keys) = Zero
         THEN (IF v.state = "READY" THEN "superseded" ELSE "cancelled")
    ELSE IF v.stop_requested THEN "cancelled"
    ELSE IF v.state # (IF initialization THEN "INITIALIZING" ELSE "ARMED") THEN "cancelled"
    ELSE IF ~initialization /\ target(v.keys) # expected THEN "superseded"
    ELSE "write"

Verdict == _guard(w, pc = "initGuard")

\* Cancelled: the intent is revoked unless the pump has already revoked it.
WriteCancelled ==
    /\ pc \in {"initGuard", "driveGuard"}
    /\ Verdict = "cancelled"
    /\ w' = IF w.arm_generation = step_generation THEN revoke(w) ELSE w
    /\ pc' = "top"
    /\ PumpEnds
    /\ UNCHANGED <<locals, cancelled, dev>>

\* Superseded: only the old frame is discarded.
WriteSuperseded ==
    /\ pc \in {"initGuard", "driveGuard"}
    /\ Verdict = "superseded"
    /\ w' = [w EXCEPT !.command_wait = 0]
    /\ pc' = "top"
    /\ PumpEnds
    /\ UNCHANGED <<locals, cancelled, dev>>

\* Faulty variant: the enable is sent before the zero.
enable_before_zero(i) == IF i = ZeroWrite THEN [dev EXCEPT !.enabled = TRUE]
                         ELSE IF i = EnableWrite THEN [dev EXCEPT !.speed = Zero]
                         ELSE dev

\* The effect on the controller of initialization write i.
InitEffect(i) == IF i = ZeroWrite THEN [dev EXCEPT !.speed = Zero]
                 ELSE IF i = EnableWrite THEN [dev EXCEPT !.enabled = TRUE]
                 ELSE dev

\* exchange() notes possible motion before it writes the enable.
init_attempted(v) == [v EXCEPT !.motion_may_exist = @ \/ request = EnableWrite]

InitWrite ==
    /\ pc = "initGuard"
    /\ Verdict = "write"
    /\ request < InitLength
    /\ w' = [init_attempted(w) EXCEPT !.init_step = @ + 1]
    /\ Acknowledged(InitEffect(request))
    /\ pc' = "top"
    /\ PumpEnds
    /\ UNCHANGED <<locals, cancelled>>

InitDone ==
    /\ pc = "initGuard"
    /\ Verdict = "write"
    /\ request = InitLength
    /\ w' = [w EXCEPT !.initialized_by_user = TRUE, !.state = "ARMED", !.command_wait = 0]
    /\ pc' = "top"
    /\ PumpEnds
    /\ UNCHANGED <<locals, cancelled, dev>>

InitUnanswered ==
    /\ pc = "initGuard"
    /\ Verdict = "write"
    /\ request < InitLength
    /\ Unanswered(InitEffect(request))
    /\ Faulted([init_attempted(w) EXCEPT !.failed = TRUE])
    /\ PumpEnds
    /\ UNCHANGED <<locals, cancelled>>

\* exchange() notes possible motion before it writes a nonzero speed.
DriveWrite ==
    /\ pc = "driveGuard"
    /\ Verdict = "write"
    /\ w' = [w EXCEPT !.motion_may_exist = TRUE, !.command_wait = 2]
    /\ Acknowledged([dev EXCEPT !.speed = expected])
    /\ pc' = "top"
    /\ PumpEnds
    /\ UNCHANGED <<locals, cancelled>>

DriveUnanswered ==
    /\ pc = "driveGuard"
    /\ Verdict = "write"
    /\ Unanswered([dev EXCEPT !.speed = expected])
    /\ Faulted([w EXCEPT !.motion_may_exist = TRUE, !.failed = TRUE])
    /\ PumpEnds
    /\ UNCHANGED <<locals, cancelled>>

-----------------------------------------------------------------------------
(* The end of main(): the socket is closed, then close() stops the wheels.   *)

\* Faulty variant: the shutdown waits for the client to leave by itself.
exit_awaits_client ==
    /\ pc = "top" /\ (cancelled \/ w.state = "FAULT") /\ ~w.peer_connected
    /\ w' = revoke(w) /\ pc' = "closeStop"
    /\ UNCHANGED <<stepping, cancelled, dev>>

Exit ==
    /\ pc = "top"
    /\ cancelled \/ w.state = "FAULT"
    /\ LET a == IF w.state = "FAULT" THEN fault(w) ELSE w
           b == IF w.peer_connected THEN disconnected(a) ELSE a
       IN w' = revoke(b)
    /\ pc' = "closeStop"
    /\ UNCHANGED <<stepping, cancelled, dev>>

CloseStops ==
    /\ pc = "closeStop"
    /\ StopReturns(w')
    /\ pc' = "closed"
    /\ UNCHANGED <<stepping, cancelled>>

\* Faulty variant: a failed stop is reported without the best-effort zero.
close_reports_only ==
    /\ pc = "closeStop"
    /\ \E v \in {[w EXCEPT !.stop_requested = FALSE, !.failed = TRUE]} :
          /\ v.motion_may_exist /\ ~w.failed /\ ~w.stop_deadline
          /\ Unanswered([dev EXCEPT !.speed = Zero]) /\ w' = fault(v)
    /\ pc' = "closed"
    /\ UNCHANGED <<stepping, cancelled>>

\* close(): the fault's repeated best_effort_zero() finds the attempt made.
CloseStopFails ==
    /\ pc = "closeStop"
    /\ \E v \in {best_effort_zero([w EXCEPT !.stop_requested = FALSE, !.failed = TRUE])} :
          StopRaises(v) /\ w' = fault(v)
    /\ pc' = "closed"
    /\ UNCHANGED <<stepping, cancelled>>

-----------------------------------------------------------------------------

Socket == Hello \/ Disconnect \/ Reject \/ DisarmPacket \/ ClosePacket \/ PushPacket \/ KeysPacket

Environment == KeysExpire \/ HeartbeatExpires \/ FeedbackExpires \/ CommandDue \/ Signal

Step ==
    \/ LoopBody \/ LoopFails \/ StepBegins \/ JournalFails
    \/ StepStops \/ StepStopFails \/ FaultStops
    \/ FeedbackNotDue \/ Sample \/ SampleFails
    \/ NoRelease \/ ReleaseBegins \/ ReleaseFailsEarly
    \/ ReleaseCancelled \/ Release \/ ReleaseUnanswered
    \/ ScheduleIdle \/ InitBegins \/ DriveBegins \/ WriteFailsEarly \/ RequestUnlogged
    \/ WriteCancelled \/ WriteSuperseded
    \/ InitWrite \/ InitDone \/ InitUnanswered
    \/ DriveWrite \/ DriveUnanswered
    \/ Exit \/ CloseStops \/ CloseStopFails

Next == Socket \/ Environment \/ Step

\* The owner thread runs; the operator, time and signals owe nothing.
Spec == Init /\ [][Next]_vars /\ WF_vars(Step)

-----------------------------------------------------------------------------
(* Properties.                                                               *)

\* Type correctness: every field of the scheduler, the channel and the pump of
\* mapping_wheel.py keeps the values its assignments can give it, and the thread is
\* always at a known position of its loop.
TypeOK ==
    /\ w \in Owner
    /\ pc \in Positions
    /\ step_generation \in Nat
    /\ release_generation \in Nat
    /\ request \in 0..InitLength
    /\ expected \in Targets
    /\ told \in Nat
    /\ cancelled \in BOOLEAN
    /\ dev \in [enabled : BOOLEAN, speed : Targets]

\* The wheels may be driven: the servo is on with a nonzero speed target.
Moving == dev.enabled /\ dev.speed # Zero

\* The only zero that was ever tried after a failed exchange.
LastResort == w.failed /\ w.recovery_attempted

\* Whenever the loop is between two steps and the wheels may still be driven
\* although no direction is armed any more - the keys were released or timed
\* out, the client left, the UI lost the foreground, a step faulted - a zero is
\* still owed (stop_requested) or the single best-effort zero was spent.
StopNeverForgotten ==
    Moving /\ pc = "top" /\ w.state # "ARMED" => w.stop_requested \/ LastResort

\* When close() has returned, the wheels are not driven, or the channel failed
\* and the best-effort zero was tried.
ClosedAtRest == pc = "closed" => ~Moving \/ LastResort

\* The holding brake is released (servo off) only when the speed target is
\* zero, and, as the prewrite pump may have brought new keys, only while no
\* direction is held and no initialization or drive is under way.
ReleaseOnlyAtRest ==
    [][dev.enabled /\ ~dev'.enabled =>
          ~Moving /\ target(w.keys) = Zero /\ w.state \notin {"INITIALIZING", "ARMED"}]_vars

\* The servo is switched on only after a zero target replaced whatever target
\* the controller had kept from earlier.
ZeroBeforeEnable == [][~dev.enabled /\ dev'.enabled => dev.speed = Zero]_vars

\* A frame that changes the speed to something nonzero is always the direction
\* held at the moment of writing, by a connected operator, with fresh keys and
\* no stop outstanding, whatever the prewrite pump changed.
DriveFollowsKeys ==
    [][dev'.speed # dev.speed /\ dev'.speed # Zero =>
          /\ dev'.speed = target(w.keys)
          /\ w.peer_connected /\ w.keys_fresh /\ w.feedback_fresh
          /\ ~w.stop_requested /\ ~w.failed]_vars

\* An armed or initializing wheel always holds a nonzero direction, so the
\* branch of step() that clears a zero target is never taken.
ArmedHoldsDirection == w.state \in {"INITIALIZING", "ARMED"} => target(w.keys) # Zero

\* A driven wheel whose operator is gone is stopped, or the stop was tried and
\* the serial channel had failed.
LostOperatorStops == Moving /\ ~w.peer_connected ~> ~Moving \/ LastResort

\* A termination signal ends in a completed close().
SignalCloses == cancelled ~> pc = "closed"

-----------------------------------------------------------------------------
(* The inductive invariant behind the safety properties.                     *)

Active == w.state \in {"INITIALIZING", "ARMED"}
Guarding == pc \in {"initGuard", "driveGuard"}

\* A driven wheel was initialized by the user, is known to the channel as
\* possible motion, and has no acknowledged zero outstanding.
MotionIsKnown ==
    Moving => w.motion_may_exist /\ w.initialized_by_user /\ ~w.stop_deadline

\* Without an armed direction a stop is owed, at every position.
StopOwed == Moving /\ w.state # "ARMED" => w.stop_requested \/ LastResort

\* A direction is active only with no stop served, and, outside the prewrite
\* guards, with no stop pending.
ActiveUnstopped ==
    Active => /\ ~w.stop_deadline
              /\ w.stop_requested => Guarding

\* The steps before the next write know of no pending stop; "stop" serves one.
StopSeenAtTop ==
    /\ pc = "stop" => w.stop_requested
    /\ pc \in {"feedback", "act"} => ~w.stop_requested

\* Initialization: not yet done, and from the zero write on the target is zero;
\* only an initialized wheel is armed.
InitOrder ==
    /\ w.state = "INITIALIZING" =>
          /\ ~w.initialized_by_user
          /\ w.init_step > ZeroWrite => dev.speed = Zero
          /\ pc = "initGuard" => request = w.init_step
    /\ w.state = "ARMED" => w.initialized_by_user

\* Three samples after the zero, the next velocity write is due.
CommandForced ==
    /\ w.stop_deadline => w.command_wait = 0 \/ w.command_wait + w.stop_zero_samples <= 2
    /\ pc = "releaseGuard" => w.command_wait = 0
    /\ pc = "schedule" /\ w.stop_requested => w.command_wait = 0

\* Keys held in the middle of a step belong to the generation it began with.
KeysOfThisStep ==
    /\ told <= w.arm_generation
    /\ pc \in {"stop", "feedback", "act", "releaseGuard"} =>
          told = step_generation /\ (w.keys # {} => w.arm_generation = step_generation)
    /\ pc = "schedule" /\ w.keys # {} => w.arm_generation = step_generation
    /\ Guarding /\ Active => w.arm_generation = step_generation

\* Where no direction is active.
GuardPositions ==
    /\ pc \in {"releaseGuard", "closeStop", "closed"} => ~Active
    /\ pc = "faultStop" => w.state = "FAULT"

IndInv ==
    /\ TypeOK
    /\ MotionIsKnown /\ StopOwed /\ ActiveUnstopped /\ StopSeenAtTop
    /\ InitOrder /\ CommandForced /\ KeysOfThisStep /\ GuardPositions
    /\ ArmedHoldsDirection /\ ClosedAtRest

=============================================================================
