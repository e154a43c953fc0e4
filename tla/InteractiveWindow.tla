-------------------------- MODULE InteractiveWindow --------------------------
(***************************************************************************)
(* The persistent mapping window: InteractiveCoordinator and OwnedSave     *)
(* (src/wc_runtime/mapping_interactive.py), WindowControl                  *)
(* (mapping_interactive_control.py), the save worker                       *)
(* (mapping_interactive_worker.py) and the button of the RViz window       *)
(* (wc_bringup/mapping_interactive_control.hpp).                           *)
(*                                                                         *)
(* Five parties run concurrently: the coordinator's main loop, its one     *)
(* executor thread (preflight, start and stop of device sessions), the     *)
(* window, the save process, and the user or a signal.  Main loop and      *)
(* window share two files, each replaced atomically: status.json (doc)     *)
(* and command.json (command).                                             *)
(*                                                                         *)
(* A session is its number; tokens and nonces, random in the code, are     *)
(* numbers never used twice; messages, paths, owner identity, log files    *)
(* and the storage threshold's arithmetic are left out.                    *)
(***************************************************************************)
EXTENDS Naturals, FiniteSets

CONSTANTS
    MaxSessions,    \* bound: sessions a window requests
    MaxClicks,      \* bound: clicks of the user
    MaxFaults       \* bound: failed writes of status.json

ASSUME WindowAssumption == MaxSessions \in Nat \ {0} /\ MaxClicks \in Nat /\ MaxFaults \in Nat

None == 0
Sessions == 1..MaxSessions

VARIABLES
    where,      \* where the main loop is
    c,          \* the coordinator's fields
    task,       \* the executor's future
    status,     \* WindowControl.status, in memory
    doc,        \* status.json
    command,    \* command.json
    gui,        \* the RViz process: "none", "open", "closed" (exit 0) or "crashed"
    panel,      \* the window's Panel
    saver,      \* OwnedSave and its process
    running,    \* sessions whose devices may be active (the backend)
    data,       \* what became of each session's data
    results,    \* the coordinator's results, by session
    stop,       \* stop_requested(): a signal came
    faults,     \* failed writes of status.json so far
    cancelled   \* history: the start under way was cancelled

windowVars == <<where, c, task, status, doc, command, gui, panel, saver, running, data, results, stop,
          faults, cancelled>>

NoTask == [at |-> "none", op |-> "none", id |-> None, after |-> "none", result |-> "none"]
NoSaver == [id |-> None, at |-> "none", cancelled |-> FALSE, result |-> "none", agrees |-> TRUE]
NoCommand == [nonce |-> 0, generation |-> 0, active |-> None, token |-> 0, sequence |-> 0,
              action |-> "none"]
Opening == [generation |-> 0, view |-> 0, state |-> "OPENING", can_start |-> FALSE,
            can_stop |-> FALSE, active |-> None, token |-> 0, last_sequence |-> 0, ack |-> 0]
\* A Panel that has not polled yet; first is the newest nonce before it.
NewPanel(first) == [first |-> first, clicks |-> first, polled |-> FALSE, seen |-> Opening, pending |-> 0,
                    draft |-> NoCommand, sequence |-> 0, failed |-> FALSE]

Fields == [active |-> None, pending_map |-> None, closing |-> FALSE, cancel_start |-> FALSE,
           attempts |-> 0, unconfirmed |-> {},
           failed_operation |-> "none", retried |-> FALSE, errors |-> FALSE,
           action |-> "none", draining |-> FALSE, raised |-> FALSE, sequence |-> 0,
           maps |-> {}]

\* begin_start(mapping): the fields and the task it leaves.
BeginStart(r, mapping) ==
    [r EXCEPT !.sequence = @ + 1, !.maps = IF mapping THEN @ \cup {r.sequence + 1} ELSE @]
StartTask(r, mapping) ==
    [at |-> "preflight", op |-> IF mapping THEN "start_map" ELSE "start_preview",
     id |-> r.sequence + 1, after |-> "none", result |-> "none"]

\* run() after its first begin_start(False).
WindowInit ==
    /\ where = "stop" /\ c = BeginStart(Fields, FALSE) /\ task = StartTask(Fields, FALSE)
    /\ status = Opening /\ doc = Opening /\ command = NoCommand
    /\ gui = "none" /\ panel = NewPanel(0) /\ saver = NoSaver
    /\ running = {} /\ data = [s \in Sessions |-> "none"] /\ results = [s \in Sessions |-> "none"]
    /\ stop = FALSE /\ faults = 0 /\ cancelled = FALSE

-----------------------------------------------------------------------------
(* Calls of the main loop.                                                   *)

\* publish(): status.json is replaced (ok), or the write fails after the status
\* was changed in memory.
Publish(st, ok) ==
    /\ status' = st
    /\ doc' = IF ok THEN st ELSE doc
    /\ ok \/ faults < MaxFaults
    /\ faults' = IF ok THEN faults ELSE faults + 1

\* publish(transition=True, state=..., can_start=..., can_stop=...)
State(st, name, may_start, may_stop) ==
    [st EXCEPT !.generation = @ + 1, !.state = name, !.can_start = may_start, !.can_stop = may_stop]

\* bind(): in memory, until the next publish().
Bind(st, id) == [st EXCEPT !.view = @ + 1, !.active = id]

\* begin_stop(after): the fields and the task it leaves.  At most two attempts
\* are made for a session.
BeginStop(r) == [r EXCEPT !.attempts = @ + 1]
StopTask(r, after) ==
    [at |-> "stopping", op |-> IF r.active \in r.maps THEN "stop_map" ELSE "stop_preview",
     id |-> r.active, after |-> after, result |-> "none"]
MayStop(r) == r.active # None /\ r.attempts < 2

\* The fields once a session was started.
Owning(id) == [c EXCEPT !.active = id, !.attempts = 0]

\* OwnedSave.cancel()
Cancel(s) == IF s.at = "running" THEN [s EXCEPT !.cancelled = TRUE] ELSE s

\* The window's side.  Nothing reads a command, and the window is shown nothing but
\* CLOSING, from the first request_close() on: it is not followed any further.
Window == <<command, gui, panel, stop>>

\* request_close(): the first call publishes; a failed write leaves the method
\* before the save is cancelled.  Raised out of operation_failed() it reaches the
\* finally clause, whose own request_close() cancels the save.
RequestClose(r, st, ok) ==
    /\ c' = [r EXCEPT !.closing = TRUE]
    /\ IF r.closing THEN ok /\ status' = st /\ UNCHANGED <<doc, faults>>
                    ELSE Publish(State(st, "CLOSING", FALSE, FALSE), ok)
    /\ saver' = IF ok \/ where = "failed" THEN Cancel(saver) ELSE saver
    /\ IF r.closing THEN UNCHANGED Window
       ELSE command' = NoCommand /\ gui' = "none" /\ panel' = NewPanel(0) /\ stop' = FALSE

\* The step ends at a label, or an exception leaves the body of the loop.
Continue(ok, label) == where' = IF ok THEN label ELSE "failed"

Others == <<running, data, results, cancelled>>

-----------------------------------------------------------------------------
(* The body of the main loop.  Its parts run in the order of Parts, round and *)
(* round; a part with nothing to do leaves no trace and is passed over.       *)

GuiExited == gui \in {"closed", "crashed"} /\ ~c.closing
NewCommand == ~c.closing /\ command.nonce # status.ack

Parts == [stop |-> 1, gui |-> 2, receive |-> 3, complete |-> 4, save |-> 5, tail |-> 6]
Busy == [stop |-> stop /\ ~c.closing,
         gui |-> GuiExited,
         receive |-> NewCommand,
         complete |-> task.at = "done",
         save |-> saver.at = "exited",
         tail |-> c.closing /\ task.at = "none" /\ (c.active # None \/ saver.id = None)]

\* The loop comes to a part with nothing to do on the way.
Reaches(part) ==
    /\ where \in DOMAIN Parts
    /\ \A p \in DOMAIN Parts :
        (IF Parts[where] <= Parts[part] THEN Parts[p] \in Parts[where]..(Parts[part] - 1)
                                    ELSE Parts[p] \notin Parts[part]..(Parts[where] - 1))
        => ~Busy[p]

StopRequested ==
    /\ Reaches("stop") /\ Busy.stop
    /\ \E ok \in BOOLEAN : RequestClose(c, status, ok) /\ Continue(ok, "gui")
    /\ UNCHANGED <<task, Others>>

\* gui.poll(): one retry of a crash at startup, else the window closes.
MayRetry == gui = "crashed" /\ c.active # None /\ ~c.retried /\ task.at = "none"

GuiRetry ==
    /\ Reaches("gui") /\ GuiExited /\ MayRetry
    /\ c' = [c EXCEPT !.retried = TRUE]
    /\ \/ gui' = "open" /\ panel' = NewPanel(panel.clicks) /\ where' = "receive"
       \/ where' = "failed" /\ UNCHANGED <<gui, panel>>
    /\ UNCHANGED <<task, status, doc, command, saver, stop, faults, Others>>

GuiEnds ==
    /\ Reaches("gui") /\ GuiExited
    /\ \E ok \in BOOLEAN :
        /\ RequestClose([c EXCEPT !.errors = IF gui = "crashed" THEN TRUE ELSE @], status, ok)
        /\ Continue(ok, "receive")
    /\ UNCHANGED <<task, Others>>

\* Faulty variant: a command is judged by what the window may do now only.
acceptable_now(k) ==
    (k.action = "start" /\ status.can_start) \/ (k.action = "stop" /\ status.can_stop)

\* reject_reason() is None.
Acceptable(k) ==
    /\ k.generation = status.generation
    /\ k.active = status.active
    /\ k.token = status.token
    /\ k.sequence > status.last_sequence
    /\ \/ k.action = "start" /\ status.can_start
       \/ k.action = "stop" /\ status.can_stop

\* receive(): a command file not read before is judged and answered.
Rejected ==
    /\ Reaches("receive") /\ NewCommand /\ ~Acceptable(command)
    /\ \E ok \in BOOLEAN :
        Publish([status EXCEPT !.ack = command.nonce], ok) /\ Continue(ok, "complete")
    /\ UNCHANGED <<c, task, saver, Window, Others>>

Accepted ==
    /\ Reaches("receive") /\ NewCommand /\ Acceptable(command)
    /\ c' = [c EXCEPT !.action = command.action]
    /\ \E ok \in BOOLEAN :
        /\ Publish([status EXCEPT !.ack = command.nonce, !.last_sequence = command.sequence,
                                  !.token = @ + 1], ok)
        /\ Continue(ok, "command")
    /\ UNCHANGED <<task, saver, Window, Others>>

\* command('start')
CommandStart ==
    /\ where = "command" /\ c.action = "start" /\ MayStop(c)
    /\ cancelled' = FALSE
    /\ \E ok \in BOOLEAN :
        LET r == [c EXCEPT !.cancel_start = FALSE, !.action = "none"] IN
        /\ Publish(State(status, "STARTING", FALSE, TRUE), ok)
        /\ c' = IF ok THEN BeginStop(r) ELSE r
        /\ task' = IF ok THEN StopTask(c, "map") ELSE task
        /\ Continue(ok, "complete")
    /\ UNCHANGED <<saver, Window, running, data, results>>

\* command('stop') while a start is under way: the start is cancelled.
CommandCancel ==
    /\ where = "command" /\ c.action = "stop" /\ status.state = "STARTING"
    /\ cancelled' = TRUE
    /\ c' = [c EXCEPT !.cancel_start = TRUE, !.action = "none"]
    /\ \E ok \in BOOLEAN :
        Publish(State(status, "STARTING", FALSE, FALSE), ok) /\ Continue(ok, "complete")
    /\ UNCHANGED <<task, saver, Window, running, data, results>>

\* command('stop') while mapping.
CommandStop ==
    /\ where = "command" /\ c.action = "stop" /\ status.state # "STARTING" /\ MayStop(c)
    /\ \E ok \in BOOLEAN :
        LET r == [c EXCEPT !.action = "none"] IN
        /\ Publish(State(status, "STOPPING", FALSE, FALSE), ok)
        /\ c' = IF ok THEN BeginStop(r) ELSE r
        /\ task' = IF ok THEN StopTask(c, "preview") ELSE task
        /\ Continue(ok, "complete")
    /\ UNCHANGED <<saver, Window, Others>>

-----------------------------------------------------------------------------
(* complete_operation(), in the loop and in the final drain.                 *)

Completes(op) == (Reaches("complete") \/ where = "drain") /\ task.at = "done" /\ task.op \in op
StartOps == {"start_map", "start_preview"}
StopOps == {"stop_map", "stop_preview"}
After == IF c.draining THEN "drain" ELSE "save"

\* future.result() raises, or a stop did not close normally.
OperationRaises ==
    /\ Completes(StartOps \cup StopOps) /\ task.result = "failed"
    /\ c' = [c EXCEPT !.failed_operation = task.op]
    /\ task' = NoTask /\ where' = "failed"
    /\ UNCHANGED <<status, doc, faults, saver, Window, Others>>

\* cancelled_before_start
StartCancelled ==
    /\ Completes(StartOps) /\ task.result = "cancelled"
    /\ \E ok \in BOOLEAN :
        /\ Continue(ok, After)
        /\ IF c.closing \/ stop
           THEN RequestClose(c, status, ok) /\ task' = NoTask
           ELSE /\ c' = BeginStart([c EXCEPT !.cancel_start = FALSE], FALSE)
                /\ task' = StartTask(c, FALSE)
                /\ Publish(State(status, "STOPPING", FALSE, FALSE), ok)
                /\ UNCHANGED <<saver, Window>>
    /\ UNCHANGED Others

Started == Completes(StartOps) /\ task.result = "started"

\* The window closes meanwhile: the new session is stopped, unpublished.
StartedToClose ==
    /\ Started /\ c.closing
    /\ LET r == Owning(task.id) IN
        c' = BeginStop(r) /\ task' = StopTask(r, "close")
    /\ status' = Bind(status, task.id)
    /\ where' = After
    /\ UNCHANGED <<doc, faults, saver, Window, Others>>

\* The start was cancelled meanwhile.
StartedToCancel ==
    /\ Started /\ ~c.closing /\ task.op = "start_map" /\ c.cancel_start
    /\ \E ok \in BOOLEAN :
        LET r == Owning(task.id) IN
        /\ Publish(State(Bind(status, task.id), "STOPPING", FALSE, FALSE), ok)
        /\ c' = IF ok THEN BeginStop(r) ELSE r
        /\ task' = IF ok THEN StopTask(r, "preview") ELSE NoTask
        /\ Continue(ok, After)
    /\ UNCHANGED <<saver, Window, Others>>

\* Faulty variant: the cancellation is looked at before the start only.
show_despite_cancel == Started /\ ~c.closing

\* The new session is shown.
ShowSession == Started /\ ~c.closing /\ ~(task.op = "start_map" /\ c.cancel_start)

\* open_gui() for the first session.
OpenGui ==
    IF gui = "none" THEN gui' = "open" /\ panel' = NewPanel(panel.clicks)
                    ELSE UNCHANGED <<gui, panel>>

\* Faulty variant: start_save() does not put the map back.
show_fails_forgets ==
    /\ ShowSession
    /\ gui = "none" \/ (task.op = "start_preview" /\ c.pending_map # None)
    /\ c' = [Owning(task.id) EXCEPT !.pending_map = None]
    /\ status' = Bind(status, task.id)
    /\ task' = NoTask /\ where' = "failed"
    /\ UNCHANGED <<doc, faults, saver, Window, Others>>

\* open_gui() or the save process cannot be started: the map stays pending.
ShowFails ==
    /\ ShowSession
    /\ gui = "none" \/ (task.op = "start_preview" /\ c.pending_map # None)
    /\ c' = Owning(task.id)
    /\ status' = Bind(status, task.id)
    /\ task' = NoTask /\ where' = "failed"
    /\ UNCHANGED <<doc, faults, saver, Window, Others>>

ShowMapping ==
    /\ ShowSession /\ task.op = "start_map"
    /\ \E ok \in BOOLEAN :
        Publish(State(Bind(status, task.id), "MAPPING", FALSE, TRUE), ok) /\ Continue(ok, After)
    /\ c' = Owning(task.id)
    /\ task' = NoTask
    /\ UNCHANGED <<saver, Window, Others>>

ShowPreview ==
    /\ ShowSession /\ task.op = "start_preview" /\ c.pending_map = None
    /\ \E ok \in BOOLEAN :
        Publish(State(Bind(status, task.id), "PREVIEW", TRUE, FALSE), ok) /\ Continue(ok, After)
    /\ c' = Owning(task.id)
    /\ task' = NoTask /\ OpenGui
    /\ UNCHANGED <<saver, command, stop, running, data, results, cancelled>>

\* start_save(): the preview is back, and the stopped map goes to its own process.
StartSave ==
    /\ ShowSession /\ task.op = "start_preview" /\ c.pending_map # None
    /\ \E ok \in BOOLEAN :
        Publish(State(Bind(status, task.id), "SAVING", FALSE, FALSE), ok) /\ Continue(ok, After)
    /\ saver' = [NoSaver EXCEPT !.id = c.pending_map, !.at = "running"]
    /\ c' = [Owning(task.id) EXCEPT !.pending_map = None]
    /\ task' = NoTask
    /\ UNCHANGED <<Window, Others>>

\* Faulty variant: normal_close() is not looked at.
stopped_anyhow == Completes(StopOps)

\* A stop that closed normally.  A preview is discarded, a map kept for saving.
Stopped == Completes(StopOps) /\ task.result = "normal"

\* The fields once a session was stopped.
Released == [c EXCEPT !.active = None,
                      !.pending_map = IF task.op = "stop_map" THEN c.active ELSE @]

DiscardFails ==
    /\ Stopped /\ task.op = "stop_preview"
    /\ c' = Released /\ status' = Bind(status, None)
    /\ task' = NoTask /\ where' = "failed"
    /\ UNCHANGED <<doc, faults, saver, Window, Others>>

StopCompletes ==
    /\ Stopped
    /\ data' = IF task.op = "stop_preview" THEN [data EXCEPT ![c.active] = "discarded"] ELSE data
    /\ \E ok \in BOOLEAN :
        LET mapping == task.after = "map" /\ ~c.cancel_start
            r == IF mapping THEN Released ELSE [Released EXCEPT !.cancel_start = FALSE]
            st == Bind(status, None)
        IN /\ Continue(ok, After)
           /\ IF c.closing
              THEN /\ Publish([st EXCEPT !.generation = @ + 1], ok)
                   /\ c' = Released /\ task' = NoTask
              ELSE /\ Publish(IF mapping THEN State(st, "STARTING", FALSE, TRUE)
                                         ELSE State(st, "STOPPING", FALSE, FALSE), ok)
                   /\ c' = BeginStart(r, mapping) /\ task' = StartTask(c, mapping)
    /\ UNCHANGED <<saver, Window, running, results, cancelled>>

\* prepare_request() refuses the next session.
PrepareFails ==
    /\ \/ Stopped
       \/ Completes(StartOps) /\ task.result = "cancelled" /\ ~stop
    /\ ~c.closing
    /\ c' = [IF task.op \in StopOps THEN Released ELSE c EXCEPT !.sequence = @ + 1]
    /\ status' = IF task.op \in StopOps THEN Bind(status, None) ELSE status
    /\ data' = IF task.op = "stop_preview" THEN [data EXCEPT ![c.active] = "discarded"] ELSE data
    /\ task' = NoTask /\ where' = "failed"
    /\ UNCHANGED <<doc, faults, saver, Window, running, results, cancelled>>

-----------------------------------------------------------------------------
(* poll_save(), the end of the body, exceptions, and the end of run().       *)

AfterSave == IF c.draining THEN "drain_save" ELSE "tail"
Polls == (Reaches("save") \/ where = "drain_save") /\ saver.id # None

\* poll() raises: an exit status that contradicts the result.
Mistrusted == saver.result # "none" /\ ~saver.agrees /\ ~saver.cancelled

\* What poll() returns, or poll_save() puts in its place.
SaveStatus ==
    CASE Mistrusted -> "FAILED"
      [] saver.result = "none" -> "SAVE_PENDING"
      [] OTHER -> saver.result

\* An unverifiable result also closes the window.
SaveMistrusted ==
    /\ Polls /\ saver.at = "exited" /\ Mistrusted /\ ~c.closing
    /\ \E ok \in BOOLEAN :
        /\ RequestClose([c EXCEPT !.errors = TRUE], status, ok)
        /\ Continue(ok, "save")
    /\ UNCHANGED <<task, Others>>

\* The result is recorded and published; with it, unless closing, PREVIEW.
SaveEnds ==
    /\ Polls /\ saver.at = "exited" /\ (Mistrusted => c.closing)
    /\ results' = [results EXCEPT ![saver.id] = SaveStatus]
    /\ saver' = NoSaver
    /\ \E ok \in BOOLEAN :
        /\ Publish(IF c.closing THEN status ELSE State(status, "PREVIEW", TRUE, FALSE), ok)
        /\ where' = IF ok THEN AfterSave ELSE IF c.draining THEN "drain_save" ELSE "failed"
        /\ c' = [c EXCEPT !.errors = @ \/ Mistrusted \/ (~ok /\ c.draining)]
    /\ UNCHANGED <<task, Window, running, data, cancelled>>

\* The end of the body: while closing, stop what is left and leave the loop.
TailStops ==
    /\ Reaches("tail") /\ c.closing /\ task.at = "none" /\ MayStop(c)
    /\ c' = BeginStop(c) /\ task' = StopTask(c, "close") /\ where' = "stop"
    /\ UNCHANGED <<status, doc, faults, saver, Window, Others>>

Leave ==
    /\ Reaches("tail") /\ c.closing /\ task.at = "none" /\ c.active = None /\ saver.id = None
    /\ c' = [c EXCEPT !.draining = TRUE] /\ where' = "drain"
    /\ UNCHANGED <<task, status, doc, faults, saver, Window, Others>>

\* inspect_active() finds the session gone or the storage exhausted.
InspectFails ==
    /\ Reaches("tail") /\ ~c.closing /\ c.active # None /\ task.at = "none" /\ where' = "failed"
    /\ UNCHANGED <<c, task, status, doc, faults, saver, Window, Others>>

\* operation_failed(): close; give a session up after its second failed stop.  If
\* the write of CLOSING fails, the exception leaves the loop: the finally clause
\* drains what is under way, and then it leaves run().
OperationFailed ==
    /\ where = "failed"
    /\ \E ok \in BOOLEAN :
        LET r == [c EXCEPT !.errors = TRUE]
            exhausted == /\ r.failed_operation \in StopOps /\ r.active # None
                         /\ r.attempts >= 2
            abandoned == [r EXCEPT !.unconfirmed = @ \cup {r.active},
                                   !.pending_map = IF r.active \in r.maps THEN r.active ELSE @,
                                   !.active = None]
        IN IF ok
           THEN /\ RequestClose([IF exhausted THEN abandoned ELSE r
                                 EXCEPT !.failed_operation = "none", !.action = "none"],
                                IF exhausted THEN Bind(status, None) ELSE status, TRUE)
                /\ where' = IF c.draining THEN "drain" ELSE "stop"
           ELSE /\ RequestClose([r EXCEPT !.draining = TRUE, !.raised = TRUE, !.action = "none"],
                                status, FALSE)
                /\ where' = "drain"
    /\ UNCHANGED <<task, Others>>

\* The finally clause of run(): one lifecycle operation at a time, then the save.
DrainStops ==
    /\ where = "drain" /\ task.at = "none" /\ MayStop(c)
    /\ c' = BeginStop(c) /\ task' = StopTask(c, "close")
    /\ UNCHANGED <<where, status, doc, faults, saver, Window, Others>>

Drained ==
    /\ where = "drain" /\ task.at = "none" /\ c.active = None
    /\ saver' = Cancel(saver) /\ where' = "drain_save"
    /\ UNCHANGED <<c, task, status, doc, faults, Window, Others>>

\* An exception was drained only: run() reports nothing.
Raises ==
    /\ where = "drain_save" /\ saver.id = None /\ c.raised
    /\ where' = "raised"
    /\ UNCHANGED <<c, task, status, doc, faults, saver, Window, Others>>

\* close_gui(), the result of the window, and the last publication: run() returns
\* the result, or the failed write leaves it.
Finish ==
    /\ where = "drain_save" /\ saver.id = None /\ ~c.raised
    /\ c' = [c EXCEPT !.errors = @ \/ \E s \in Sessions : results[s] = "FAILED"]
    /\ \E ok \in BOOLEAN :
        /\ Publish(State(Bind(status, None), IF c'.errors THEN "FAILED" ELSE "CLOSED", FALSE, FALSE),
                   ok)
        /\ where' = IF ok THEN "done" ELSE "raised"
    /\ UNCHANGED <<task, saver, Window, Others>>

Coordinator ==
    \/ StopRequested \/ GuiRetry \/ GuiEnds \/ Rejected \/ Accepted
    \/ CommandStart \/ CommandCancel \/ CommandStop
    \/ OperationRaises \/ StartCancelled \/ StartedToClose \/ StartedToCancel
    \/ ShowFails \/ ShowMapping \/ ShowPreview \/ StartSave \/ DiscardFails \/ StopCompletes
    \/ PrepareFails
    \/ SaveMistrusted \/ SaveEnds \/ TailStops \/ Leave
    \/ OperationFailed \/ DrainStops \/ Drained \/ Raises \/ Finish

-----------------------------------------------------------------------------
(* The executor thread, with the backend it calls.                           *)

Loop == <<where, c, status, doc, command, gui, panel, saver, results, stop, faults, cancelled>>
Settle(result) == task' = [task EXCEPT !.at = "done", !.result = result]

\* work(): preflight(), then the flags are read once.
PreflightFails ==
    /\ task.at = "preflight" /\ Settle("failed") /\ UNCHANGED <<Loop, running, data>>

CancelledBeforeStart ==
    /\ task.at = "preflight"
    /\ c.closing \/ stop \/ (task.op = "start_map" /\ c.cancel_start)
    /\ Settle("cancelled") /\ UNCHANGED <<Loop, running, data>>

StartBegins ==
    /\ task.at = "preflight"
    /\ ~(c.closing \/ stop \/ (task.op = "start_map" /\ c.cancel_start))
    /\ task' = [task EXCEPT !.at = "starting"] /\ running' = running \cup {task.id}
    /\ UNCHANGED <<Loop, data>>

\* backend.start(): cleans up before it raises.
StartEnds ==
    /\ task.at = "starting"
    /\ \/ Settle("started") /\ data' = [data EXCEPT ![task.id] = "kept"] /\ UNCHANGED running
       \/ Settle("failed") /\ running' = running \ {task.id} /\ UNCHANGED data
    /\ UNCHANGED Loop

\* backend.stop(): a failed stop may or may not have stopped the devices.
StopEnds ==
    /\ task.at = "stopping"
    /\ \/ Settle("normal") /\ running' = running \ {task.id}
       \/ Settle("failed") /\ running' \in {running, running \ {task.id}}
    /\ UNCHANGED <<Loop, data>>

Executor == PreflightFails \/ CancelledBeforeStart \/ StartBegins \/ StartEnds \/ StopEnds

\* The save process: recover_session() and the result file, any of which a
\* cancellation or a crash may cut short.
SaveOutcomes == {<<"saved", "SAVED">>, <<"declined", "DISCARDED">>, <<"kept", "SAVE_PENDING">>}
                \cup ({"saved", "declined", "kept"} \X {"FAILED", "none"})

SaveExits ==
    /\ saver.at = "running"
    /\ \E o \in SaveOutcomes, agrees \in BOOLEAN :
        /\ o[2] \in {"none", "FAILED"} => agrees
        /\ saver' = [saver EXCEPT !.at = "exited", !.result = o[2], !.agrees = agrees]
        /\ data' = [data EXCEPT ![saver.id] = o[1]]
    /\ UNCHANGED <<where, c, task, status, doc, faults, Window, running, results, cancelled>>

-----------------------------------------------------------------------------
(* The window's Panel, the user, and a signal.                               *)

Main == <<where, c, task, status, doc, faults, saver, running, data, results, cancelled>>
Alive == gui = "open" /\ ~c.closing /\ ~panel.failed /\ panel.draft = NoCommand

\* poll() refuses a status that contradicts the one before.
Contradicts(next) ==
    \/ /\ panel.polled
       /\ LET seen == panel.seen IN
          \/ next.generation < seen.generation \/ next.view < seen.view
          \/ next.generation = seen.generation /\
                <<next.active, next.view, next.state>> # <<seen.active, seen.view, seen.state>>
          \/ next.view = seen.view /\ next.active # seen.active
          \/ next.last_sequence < seen.last_sequence
    \/ next.state \in {"PREVIEW", "SAVING", "MAPPING"} /\ next.active = None

\* Faulty variant: the window wants the acknowledgement and the transition together.
answered_at_once == doc.ack = panel.pending /\ doc.generation # panel.seen.generation

\* The pending click was judged, or the state it was about is gone.
Answered ==
    \/ doc.ack = panel.pending
    \/ doc.generation # panel.seen.generation
    \/ doc.token # panel.seen.token
    \/ doc.active # panel.seen.active

\* poll(), when status.json changed.
Poll ==
    /\ Alive /\ ~(panel.polled /\ panel.seen = doc)
    /\ IF Contradicts(doc)
       THEN panel' = [panel EXCEPT !.failed = TRUE] /\ gui' = "closed"
       ELSE /\ panel' = [panel EXCEPT !.polled = TRUE, !.seen = doc,
                                      !.pending = IF Answered THEN 0 ELSE @]
            /\ UNCHANGED gui
    /\ UNCHANGED <<Main, command, stop>>

\* request(): the button of the status just polled.  Bound: a start needs room
\* for a map and the preview after it.
Offered(st) ==
    CASE st.state = "PREVIEW" /\ st.can_start -> "start"
      [] st.state \in {"MAPPING", "STARTING"} /\ st.can_stop -> "stop"
      [] OTHER -> "none"

Click ==
    /\ Alive /\ panel.polled /\ panel.seen = doc /\ panel.pending = 0
    /\ Offered(doc) # "none" /\ panel.clicks < MaxClicks
    /\ Offered(doc) = "start" => c.sequence + 2 <= MaxSessions
    /\ LET sequence == 1 + IF panel.sequence > doc.last_sequence THEN panel.sequence
                                                                 ELSE doc.last_sequence
           nonce == panel.clicks + 1
       IN /\ panel' = [panel EXCEPT !.clicks = nonce, !.pending = nonce, !.sequence = sequence, !.draft =
                [nonce |-> nonce, generation |-> doc.generation, active |-> doc.active,
                 token |-> doc.token, sequence |-> sequence, action |-> Offered(doc)]]
    /\ UNCHANGED <<Main, command, gui, stop>>

Submit ==
    /\ gui = "open" /\ ~c.closing /\ panel.draft # NoCommand
    /\ command' = panel.draft /\ panel' = [panel EXCEPT !.draft = NoCommand]
    /\ UNCHANGED <<Main, gui, stop>>

WindowEnds ==
    /\ gui = "open" /\ ~c.closing /\ gui' \in {"closed", "crashed"}
    /\ UNCHANGED <<Main, command, panel, stop>>

Signal ==
    /\ ~c.closing /\ ~stop /\ stop' = TRUE
    /\ UNCHANGED <<Main, command, gui, panel>>

Terminated == where \in {"done", "raised"} /\ UNCHANGED windowVars

WindowNext == \/ Coordinator \/ InspectFails \/ Executor \/ SaveExits \/ Poll \/ Click \/ Submit \/ WindowEnds \/ Signal
        \/ Terminated

\* The loop and its thread run, backend calls are bounded, a cancelled save is
\* ended by its wrapper, and the window's timer polls.
Fairness ==
    /\ WF_windowVars(Coordinator) /\ WF_windowVars(Executor) /\ WF_windowVars(Poll) /\ WF_windowVars(Submit)
    /\ WF_windowVars(SaveExits /\ saver.cancelled)

WindowSpec == WindowInit /\ [][WindowNext]_windowVars /\ Fairness

-----------------------------------------------------------------------------
(* Properties.                                                               *)

\* Two sessions never drive the devices at the same time, whatever fails: the
\* next start waits for a confirmed stop of the one before.
OneSession == Cardinality(running) <= 1

\* What the result of the window lists as left to decide.
Pending == {s \in Sessions : results[s] \in {"SAVE_PENDING", "FAILED"}} \cup {c.pending_map}

\* No map is lost: a window that returns its result lists in it every started map
\* whose data nobody decided about; run() ends with an exception, and lists
\* nothing, only if a write of the status failed (the last one, or CLOSING in
\* operation_failed()); and whichever way it ends, only the user's own choice
\* discards a map.
NoMapLost ==
    /\ where = "done" => \A s \in c.maps : data[s] = "kept" => s \in Pending
    /\ where = "raised" => faults > 0
    /\ \A s \in c.maps : data[s] # "discarded"

\* What the window shows is consistent: a start that was cancelled while its
\* thread completed it never shows up as mapping, and the window's own check of
\* two states in a row (same generation, same state) fails only when closing.
ShownIsConsistent ==
    /\ cancelled => status.state # "MAPPING"
    /\ panel.failed => c.closing

\* A click the window gave up waiting for is never carried out.
NoLateClick ==
    [][where # "command" /\ where' = "command" /\ command.nonce > panel.first
        => panel.pending = command.nonce]_windowVars

\* A click is answered, or the window is gone; and a window that is closing ends,
\* by a result or an exception, with every session stopped or given up and the
\* save over.
WaitsEnd ==
    /\ panel.pending # 0 ~> panel.pending = 0 \/ gui # "open"
    /\ c.closing ~> where \in {"done", "raised"}

=============================================================================
