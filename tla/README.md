# TLA+ models of SmartWheel

SmartWheel is a ROS 2 (Humble) workspace for a wheelchair with lidars, an IMU,
wheel controllers and cameras. It captures sensor data, drives the wheels by
hand while a map is built, fuses the streams into a graph SLAM back end, keeps
the results and offers a panel and a command line that start, stop, save and
check all of it. This directory holds TLA+ models of the parts of that program
whose correctness depends on the order in which things happen, the TLC
configurations that check small instances of them, and TLAPS proofs for every
value of their constants.

Paths below are relative to `src/src/`, one directory per ROS package.

## 1. The system

### Parts, state and operations

| part | state it keeps | operations | with whom it interacts |
|---|---|---|---|
| Mapping wheel owner, `wc_runtime/mapping_wheel.py` (`MappingWheel`, `WheelChannel`, `ManualSocket`, `main`) | drive state, held keys, generations, stop and initialization progress, health of the serial channel | `pump`, `step`, `_release`, `revoke`, `fault`, `close` | operator's window (UNIX socket), motor controller (serial), wheel journal |
| Wheel journal, `wc_motion/feedback_transport.py` (`AsyncJournal`) | bounded queue, in-flight batch, file, error, final fsync | `record`, worker `_run`, `close` | wheel owner, feedback capture |
| Wheel feedback capture, same file (`FeedbackPoller`, `FeedbackSerialLease`, `main`) | samples taken, lease, summary | `sample`, exchange, closing sequence | controller (read only), journal, recorder acknowledgement |
| Graph delivery, `wc_fusion/graph_delivery.py`, `ros_node.py` | queue of accepted observations, retry and timeout of the first | submit, pump, snapshot received | graph node through ROS topics |
| SLAM graph node, `wc_slam/src/graph_node.cpp`, `graph_engine.cpp` | records, revision files, pause and close state, barrier file | `accepted`, `pause`, `close_snapshot` | front end, RTAB-Map database |
| Component wrapper, `wc_runtime/component.py` | child, its status, the tree seen in /proc | watch, `reap`, `descendants`, `signal_descendant`, cleanup | kernel, supervisor |
| Session supervisor, `wc_runtime/supervisor.py`, `runtime_locks.py` | children, manifest, lock, stop flag | start, watch, `finish_children`, report | wrappers, its owner, other sessions |
| Mapping archive, `wc_runtime/mapping_input.py` (`ArchiveWorker`, `FlushedFrameArchive`, `CheckpointJournal`, `MappingInput.close`) | written files, captured prefix, jobs, manifest | append, capture, commit, close | ROS callbacks, disk |
| Panel configuration profiles, `wc_panel/config_profiles.py` | configuration files, journal, pointer, active marker | save, preview, apply, roll back, recover | panel, other editors of the files |
| Interactive mapping window, `wc_runtime/mapping_interactive*.py`, `wc_bringup/mapping_interactive_control.hpp` (`InteractiveCoordinator`, `WindowControl`, `OwnedSave`, the RViz panel, the save worker) | lifecycle state, operation and save under way, unconfirmed sessions, status and command files, the panel's pending click | begin and complete start, stop, save; commands; drain; poll, click, commit | controller, supervisor, map retention |
| Map retention, `wc_runtime/mapping_save.py`, `map_save_app.py`, `storage_atomic.py`, `export` in `mapping_controller.py`, `wc_maps/store.py` | raw data, export, staged and published maps, commit intents, retention record, lock | ask, save, decline, export, publish, clean up | save worker, other runs by hand, disk |
| Dual fusion front end, `wc_fusion/core.py`, `source_join.py` | pairs, freshness latches, gate, motion history | join, gate, integrate | lidar, IMU and wheel topics |
| Manual driving, `wc_motion/manual_*.py` | an older owner of the same controller | arm, drive, stop | panel client |
| Lidar driver, `wc_xt_driver` (`xt_source_node.cpp`, `BoundedWorkQueue`, owned stop, watchdogs) | readiness, failure and pause latches, stream, queues, journal, summary | tick, stop service, SDK callback, worker, `close` | device SDK, recorder, ROS |
| Maps, `wc_maps` | map packages under flock | commit, list, reconstruct | panel, offline tools |
| Panel, `wc_panel` | jobs, storage catalogue | start and watch detached jobs | workers, profiles |
| Capture and archives, calibration, cameras, IMU, estimation, monitors, offline tools, RViz panels, launch files | see `components` in PROJECT.json | | |

### What is hard about it

* One thread owns the wheels, but every control write calls the socket pump once
  more just before the bytes leave: operator packets arrive *inside* a step that
  has already chosen its frame.
* A frame may be executed although its acknowledgement is lost, and after a
  failed exchange only one best-effort zero may be tried.
* Writer threads fail, and callers time out, between a check and its use.
* ROS topics keep only the newest messages; retries duplicate what was slow.
* Processes fork, exit and reuse PIDs while /proc is being read one by one.
* A click is judged against a published state while a start, a stop or a save
  completes in another thread or process; two files are all the window and its
  coordinator share.
* Two runs may decide about one session's data at once, with minutes between a
  question and its answer.
* A lidar frame may be in the SDK, in a callback, in a queue or in work when the
  stream is stopped, and any of the threads may fail meanwhile.
* The supervisor, the graph node and the panel may be killed anywhere; power may
  fail between an fsync, a directory sync and a rename.

### What makes the parts correct

Wheel: a stop is never forgotten and a frame never contradicts the current
intent. Journal and capture: the file is what was accepted, and nobody claims
more. Delivery and graph: the graph is the submitted sequence, acknowledged is
durable, nothing gets lost silently. Wrapper and supervisor: success and
STOPPED mean that nothing is left; sessions never share a device. Archive: a
manifest never names what could be lost. Profiles: always one whole profile.
Window: one session at a time, no map dropped, no outdated click carried out.
Retention: the map is in the session or safe at its destination, and raw data a
map refers to stays. Lidar: the summary vouches for the last frame too, and no
stream is left running unnoticed.

## 2. Modules

| module | models | extends or instantiates |
|---|---|---|
| `WheelDrive` | wheel owner, serial channel, socket pump | |
| `EventLog` | abstract: an append-only log with an honest close | |
| `AsyncJournal` | journal with its two threads | implements `EventLog` |
| `FeedbackCapture` | capture `main()` and poller | extends `AsyncJournal` |
| `GraphDelivery` | front end, topics and graph node | |
| `ComponentTree` | one wrapper and the process table | |
| `Supervisor` | one session, with wrappers as `ComponentTree` promises them | |
| `CheckpointJournal` | archive writer, checkpoint coordinator, close | |
| `ConfigProfiles` | switch, rollback and recovery of a profile | |
| `InteractiveWindow` | coordinator, executor thread, save process and RViz window | |
| `MapRetention` | any number of runs that save or decline one session | |
| `XtSource` | lidar source process with its four threads | |
| `MC...` | instances for TLC | the module of that name |
| `SessionProofs` | theorems and proofs | `Supervisor`, `ComponentTree` |
| `MappingProofs` | theorems and proofs | `MapRetention`, `InteractiveWindow` |
| other `...Proofs` | theorems and proofs | the module of that name |

### WheelDrive

`w` is one record with the fields of `MappingWheel` and `WheelChannel`; `pc` says
where the thread is in `pump(); step()`; `dev` is the motor controller, external
to the repository. Packets are accepted at the four positions where the code
pumps: before the step and in the guards of a release, an initialization write
and a velocity write. Time is reduced to freshness flags that may expire at any
moment; due times are free choices, except that the feedback and command periods
keep their order (`command_wait`): `CONTROL_PERIOD_S` is shorter than
`FEEDBACK_PERIOD_S`, and without this `StopNeverForgotten` would not hold after a
stop was acknowledged by three zero samples. `told` is the newest generation a
status packet can have announced; a client may use only those. Two branches of the code are
shown dead and have no action: the zero-target branch of an armed `step()`
(`ArmedHoldsDirection`), and the `failed` test inside `exchange()`, as a failed
channel always comes with FAULT. The timeouts of keys and heartbeats are such
flags too and revoke the drive when they expire. No property is about them alone:
neither that a key refreshed after `KEY_TIMEOUT_S` stays expired
(`mapping_wheel.py` 422-423), nor that a silent but connected operator leads to a
stop. `LostOperatorStops` is about a lost connection.

### AsyncJournal, EventLog, FeedbackCapture

Every section under the condition variable is one action; `wait` and
`notify_all` are explicit (`waiting`), so a lost wakeup would show. A failed
write stores any prefix of its batch. `close()` may time out while the worker
goes on. `FeedbackCapture` adds `main()` of the capture program as the journal's
only caller: each exception path, the lease, the preview and the recorder's
acknowledgement; the writer may fail between any two of its steps.

### GraphDelivery

Observations are numbered in the order of submission. A topic is a KEEP_LAST
queue of depth `Depth`; the snapshot topic keeps the newest. The graph node's
handler is three steps (database, revision file, acknowledgement), each of which
may fail and between which the process may die.

### ComponentTree

The process table forks, exits, reparents to the subreaper and reuses PIDs at
any time; birth numbers stand for start times. `descendants()` reads one PID per
step. Over-approximated: any process may exit at any time after a signal. Left
out: stopped processes and SIGCONT, and permission errors. One empty scan is
enough for `SuccessLeavesNothing`, since only the wrapper reaps its own children:
the root of a surviving chain stays visible.

### Supervisor

`holders` is the set of processes with the lock's descriptor; the commands do
not inherit it. The several locks of a session are taken together and appear as
one. `Cleaned` and `Incomplete` are the promise of `ComponentTree`: status zero
only when the tree is gone (`WrapperAsAssumed`). Stopping a session
from another process by its manifest (`stop_registered`) is not modelled; it ends
in the same stop signal.

### CheckpointJournal

`written` is what files hold, `disk` what a power failure leaves, `manifests`
every `checkpoint.json` that one could leave. A power failure needs no action of
its own: `CheckpointIsDurable` is about what would be left in every state. The
data workers, the check of `cancelled` before each operation, both policies and
both timeouts of the close are modelled; lidar sides are treated alike by the
code and one is modelled. A worker takes the jobs in any order.

### ConfigProfiles

A file's content is the profile it comes from, or the number of a foreign edit;
digests stand for contents. A rename is atomic or fails. The comparison that
guards a file and the write of that file are two steps, in the switch (`Compare`,
`Install`) as in the rollback (`CompareAgain`, `Restore`). An edit of that file
between the two is overwritten, as in the code: no lock is shared with whoever
edits. The history variable `late` tells such an edit apart, and `EditsSurvive`
promises the survival of every other one, and of a late one whose write fails.
Left out: power failures that undo completed renames. `ParameterStore.save` has no
journal and appears as an edit.

### InteractiveWindow

`c` is a record with the fields of `InteractiveCoordinator`; `where` walks through
its main loop part by part, so that the executor's future (`task`), the save
process (`saver`), the window (`panel`) and a signal change between any two
parts. `status` is what the coordinator has in memory, `doc` and `command` the
two files, each replaced atomically; a write of the status may fail. The window
polls, compares two states in a row, sends a click and gives up waiting for it.
The backend is what the supervisor and the retention promise: a start or a stop
completes, fails, or leaves a session unconfirmed; a save reports one of its
results, crashes, or is cancelled. Tokens and nonces are numbers never used twice.

`run()` may also end by an exception: when the write of CLOSING fails inside of
`operation_failed()`, the exception passes through the drain of the `finally`
block and leaves `run()` (`Raises`), and when the very last write of the status
fails (`Finish`). The window is then at "raised", not "done": no result is
returned, so no undecided map is listed, and `mapping_app.py` (535-537) prints
FAILED with the reason and exits with 2. `NoMapLost` says of a returned result that
it lists every map nobody decided about, of a raised one that a failed write of
the status came before it, and of both that the data of such a map is kept.

### MapRetention

`raw`, `dest`, `intent` and `retention` have the value programs see and, where it
differs, the value that is safe on disk (`...Safe`); a power failure leaves either
one. Each run walks through `recover_session()`, then `save_session()` or
`discard_session()` under `retention.lock`, and may fail or be killed at every
step; the handler behind a failed publication (`AfterFailure`) is part of it. The
raw data is two pieces in the order of removal, so a removal may stop halfway. A
failed identity or hash check is the failure of its step. Left out: the clean-up of
a preview session, which has no map, and the cooperative rename for file systems
without `renameat2`.

### XtSource

The main thread's executor runs a tick or a service at a time; the start of the
stream is split at every exchange with the device, since callback and worker run
meanwhile. `sdk`, `callback`, `queue` and `active` are the four places a frame can
be in before it is journaled and published; `tail` is the history of the frames
that arrived while the source was ready. The queue's condition variable is
explicit (`worker = "asleep"`). A watchdog (`DeadlineExpires`) may end the process
at any position a deadline covers. Left out: the device's configuration and its
readback (a check that passes or fails), the read-only probe, message contents,
the host locks, and frames without a point cloud, which `on_frame` skips
(`xt_source_node.cpp` 566): a frame of the model is one with points.

## 3. Runs

| run | instance | shows |
|---|---|---|
| `wheel_hybrid` | hybrid policy, no key, two directions, opposing keys, three generations | no stop is forgotten, close ends at rest, release and enable are ordered, every frame follows the keys held when it is written |
| `wheel_live` | the explicit push policy, one direction, one generation, fair | a lost operator leads to a stop; a signal to a completed close |
| `capture` | 2 samples, preview and recorder on; journal of 3 events, batches of 2 | a synchronized summary vouches for exactly the whole session; queries are accounted for; the journal inside refines `EventLog` and loses no wakeup |
| `delivery` | queue and topic of 3, 4 observations | order, durability, final barrier, no false contradiction; all is delivered or fails visibly |
| `component` | 3 PIDs, 4 births, PIDs symmetric | nothing left on success, no signal outside, status kept |
| `component_reuse` | 2 PIDs, 3 births | violation: see the finding |
| `supervisor` | 2 components | STOPPED is quiet, sessions do not overlap, sessions end |
| `checkpoints` | 2 frames, 2 artifacts, 2 workers | manifests are durable, STOPPED is complete |
| `profiles` | 3 files, 2 profiles, 2 edits, 3 faults | one whole profile, edits survive unless they fall between comparison and write of their file, a commit is final, transactions end |
| `window` | 3 sessions, 3 clicks, 1 failed write of the status | one session at a time, a returned result lists every undecided map and its data is kept, consistent status, no late click; clicks are answered and closing ends |
| `retention` | 3 runs, 2 destinations, runs and destinations symmetric | referenced raw data survives, the map is somewhere, SAVED is true, nothing is replaced |
| `xt_source` | 2 frames, queue of 2, SDK queue of 1, strict and preview | the summary is true, no stream is forgotten; failures lead to a stop and cleanups end |

Bounds. Three generations let a revocation fall between two drives and a third
packet use an outdated one; two directions and two opposing keys give all cases
of `target`. Capacity 3 with batches of 2 fills the queue while a batch is in
flight and leaves a rest. Four observations overflow a queue and a topic of 3.
Three PIDs with four births allow a parent, a child, an orphan and one reuse.
Two components give a first and a last one for the start and for each stage of
the stop. Two frames give an incremental checkpoint after a full one, with both
kinds of index growth. Three files give a first, a middle and a last write; three
faults an interrupted recovery of an interrupted rollback. Three sessions and three
clicks give a start after a cancelled start and a click that crosses a completion
of either. Three runs give a saver, a decliner with an outdated answer, and one
that finds what they left; two destinations an occupied and a free one. Two frames
overflow the SDK's queue of 1 and fill the callback and the worker at once;
`frame_queue_` itself never fills with two frames, but a rejected frame
(`FrameRejected`) is possible whatever it holds, with the effect of a full queue. Three
frames through a queue of 2 pass as well. Wherever a theorem
exists the bounds do not matter for it.

Deadlock is checked in `window` and `xt_source`, where only an ended process
stutters. It is off in the other runs, whose programs may end or wait for good.

Fairness. `WheelDrive`: the owner thread runs (its waits all have timeouts);
operators, signals and the controller owe nothing. `AsyncJournal`: the worker
thread runs and a write returns or fails. `GraphDelivery`: the front end's timer
fires and its timeout passes; the graph owes nothing. `Supervisor`: main and
wrappers run, as each wait is bounded and wrappers end (`ComponentTree` escalates
to SIGKILL and then gives up); owners and the killer owe nothing. `ConfigProfiles`:
the panel is opened again and finishes what it began; nobody needs to switch; faults
are finitely many. `InteractiveWindow`: the main loop and its executor run, backend
calls are bounded, the window's timer polls, and a cancelled save ends, since its
wrapper kills it; a save nobody cancelled may take for ever, users and signals owe
nothing. `XtSource`: the timer fires, the main thread's calls have timeouts, the
SDK's thread delivers what it holds and the worker runs; device, signals and
deadlines owe nothing.

## 4. Theorems

All are proved by TLAPS for every value of the constants under the named
assumptions, which only give the constants their types (positive capacities,
disjoint sets). Each rests on one inductive invariant:

* `WheelDriveProofs`, `IndInv` (in `WheelDrive`): `StopNeverForgotten` speaks of
  one position of the loop; the invariant carries it to all positions (`StopOwed`)
  and adds what the writes rely on: motion is known to the channel and has no
  served stop (`MotionIsKnown`), an active direction has no stop outside of the
  guards (`ActiveUnstopped`), keys held in a step belong to its generation
  (`KeysOfThisStep`), and the third zero sample finds a due command
  (`CommandForced`). Proved: type correctness, `StopNeverForgotten`,
  `ClosedAtRest`, `ArmedHoldsDirection`, `ReleaseOnlyAtRest`, `ZeroBeforeEnable`.
  With `FailureLatched` (a failed channel comes with FAULT, so a failed exchange
  never returns to the armed branch) also `DriveFollowsKeys`.
* `FeedbackCaptureProofs`. The journal, `Inv`: file, batch and queue together are
  the accepted numbers in order (`Numbered`), and a complete outcome is a
  synchronized whole file (`Concluded`). Proved: type correctness, `FileIsPrefix`,
  `PendingIsInFlight`, and that the safety part refines `EventLog`. The capture,
  `CInv` next to `Inv`: which records `main()` has made at each of its positions
  (`Recorded`) and what it knows there (`Positioned`); a summary that vouches was
  written behind the final fsync (`Vouched`); the three counts of an exchange
  advance together (`Tallied`).
  `SynchronizedIsWhole` compares the file with the session and needs both
  invariants: the file is what was accepted, and what was accepted is whole.
  Proved: type correctness, `QueriesAccounted`, `SynchronizedIsWhole`, and that
  every step of the composed program is a step of `EventLog` or a stutter
  (`LogSpec`).
* `GraphDeliveryProofs`, `GInv`: queue, topic, snapshot and records are each a
  run of consecutive numbers relative to acknowledged and submitted, which is
  what makes a late snapshot harmless. Proved: type correctness, `GraphIsPrefix`,
  `AckedIsDurable`, `BarrierIsFinal`, `NoFalseContradiction`.
* `SessionProofs`. The supervisor, `SInv`: who holds the lock (`Holding`), what a
  status says about a tree (`TreesKnown`), and that every spawned wrapper not
  gone is still waited for (`Accounted`, `Reported`). Proved: type correctness,
  `StoppedIsQuiet`, `SessionsDoNotOverlap`. The wrapper, `TreeInv`: every process
  has a living, older parent inside of the tree exactly if it is inside itself
  (`Table`), so the oldest survivor is a child of the wrapper; while /proc is read
  such a child is still to be read or was (`Visible`), which is why one empty scan
  is enough. A record is as old as the process of its PID or older (`Records`), the
  pidfd refers to that process or a younger one (`Opened`), and each link of the
  climb that still holds leads to the process read next (`Linked`): a reused PID
  breaks a link before a signal is sent. `Status` follows the command until it is
  reaped. Proved: type correctness, `SuccessLeavesNothing`, `SignalsStayInside`,
  `StatusIsKept`. Last, `WrapperAsAssumed` connects the two: `Supervisor` is
  instantiated with one started component whose state is read off `ComponentTree`
  (`WrapperAt`, `TreeLeft`), and every step of the wrapper is one `Supervisor`
  allows that component, a signal to it, or not seen. The part of the wrapper's
  life before its handlers are installed and its death by SIGKILL are only in
  `Supervisor`.
* `CheckpointJournalProofs`, `KInv`: while the workers run, what is not durable
  has a job (`Covered`); each barrier passed makes its part of the prefix durable
  (`Barriers`); the last commit is the base of the next (`Based`); a stopped
  writer has captured everything (`Staged`) and the final manifest is that prefix
  (`Ending`). Proved: `CheckpointIsDurable`, `CloseIsComplete`.
* `ConfigProfilesProofs`, `PInv`: what the files, the marker and the journal are
  at each position (`Phases`), with foreign edits told apart (`Fresh`,
  `Unedited`). `Fresh` carries a comparison to its write: the file about to be
  written holds no edit unless one came late. Proved: `SwitchIsAtomic`, `EditsSurvive`, `CommitIsFinal`.
* `MappingProofs`. Retention, `RInv`: the lock's holder is the run inside of
  `stopped_session()` (`Exclusive`); what is safe at a destination is what is seen
  there (`SafeIsSeen`); a map at a destination belongs to a run past its rename,
  is whole, announced by its intent, and complete with what it refers to (`Owned`);
  and what a run may rely on at each position (`Positions`). `Owned` is what makes
  an outdated answer harmless: a decliner sees the intent under the lock. Proved:
  `ReferencedRawSurvives`, `MapIsSomewhere`, `SavedIsThere`, `NeverReplaced`.
  The window, `WindowInv`: the one operation under way is about a new session or
  the active one and names the only session whose devices may run (`TaskFits`,
  `Devices`); one map at a time is owned, waits for its save, or is being saved
  (`OneMap`), and data nobody decided about is with that map or reported
  (`MapsTraced`); what is published fits what the coordinator does (`Shows`), and
  the window sees that or an older status (`Seen`); of the clicks at most one
  waits, and every other one is dead because generation, token or acknowledgement
  moved on (`Clicked`). `Phases` says where the drain and the end are reached,
  `Faulted` that `run()` raises only behind a failed write, `CancelHeld` that a
  cancelled start is not shown. The model's bound on sessions
  has a part too: a number is left for each session that must still be started
  (`Numbered`, `Room`). Proved: `OneSession`, `NoMapLost`, `ShownIsConsistent`,
  `NoLateClick`.
* `XtSourceProofs`, `XInv`: the device streams only while `streaming_` says so, and
  from the stop of `close()` on a stream that is left is a failure (`Streams`);
  frames keep their order through SDK, callback and queue (`Ordered`); until
  something fails, journal, work and queue together are the accepted frames
  (`Piped`); a frame that arrived while a strict source was ready is accepted or on
  its way (`Followed`); only the end reports (`Reports`). Proved: type correctness,
  `SummaryIsTrue`, `StreamIsOwned`.

Type correctness, `ArmedHoldsDirection`, `FileIsPrefix` and `PendingIsInFlight` are
proved and no run repeats them or `WrapperAsAssumed`. Every other
theorem listed in PROJECT.json states a property some run checks.

Only model-checked: the liveness properties (`NoWakeupLost` and the others of the
form "eventually"), which need fairness and ENABLED and are out of the prover's
reach. Every invariant and every action property of a passing run is proved.

## 5. Finding

`component.py` line 118 documents `reap` as reaping "without losing the direct
component exit status", but lines 127-128 recognize the component by its PID:
once the component was collected and its PID reused by a descendant that the
wrapper adopts, that descendant's status overwrites `child.returncode`.
`component_reuse` shows a failed component reported as success. The same run
without PID reuse passes (`StatusIsKept`). It takes a full wrap of the PID space
during one cleanup, so it is a matter of the comment's promise more than of
practice.

Two more observations, for which no run claims a disagreement. The operator's
manual (`docs/operations/command_reference.md` 540) says that several undecided
sessions are listed one by one in the final `pending_sessions`; after a failed
write of the status as described with `InteractiveWindow`, `run()` raises and none
is listed, although all data is kept and exit status 2 does say that the end
failed. And an edit of a configuration file that falls between the comparison and
the rename of a profile switch (`config_profiles.py` 370-371, and 223-225 in the
rollback) is overwritten without a message.

## 6. Not modelled

Numerical code (odometry, motion prior, bias, estimation, reconstruction,
calibration) is out of TLC's reach; it is the largest part of the repository.
Dialogs, RViz panels other than the mapping window's, launch files and ROS message
definitions carry no protocol. Cameras are preview only. Offline tools work on
closed files in one process. Vendored code and SDKs are third party. Of the
modelled parts, what is left out is named with their modules above. Not modelled
yet, although their order of events matters: the sensor capture's run and
finalization, the fusion gate, the bounded queues and the backlog limit of the
mapping input, detached panel jobs, and the map store's catalogue.
PROJECT.json lists every part with its reason.

## 7. Plan

In this order:

1. The sensor capture: its children, deadlines and finalization, composed with the
   summaries of `XtSource` and `FeedbackCapture` it relies on.
2. The fusion gate: freshness latches, pairing of raw and filtered clouds, and
   the gate that feeds `GraphDelivery`.
3. The bounded queues of the mapping input's archive and the backlog limit of the
   periodic checkpoint policy.
4. Detached panel jobs and `MapStore`.
