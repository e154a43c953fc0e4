---------------------------- MODULE AsyncJournal ----------------------------
(***************************************************************************)
(* The bounded FIFO journal writer of the wheel processes: AsyncJournal    *)
(* (src/wc_motion/feedback_transport.py).  The caller's thread enqueues    *)
(* events under a condition variable; a worker thread takes them in        *)
(* batches, writes and flushes outside the lock, accounts for them, and    *)
(* after close() drains, finalizes and fsyncs.                             *)
(*                                                                         *)
(* An event is its journal_event_index.  Sizes in bytes are abstracted: a  *)
(* record may always be too large for the bound, a batch may always be cut *)
(* by its byte limit after the first line.  A write that fails may have    *)
(* stored any prefix of its batch.  Each section under the lock is one     *)
(* action; wait() and notify_all() are explicit, so a lost wakeup would    *)
(* show.                                                                   *)
(***************************************************************************)
EXTENDS Naturals, Sequences

CONSTANTS
    MaxEvents,     \* max_events: queued and in-flight events
    BatchEvents,   \* JOURNAL_BATCH_EVENTS
    MaxCalls       \* bound: how many events the caller enqueues at most

ASSUME BoundsAssumption ==
    MaxEvents \in Nat \ {0} /\ BatchEvents \in Nat \ {0} /\ MaxCalls \in Nat

VARIABLES
    queue,      \* accepted lines not yet taken by the worker
    batch,      \* lines: taken, not yet accounted for
    file,       \* the lines in the file
    enqueued,   \* enqueued_events
    pending,    \* pending_events
    closing,
    error,      \* error is not None
    synced,     \* final_fsync_complete
    worker,     \* where _run() is
    waiting,    \* _run() is in condition.wait()
    caller,     \* "open", in the join of "close", or "closed"
    outcome     \* what close() reported

vars == <<queue, batch, file, enqueued, pending, closing, error, synced,
          worker, waiting, caller, outcome>>

Init ==
    /\ queue = <<>> /\ batch = <<>> /\ file = <<>>
    /\ enqueued = 0 /\ pending = 0
    /\ closing = FALSE /\ error = FALSE /\ synced = FALSE
    /\ worker = "idle" /\ waiting = FALSE
    /\ caller = "open" /\ outcome = "open"

notify_all == waiting' = FALSE

_fail_locked == error' = TRUE /\ closing' = TRUE /\ notify_all

-----------------------------------------------------------------------------
(* The caller.                                                               *)

\* Faulty variant: an accepted event does not wake the worker.
accept_silently ==
    /\ caller = "open" /\ ~closing /\ pending < MaxEvents /\ enqueued < MaxCalls
    /\ queue' = Append(queue, enqueued + 1)
    /\ enqueued' = enqueued + 1 /\ pending' = pending + 1
    /\ UNCHANGED <<batch, file, closing, error, synced, worker, waiting, caller, outcome>>

\* __call__(): the line is frozen and queued.
Accept ==
    /\ caller = "open"
    /\ ~closing
    /\ pending < MaxEvents
    /\ enqueued < MaxCalls
    /\ queue' = Append(queue, enqueued + 1)
    /\ enqueued' = enqueued + 1
    /\ pending' = pending + 1
    /\ notify_all
    /\ UNCHANGED <<batch, file, closing, error, synced, worker, caller, outcome>>

\* __call__(): the record cannot be encoded or exceeds a bound.  A full queue
\* always ends here.
Refuse ==
    /\ caller = "open"
    /\ ~closing
    /\ _fail_locked
    /\ UNCHANGED <<queue, batch, file, enqueued, pending, synced, worker, caller, outcome>>

CloseBegins ==
    /\ caller = "open"
    /\ caller' = "join"
    /\ closing' = TRUE
    /\ notify_all
    /\ UNCHANGED <<queue, batch, file, enqueued, pending, error, synced, worker, outcome>>

\* Faulty variant: the final fsync is not asked about.
close_trusts_join ==
    /\ caller = "join" /\ worker = "exited" /\ caller' = "closed" /\ outcome' = "complete"
    /\ UNCHANGED <<queue, batch, file, enqueued, pending, closing, error, synced, worker, waiting>>

CloseReturns ==
    /\ caller = "join"
    /\ worker = "exited"
    /\ caller' = "closed"
    /\ outcome' = IF error \/ ~synced THEN "failed" ELSE "complete"
    /\ UNCHANGED <<queue, batch, file, enqueued, pending, closing, error, synced, worker, waiting>>

\* The join timed out and the thread is still alive.
CloseTimesOut ==
    /\ caller = "join"
    /\ caller' = "closed"
    /\ _fail_locked
    /\ outcome' = "failed"
    /\ UNCHANGED <<queue, batch, file, enqueued, pending, synced, worker>>

-----------------------------------------------------------------------------
(* The worker.                                                               *)

Sleep ==
    /\ worker = "idle" /\ ~waiting
    /\ queue = <<>> /\ ~closing
    /\ waiting' = TRUE
    /\ UNCHANGED <<queue, batch, file, enqueued, pending, closing, error, synced,
                   worker, caller, outcome>>

Drained ==
    /\ worker = "idle" /\ ~waiting
    /\ queue = <<>> /\ closing
    /\ worker' = "finalize"
    /\ UNCHANGED <<queue, batch, file, enqueued, pending, closing, error, synced,
                   waiting, caller, outcome>>

Least(m, n) == IF m <= n THEN m ELSE n

\* The lines a batch may still take from the queue.
Room == Least(Len(queue), BatchEvents - Len(batch))

take(n) ==
    /\ batch' = batch \o SubSeq(queue, 1, n)
    /\ queue' = SubSeq(queue, n + 1, Len(queue))

\* One pass of the aggregation loop: n lines are taken, fewer than there is
\* room for when the byte limit cuts the batch; then the batch is written, or
\* the worker waits for more.
Gather ==
    /\ worker \in {"idle", "gather"} /\ ~waiting
    /\ worker = "idle" => queue # <<>>
    /\ \E n \in 0..Room :
          /\ batch = <<>> => n > 0
          /\ take(n)
          /\ \/ worker' = "write" /\ waiting' = FALSE
             \/ /\ n = Len(queue) /\ Len(batch) + n < BatchEvents /\ ~closing
                /\ worker' = "gather" /\ waiting' = TRUE
    /\ UNCHANGED <<file, enqueued, pending, closing, error, synced, caller, outcome>>

\* The aggregation wait ran into its deadline.
AggregationEnds ==
    /\ worker = "gather" /\ waiting
    /\ \E n \in 0..Room : take(n)
    /\ worker' = "write" /\ waiting' = FALSE
    /\ UNCHANGED <<file, enqueued, pending, closing, error, synced, caller, outcome>>

\* _write() of the batch, outside the lock.
Write ==
    /\ worker = "write"
    /\ file' = file \o batch
    /\ worker' = "account"
    /\ UNCHANGED <<queue, batch, enqueued, pending, closing, error, synced, waiting, caller, outcome>>

WriteFails ==
    /\ worker = "write"
    /\ \E n \in 0..Len(batch) : file' = file \o SubSeq(batch, 1, n)
    /\ _fail_locked
    /\ worker' = "close"
    /\ UNCHANGED <<queue, batch, enqueued, pending, synced, caller, outcome>>

Account ==
    /\ worker = "account"
    /\ pending' = pending - Len(batch)
    /\ batch' = <<>>
    /\ worker' = "idle"
    /\ UNCHANGED <<queue, file, enqueued, closing, error, synced, waiting, caller, outcome>>

\* The journal_finalization record, then the final flush and fsync.
Finalize ==
    /\ worker = "finalize"
    /\ worker' = "fsync"
    /\ UNCHANGED <<queue, batch, file, enqueued, pending, closing, error, synced,
                   waiting, caller, outcome>>

Fsync ==
    /\ worker = "fsync"
    /\ synced' = TRUE
    /\ worker' = "close"
    /\ UNCHANGED <<queue, batch, file, enqueued, pending, closing, error, waiting, caller, outcome>>

FinalizeFails ==
    /\ worker \in {"finalize", "fsync"}
    /\ _fail_locked
    /\ worker' = "close"
    /\ UNCHANGED <<queue, batch, file, enqueued, pending, synced, caller, outcome>>

\* Only the worker closes its stream.
CloseStream ==
    /\ worker = "close"
    /\ \/ notify_all /\ UNCHANGED <<closing, error>>
       \/ _fail_locked
    /\ worker' = "exited"
    /\ UNCHANGED <<queue, batch, file, enqueued, pending, synced, caller, outcome>>

-----------------------------------------------------------------------------

Caller == Accept \/ Refuse \/ CloseBegins \/ CloseReturns \/ CloseTimesOut

Worker == Sleep \/ Drained \/ Gather \/ AggregationEnds \/ Write \/ WriteFails \/ Account
          \/ Finalize \/ Fsync \/ FinalizeFails \/ CloseStream

Next == Caller \/ Worker

\* The worker thread runs and its file operations return.
Spec == Init /\ [][Next]_vars /\ WF_vars(Worker)

-----------------------------------------------------------------------------
(* Properties.                                                               *)

WorkerStates == {"idle", "gather", "write", "account", "finalize", "fsync", "close", "exited"}

\* Type correctness: the queue, the batch and the counters AsyncJournal shares
\* between caller and writer thread keep their types, and both threads are at a
\* known position.
TypeOK ==
    /\ queue \in Seq(Nat) /\ batch \in Seq(Nat) /\ file \in Seq(Nat)
    /\ enqueued \in Nat /\ pending \in Nat
    /\ closing \in BOOLEAN /\ error \in BOOLEAN /\ synced \in BOOLEAN
    /\ worker \in WorkerStates /\ waiting \in BOOLEAN
    /\ caller \in {"open", "join", "closed"}
    /\ outcome \in {"open", "complete", "failed"}

\* The file holds the first accepted events, in order, each once, whatever
\* batches they travelled in and wherever a write failed.
FileIsPrefix == Len(file) <= enqueued /\ \A i \in 1..Len(file) : file[i] = i

\* Until a write fails, pending_events counts exactly the queued and in-flight
\* events, so the bound covers both.
PendingIsInFlight ==
    worker \notin {"close", "exited"} =>
        pending = Len(queue) + Len(batch) /\ pending <= MaxEvents

Log == INSTANCE EventLog WITH accepted <- enqueued, stored <- Len(file), outcome <- outcome

\* The journal is an event log: what record() accepted is stored in order, and a
\* close() that reports completion has stored every accepted event.
LogSpec == Log!Spec

\* No wakeup is lost: every accepted event reaches the file unless an error was
\* recorded, and once closing, the worker ends.
NoWakeupLost ==
    /\ \A n \in 1..MaxCalls : enqueued >= n ~> Len(file) >= n \/ error
    /\ closing ~> worker = "exited"

=============================================================================
