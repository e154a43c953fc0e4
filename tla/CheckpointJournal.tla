--------------------------- MODULE CheckpointJournal ---------------------------
(***************************************************************************)
(* The durable archive of a mapping session (src/wc_runtime/               *)
(* mapping_input.py): the archive writer appends frames and flushes them,  *)
(* CheckpointJournal's coordinator captures a prefix, synchronizes its     *)
(* files with a few workers, then its directories, and only then replaces  *)
(* checkpoint.json; MappingInput.close() stops the writer, asks for a last *)
(* checkpoint and reports STOPPED.                                         *)
(*                                                                         *)
(* written is what the files hold, disk what a power failure leaves of     *)
(* them.  An fsync takes effect at once at some moment of the call; data   *)
(* written later is not covered.  A rename is durable with its directory,  *)
(* but may survive earlier: manifests holds every checkpoint.json that a   *)
(* power failure could leave.  One lidar side is modelled; sides are       *)
(* handled alike, one after the other.                                     *)
(***************************************************************************)
EXTENDS Naturals, FiniteSets

CONSTANTS
    Outputs,      \* bound on the frames that are archived
    Workers       \* CHECKPOINT_DATA_WORKERS

ASSUME CheckpointAssumption == Outputs \in Nat /\ Workers \in Nat \ {0}

Artifacts == 2    \* bootstrap.json in the output directory, prior_config.json in its parent

VARIABLES
    policy,       \* archive_checkpoint_policy
    written,      \* what the writer's files hold: cdr files, index rows, pair rows, artifacts
    writer,       \* ArchiveWorker._run(): the step it is at
    latest,       \* CheckpointJournal.latest
    pc,           \* the coordinator
    begun,        \* its current operation has passed the check of cancelled
    prefix,       \* _commit(prefix, final)
    final,
    first,        \* committed is None
    committed,    \* committed, or the empty prefix that stands for None
    jobs,         \* data jobs not yet dispatched
    active,       \* data jobs some worker is at
    failures,     \* a data job failed
    disk,         \* what is durable
    manifests,    \* the checkpoint.json a power failure may leave
    closing, cancelled, error,
    owner,        \* MappingInput.close()
    trouble       \* MappingInput.failure_reason is set

archive == <<written, writer, latest>>
commit == <<pc, begun, prefix, final, first, committed>>
data == <<jobs, active, failures>>
durable == <<disk, manifests>>
control == <<closing, cancelled, error, owner, trouble>>
vars == <<policy, archive, commit, data, durable, control>>

NoPrefix == [frames |-> 0, pairs |-> 0, arts |-> 0]

Init ==
    /\ policy \in {"periodic", "on_close"}
    /\ written = [cdrs |-> 0, rows |-> 0, pairs |-> 0, arts |-> 0]
    /\ writer = "idle" /\ latest = NoPrefix
    /\ pc = "wait" /\ begun = FALSE /\ prefix = NoPrefix /\ final = FALSE
    /\ first = TRUE /\ committed = NoPrefix
    /\ jobs = {} /\ active = {} /\ failures = FALSE
    /\ disk = [rows |-> 0, pairs |-> 0, cdrs |-> {}, arts |-> {}, names |-> 0, source |-> FALSE,
               output |-> FALSE, parent |-> FALSE, entries |-> {}]
    /\ manifests = {}
    /\ closing = FALSE /\ cancelled = FALSE /\ error = FALSE
    /\ owner = "open" /\ trouble = FALSE

-----------------------------------------------------------------------------
(* The archive writer.                                                       *)

\* ArchiveWorker._bootstrap(): the two files come before any frame.
Bootstrap ==
    /\ writer = "idle" /\ written.arts < Artifacts
    /\ written' = [written EXCEPT !.arts = @ + 1] /\ writer' = "artifact"
    /\ UNCHANGED <<policy, latest, commit, data, durable, control>>

\* FlushedFrameArchive.append(): first the frame's own file, then its index row.
WriteCdr ==
    /\ writer = "idle" /\ written.arts = Artifacts /\ written.cdrs < Outputs
    /\ written' = [written EXCEPT !.cdrs = @ + 1] /\ writer' = "row"
    /\ UNCHANGED <<policy, latest, commit, data, durable, control>>

WriteRow ==
    /\ writer = "row"
    /\ written' = [written EXCEPT !.rows = @ + 1] /\ writer' = "appended"
    /\ UNCHANGED <<policy, latest, commit, data, durable, control>>

\* append_pair().
WritePair ==
    /\ writer = "pair"
    /\ written' = [written EXCEPT !.pairs = @ + 1] /\ writer' = "paired"
    /\ UNCHANGED <<policy, latest, commit, data, durable, control>>

\* capture() and update(): only what is completely written and flushed.
Capture ==
    /\ writer \in {"artifact", "appended", "paired"}
    /\ latest' = [frames |-> written.rows, pairs |-> written.pairs, arts |-> written.arts]
    /\ writer' = IF writer = "appended" THEN "pair" ELSE "idle"
    /\ UNCHANGED <<policy, written, commit, data, durable, control>>

\* A write raises: the thread ends with an error.
WriterFails ==
    /\ writer \notin {"stopped", "failed"}
    /\ writer' = "failed"
    /\ UNCHANGED <<policy, written, latest, commit, data, durable, control>>

\* The queue is empty and closing is set.
WriterStops ==
    /\ writer = "idle" /\ written.arts \in {0, Artifacts} /\ owner # "open"
    /\ writer' = "stopped"
    /\ UNCHANGED <<policy, written, latest, commit, data, durable, control>>

-----------------------------------------------------------------------------
(* The coordinator: _run() and _commit().                                    *)

IndexJob == <<"source_index", 0>>
PairsJob == <<"pairs_index", 0>>
ArtifactJob(a) == <<"artifact", a>>
CdrJob(n) == <<"cdr", n>>

\* data_jobs(): indexes that grew, new artifacts, new frames.
DataJobs(p) ==
    (IF first \/ p.frames # committed.frames THEN {IndexJob} ELSE {})
    \cup (IF first \/ p.pairs # committed.pairs THEN {PairsJob} ELSE {})
    \cup {ArtifactJob(a) : a \in (committed.arts + 1)..p.arts}
    \cup {CdrJob(n) : n \in (committed.frames + 1)..p.frames}

\* _run() wakes up and captures the prefix together with closing; _commit() skips
\* an unchanged prefix that is not the last.  A regression of the prefix cannot
\* happen, as the writer only adds.
Tick ==
    /\ pc = "wait" /\ (closing \/ policy = "periodic")
    /\ \/ /\ ~first /\ ~closing /\ latest = committed
          /\ UNCHANGED vars
       \/ /\ first \/ closing \/ latest # committed
          /\ prefix' = latest /\ final' = closing
          /\ jobs' = DataJobs(latest) /\ pc' = "data"
          /\ UNCHANGED <<policy, archive, begun, first, committed, active, failures, durable, control>>

\* work(): a worker takes the next job, unless one failed or the owner gave up.
Dispatch(j) ==
    /\ pc = "data" /\ ~failures /\ ~cancelled /\ Cardinality(active) < Workers
    /\ jobs' = jobs \ {j} /\ active' = active \cup {j}
    /\ UNCHANGED <<policy, archive, commit, failures, durable, control>>

\* Its fsync returns: the file's current content is durable.
Synced(j) ==
    /\ active' = active \ {j}
    /\ disk' = [disk EXCEPT !.rows = IF j = IndexJob THEN written.rows ELSE @,
                            !.pairs = IF j = PairsJob THEN written.pairs ELSE @,
                            !.arts = @ \cup {a \in 1..written.arts : j = ArtifactJob(a)},
                            !.cdrs = @ \cup {n \in 1..written.cdrs : j = CdrJob(n)}]
    /\ UNCHANGED <<policy, archive, commit, jobs, failures, manifests, control>>

\* It raises, or cancelled was set after the dispatch.
SyncFails(j) ==
    /\ active' = active \ {j} /\ failures' = TRUE
    /\ UNCHANGED <<policy, archive, commit, jobs, durable, control>>

data_done_before_join ==
    /\ pc = "data" /\ jobs = {} /\ ~failures /\ ~cancelled
    /\ pc' = "names"
    /\ UNCHANGED <<policy, archive, begun, prefix, final, first, committed, data, durable, control>>

\* Every worker was joined and no job is left: on to the directories.
DataDone ==
    /\ pc = "data" /\ active = {} /\ jobs = {} /\ ~failures /\ ~cancelled
    /\ pc' = "names"
    /\ UNCHANGED <<policy, archive, begun, prefix, final, first, committed, data, durable, control>>

\* _commit() raises: the thread records the error and ends.
Ends ==
    /\ pc' = "ended" /\ begun' = FALSE /\ error' = TRUE
    /\ UNCHANGED <<policy, archive, prefix, final, first, committed, data, durable, closing,
                   cancelled, owner, trouble>>

\* A job failed or the owner gave up, and the workers that had started were joined.
DataFails == pc = "data" /\ active = {} /\ (failures \/ cancelled) /\ Ends

Operations == {"names", "entries", "manifest", "replace", "publish"}

\* _sync_operation() checks cancelled before it starts the operation.
Begin ==
    /\ pc \in Operations /\ ~begun /\ ~cancelled
    /\ begun' = TRUE
    /\ UNCHANGED <<policy, archive, pc, prefix, final, first, committed, data, durable, control>>

OperationFails == pc \in Operations /\ (begun \/ cancelled) /\ Ends

\* The operation at position p returns and position q follows.
Completes(p, q) ==
    /\ pc = p /\ begun
    /\ pc' = q /\ begun' = FALSE
    /\ UNCHANGED <<policy, archive, prefix, final, first, committed, data, control>>

\* frames_directory if there are new frames, source_directory the first time.
SyncNames ==
    /\ Completes("names", "entries")
    /\ disk' = [disk EXCEPT !.names = IF first \/ prefix.frames # committed.frames
                                      THEN written.cdrs ELSE @,
                            !.source = @ \/ first]
    /\ UNCHANGED manifests

\* The directory of an artifact, and the ones whose entries are new.
ParentOf(a) == IF a = 1 THEN "output" ELSE "parent"
Namespaces ==
    {ParentOf(a) : a \in (committed.arts + 1)..prefix.arts}
    \cup (IF first THEN {"output", "parent"} ELSE {})

\* new_entry_directory, for each of them, before a manifest can name the files.
SyncEntries ==
    /\ Completes("entries", "manifest")
    /\ disk' = [disk EXCEPT !.output = @ \/ "output" \in Namespaces,
                            !.parent = @ \/ "parent" \in Namespaces,
                            !.entries = @ \cup {a \in 1..written.arts : ParentOf(a) \in Namespaces}]
    /\ UNCHANGED manifests

Manifest == [frames |-> prefix.frames, pairs |-> prefix.pairs, arts |-> prefix.arts, final |-> final]

\* checkpoint.json.partial is written and synchronized.
WriteManifest == Completes("manifest", "replace") /\ UNCHANGED durable

\* os.replace(): a power failure leaves the old manifest or the new one.
Replace ==
    /\ Completes("replace", "publish")
    /\ manifests' = manifests \cup {Manifest}
    /\ UNCHANGED disk

\* The directory is synchronized: only the new one is left.
Publish ==
    /\ Completes("publish", "record")
    /\ manifests' = {Manifest}
    /\ UNCHANGED disk

record_ends_when_closing ==
    /\ pc = "record" /\ ~cancelled
    /\ committed' = prefix /\ first' = FALSE
    /\ pc' = IF closing THEN "ended" ELSE "wait"
    /\ UNCHANGED <<policy, archive, begun, prefix, final, data, durable, control>>

\* committed is set under the lock unless the owner gave up meanwhile; the last
\* checkpoint ends the thread.
Record ==
    /\ pc = "record" /\ ~cancelled
    /\ committed' = prefix /\ first' = FALSE
    /\ pc' = IF final THEN "ended" ELSE "wait"
    /\ UNCHANGED <<policy, archive, begun, prefix, final, data, durable, control>>

RecordFails == pc = "record" /\ cancelled /\ Ends

Coordinator ==
    \/ Tick \/ DataDone \/ DataFails \/ Begin \/ OperationFails
    \/ SyncNames \/ SyncEntries \/ WriteManifest \/ Replace \/ Publish
    \/ Record \/ RecordFails
    \/ \E j \in jobs : Dispatch(j)
    \/ \E j \in active : Synced(j) \/ SyncFails(j)

-----------------------------------------------------------------------------
(* The owner: MappingInput.close() and CheckpointJournal.close().            *)

\* The main loop ends, by a signal or by any failure it has seen.
Close ==
    /\ owner = "open"
    /\ owner' = "stopping" /\ trouble' \in BOOLEAN
    /\ UNCHANGED <<policy, archive, commit, data, durable, closing, cancelled, error>>

\* worker.close() returns; poll_io() looks at the errors of both threads, then
\* checkpoints.close() begins.
WriterJoined ==
    /\ owner = "stopping" /\ writer \in {"stopped", "failed"}
    /\ owner' = "joining" /\ closing' = TRUE
    /\ trouble' = (trouble \/ writer = "failed" \/ error)
    /\ UNCHANGED <<policy, archive, commit, data, durable, cancelled, error>>

\* The writer is still busy at the deadline: the checkpoints are not closed and
\* nothing is claimed.
WriterTimeout ==
    /\ owner = "stopping" /\ writer \notin {"stopped", "failed"}
    /\ owner' = "failed" /\ trouble' = TRUE
    /\ UNCHANGED <<policy, archive, commit, data, durable, closing, cancelled, error>>

\* CheckpointJournal.close() finds its thread ended.
Joined ==
    /\ owner = "joining" /\ pc = "ended"
    /\ owner' = "report" /\ trouble' = (trouble \/ error)
    /\ UNCHANGED <<policy, archive, commit, data, durable, closing, cancelled, error>>

\* It does not end in time: the coordinator is told to give up.
JoinTimeout ==
    /\ owner = "joining" /\ pc # "ended"
    /\ owner' = "failed" /\ cancelled' = TRUE /\ error' = TRUE /\ trouble' = TRUE
    /\ UNCHANGED <<policy, archive, commit, data, durable, closing>>

\* The status writer is joined and the final status.json is written with fsync;
\* either may fail.
Report ==
    /\ owner = "report"
    /\ \/ ~trouble /\ owner' = "stopped" /\ UNCHANGED trouble
       \/ owner' = "failed" /\ trouble' = TRUE
    /\ UNCHANGED <<policy, archive, commit, data, durable, closing, cancelled, error>>

-----------------------------------------------------------------------------
Next ==
    \/ Bootstrap \/ WriteCdr \/ WriteRow \/ WritePair \/ Capture \/ WriterFails \/ WriterStops
    \/ Coordinator
    \/ Close \/ WriterJoined \/ WriterTimeout \/ Joined \/ JoinTimeout \/ Report

Spec == Init /\ [][Next]_vars

-----------------------------------------------------------------------------
(* Properties.                                                               *)

\* The files of a prefix are durable up to what it counts.
DataDurable(p) ==
    /\ p.frames <= disk.rows /\ p.pairs <= disk.pairs
    /\ 1..p.frames \subseteq disk.cdrs /\ 1..p.arts \subseteq disk.arts

\* So are the names of its frames and of its index,
NamesDurable(p) == p.frames <= disk.names /\ disk.source

\* and the entries of its directories and of its artifacts.
EntriesDurable(p) == disk.output /\ disk.parent /\ 1..p.arts \subseteq disk.entries

\* Whenever the power fails, the checkpoint.json that is left names only data,
\* index rows and directory entries that are left too: the incremental data jobs,
\* the directories synchronized only when something is new, and the order of the
\* three barriers of _commit() miss nothing, whatever is appended meanwhile.
CheckpointIsDurable ==
    \A m \in manifests : DataDurable(m) /\ NamesDurable(m) /\ EntriesDurable(m)

\* When MappingInput.close() reports STOPPED, the only checkpoint.json a power
\* failure can leave is the final one and it covers everything that was archived,
\* although a periodic checkpoint may have been under way when the writer ended.
CloseIsComplete ==
    owner = "stopped" =>
        manifests = {[frames |-> written.cdrs, pairs |-> written.pairs, arts |-> written.arts,
                      final |-> TRUE]}
=============================================================================
