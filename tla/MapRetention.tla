---------------------------- MODULE MapRetention ----------------------------
(***************************************************************************)
(* What happens to the data of one stopped mapping session: save_session() *)
(* and discard_session() (src/wc_runtime/mapping_save.py), reached through *)
(* recover_session() (map_save_app.py), with export() of the mapping       *)
(* controller and the directory operations of wc_maps/store.py.            *)
(*                                                                         *)
(* Any number of runs of the program, the window's save worker or started  *)
(* by hand, work on the same session; each one decides once.  A call may   *)
(* fail, a run may be killed, and the power may fail at any point.  A file *)
(* or a directory entry has the value programs see and the value that is   *)
(* safe on disk; a power failure leaves either one.                        *)
(*                                                                         *)
(* The raw data is two pieces, the recordings (bag) and the map database   *)
(* (slam), in the order they are removed.  Paths, hashes, sizes, the       *)
(* identity checks of the session files and the diagnostic copies are left *)
(* out.  A preview's session has no map and is not modelled here.          *)
(***************************************************************************)
EXTENDS Naturals, FiniteSets

CONSTANTS
    Runs,       \* runs of the program
    Dests       \* the directories a user may choose

ASSUME RunsAssumption == {"free", "other"} \cap Runs = {}

VARIABLES
    profile,    \* the session's retention_profile
    pc,         \* where each run is
    target,     \* the directory a saving run was given
    lock,       \* the run that holds retention.lock, or "free"
    raw,        \* the pieces of raw data that exist
    export,     \* the session's export directory
    copy,       \* each run's copy of the map, in its stage or at its destination
    refs,       \* the raw pieces a run's map refers to
    dest,       \* what is at each destination: "free", "other" or the map of a run
    destSafe,   \* the same, as it is safe on disk
    intent,     \* each run's file in save_commit_intents
    intentSafe,
    retention,  \* retention.json
    retentionSafe,
    declined    \* history: a user declined to keep the map, and was heeded

disk == <<export, copy, refs, dest, destSafe, intent, intentSafe, retention, retentionSafe>>
vars == <<profile, pc, target, lock, raw, declined, disk>>

Pieces == {"bag", "slam"}
Profiles == {"experiment", "map_only"}

\* The steps of save_session() and discard_session() under the lock.
Staging == {"copying", "syncing", "prepare", "prepare_sync", "rename"}
Cleaning == {"cleanup", "cleaned", "cleaned_sync"}
Recording == {"record", "record_sync", "commit", "commit_sync"}
Aborting == {"abort", "abort_sync", "abort_remove"}
Discarding == {"discard", "discarded", "discarded_sync"}
Locked == {"export", "exporting", "stage", "publish"}
          \cup Staging \cup Cleaning \cup Recording \cup Aborting \cup Discarding
Ended == {"SAVED", "DISCARDED", "FAILED", "SAVE_PENDING", "dead"}
Labels == {"new", "ask", "save", "decline"} \cup Locked \cup Ended

Init ==
    /\ profile \in Profiles
    /\ pc = [r \in Runs |-> "new"] /\ target \in [Runs -> Dests]
    /\ lock = "free" /\ raw = Pieces /\ export = "none"
    /\ copy = [r \in Runs |-> "none"] /\ refs = [r \in Runs |-> {}]
    /\ dest = [d \in Dests |-> "free"] /\ destSafe = dest
    /\ intent = [r \in Runs |-> "none"] /\ intentSafe = intent
    /\ retention = "none" /\ retentionSafe = "none"
    /\ declined = FALSE

Goto(r, label) == pc' = [pc EXCEPT ![r] = label]

\* A run ends; leaving stopped_session() releases the lock.
End(r, label) == Goto(r, label) /\ lock' = IF lock = r THEN "free" ELSE lock

-----------------------------------------------------------------------------
(* recover_session(), up to the decision.  Nothing is locked.                *)

\* assert_archive_not_referenced() passes.
NotReferenced ==
    /\ retention # "saved"
    /\ \A r \in Runs : intent[r] \in {"none", "ABORTED"}

\* session_handle(): a session decided before is refused.
SessionHandle(r) ==
    /\ pc[r] = "new"
    /\ Goto(r, IF retention = "none" /\ NotReferenced THEN "ask" ELSE "FAILED")
    /\ UNCHANGED <<profile, target, lock, raw, declined, disk>>

\* The user's choice.  A directory that exists is refused before anything is locked.
ChooseSave(r) ==
    /\ pc[r] = "ask"
    /\ Goto(r, IF dest[target[r]] = "free" THEN "save" ELSE "FAILED")
    /\ UNCHANGED <<profile, target, lock, raw, declined, disk>>

ChooseOther(r) ==
    /\ pc[r] = "ask"
    /\ \/ Goto(r, "decline")
       \/ Goto(r, "SAVE_PENDING")
    /\ UNCHANGED <<profile, target, lock, raw, declined, disk>>

\* stopped_session(): the lock is taken, or the run fails at once.
LockBusy(r) ==
    /\ pc[r] \in {"save", "decline"} /\ lock # "free"
    /\ Goto(r, "FAILED")
    /\ UNCHANGED <<profile, target, lock, raw, declined, disk>>

\* Faulty variant: discard_session() trusts the check made before the question.
decline_unchecked(r) ==
    /\ pc[r] = "decline" /\ lock = "free"
    /\ lock' = r /\ declined' = TRUE /\ Goto(r, "discard")
    /\ UNCHANGED <<profile, target, raw, disk>>

\* discard_session() looks at the references again, under the lock.
Decline(r) ==
    /\ pc[r] = "decline" /\ lock = "free"
    /\ IF NotReferenced THEN lock' = r /\ declined' = TRUE /\ Goto(r, "discard")
                        ELSE UNCHANGED <<lock, declined>> /\ Goto(r, "FAILED")
    /\ UNCHANGED <<profile, target, raw, disk>>

-----------------------------------------------------------------------------
(* save_session(), under the lock.                                           *)

LockToSave(r) ==
    /\ pc[r] = "save" /\ lock = "free"
    /\ lock' = r /\ Goto(r, "export")
    /\ UNCHANGED <<profile, target, raw, declined, disk>>

\* export() needs the recordings and the database; a verified export is used
\* again, one cut short is set aside.
ExportReused(r) ==
    /\ pc[r] = "export" /\ raw = Pieces /\ export = "done"
    /\ Goto(r, "stage")
    /\ UNCHANGED <<profile, target, lock, raw, declined, disk>>

ExportBegins(r) ==
    /\ pc[r] = "export" /\ raw = Pieces /\ export \in {"none", "partial"}
    /\ export' = "partial" /\ Goto(r, "exporting")
    /\ UNCHANGED <<profile, target, lock, raw, declined, copy, refs, dest, destSafe, intent,
                   intentSafe, retention, retentionSafe>>

ExportEnds(r) ==
    /\ pc[r] = "exporting" /\ export' = "done" /\ Goto(r, "stage")
    /\ UNCHANGED <<profile, target, lock, raw, declined, copy, refs, dest, destSafe, intent,
                   intentSafe, retention, retentionSafe>>

StageMade(r) ==
    /\ pc[r] = "stage"
    /\ copy' = [copy EXCEPT ![r] = "partial"] /\ Goto(r, "copying")
    /\ UNCHANGED <<profile, target, lock, raw, declined, export, refs, dest, destSafe, intent,
                   intentSafe, retention, retentionSafe>>

\* The files are copied, the database too; an experiment's map gets the hashes of
\* the recordings, which stay where they are.
Copied(r) ==
    /\ pc[r] = "copying"
    /\ copy' = [copy EXCEPT ![r] = "copied"] /\ Goto(r, "syncing")
    /\ refs' = [refs EXCEPT ![r] = IF profile = "experiment" THEN raw \ {"slam"} ELSE {}]
    /\ UNCHANGED <<profile, target, lock, raw, declined, export, dest, destSafe, intent,
                   intentSafe, retention, retentionSafe>>

\* The copies, their manifest and their directories are safe.
StageSynced(r) ==
    /\ pc[r] = "syncing"
    /\ copy' = [copy EXCEPT ![r] = "synced"] /\ Goto(r, "prepare")
    /\ UNCHANGED <<profile, target, lock, raw, declined, export, refs, dest, destSafe, intent,
                   intentSafe, retention, retentionSafe>>

\* _replace_durable() in two steps: the file is replaced, and then safe.
PutIntent(r, value) ==
    /\ intent' = [intent EXCEPT ![r] = value]
    /\ UNCHANGED <<profile, target, lock, raw, declined, export, copy, refs, dest, destSafe,
                   intentSafe, retention, retentionSafe>>
SyncIntent(r) ==
    /\ intentSafe' = [intentSafe EXCEPT ![r] = intent[r]]
    /\ UNCHANGED <<profile, target, lock, raw, declined, export, copy, refs, dest, destSafe,
                   intent, retention, retentionSafe>>
PutRetention(value) ==
    /\ retention' = value
    /\ UNCHANGED <<profile, target, lock, raw, declined, export, copy, refs, dest, destSafe,
                   intent, intentSafe, retentionSafe>>
SyncRetention ==
    /\ retentionSafe' = retention
    /\ UNCHANGED <<profile, target, raw, declined, export, copy, refs, dest, destSafe,
                   intent, intentSafe, retention>>

Prepare(r) == pc[r] = "prepare" /\ PutIntent(r, "PREPARED") /\ Goto(r, "prepare_sync")
Prepared(r) == pc[r] = "prepare_sync" /\ SyncIntent(r) /\ Goto(r, "rename")

\* Faulty variant: a plain rename, which replaces an empty directory.
rename_replacing(r) ==
    /\ pc[r] = "rename"
    /\ dest' = [dest EXCEPT ![target[r]] = r]
    /\ Goto(r, "publish")
    /\ UNCHANGED <<profile, target, lock, raw, declined, export, copy, refs, destSafe, intent,
                   intentSafe, retention, retentionSafe>>

\* _rename_no_replace() of the stage to the destination.
Rename(r) ==
    /\ pc[r] = "rename" /\ dest[target[r]] = "free"
    /\ dest' = [dest EXCEPT ![target[r]] = r]
    /\ Goto(r, "publish")
    /\ UNCHANGED <<profile, target, lock, raw, declined, export, copy, refs, destSafe, intent,
                   intentSafe, retention, retentionSafe>>

RenameRefused(r) ==
    /\ pc[r] = "rename" /\ dest[target[r]] # "free"
    /\ Goto(r, "abort")
    /\ UNCHANGED <<profile, target, lock, raw, declined, disk>>

\* Faulty variant: the parent directory is not synchronized.
publish_unsynced(r) ==
    /\ pc[r] = "publish"
    /\ Goto(r, IF profile = "map_only" THEN "cleanup" ELSE "record")
    /\ UNCHANGED <<profile, target, lock, raw, declined, disk>>

\* The destination's parent is synchronized; only then may raw data go.
Published(r) ==
    /\ pc[r] = "publish"
    /\ destSafe' = [destSafe EXCEPT ![target[r]] = dest[target[r]]]
    /\ Goto(r, IF profile = "map_only" THEN "cleanup" ELSE "record")
    /\ UNCHANGED <<profile, target, lock, raw, declined, export, copy, refs, dest, intent,
                   intentSafe, retention, retentionSafe>>

\* _discard_data(): one piece after the other, then retention.json.
RemovePiece(r) ==
    /\ pc[r] \in {"cleanup", "discard"} /\ raw # {}
    /\ raw' = IF "bag" \in raw THEN raw \ {"bag"} ELSE {}
    /\ UNCHANGED <<profile, pc, target, lock, declined, disk>>

Removed(r) ==
    /\ raw = {}
    /\ \/ pc[r] = "cleanup" /\ Goto(r, "cleaned")
       \/ pc[r] = "discard" /\ Goto(r, "discarded")
    /\ export' = "none"
    /\ UNCHANGED <<profile, target, lock, raw, declined, copy, refs, dest, destSafe, intent,
                   intentSafe, retention, retentionSafe>>

Cleaned(r) == pc[r] = "cleaned" /\ PutRetention("discarded") /\ Goto(r, "cleaned_sync")
CleanedSynced(r) == pc[r] = "cleaned_sync" /\ SyncRetention /\ Goto(r, "record") /\ UNCHANGED lock
Discarded(r) == pc[r] = "discarded" /\ PutRetention("discarded") /\ Goto(r, "discarded_sync")
DiscardedSynced(r) == pc[r] = "discarded_sync" /\ SyncRetention /\ End(r, "DISCARDED")

\* retention.json names the map, and the intent is COMMITTED.
Record(r) == pc[r] = "record" /\ PutRetention("saved") /\ Goto(r, "record_sync")
Recorded(r) == pc[r] = "record_sync" /\ SyncRetention /\ Goto(r, "commit") /\ UNCHANGED lock
Commit(r) == pc[r] = "commit" /\ PutIntent(r, "COMMITTED") /\ Goto(r, "commit_sync")
Committed(r) ==
    /\ pc[r] = "commit_sync" /\ End(r, "SAVED")
    /\ intentSafe' = [intentSafe EXCEPT ![r] = intent[r]]
    /\ UNCHANGED <<profile, target, raw, declined, export, copy, refs, dest, destSafe, intent,
                   retention, retentionSafe>>

-----------------------------------------------------------------------------
(* Failures.                                                                 *)

\* Faulty variant: everything behind the rename counts as clean-up.
after_failure_committed(label) ==
    CASE label \in Staging -> {"abort"}
      [] label \in Cleaning \cup {"publish"} -> {"record", "FAILED"}
      [] label \in Recording -> {"SAVED", "FAILED"}
      [] OTHER -> {"FAILED"}

\* Where an exception at a step leads.  Behind the synchronized rename an ordinary
\* exception is a clean-up error of a saved map; an interruption leaves the method.
AfterFailure(label) ==
    CASE label \in Staging -> {"abort"}
      [] label \in Cleaning -> {"record", "FAILED"}
      [] label \in Recording -> {"SAVED", "FAILED"}
      [] OTHER -> {"FAILED"}

Fails(r) ==
    /\ pc[r] \in Locked
    /\ \E label \in AfterFailure(pc[r]) :
        IF label \in Ended THEN End(r, label) ELSE Goto(r, label) /\ UNCHANGED lock
    /\ UNCHANGED <<profile, target, raw, declined, disk>>

\* The handler: the surviving stage proves that nothing was published.
Abort(r) ==
    /\ pc[r] = "abort" /\ intent[r] # "none"
    /\ PutIntent(r, "ABORTED") /\ Goto(r, "abort_sync")

AbortUnprepared(r) ==
    /\ pc[r] = "abort" /\ intent[r] = "none"
    /\ Goto(r, "abort_remove")
    /\ UNCHANGED <<profile, target, lock, raw, declined, disk>>

Aborted(r) == pc[r] = "abort_sync" /\ SyncIntent(r) /\ Goto(r, "abort_remove")

StageRemoved(r) ==
    /\ pc[r] = "abort_remove" /\ End(r, "FAILED")
    /\ copy' = [copy EXCEPT ![r] = "none"]
    /\ UNCHANGED <<profile, target, raw, declined, export, refs, dest, destSafe, intent,
                   intentSafe, retention, retentionSafe>>

\* The run is killed: the kernel releases its lock.
Killed(r) ==
    /\ pc[r] \notin Ended /\ End(r, "dead")
    /\ UNCHANGED <<profile, target, raw, declined, disk>>

\* The power fails: what was not synchronized may be as before.
Either(now, safe) == {f \in [DOMAIN now -> {now[x] : x \in DOMAIN now} \cup {safe[x] : x \in DOMAIN now}] :
                        \A x \in DOMAIN now : f[x] \in {now[x], safe[x]}}

PowerFailure ==
    /\ \E r \in Runs : pc[r] \in Locked
    /\ pc' = [r \in Runs |-> IF pc[r] \in Ended \cup {"new"} THEN pc[r] ELSE "dead"]
    /\ lock' = "free"
    /\ dest' \in Either(dest, destSafe) /\ destSafe' = dest'
    /\ intent' \in Either(intent, intentSafe) /\ intentSafe' = intent'
    /\ retention' \in {retention, retentionSafe} /\ retentionSafe' = retention'
    /\ export' \in {export, IF export = "none" THEN "none" ELSE "torn"}
    /\ UNCHANGED <<profile, target, raw, declined, copy, refs>>

\* Somebody else makes a directory of that name.
Foreign(d) ==
    /\ dest[d] = "free"
    /\ dest' = [dest EXCEPT ![d] = "other"] /\ destSafe' = [destSafe EXCEPT ![d] = "other"]
    /\ UNCHANGED <<profile, pc, target, lock, raw, declined, export, copy, refs, intent,
                   intentSafe, retention, retentionSafe>>

Step(r) ==
    \/ SessionHandle(r) \/ ChooseSave(r) \/ ChooseOther(r) \/ LockBusy(r) \/ Decline(r)
    \/ LockToSave(r) \/ ExportReused(r) \/ ExportBegins(r) \/ ExportEnds(r)
    \/ StageMade(r) \/ Copied(r) \/ StageSynced(r) \/ Prepare(r) \/ Prepared(r)
    \/ Rename(r) \/ RenameRefused(r) \/ Published(r) \/ RemovePiece(r) \/ Removed(r)
    \/ Cleaned(r) \/ CleanedSynced(r) \/ Discarded(r) \/ DiscardedSynced(r)
    \/ Record(r) \/ Recorded(r) \/ Commit(r) \/ Committed(r)
    \/ Fails(r) \/ Abort(r) \/ AbortUnprepared(r) \/ Aborted(r) \/ StageRemoved(r) \/ Killed(r)

Next == (\E r \in Runs : Step(r)) \/ PowerFailure \/ (\E d \in Dests : Foreign(d))

Spec == Init /\ [][Next]_vars

-----------------------------------------------------------------------------
(* Properties.                                                               *)

\* A map at a destination, of which every file is safe on disk.
Whole(d) == destSafe[d] \in Runs /\ copy[destSafe[d]] = "synced"

\* The raw data a published map refers to is never removed: not by a run that looked
\* before the other one saved, and not after a crash at any point of the save.
ReferencedRawSurvives == \A d \in Dests : dest[d] \in Runs => refs[dest[d]] \subseteq raw

\* The map database is in the session, or the map is at a destination and stays there
\* when the power fails, or a user declined it.
MapIsSomewhere == "slam" \in raw \/ declined \/ \E d \in Dests : Whole(d)

\* A run that reports SAVED leaves its map at the directory the user chose.
SavedIsThere == \A r \in Runs : pc[r] = "SAVED" => destSafe[target[r]] = r

\* What is at a destination is never replaced; only a publication that was not yet
\* synchronized may be undone, by a power failure.
NeverReplaced ==
    [][\A d \in Dests : dest[d] # "free" => dest'[d] \in {dest[d], destSafe[d]}]_vars

=============================================================================
